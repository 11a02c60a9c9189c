---------------------------- MODULE ReadersProofs ----------------------------
(***************************************************************************)
(* Theorems about the readers: the uptime's parts, the size of the log,    *)
(* the blocks the rows are in, what brings the process down, what a caller *)
(* is owed and the rows show, and which names is_digit takes; for every    *)
(* source, every length of it and every limit.                             *)
(***************************************************************************)
EXTENDS Readers, FiniteSetTheorems, TLAPS

-----------------------------------------------------------------------------
(* The uptime.                                                             *)

(* Whole units, and what is left.                                          *)
LEMMA Division ==
  ASSUME NEW t \in Nat, NEW unit \in Nat \ {0}
  PROVE  /\ t \div unit \in Nat
         /\ t % unit \in Nat /\ t % unit < unit
         /\ t = unit * (t \div unit) + (t % unit)
  BY SMT

LEMMA Units ==
  /\ minute_sec \in Nat \ {0} /\ hour_sec \in Nat \ {0} /\ day_sec \in Nat \ {0}
  /\ month_sec \in Nat \ {0} /\ year_sec \in Nat \ {0}
  BY SMT DEF year_sec, month_sec, day_sec, hour_sec, minute_sec

(* The parts of any number of seconds add up to it, to the minute          *)
(* (uptime.c:14-26).                                                       *)
LEMMA SetUptime ==
  ASSUME NEW t \in Nat
  PROVE  PartsAddUp(set_uptime(t))
<1> DEFINE y == t \div year_sec           in_year == t % year_sec
           mo == in_year \div month_sec   in_month == in_year % month_sec
           d == in_month \div day_sec     in_day == in_month % day_sec
           h == in_day \div hour_sec      in_hour == in_day % hour_sec
           mi == in_hour \div minute_sec  in_minute == in_hour % minute_sec
<1>1. set_uptime(t) = [ total_sec |-> t, year |-> y, month |-> mo, day |-> d,
                        hour |-> h, minute |-> mi ]
    BY DEF set_uptime
<1>2. y \in Nat /\ in_year \in Nat /\ in_year < year_sec
      /\ t = year_sec * y + in_year
    BY Division, Units
<1> HIDE DEF y, in_year
<1>3. mo \in Nat /\ in_month \in Nat /\ in_month < month_sec
      /\ in_year = month_sec * mo + in_month
    BY <1>2, Division, Units
<1> HIDE DEF mo, in_month
<1>4. d \in Nat /\ in_day \in Nat /\ in_day < day_sec
      /\ in_month = day_sec * d + in_day
    BY <1>3, Division, Units
<1> HIDE DEF d, in_day
<1>5. h \in Nat /\ in_hour \in Nat /\ in_hour < hour_sec
      /\ in_day = hour_sec * h + in_hour
    BY <1>4, Division, Units
<1> HIDE DEF h, in_hour
<1>6. mi \in Nat /\ in_minute \in Nat /\ in_minute < minute_sec
      /\ in_hour = minute_sec * mi + in_minute
    BY <1>5, Division, Units
<1> HIDE DEF mi, in_minute
<1> DEFINE parts == y * year_sec + mo * month_sec + d * day_sec + h * hour_sec
                      + mi * minute_sec
<1>7. /\ parts <= t /\ t < parts + minute_sec
      /\ mo <= 12 /\ d < 30 /\ h < 24 /\ mi < 60
      /\ mo = 12 => d < 5
    BY <1>2, <1>3, <1>4, <1>5, <1>6, SMT
    DEF year_sec, month_sec, day_sec, hour_sec, minute_sec
<1> QED
    BY <1>1, <1>7 DEF PartsAddUp

(* What a caller of read_uptime_stat is given adds up (uptime.c:29-42).    *)
THEOREM UptimeIsWhole == Spec => []UptimeAddsUp
<1>1. Init => UptimeAddsUp
    BY SetUptime DEF Init, UptimeAddsUp
<1>2. UptimeAddsUp /\ [Next]_vars => UptimeAddsUp'
  <2> SUFFICES ASSUME UptimeAddsUp, [Next]_vars
               PROVE  UptimeAddsUp'
      OBVIOUS
  <2>1. CASE UNCHANGED up
      BY <2>1 DEF UptimeAddsUp, PartsAddUp
  <2>2. CASE read_uptime_stat
      BY <2>2, SetUptime, SourcesAssumption DEF read_uptime_stat, UptimeAddsUp
  <2>3. UNCHANGED up \/ read_uptime_stat
      BY DEF vars, kept, Next, call, open, open_fails, close, return,
         get_num_of_cpu, Skip, plain_row, fs_row, ip_row, ip_unnamed,
         read_cpu_stat, io_row, io_unknown, proc_ended, proc_row, route,
         Next_entry, Same_entry
  <2> QED
      BY <2>1, <2>2, <2>3
<1> QED
    BY <1>1, <1>2, PTL DEF Spec

-----------------------------------------------------------------------------
(* The log.                                                                *)

LogTypeOK == G_LOG_CONFIG \in Config /\ log_size \in Nat

(* A step logs one message, or none.                                       *)
LEMMA LogSteps ==
  ASSUME [Next]_vars
  PROVE  \/ UNCHANGED << G_LOG_CONFIG, log_size >>
         \/ _print_log(LOG_ERROR) \/ _print_log(LOG_FATAL)
  BY DEF vars, Next, call, open, open_fails, close, return, get_num_of_cpu,
     Skip, plain_row, fs_row, ip_row, ip_unnamed, read_cpu_stat, io_row,
     io_unknown, proc_ended, proc_row, route, read_uptime_stat, quiet, Logged

(* The log file stays below its limit, or exceeds it by less than one      *)
(* message, however many calls are made (log.c:24-32).                     *)
THEOREM LogStaysBounded == Spec => []LogIsBounded
<1> DEFINE Inv == LogTypeOK /\ LogIsBounded
<1>1. Init => Inv
  <2> SUFFICES ASSUME Init PROVE Inv
      OBVIOUS
  <2>1. log_size = 0 /\ G_LOG_CONFIG \in Config
      BY DEF Init, LogInit
  <2>2. G_LOG_CONFIG.max_byte \in Nat /\ MaxMessage \in Nat \ {0}
      BY <2>1, LogAssumption DEF Config
  <2> QED
      BY <2>1, <2>2 DEF LogTypeOK, LogIsBounded
<1>2. Inv /\ [Next]_vars => Inv'
  <2> SUFFICES ASSUME Inv, [Next]_vars PROVE Inv'
      OBVIOUS
  <2>1. CASE UNCHANGED << G_LOG_CONFIG, log_size >>
      BY <2>1 DEF LogTypeOK, LogIsBounded
  <2>2. ASSUME NEW level, _print_log(level) PROVE Inv'
    <3>1. /\ G_LOG_CONFIG' = G_LOG_CONFIG /\ G_LOG_CONFIG.max_byte \in Nat
          /\ MaxMessage \in Nat \ {0}
        BY <2>2, LogAssumption DEF _print_log, LogTypeOK, Config
    <3>2. CASE log_size' = log_size
        BY <3>1, <3>2 DEF LogTypeOK, LogIsBounded
    <3>3. CASE \E bytes \in 1 .. MaxMessage : log_size' = open_log_file + bytes
        BY <3>1, <3>3 DEF LogTypeOK, LogIsBounded, open_log_file
    <3> QED
        BY <2>2, <3>2, <3>3 DEF _print_log
  <2> QED
      BY <2>1, <2>2, LogSteps
<1> QED
    BY <1>1, <1>2, PTL DEF Spec

-----------------------------------------------------------------------------
(* The rows.                                                               *)

Unnamed(j) == source[j].family = "inet" /\ ~source[j].usable

(* Why ip has a node in hand between two addresses.                        *)
InHand ==
  (reader = "get_ip_addr" /\ node # NULL) =>
    \E i \in 1 .. k - 1 :
      Unnamed(i) /\ \A j \in i + 1 .. k - 1 : source[j].family # "inet"

(* io and proc have a node in hand while they fill it in.                  *)
Filling ==
  pc = "node" =>
    /\ reader \in {"read_io_stat", "get_all_proc"}
    /\ node \in heap /\ node \notin Range(rows)

WalkTypeOK ==
  /\ k \in Nat \ {0}
  /\ rows \in Seq(Block)
  /\ heap \subseteq Block
  /\ node \in Block \union {NULL}
  /\ Len(source) \in Nat /\ DOMAIN source = 1 .. Len(source)

WalkInv ==
  WalkTypeOK /\ InHand /\ Filling /\ RowsAreAllocated /\ CrashHasCause

LEMMA NoRows == IsInjective(<< >>) /\ Range(<< >>) = {}
  BY DEF IsInjective, Range

(* A row added in a block that none of the others is in.                   *)
LEMMA AddRow ==
  ASSUME NEW s \in Seq(Block), NEW h, NEW b \in Block, b \notin Range(s),
         IsInjective(s), Range(s) \subseteq h
  PROVE  /\ Append(s, b) \in Seq(Block)
         /\ IsInjective(Append(s, b))
         /\ Range(Append(s, b)) \subseteq h \union {b}
<1> DEFINE t == Append(s, b)
<1>1. /\ t \in Seq(Block) /\ Len(s) \in Nat
      /\ DOMAIN s = 1 .. Len(s) /\ DOMAIN t = 1 .. Len(s) + 1
      /\ t[Len(s) + 1] = b
      /\ \A j \in 1 .. Len(s) : t[j] = s[j]
    OBVIOUS
<1>2. \A j \in 1 .. Len(s) : s[j] \in h /\ s[j] # b
    BY <1>1 DEF Range
<1>3. \A j \in 1 .. Len(s) + 1 : j \in 1 .. Len(s) \/ j = Len(s) + 1
    BY <1>1
<1> HIDE DEF t
<1>4. IsInjective(t)
    BY <1>1, <1>2, <1>3 DEF IsInjective
<1>5. Range(t) \subseteq h \union {b}
    BY <1>1, <1>2, <1>3 DEF Range
<1> QED
    BY <1>1, <1>4, <1>5 DEF t

(* Steps that leave the list, its blocks and the walk as they are.         *)
LEMMA StillSteps ==
  ASSUME WalkInv, UNCHANGED << k, source, reader, memory >>,
         pc' \notin {"node", "crash"}
  PROVE  WalkInv'
  BY DEF WalkInv, WalkTypeOK, InHand, Unnamed, Filling, RowsAreAllocated, RowsOK, Reused,
     CrashHasCause, memory

(* A call begins or returns: no list, no node.                             *)
LEMMA FreshSteps ==
  ASSUME k' = 1, node' = NULL, rows' = << >>, heap' = {},
         pc' \notin {"node", "crash"},
         Len(source') \in Nat, DOMAIN source' = 1 .. Len(source')
  PROVE  WalkInv'
<1>1. WalkTypeOK'
    BY DEF WalkTypeOK
<1>2. RowsAreAllocated'
    BY NoRows DEF RowsAreAllocated, RowsOK
<1> QED
    BY <1>1, <1>2 DEF WalkInv, InHand, Filling, CrashHasCause

(* Rows of the readers that have no node in hand between two entries.      *)
LEMMA RowSteps ==
  ASSUME WalkInv, NEW b \in Block, b \notin Range(rows), reader # "get_ip_addr",
         rows' = Append(rows, b), heap' = heap \union {b}, node' = NULL,
         k' = k + 1,
         UNCHANGED << source, reader >>, pc' = "entries"
  PROVE  WalkInv'
<1>1. RowsOK
    BY DEF WalkInv, RowsAreAllocated, Reused, RowsOK
<1>2. RowsOK' /\ rows' \in Seq(Block)
    BY <1>1, AddRow DEF RowsOK, WalkInv, WalkTypeOK
<1>3. WalkTypeOK'
    BY <1>2 DEF WalkInv, WalkTypeOK
<1> QED
    BY <1>2, <1>3 DEF WalkInv, RowsAreAllocated, RowsOK, InHand, Filling,
       CrashHasCause

LEMMA PlainRows ==
  ASSUME WalkInv, plain_row \/ fs_row
  PROVE  WalkInv'
<1>1. PICK b \in Block \ heap :
        heap' = heap \union {b} /\ rows' = Append(rows, b) /\ node' = NULL
    BY DEF plain_row, fs_row, Row
<1>2. /\ k' = k + 1 /\ UNCHANGED << source, reader, pc >>
      /\ pc = "entries"
      /\ reader \in {"get_network", "get_dns", "get_login_user", "read_fs_stat"}
    BY DEF plain_row, fs_row, Plain, AtEntry, Next_entry
<1>3. b \notin Range(rows)
    BY <1>1, <1>2 DEF WalkInv, RowsAreAllocated, RowsOK, Reused
<1> QED
    BY <1>1, <1>2, <1>3, RowSteps

(* The step that ends a row of io's or proc's.                             *)
LEMMA LinkedRows ==
  ASSUME WalkInv, pc = "node", NEW what, Link(what), Next_entry, pc' = "entries"
  PROVE  WalkInv'
<1>1. /\ reader \in {"read_io_stat", "get_all_proc"}
      /\ node \in heap /\ node \in Block /\ node \notin Range(rows)
      /\ heap \union {node} = heap
    BY DEF WalkInv, Filling, WalkTypeOK
<1> QED
    BY <1>1, RowSteps DEF Link, Next_entry

(* io's and proc's nodes.                                                  *)
LEMMA NewNodes ==
  ASSUME WalkInv, read_cpu_stat
  PROVE  WalkInv'
<1>1. PICK b \in Block \ heap : node' = b /\ heap' = heap \union {b}
    BY DEF read_cpu_stat
<1>2. /\ reader \in {"read_io_stat", "get_all_proc"}
      /\ pc' \in {"node", "exit"}
      /\ UNCHANGED << k, source, reader, rows >>
    BY DEF read_cpu_stat, AtEntry, Same_entry, Logged
<1>3. IsInjective(rows) /\ Range(rows) \subseteq heap
    BY <1>2 DEF WalkInv, RowsAreAllocated, RowsOK, Reused
<1> QED
    BY <1>1, <1>2, <1>3 DEF WalkInv, WalkTypeOK, InHand, Filling,
       RowsAreAllocated, RowsOK, CrashHasCause

(* A node in hand when an address comes was freed for an address without a *)
(* name.                                                                   *)
LEMMA HandIsReused ==
  ASSUME WalkInv, AtEntry({"get_ip_addr"}), Entry.family = "inet", node # NULL
  PROVE  Reused
  BY DEF WalkInv, WalkTypeOK, AtEntry, Entry, InHand, Unnamed, Reused

LEMMA IpRows ==
  ASSUME WalkInv, ip_row
  PROVE  WalkInv'
<1>1. /\ AtEntry({"get_ip_addr"}) /\ Entry.family = "inet"
      /\ reader = "get_ip_addr" /\ pc = "entries"
      /\ k' = k + 1 /\ UNCHANGED << source, reader, pc >> /\ node' = NULL
    BY DEF ip_row, AtEntry, Takes, Next_entry
<1>2. PICK b \in Nodes : heap' = Allocated(b) /\ rows' = Append(rows, b)
    BY DEF ip_row
<1>3. rows' \in Seq(Block) /\ heap' \subseteq Block
    BY <1>2 DEF WalkInv, WalkTypeOK, Nodes, Allocated
<1>4. WalkTypeOK'
    BY <1>1, <1>3 DEF WalkInv, WalkTypeOK
<1>5. Reused' = Reused
    BY <1>1 DEF Reused
<1>6. RowsAreAllocated'
  <2>1. CASE node = NULL /\ ~Reused
    <3>1. RowsOK /\ b \in Block \ heap /\ heap' = heap \union {b}
        BY <2>1, <1>2 DEF WalkInv, RowsAreAllocated, RowsOK, Nodes, Allocated
    <3>2. rows \in Seq(Block) /\ b \notin Range(rows)
        BY <3>1 DEF WalkInv, WalkTypeOK, RowsOK
    <3>3. RowsOK'
        BY <3>1, <3>2, <1>2, AddRow DEF RowsOK
    <3> QED
        BY <3>3 DEF RowsOK, RowsAreAllocated
  <2> QED
      BY <2>1, <1>1, <1>5, HandIsReused DEF RowsAreAllocated, RowsOK
<1> QED
    BY <1>1, <1>4, <1>6 DEF WalkInv, InHand, Filling, CrashHasCause

LEMMA IpUnnamed ==
  ASSUME WalkInv, ip_unnamed
  PROVE  WalkInv'
<1>1. /\ AtEntry({"get_ip_addr"}) /\ Entry.family = "inet"
      /\ reader = "get_ip_addr" /\ pc = "entries" /\ Unnamed(k)
      /\ k' = k + 1 /\ UNCHANGED << source, reader, rows >>
    BY DEF ip_unnamed, AtEntry, Takes, Next_entry, Entry, Unnamed
<1>2. PICK b \in Nodes : heap' = heap \ {b} /\ node' = b
    BY DEF ip_unnamed
<1>3. pc' = IF node = NULL \/ node \in heap THEN pc ELSE "crash"
    BY DEF ip_unnamed
<1>4. WalkTypeOK'
    BY <1>1, <1>2 DEF WalkInv, WalkTypeOK, Nodes
<1>5. RowsAreAllocated'
  <2>1. CASE node = NULL
    <3>1. heap' = heap
        BY <2>1, <1>2 DEF Nodes
    <3> QED
        BY <3>1, <1>1 DEF WalkInv, RowsAreAllocated, RowsOK, Reused
  <2> QED
      BY <2>1, <1>1, HandIsReused DEF RowsAreAllocated, RowsOK, Reused
<1>6. InHand'
  <2>1. /\ k \in 1 .. k' - 1 /\ k + 1 .. k' - 1 = {}
        /\ source'[k].family = "inet" /\ ~source'[k].usable
      BY <1>1 DEF WalkInv, WalkTypeOK, Unnamed
  <2> QED
      BY <2>1 DEF InHand, Unnamed
<1>7. CrashHasCause'
  <2>1. CASE node = NULL
      BY <2>1, <1>1, <1>3 DEF CrashHasCause
  <2>2. CASE node # NULL
    <3>1. PICK i \in 1 .. k - 1 :
            Unnamed(i) /\ \A j \in i + 1 .. k - 1 : source[j].family # "inet"
        BY <2>2, <1>1 DEF WalkInv, InHand
    <3>2. k' - 1 = k /\ k' - 2 = k - 1
        BY <1>1 DEF WalkInv, WalkTypeOK
    <3> QED
        BY <3>1, <3>2, <1>1 DEF CrashHasCause, Unnamed
  <2> QED
      BY <2>1, <2>2
<1> QED
    BY <1>1, <1>3, <1>4, <1>5, <1>6, <1>7 DEF WalkInv, Filling

(* Entries that make no row.                                               *)
LEMMA Skips ==
  ASSUME WalkInv, Skip \/ route
  PROVE  WalkInv'
<1>1. /\ pc = "entries" /\ pc' = "entries"
      /\ UNCHANGED << source, reader, memory >>
      /\ k' \in Nat \ {0}
      /\ reader = "get_ip_addr" => k' = k + 1 /\ source[k].family # "inet"
  <2>1. CASE Skip
    <3>1. reader = "get_ip_addr" => source[k].family # "inet"
        BY <2>1 DEF Skip, Takes, Entry
    <3> QED
        BY <2>1, <3>1 DEF Skip, AtEntry, Next_entry, WalkInv, WalkTypeOK
  <2>2. CASE route
      BY <2>2 DEF route, AtEntry, WalkInv, WalkTypeOK
  <2> QED
      BY <2>1, <2>2
<1>2. InHand'
  <2> SUFFICES ASSUME reader = "get_ip_addr", node # NULL
               PROVE  \E i \in 1 .. k' - 1 :
                        /\ Unnamed(i)
                        /\ \A j \in i + 1 .. k' - 1 : source[j].family # "inet"
      BY <1>1 DEF InHand, Unnamed, memory
  <2>1. PICK i \in 1 .. k - 1 :
          Unnamed(i) /\ \A j \in i + 1 .. k - 1 : source[j].family # "inet"
      BY DEF WalkInv, InHand
  <2>2. \A j \in i + 1 .. k' - 1 : j \in i + 1 .. k - 1 \/ j = k
      BY <1>1 DEF WalkInv, WalkTypeOK
  <2> QED
      BY <2>1, <2>2, <1>1 DEF WalkInv, WalkTypeOK
<1> QED
    BY <1>1, <1>2 DEF WalkInv, WalkTypeOK, Filling, RowsAreAllocated, RowsOK, Reused,
       CrashHasCause, memory

LEMMA WalkStep ==
  ASSUME WalkInv, [Next]_vars
  PROVE  WalkInv'
<1>1. CASE UNCHANGED vars
    BY <1>1 DEF vars, memory, WalkInv, WalkTypeOK, InHand, Unnamed, Filling,
       RowsAreAllocated, RowsOK, Reused, CrashHasCause
<1>2. CASE call
  <2>1. source' \in Seq(EntryOf(reader'))
      BY <1>2, SourcesAssumption DEF call
  <2> QED
      BY <2>1, <1>2, FreshSteps DEF call
<1>3. CASE return
    BY <1>3, FreshSteps DEF return
<1>4. CASE open \/ open_fails \/ close \/ get_num_of_cpu \/ io_unknown
             \/ read_uptime_stat
  <2>1. UNCHANGED << k, source, reader, memory >> /\ pc' \notin {"node", "crash"}
      BY <1>4 DEF open, open_fails, close, get_num_of_cpu, io_unknown,
         read_uptime_stat, Logged, Same_entry
  <2> QED
      BY <2>1, StillSteps
<1>5. CASE Skip \/ route
    BY <1>5, Skips
<1>6. CASE plain_row \/ fs_row
    BY <1>6, PlainRows
<1>7. CASE ip_row
    BY <1>7, IpRows
<1>8. CASE ip_unnamed
    BY <1>8, IpUnnamed
<1>9. CASE read_cpu_stat
    BY <1>9, NewNodes
<1>10. CASE io_row
    BY <1>10, LinkedRows DEF io_row
<1>11. CASE proc_ended
  <2>1. CASE pc' = "entries"
      BY <2>1, <1>11, LinkedRows DEF proc_ended
  <2>2. CASE pc' # "entries"
    <3>1. pc' = "exit" /\ UNCHANGED memory /\ Same_entry
        BY <2>2, <1>11 DEF proc_ended, Logged
    <3> QED
        BY <3>1, StillSteps DEF Same_entry
  <2> QED
      BY <2>1, <2>2
<1>12. CASE proc_row
  <2>1. CASE Entry.account
      BY <2>1, <1>12, LinkedRows DEF proc_row
  <2>2. CASE ~Entry.account
      BY <2>2, <1>12 DEF proc_row, Same_entry, memory, Entry, WalkInv, WalkTypeOK,
         InHand, Unnamed, Filling, RowsAreAllocated, RowsOK, Reused, CrashHasCause
  <2> QED
      BY <2>1, <2>2
<1> QED
    BY <1>1, <1>2, <1>3, <1>4, <1>5, <1>6, <1>7, <1>8, <1>9, <1>10, <1>11, <1>12
    DEF Next

LEMMA WalkInvariant == Spec => []WalkInv
<1>1. Init => WalkInv
  <2> SUFFICES ASSUME Init PROVE WalkInv
      OBVIOUS
  <2>1. RowsAreAllocated
      BY NoRows DEF Init, RowsAreAllocated, RowsOK
  <2> QED
      BY <2>1 DEF Init, WalkInv, WalkTypeOK, InHand, Filling, CrashHasCause
<1>2. WalkInv /\ [Next]_vars => WalkInv'
    BY WalkStep
<1> QED
    BY <1>1, <1>2, PTL DEF Spec

(* No row is in a freed block or in another's, for sources of any length,  *)
(* unless an address without a name is followed by another (ip.c:51-54).   *)
THEOREM RowsStayAllocated == Spec => []RowsAreAllocated
<1>1. WalkInv => RowsAreAllocated
    BY DEF WalkInv
<1> QED
    BY <1>1, WalkInvariant, PTL

(* A reader brings the process down for no other reason than a node freed  *)
(* twice or a user without a passwd entry (ip.c:51-54, proc.c:121-125).    *)
THEOREM CrashesHaveCauses == Spec => []CrashHasCause
<1>1. WalkInv => CrashHasCause
    BY DEF WalkInv
<1> QED
    BY <1>1, WalkInvariant, PTL

-----------------------------------------------------------------------------
(* What the readers owe the program.                                       *)

(* What holds at each place of a call: the rows are no more than the       *)
(* entries passed, every allocated block is one of a row's or the node in  *)
(* hand, and one descriptor is held while the source is open.              *)
KeepInv ==
  /\ fds \in Int /\ before.fds \in Int
  /\ Len(rows) < k /\ k <= Len(source) + 1 /\ Len(source) <= MaxRows
  /\ heap \subseteq Range(rows) \union {node}
  /\ node \in heap => \/ pc \in {"node", "exit", "crash"}
                      \/ (pc = "done" /\ reader = "read_io_stat")
  /\ pc = "idle" => reader = "none"
  /\ pc = "open" => fds = before.fds
  /\ pc \in {"entries", "node"} => fds = before.fds + 1
  /\ pc = "node" => k <= Len(source)
  /\ pc = "done" => fds - before.fds \in IF reader = "read_io_stat" THEN {0, 1} ELSE {0}
  /\ ExitHasCause
  /\ pc = "crash" => reader \in {"get_ip_addr", "get_all_proc"}

LEMMA NullIsNoBlock == NULL \notin Block
  BY BoundsAssumption DEF Block, NULL

LEMMA AppendRange ==
  ASSUME NEW s \in Seq(Block), NEW b \in Block
  PROVE  Range(Append(s, b)) = Range(s) \union {b}
<1> DEFINE t == Append(s, b)
<1>1. /\ Len(s) \in Nat /\ DOMAIN s = 1 .. Len(s) /\ DOMAIN t = 1 .. Len(s) + 1
      /\ t[Len(s) + 1] = b
      /\ \A j \in 1 .. Len(s) : t[j] = s[j]
    OBVIOUS
<1>2. \A j \in 1 .. Len(s) + 1 : j \in 1 .. Len(s) \/ j = Len(s) + 1
    BY <1>1
<1>3. 1 .. Len(s) \subseteq 1 .. Len(s) + 1 /\ Len(s) + 1 \in 1 .. Len(s) + 1
    BY <1>1
<1> HIDE DEF t
<1> QED
    BY <1>1, <1>2, <1>3 DEF Range, t

(* A message is logged, or the log file that it was for is not to be had.  *)
LEMMA LoggedEnds ==
  ASSUME NEW level, NEW next, Logged(level, next)
  PROVE  /\ pc' \in {next, "exit"}
         /\ G_LOG_CONFIG' = G_LOG_CONFIG
         /\ pc' = "exit" => \/ next = "exit"
                            \/ G_LOG_CONFIG.output_to = "file" /\ ~Filtered(level)
         /\ pc' = "exit" => Filtered(level)' = Filtered(level)
BY DEF Logged, _print_log, ToFile, Filtered

(* A row is linked in: its block is a new one, or the node in hand.        *)
LEMMA RowKeeps ==
  ASSUME WalkInv, KeepInv, k <= Len(source), k' = k + 1,
         UNCHANGED << source, reader, fds, before >>,
         NEW b \in Block, rows' = Append(rows, b), node' = NULL,
         pc \in {"entries", "node"}, pc' = "entries",
         heap' \subseteq heap \union {b}, node \in heap => node = b,
         heap' \subseteq Block
  PROVE  KeepInv'
<1>1. /\ k \in Nat /\ Len(source) \in Nat /\ rows \in Seq(Block)
    BY DEF WalkInv, WalkTypeOK
<1>2. Len(rows') = Len(rows) + 1 /\ Len(rows) \in Nat
    BY <1>1
<1>3. NULL \notin heap'
    BY NullIsNoBlock
<1>4. heap' \subseteq Range(rows') \union {node'}
    BY <1>1, AppendRange DEF KeepInv
<1> QED
    BY <1>1, <1>2, <1>3, <1>4 DEF KeepInv, ExitHasCause

(* Steps that leave the list and its blocks as they are.                   *)
LEMMA StillKeeps ==
  ASSUME WalkInv, KeepInv, UNCHANGED << source, reader, memory, before >>,
         k' \in Nat, k <= k', k' <= Len(source) + 1, fds' \in Int,
         pc' \in {"entries", "done", "exit"},
         node \in heap => \/ pc' = "exit"
                         \/ (pc' = "done" /\ reader = "read_io_stat"),
         pc' = "entries" => fds' = before.fds + 1,
         pc' = "done" => fds' - before.fds \in
                           IF reader = "read_io_stat" THEN {0, 1} ELSE {0},
         ExitHasCause'
  PROVE  KeepInv'
<1>1. /\ k \in Nat /\ Len(rows) \in Nat
    BY DEF WalkInv, WalkTypeOK
<1> QED
    BY <1>1 DEF KeepInv, memory

(* The call goes no further with the entry in hand.                        *)
LEMMA StopKeeps ==
  ASSUME WalkInv, KeepInv, pc = "node",
         UNCHANGED << k, source, reader, memory, before, fds >>,
         pc' \in {"done", "exit", "crash"},
         pc' = "done" => reader = "read_io_stat",
         pc' = "crash" => reader = "get_all_proc",
         ExitHasCause'
  PROVE  KeepInv'
<1>1. /\ k \in Nat /\ Len(source) \in Nat
    BY DEF WalkInv, WalkTypeOK
<1>2. /\ k <= k' /\ k' <= Len(source) + 1 /\ k' \in Nat /\ k' = k
      /\ fds' \in Int /\ fds' - before.fds = 1
    BY <1>1 DEF KeepInv
<1> QED
    BY <1>1, <1>2 DEF KeepInv, memory

LEMMA KeepStep ==
  ASSUME WalkInv, WalkInv', KeepInv, [Next]_vars
  PROVE  KeepInv'
<1>1. /\ k \in Nat \ {0} /\ Len(source) \in Nat /\ rows \in Seq(Block)
      /\ heap \subseteq Block /\ heap' \subseteq Block /\ NULL \notin heap
      /\ fds \in Int /\ fds + 1 \in Int /\ fds - 1 \in Int
    BY NullIsNoBlock DEF WalkInv, WalkTypeOK, KeepInv
<1>0. ASSUME pc' # "exit" PROVE ExitHasCause'
    BY <1>0 DEF ExitHasCause
<1>2. CASE UNCHANGED vars
    BY <1>2 DEF vars, kept, memory, KeepInv, ExitHasCause, Filtered
<1>3. CASE call
  <2>1. Len(source') <= MaxRows /\ Len(source') \in Nat
    <3>1. source' \in Seq(EntryOf(reader')) /\ Len(source') <= MaxRows
        BY <1>3, SourcesAssumption DEF call
    <3> QED
        BY <3>1
  <2> QED
      BY <1>0, <1>1, <1>3, <2>1 DEF call, KeepInv
<1>4. CASE return
    BY <1>0, <1>1, <1>4, BoundsAssumption DEF return, KeepInv
<1>5. CASE open
    BY <1>0, <1>1, <1>5, StillKeeps DEF open, KeepInv
<1>6. CASE open_fails
  <2>1. pc = "open" /\ fds = before.fds /\ UNCHANGED << reader, fds, before >>
      BY <1>6 DEF open_fails, KeepInv
  <2>2. pc' \in {"done", "exit"} /\ ExitHasCause'
    <3>1. CASE Logged(LOG_ERROR, "done") /\
                 reader \in {"read_fs_stat", "read_io_stat", "get_gateway",
                             "read_uptime_stat"}
        BY <2>1, <3>1, LoggedEnds DEF ExitHasCause
    <3>2. CASE pc' = "done"
        BY <1>0, <3>2
    <3> QED
        BY <1>6, <3>1, <3>2 DEF open_fails
  <2>3. /\ UNCHANGED << source, reader, memory, before >>
        /\ k' = k /\ k' \in Nat /\ k <= k' /\ k' <= Len(source) + 1 /\ fds' \in Int
        /\ fds' - before.fds = 0 /\ node \notin heap
      BY <1>1, <1>6, <2>1 DEF open_fails, KeepInv
  <2> QED
      BY <2>2, <2>3, StillKeeps
<1>7. CASE get_num_of_cpu
  <2>1. /\ pc = "open" /\ fds = before.fds /\ UNCHANGED << reader, fds, before >>
        /\ pc' = "exit" /\ reader = "read_io_stat"
      BY <1>7, LoggedEnds DEF get_num_of_cpu, KeepInv
  <2>2. ExitHasCause'
      BY <2>1 DEF ExitHasCause
  <2> QED
      BY <1>1, <1>7, <2>1, <2>2, StillKeeps DEF get_num_of_cpu, KeepInv
<1>8. CASE close
    BY <1>0, <1>1, <1>8, StillKeeps DEF close, kept, Closes, KeepInv
<1>9. CASE Skip
    BY <1>0, <1>1, <1>9, StillKeeps DEF Skip, AtEntry, Next_entry, KeepInv
<1>10. CASE route
    BY <1>0, <1>1, <1>10, StillKeeps DEF route, AtEntry, KeepInv
<1>11. CASE read_uptime_stat
    BY <1>0, <1>1, <1>11, StillKeeps DEF read_uptime_stat, KeepInv
<1>12. CASE plain_row \/ fs_row
  <2>1. PICK b \in Block \ heap :
          heap' = heap \union {b} /\ rows' = Append(rows, b) /\ node' = NULL
      BY <1>12 DEF plain_row, fs_row, Row
  <2>2. /\ pc = "entries" /\ pc' = "entries" /\ k <= Len(source) /\ k' = k + 1
        /\ UNCHANGED << source, reader, fds, before >>
      BY <1>12 DEF plain_row, fs_row, Plain, AtEntry, Next_entry
  <2>3. node \notin heap
      BY <2>2 DEF KeepInv
  <2> QED
      BY <1>1, <2>1, <2>2, <2>3, RowKeeps
<1>13. CASE ip_row
  <2>1. PICK b \in Nodes : heap' = Allocated(b) /\ rows' = Append(rows, b)
      BY <1>13 DEF ip_row
  <2>2. /\ pc = "entries" /\ pc' = "entries" /\ k <= Len(source) /\ k' = k + 1
        /\ UNCHANGED << source, reader, fds, before >> /\ node' = NULL
      BY <1>13 DEF ip_row, AtEntry, Next_entry
  <2>3. b \in Block /\ heap' \subseteq heap \union {b}
      BY <2>1 DEF Nodes, Allocated, WalkInv, WalkTypeOK
  <2>4. node \notin heap
      BY <2>2 DEF KeepInv
  <2> QED
      BY <1>1, <2>1, <2>2, <2>3, <2>4, RowKeeps
<1>14. CASE ip_unnamed
  <2>1. PICK b \in Nodes : heap' = heap \ {b} /\ node' = b
      BY <1>14 DEF ip_unnamed
  <2>2. /\ pc = "entries" /\ pc' \in {"entries", "crash"} /\ reader = "get_ip_addr"
        /\ k <= Len(source) /\ k' = k + 1
        /\ UNCHANGED << source, reader, fds, before, rows >>
      BY <1>14 DEF ip_unnamed, AtEntry, Next_entry
  <2>3. heap' \subseteq Range(rows) /\ node' \notin heap'
      BY <2>1, <2>2 DEF KeepInv
  <2>4. Range(rows') = Range(rows)
      BY <2>2
  <2> QED
      BY <1>0, <1>1, <2>2, <2>3, <2>4 DEF KeepInv
<1>15. CASE read_cpu_stat
  <2>1. PICK b \in Block \ heap : node' = b /\ heap' = heap \union {b}
      BY <1>15 DEF read_cpu_stat
  <2>2. /\ pc = "entries" /\ k <= Len(source)
        /\ reader \in {"read_io_stat", "get_all_proc"}
        /\ UNCHANGED << k, source, reader, fds, before, rows >>
      BY <1>15 DEF read_cpu_stat, AtEntry, Same_entry
  <2>3. pc' \in {"node", "exit"} /\ ExitHasCause'
    <3>1. CASE fds < FdLimit
        BY <1>0, <1>15, <3>1 DEF read_cpu_stat
    <3>2. CASE ~(fds < FdLimit)
      <4>1. Logged(LOG_ERROR, "node")
          BY <1>15, <3>2 DEF read_cpu_stat
      <4>2. fds >= FdLimit
          BY <1>1, <3>2, BoundsAssumption
      <4> QED
          BY <4>1, <4>2, <2>2, LoggedEnds DEF ExitHasCause
    <3> QED
        BY <3>1, <3>2
  <2>4. heap' \subseteq Range(rows) \union {node'}
      BY <2>1, <2>2 DEF KeepInv
  <2>5. Range(rows') = Range(rows)
      BY <2>2
  <2> QED
      BY <1>1, <2>2, <2>3, <2>4, <2>5 DEF KeepInv
<1>16. ASSUME pc = "node", pc' = "entries", NEW what, Link(what), Next_entry,
              UNCHANGED fds
       PROVE  KeepInv'
  <2>1. node \in heap /\ node \in Block /\ k <= Len(source)
      BY <1>1, <1>16 DEF WalkInv, Filling, KeepInv
  <2>2. /\ rows' = Append(rows, node) /\ node' = NULL /\ heap' = heap /\ k' = k + 1
        /\ UNCHANGED << source, reader, fds, before >>
      BY <1>16 DEF Link, Next_entry
  <2> QED
      BY <1>1, <1>16, <2>1, <2>2, RowKeeps
<1>17. CASE io_row
    BY <1>16, <1>17 DEF io_row
<1>18. CASE io_unknown
  <2>1. /\ pc = "node" /\ reader = "read_io_stat" /\ ~source[k].parses
        /\ Logged(LOG_FATAL, "done")
        /\ UNCHANGED << k, source, reader, memory, before, fds >>
      BY <1>18 DEF io_unknown, Same_entry, Entry
  <2>2. pc' \in {"done", "exit"} /\ ExitHasCause'
      BY <2>1, LoggedEnds DEF ExitHasCause
  <2> QED
      BY <2>1, <2>2, StopKeeps
<1>19. CASE proc_ended
  <2>1. CASE pc' = "entries"
      BY <1>16, <1>19, <2>1 DEF proc_ended
  <2>2. CASE pc' # "entries"
    <3>1. /\ pc = "node" /\ reader = "get_all_proc"
          /\ ~source[k].lives \/ fds = FdLimit
          /\ Logged(LOG_ERROR, "entries")
          /\ UNCHANGED << k, source, reader, memory, before, fds >>
        BY <1>19, <2>2 DEF proc_ended, Same_entry, Entry
    <3>2. pc' = "exit" /\ G_LOG_CONFIG'.output_to = "file" /\ ~Filtered(LOG_ERROR)'
        BY <2>2, <3>1, LoggedEnds
    <3>3. fds = FdLimit => fds >= FdLimit
        BY <1>1
    <3>4. ExitHasCause'
        BY <3>1, <3>2, <3>3 DEF ExitHasCause
    <3> QED
        BY <3>1, <3>2, <3>4, StopKeeps
  <2> QED
      BY <2>1, <2>2
<1>20. CASE proc_row
  <2>1. CASE Entry.account
      BY <1>16, <1>20, <2>1 DEF proc_row
  <2>2. CASE ~Entry.account
    <3>1. /\ pc = "node" /\ pc' = "crash" /\ reader = "get_all_proc"
          /\ UNCHANGED << k, source, reader, memory, before, fds >>
        BY <1>20, <2>2 DEF proc_row, Same_entry
    <3> QED
        BY <1>0, <3>1, StopKeeps
  <2> QED
      BY <2>1, <2>2
<1> QED
    BY <1>2, <1>3, <1>4, <1>5, <1>6, <1>7, <1>8, <1>9, <1>10, <1>11, <1>12, <1>13,
       <1>14, <1>15, <1>17, <1>18, <1>19, <1>20 DEF Next

LEMMA KeepInvariant == Spec => []KeepInv
<1>1. Init => KeepInv
  <2> SUFFICES ASSUME Init PROVE KeepInv
      OBVIOUS
  <2>1. /\ fds = 0 /\ before.fds = 0 /\ k = 1 /\ source = << >> /\ rows = << >>
        /\ heap = {} /\ pc = "idle" /\ reader = "none"
      BY DEF Init
  <2> QED
      BY <2>1, BoundsAssumption DEF KeepInv, ExitHasCause
<1>2. WalkInv /\ WalkInv' /\ KeepInv /\ [Next]_vars => KeepInv'
    BY KeepStep
<1> QED
    BY <1>1, <1>2, WalkInvariant, PTL DEF Spec

(* A reader delivers, loses, relinks and keeps open no more than           *)
(* ReportModules says, and crashes and ends the process only where that    *)
(* says so, for every source: what Reporter's registry describes is what   *)
(* io.c, ip.c, proc.c and the others do (io.c:36-65, ip.c:28-64,           *)
(* proc.c:31-34 and 121-125, log.c:12-13).                                 *)
THEOREM PromisesKept == Spec => []KeepsPromise
<1>1. WalkInv /\ KeepInv => KeepsPromise
  <2> SUFFICES ASSUME WalkInv, KeepInv
               PROVE  KeepsPromise
      OBVIOUS
  <2>1. Len(rows) \in Nat /\ k \in Nat /\ Len(source) \in Nat
      BY DEF WalkInv, WalkTypeOK
  <2>2. ASSUME Returned
        PROVE  /\ Len(rows) \in Promised.rows
               /\ Cardinality(heap \ Range(rows)) \in Promised.drops
               /\ RowsOK \/ Promised.relinks
    <3>1. Promised.rows = 0 .. MaxRows
        BY <2>2 DEF Returned, ListReaders, Promised, ReportModules!get_ip_addr,
           ReportModules!get_network, ReportModules!get_dns,
           ReportModules!read_fs_stat, ReportModules!get_login_user,
           ReportModules!read_io_stat, ReportModules!get_all_proc,
           ReportModules!Reader, ReportModules!Rows
    <3>2. Promised.drops = IF reader = "read_io_stat" THEN {0, 1} ELSE {0}
        BY <2>2 DEF Returned, ListReaders, Promised, ReportModules!get_ip_addr,
           ReportModules!get_network, ReportModules!get_dns,
           ReportModules!read_fs_stat, ReportModules!get_login_user,
           ReportModules!read_io_stat, ReportModules!get_all_proc,
           ReportModules!Reader
    <3>3. Len(rows) \in 0 .. MaxRows
        BY <2>1, BoundsAssumption DEF KeepInv
    <3>4. /\ heap \ Range(rows) \in {{}, {node}}
          /\ reader # "read_io_stat" => heap \ Range(rows) = {}
        BY <2>2 DEF Returned, KeepInv
    <3>5. Cardinality(heap \ Range(rows)) \in Promised.drops
      <4>1. Cardinality({}) = 0 /\ Cardinality({node}) = 1
          BY FS_EmptySet, FS_Singleton
      <4>2. CASE reader = "read_io_stat"
          BY <4>1, <4>2, <3>2, <3>4
      <4>3. CASE reader # "read_io_stat"
          BY <4>1, <4>3, <3>2, <3>4
      <4> QED
          BY <4>2, <4>3
    <3>6. RowsOK \/ Promised.relinks
      <4>1. reader = "get_ip_addr" => Promised.relinks
          BY DEF Promised, ReportModules!get_ip_addr, ReportModules!Reader
      <4> QED
          BY <4>1 DEF WalkInv, RowsAreAllocated, RowsOK, Reused
    <3> QED
        BY <3>1, <3>3, <3>5, <3>6
  <2>3. ASSUME pc \in {"done", "idle"}, reader # "none"
        PROVE  fds - before.fds \in IF Promised.opens = "leaks" THEN {0, 1} ELSE {0}
    <3>1. fds - before.fds \in IF reader = "read_io_stat" THEN {0, 1} ELSE {0}
        BY <2>3 DEF KeepInv
    <3>2. reader = "read_io_stat" => Promised.opens = "leaks"
        BY DEF Promised, ReportModules!read_io_stat, ReportModules!Reader
    <3> QED
        BY <3>1, <3>2
  <2>4. ASSUME pc = "exit", G_LOG_CONFIG.output_to # "file"
        PROVE  Promised.vital
    <3>1. reader = "read_io_stat"
        BY <2>4 DEF KeepInv, ExitHasCause
    <3>2. Promised = ReportModules!read_io_stat
        BY <3>1 DEF Promised
    <3> QED
        BY <3>2 DEF ReportModules!read_io_stat, ReportModules!Reader
  <2>5. ASSUME pc = "crash"
        PROVE  Promised.crashes
    <3>1. CASE reader = "get_ip_addr"
        BY <3>1 DEF Promised, ReportModules!get_ip_addr, ReportModules!Reader
    <3>2. CASE reader = "get_all_proc"
        BY <3>2 DEF Promised, ReportModules!get_all_proc, ReportModules!Reader
    <3> QED
        BY <2>5, <3>1, <3>2 DEF KeepInv
  <2> QED
      BY <2>2, <2>3, <2>4, <2>5 DEF KeepsPromise
<1> QED
    BY <1>1, WalkInvariant, KeepInvariant, PTL

(* The process ends in a reader for no other reason than io's own failures *)
(* and a message, not filtered, that its log file could not be had for     *)
(* (log.c:34-41, io.c:36-65, proc.c:31-34, cpu.c:7-10).                    *)
THEOREM ExitsHaveCauses == Spec => []ExitHasCause
<1>1. KeepInv => ExitHasCause
    BY DEF KeepInv
<1> QED
    BY <1>1, KeepInvariant, PTL

-----------------------------------------------------------------------------
(* What the rows show.                                                     *)

ReadTo(n) == {j \in Read : j < n}

(* What the rows show of the entries passed so far.                        *)
ShowInv ==
  /\ fields \in [Block -> Int]
  /\ pc = "open" => k = 1 /\ node = NULL /\ rows = << >>
  /\ pc = "node" => Takes(reader, source[k])
  /\ (reader = "read_io_stat" /\ pc \in {"entries", "node"}) =>
       \A i \in 1 .. k - 1 : source[i].parses
  /\ (reader \in ListReaders /\ pc = "done" /\ node # NULL) =>
       \/ k > Len(source)
       \/ reader = "read_io_stat" /\ ~source[k].parses
  /\ (reader \in ListReaders /\ pc \in {"open", "entries", "node", "done"} /\ ~Reused) =>
       /\ Len(rows) = Cardinality(ReadTo(k))
       /\ \A j \in ReadTo(k) : fields[rows[Place(j)]] = Shown(j)

LEMMA SameCall ==
  ASSUME UNCHANGED << source, reader, before >>
  PROVE  /\ Read' = Read /\ Reused' = Reused
         /\ \A j : Shown(j)' = Shown(j) /\ Place(j)' = Place(j)
         /\ \A n : ReadTo(n)' = ReadTo(n)
BY DEF Read, Reused, Shown, Place, ReadTo

(* The places of the entries passed are those of their rows, and that of   *)
(* the next entry is the next.                                             *)
LEMMA PlacesInOrder ==
  ASSUME WalkTypeOK
  PROVE  /\ \A j \in ReadTo(k) : Place(j) \in 1 .. Cardinality(ReadTo(k))
         /\ IsFiniteSet(ReadTo(k)) /\ Cardinality(ReadTo(k)) \in Nat
         /\ k \in Read => /\ Cardinality(ReadTo(k + 1)) = Cardinality(ReadTo(k)) + 1
                          /\ Place(k) = Cardinality(ReadTo(k)) + 1
                          /\ ReadTo(k + 1) = ReadTo(k) \union {k}
         /\ k \notin Read => ReadTo(k + 1) = ReadTo(k)
<1>1. /\ Read \subseteq 1 .. Len(source) /\ Len(source) \in Nat /\ k \in Nat
      /\ \A j \in Read : j \in Nat
    BY DEF Read, WalkTypeOK
<1>2. IsFiniteSet(Read)
  <2>1. IsFiniteSet(1 .. Len(source))
      BY <1>1, FS_Interval
  <2> QED
      BY <1>1, <2>1, FS_Subset
<1>3. IsFiniteSet(ReadTo(k)) /\ Cardinality(ReadTo(k)) \in Nat
    BY <1>2, FS_Subset, FS_CardinalityType DEF ReadTo
<1>4. ASSUME NEW j \in ReadTo(k)
      PROVE  Place(j) \in 1 .. Cardinality(ReadTo(k))
  <2> DEFINE T == {i \in Read : i <= j}
  <2>1. T \subseteq ReadTo(k) /\ j \in T
    <3>1. j \in Read /\ j \in Nat /\ j < k /\ j <= j
        BY <1>1 DEF ReadTo
    <3>2. \A i \in Read : i <= j => i < k
        BY <1>1, <3>1
    <3> QED
        BY <3>1, <3>2 DEF ReadTo
  <2>2. IsFiniteSet(T) /\ Cardinality(T) <= Cardinality(ReadTo(k))
      BY <1>3, <2>1, FS_Subset
  <2>3. Cardinality(T) \in Nat /\ Cardinality(T) # 0
      BY <2>1, <2>2, FS_CardinalityType, FS_EmptySet
  <2> QED
      BY <1>3, <2>2, <2>3 DEF Place
<1>5. ASSUME k \in Read
      PROVE  /\ Cardinality(ReadTo(k + 1)) = Cardinality(ReadTo(k)) + 1
             /\ Place(k) = Cardinality(ReadTo(k)) + 1
             /\ ReadTo(k + 1) = ReadTo(k) \union {k}
  <2>1. /\ ReadTo(k + 1) = ReadTo(k) \union {k} /\ k \notin ReadTo(k)
        /\ {i \in Read : i <= k} = ReadTo(k) \union {k}
    <3>1. \A j \in Read : /\ j < k + 1 <=> j < k \/ j = k
                          /\ j <= k <=> j < k \/ j = k
        BY <1>1
    <3>2. k \in Nat /\ ~(k < k)
        BY <1>1
    <3> QED
        BY <1>5, <3>1, <3>2 DEF ReadTo
  <2>2. Cardinality(ReadTo(k) \union {k}) = Cardinality(ReadTo(k)) + 1
      BY <1>3, <2>1, FS_AddElement
  <2> QED
      BY <2>1, <2>2 DEF Place
<1>6. ASSUME k \notin Read PROVE ReadTo(k + 1) = ReadTo(k)
  <2>1. \A j \in Read : j < k + 1 <=> j < k
      BY <1>1, <1>6
  <2> QED
      BY <2>1 DEF ReadTo
<1> QED
    BY <1>3, <1>4, <1>5, <1>6

(* The entry at hand gets a row, in a block no other row is in.            *)
LEMMA RowShows ==
  ASSUME WalkTypeOK, NEW b \in Block, b \notin Range(rows), k \in Read,
         fields \in [Block -> Int],
         Len(rows) = Cardinality(ReadTo(k)),
         \A j \in ReadTo(k) : fields[rows[Place(j)]] = Shown(j)
  PROVE  /\ Len(Append(rows, b)) = Cardinality(ReadTo(k + 1))
         /\ \A j \in ReadTo(k + 1) :
              [fields EXCEPT ![b] = Shown(k)][Append(rows, b)[Place(j)]] = Shown(j)
<1> DEFINE f == [fields EXCEPT ![b] = Shown(k)]
           r == Append(rows, b)
<1>1. /\ rows \in Seq(Block) /\ Len(rows) \in Nat /\ DOMAIN rows = 1 .. Len(rows)
    BY DEF WalkTypeOK
<1>2. /\ Len(r) = Len(rows) + 1 /\ r[Len(rows) + 1] = b
      /\ \A p \in 1 .. Len(rows) : r[p] = rows[p] /\ rows[p] \in Block
    BY <1>1
<1>3. \A p \in 1 .. Len(rows) : rows[p] # b
    BY <1>1 DEF Range
<1>4. \A j \in ReadTo(k) : f[r[Place(j)]] = Shown(j)
  <2> SUFFICES ASSUME NEW j \in ReadTo(k) PROVE f[r[Place(j)]] = Shown(j)
      OBVIOUS
  <2>1. Place(j) \in 1 .. Len(rows)
      BY PlacesInOrder
  <2>2. f[rows[Place(j)]] = fields[rows[Place(j)]]
      BY <1>2, <1>3, <2>1
  <2> QED
      BY <1>2, <2>1, <2>2
<1>5. f[r[Place(k)]] = Shown(k)
    BY <1>2, PlacesInOrder
<1> QED
    BY <1>2, <1>4, <1>5, PlacesInOrder

LEMMA RowStepShows ==
  ASSUME WalkInv, ShowInv, UNCHANGED << source, reader, before >>,
         k' = k + 1, reader \in ListReaders, pc \in {"entries", "node"},
         pc' = "entries",
         NEW b \in Block, rows' = Append(rows, b), fields' \in [Block -> Int],
         ~Reused => /\ b \notin Range(rows) /\ k \in Read
                    /\ fields' = [fields EXCEPT ![b] = Shown(k)],
         reader = "read_io_stat" => source[k].parses
  PROVE  ShowInv'
<1>1. WalkTypeOK /\ k \in Nat
    BY DEF WalkInv, WalkTypeOK
<1>2. ~Reused => /\ Len(rows') = Cardinality(ReadTo(k + 1))
                 /\ \A j \in ReadTo(k + 1) : fields'[rows'[Place(j)]] = Shown(j)
  <2> SUFFICES ASSUME ~Reused
               PROVE  /\ Len(rows') = Cardinality(ReadTo(k + 1))
                      /\ \A j \in ReadTo(k + 1) : fields'[rows'[Place(j)]] = Shown(j)
      OBVIOUS
  <2>1. /\ b \notin Range(rows) /\ k \in Read /\ fields \in [Block -> Int]
        /\ Len(rows) = Cardinality(ReadTo(k))
        /\ \A j \in ReadTo(k) : fields[rows[Place(j)]] = Shown(j)
        /\ fields' = [fields EXCEPT ![b] = Shown(k)]
      BY DEF ShowInv
  <2> QED
      BY <1>1, <2>1, RowShows
<1>3. /\ Reused' = Reused /\ ReadTo(k)' = ReadTo(k + 1)
      /\ \A j : Shown(j)' = Shown(j) /\ Place(j)' = Place(j)
  <2>1. ReadTo(k)' = ReadTo(k + 1)
      BY SameCall DEF ReadTo
  <2> QED
      BY <2>1, SameCall
<1>4. reader = "read_io_stat" => \A i \in 1 .. k' - 1 : source[i].parses
    BY <1>1 DEF ShowInv
<1> QED
    BY <1>2, <1>3, <1>4 DEF ShowInv

(* The entry at hand gets none; what changes is no row's.                  *)
LEMMA PassShows ==
  ASSUME WalkInv, ShowInv, UNCHANGED << source, reader, before, rows >>,
         k' = k + 1, reader \in ListReaders, pc = "entries",
         pc' \in {"entries", "crash"},
         k \notin Read, reader # "read_io_stat",
         fields' \in [Block -> Int],
         ~Reused => \A p \in DOMAIN rows : fields'[rows[p]] = fields[rows[p]]
  PROVE  ShowInv'
<1>1. WalkTypeOK /\ k \in Nat /\ DOMAIN rows = 1 .. Len(rows)
    BY DEF WalkInv, WalkTypeOK
<1>2. ~Reused => \A j \in ReadTo(k) : fields'[rows[Place(j)]] = Shown(j)
    BY <1>1, PlacesInOrder DEF ShowInv
<1>3. /\ Reused' = Reused /\ ReadTo(k)' = ReadTo(k)
      /\ \A j : Shown(j)' = Shown(j) /\ Place(j)' = Place(j)
  <2>1. ReadTo(k)' = ReadTo(k + 1)
      BY SameCall DEF ReadTo
  <2> QED
      BY <1>1, <2>1, SameCall, PlacesInOrder
<1> QED
    BY <1>2, <1>3 DEF ShowInv

(* No entry is passed.                                                     *)
LEMMA StillShows ==
  ASSUME ShowInv, UNCHANGED << source, reader, before, memory, k >>,
         reader \in ListReaders /\ pc' \in {"entries", "node", "done"} =>
           pc \in {"open", "entries", "node"},
         pc' \notin {"open", "node"},
         pc' = "entries" => pc = "open",
         reader \in ListReaders /\ pc' = "done" /\ node # NULL =>
           \/ k > Len(source)
           \/ reader = "read_io_stat" /\ ~source[k].parses
  PROVE  ShowInv'
<1>1. /\ Reused' = Reused /\ ReadTo(k)' = ReadTo(k)
      /\ \A j : Shown(j)' = Shown(j) /\ Place(j)' = Place(j)
  <2>1. ReadTo(k)' = ReadTo(k)
      BY SameCall DEF ReadTo
  <2> QED
      BY <2>1, SameCall
<1>2. 1 .. 0 = {}
    OBVIOUS
<1> QED
    BY <1>1, <1>2 DEF ShowInv, memory

LEMMA ShowStep ==
  ASSUME WalkInv, WalkInv', KeepInv, KeepInv', ShowInv, [Next]_vars
  PROVE  ShowInv'
<1>1. /\ k \in Nat \ {0} /\ Len(source) \in Nat /\ rows \in Seq(Block)
      /\ heap \subseteq Block /\ DOMAIN source = 1 .. Len(source)
      /\ fields \in [Block -> Int] /\ NULL \notin Block
      /\ Unset \in Int /\ 0 \in Int /\ NamesOf(k) \in Int
    BY NullIsNoBlock DEF WalkInv, WalkTypeOK, ShowInv, Unset, NamesOf
<1>2. CASE UNCHANGED vars
  <2>1. UNCHANGED << source, reader, before, memory, k, pc >>
      BY <1>2 DEF vars
  <2>2. /\ Reused' = Reused /\ ReadTo(k)' = ReadTo(k)
        /\ \A j : Shown(j)' = Shown(j) /\ Place(j)' = Place(j)
    <3>1. ReadTo(k)' = ReadTo(k)
        BY <2>1, SameCall DEF ReadTo
    <3> QED
        BY <2>1, <3>1, SameCall
  <2> QED
      BY <2>1, <2>2 DEF ShowInv, memory
<1>3. CASE call \/ return
  <2>1. /\ k' = 1 /\ node' = NULL /\ rows' = << >> /\ pc' \in {"open", "idle"}
        /\ fields' = [b \in Block |-> Unset]
      BY <1>3 DEF call, return
  <2>2. fields' \in [Block -> Int] /\ \A b \in Block : fields'[b] = Unset
      BY <1>1, <2>1
  <2>3. ReadTo(1)' = {}
      BY <2>1 DEF ReadTo, Read, WalkInv, WalkTypeOK
  <2>4. Cardinality(ReadTo(k)') = 0 /\ ReadTo(k)' = {}
      BY <2>1, <2>3, FS_EmptySet DEF ReadTo
  <2> QED
      BY <2>1, <2>2, <2>4 DEF ShowInv
<1>4. CASE open \/ open_fails \/ get_num_of_cpu \/ close
  <2>1. /\ UNCHANGED << source, reader, before, memory, k >>
        /\ pc \in {"open", "entries"} /\ pc' \in {"entries", "done", "exit"}
        /\ pc' = "entries" => pc = "open"
        /\ pc = "entries" => k > Len(source)
      BY <1>4, LoggedEnds DEF open, open_fails, get_num_of_cpu, close, kept
  <2>2. pc = "open" => node = NULL
      BY DEF ShowInv
  <2> QED
      BY <2>1, <2>2, StillShows
<1>5. CASE route \/ read_uptime_stat
  <2>1. /\ UNCHANGED << reader, memory >> /\ reader \notin ListReaders
        /\ reader \notin {"read_io_stat", "read_fs_stat"}
        /\ pc' \in {"entries", "done"}
      BY <1>5 DEF route, AtEntry, read_uptime_stat, ListReaders
  <2> QED
      BY <2>1 DEF ShowInv, memory
<1>6. CASE Skip
  <2>1. /\ UNCHANGED << source, reader, before, memory, pc >>
        /\ k' = k + 1 /\ reader \in ListReaders /\ pc = "entries"
        /\ ~Takes(reader, source[k])
      BY <1>6 DEF Skip, AtEntry, Next_entry, Entry
  <2>2. k \notin Read
      BY <2>1 DEF Read
  <2>3. reader # "read_io_stat"
      BY <2>1 DEF Takes
  <2> QED
      BY <1>1, <2>1, <2>2, <2>3, PassShows DEF memory
<1>7. CASE plain_row \/ fs_row
  <2>1. /\ pc = "entries" /\ pc' = "entries" /\ k' = k + 1 /\ k \in DOMAIN source
        /\ UNCHANGED << source, reader, before >> /\ Takes(reader, source[k])
        /\ reader \in {"get_network", "get_dns", "get_login_user", "read_fs_stat"}
      BY <1>1, <1>7 DEF plain_row, fs_row, Plain, AtEntry, Next_entry, Entry
  <2>2. Row(Shown(k))
    <3>1. CASE plain_row
        BY <3>1 DEF plain_row, Plain, AtEntry, Shown
    <3>2. CASE fs_row
        BY <3>2 DEF fs_row, AtEntry, Entry, Shown
    <3> QED
        BY <1>7, <3>1, <3>2
  <2>3. PICK b \in Block \ heap :
          rows' = Append(rows, b) /\ fields' = [fields EXCEPT ![b] = Shown(k)]
      BY <2>2 DEF Row
  <2>4. k \in Read
      BY <2>1 DEF Read
  <2>5. Shown(k) \in Int
      BY <1>1 DEF Shown
  <2>6. fields' \in [Block -> Int]
      BY <1>1, <2>3, <2>5
  <2>7. b \notin Range(rows)
      BY <2>1, <2>3 DEF WalkInv, RowsAreAllocated, RowsOK, Reused
  <2> QED
      BY <2>1, <2>3, <2>4, <2>6, <2>7, RowStepShows DEF ListReaders
<1>8. CASE ip_row \/ ip_unnamed
  <2>1. PICK b \in Nodes : fields' = [fields EXCEPT ![b] = k]
      BY <1>8 DEF ip_row, ip_unnamed
  <2>2. /\ pc = "entries" /\ k' = k + 1 /\ k \in DOMAIN source
        /\ UNCHANGED << source, reader, before >> /\ Takes(reader, source[k])
        /\ reader = "get_ip_addr"
        /\ AtEntry({"get_ip_addr"}) /\ Entry.family = "inet"
    <3>1. /\ AtEntry({"get_ip_addr"}) /\ Takes(reader, Entry) /\ Next_entry
        BY <1>8 DEF ip_row, ip_unnamed
    <3>2. reader = "get_ip_addr"
        BY <3>1 DEF AtEntry
    <3> QED
        BY <1>1, <3>1, <3>2 DEF AtEntry, Next_entry, Entry, Takes
  <2>3. ~Reused => node = NULL /\ b \notin heap /\ b \notin Range(rows)
      BY <2>1, <2>2, HandIsReused DEF Nodes, WalkInv, RowsAreAllocated, RowsOK
  <2>4. b \in Block
      BY <2>1 DEF Nodes, WalkInv, WalkTypeOK
  <2>5. fields' \in [Block -> Int]
      BY <1>1, <2>1, <2>4
  <2>6. CASE ip_row
    <3>1. PICK c \in Nodes : fields' = [fields EXCEPT ![c] = k] /\ rows' = Append(rows, c)
        BY <2>6 DEF ip_row
    <3>2. c \in Block /\ (~Reused => c \notin Range(rows))
        BY <2>2, <3>1, HandIsReused DEF Nodes, WalkInv, WalkTypeOK, RowsAreAllocated, RowsOK
    <3>3. k \in Read /\ Shown(k) = k /\ pc' = "entries"
        BY <2>2, <2>6 DEF ip_row, Read, Shown, Entry
    <3> QED
        BY <2>2, <2>5, <3>1, <3>2, <3>3, RowStepShows DEF ListReaders
  <2>7. CASE ip_unnamed
    <3>1. k \notin Read /\ rows' = rows /\ pc' \in {"entries", "crash"}
        BY <2>2, <2>7 DEF ip_unnamed, Read, Entry
    <3>2. ~Reused => \A p \in DOMAIN rows : fields'[rows[p]] = fields[rows[p]]
        BY <1>1, <2>1, <2>3 DEF Range
    <3> QED
        BY <2>2, <2>5, <3>1, <3>2, PassShows DEF ListReaders
  <2> QED
      BY <1>8, <2>6, <2>7
<1>9. CASE read_cpu_stat
  <2>1. PICK b \in Block \ heap : node' = b /\ fields' = [fields EXCEPT ![b] = 0]
      BY <1>9 DEF read_cpu_stat
  <2>2. /\ pc = "entries" /\ pc' \in {"node", "exit"} /\ Takes(reader, source[k])
        /\ UNCHANGED << k, source, reader, before, rows >>
        /\ reader \in {"read_io_stat", "get_all_proc"}
      BY <1>9, LoggedEnds DEF read_cpu_stat, AtEntry, Same_entry, Entry
  <2>3. ~Reused /\ Range(rows) \subseteq heap
      BY <2>2 DEF Reused, WalkInv, RowsAreAllocated, RowsOK
  <2>4. fields' \in [Block -> Int]
      BY <1>1, <2>1
  <2>5. \A p \in DOMAIN rows : fields'[rows[p]] = fields[rows[p]]
      BY <1>1, <2>1, <2>3 DEF Range
  <2>6. \A j \in ReadTo(k) : fields'[rows[Place(j)]] = Shown(j)
    <3>1. WalkTypeOK /\ DOMAIN rows = 1 .. Len(rows)
        BY <1>1 DEF WalkInv
    <3>2. /\ Len(rows) = Cardinality(ReadTo(k))
          /\ \A j \in ReadTo(k) : fields[rows[Place(j)]] = Shown(j)
        BY <2>2, <2>3 DEF ShowInv, ListReaders
    <3> QED
        BY <2>5, <3>1, <3>2, PlacesInOrder
  <2>7. /\ Reused' = Reused /\ ReadTo(k)' = ReadTo(k)
        /\ \A j : Shown(j)' = Shown(j) /\ Place(j)' = Place(j)
    <3>1. ReadTo(k)' = ReadTo(k)
        BY <2>2, SameCall DEF ReadTo
    <3> QED
        BY <2>2, <3>1, SameCall
  <2>8. Len(rows) = Cardinality(ReadTo(k))
      BY <2>2, <2>3 DEF ShowInv, ListReaders
  <2> QED
      BY <2>2, <2>4, <2>6, <2>7, <2>8 DEF ShowInv
<1>10. ASSUME pc = "node", pc' = "entries", Link(Shown(k)), Next_entry,
              reader = "read_io_stat" => source[k].parses
       PROVE  ShowInv'
  <2>1. /\ reader \in {"read_io_stat", "get_all_proc"}
        /\ node \in Block /\ node \notin Range(rows)
        /\ Takes(reader, source[k]) /\ k \in DOMAIN source
      BY <1>1, <1>10 DEF WalkInv, WalkTypeOK, Filling, ShowInv, KeepInv
  <2>2. /\ fields' = [fields EXCEPT ![node] = Shown(k)] /\ rows' = Append(rows, node)
        /\ k' = k + 1 /\ UNCHANGED << source, reader, before >>
      BY <1>10 DEF Link, Next_entry
  <2>3. k \in Read
    <3>1. reader = "read_io_stat" => \A i \in 1 .. k : source[i].parses
        BY <1>1, <1>10 DEF ShowInv
    <3> QED
        BY <2>1, <3>1 DEF Read
  <2>4. Shown(k) \in Int
      BY <1>1 DEF Shown
  <2>5. fields' \in [Block -> Int]
      BY <1>1, <2>2, <2>4
  <2> QED
      BY <1>10, <2>1, <2>2, <2>3, <2>5, RowStepShows DEF ListReaders
<1>11. CASE io_row
  <2>1. reader = "read_io_stat" /\ source[k].parses /\ Shown(k) = k
      BY <1>11 DEF io_row, Entry, Shown
  <2> QED
      BY <1>10, <1>11, <2>1 DEF io_row
<1>12. CASE io_unknown
  <2>1. /\ UNCHANGED << source, reader, before, memory, k >> /\ pc = "node"
        /\ reader = "read_io_stat" /\ ~source[k].parses
      BY <1>12 DEF io_unknown, Same_entry, Entry
  <2>2. Logged(LOG_FATAL, "done")
      BY <1>12 DEF io_unknown
  <2>3. pc' \in {"done", "exit"}
      BY <2>2, LoggedEnds
  <2> QED
      BY <2>1, <2>3, StillShows
<1>13. CASE proc_ended
  <2>1. /\ pc = "node" /\ reader = "get_all_proc" /\ (~source[k].lives \/ fds = FdLimit)
      BY <1>13 DEF proc_ended, Entry
  <2>2. Shown(k) = 0
      BY <2>1 DEF Shown, KeepInv
  <2>3. CASE pc' = "entries"
      BY <1>10, <1>13, <2>1, <2>2, <2>3 DEF proc_ended
  <2>4. CASE pc' # "entries"
    <3>1. UNCHANGED << source, reader, before, memory, k >> /\ pc' = "exit"
        BY <1>13, <2>4, LoggedEnds DEF proc_ended, Same_entry
    <3> QED
        BY <2>1, <3>1, StillShows
  <2> QED
      BY <2>3, <2>4
<1>14. CASE proc_row
  <2>1. /\ pc = "node" /\ reader = "get_all_proc" /\ source[k].lives /\ fds < FdLimit
      BY <1>14 DEF proc_row, Entry
  <2>2. Shown(k) = k
      BY <2>1, BoundsAssumption DEF Shown, KeepInv
  <2>3. CASE Entry.account
      BY <1>10, <1>14, <2>1, <2>2, <2>3 DEF proc_row
  <2>4. CASE ~Entry.account
    <3>1. UNCHANGED << source, reader, before, memory, k >> /\ pc' = "crash"
        BY <1>14, <2>4 DEF proc_row, Same_entry
    <3> QED
        BY <2>1, <3>1, StillShows
  <2> QED
      BY <2>3, <2>4
<1> QED
    BY <1>2, <1>3, <1>4, <1>5, <1>6, <1>7, <1>8, <1>9, <1>11, <1>12, <1>13, <1>14
    DEF Next

LEMMA ShowInvariant == Spec => []ShowInv
<1>1. Init => ShowInv
    BY DEF Init, ShowInv, Unset
<1>2. WalkInv /\ WalkInv' /\ KeepInv /\ KeepInv' /\ ShowInv /\ [Next]_vars => ShowInv'
    BY ShowStep
<1> QED
    BY <1>1, <1>2, WalkInvariant, KeepInvariant, PTL DEF Spec

(* The rows of a list that was read to its end show exactly the entries    *)
(* they should, one for one and in order, for sources of any length        *)
(* (fs.c:42-47, io.c:36-65, ip.c:51-54, proc.c:31-34).                     *)
THEOREM RowsShowEntries == Spec => []RowsShowTheirEntries
<1>1. WalkInv /\ ShowInv => RowsShowTheirEntries
  <2> SUFFICES ASSUME WalkInv, ShowInv, Returned, Walked, ~Reused
               PROVE  /\ Len(rows) = Cardinality(Read)
                      /\ \A j \in Read : fields[rows[Place(j)]] = Shown(j)
      BY DEF RowsShowTheirEntries
  <2>1. \/ k > Len(source)
        \/ reader = "read_io_stat" /\ ~source[k].parses
      BY DEF Walked, Returned, ShowInv
  <2>2. /\ k \in Nat \ {0} /\ Len(source) \in Nat
        /\ \A j \in Read : j \in 1 .. Len(source)
      BY DEF WalkInv, WalkTypeOK, Read
  <2>3. \A j \in Read : j < k
    <3>1. CASE k > Len(source)
        BY <2>2, <3>1
    <3>2. CASE reader = "read_io_stat" /\ ~source[k].parses
      <4>1. \A j \in Read : k \notin 1 .. j
          BY <3>2 DEF Read
      <4> QED
          BY <2>2, <4>1
    <3> QED
        BY <2>1, <3>1, <3>2
  <2>4. ReadTo(k) = Read
      BY <2>3 DEF ReadTo
  <2> QED
      BY <2>4 DEF Returned, ShowInv
<1> QED
    BY <1>1, WalkInvariant, ShowInvariant, PTL

-----------------------------------------------------------------------------
(* The gateway.                                                            *)

(* A set of numbers has a least one.                                       *)
LEMMA LeastOfSome ==
  ASSUME NEW S, S \subseteq Nat, S # {}
  PROVE  \E m \in S : \A i \in S : m <= i
<1> DEFINE R == OpToRel(<, Nat)
<1>1. IsWellFoundedOn(R, Nat)
  BY NatLessThanWellFounded, Zenon
<1>2. \A i, j \in Nat : i < j => <<i, j>> \in R
  BY DEF OpToRel
<1> HIDE DEF R
<1>3. \E m \in S : \A i \in S : ~(<<i, m>> \in R)
  BY <1>1, WFMin, Zenon
<1>4. PICK m \in S : \A i \in S : ~(<<i, m>> \in R)
  BY <1>3
<1>5. \A i \in S : ~(i < m)
  BY <1>2, <1>4
<1> QED
  BY <1>5

(* The routes passed so far held no default route, or one of them is the   *)
(* first and the walk is over.                                             *)
GatewayInv ==
  (reader = "get_gateway" /\ pc \in {"open", "entries", "done"}) =>
    \/ /\ gateway = before.gateway
       /\ \A i \in DOMAIN source : source[i].default => k <= i
    \/ /\ k = Len(source) + 1
       /\ \E i \in DOMAIN source :
            /\ source[i].default /\ gateway = source[i].addr
            /\ \A j \in DOMAIN source : source[j].default => i <= j

(* The gateway is the first default route's, or stays what it was          *)
(* (gateway.c:13-27).                                                      *)
THEOREM GatewayFound == Spec => []GatewayIsFirstDefault
<1>1. Init => GatewayInv
    BY DEF Init, GatewayInv
<1>2. WalkInv /\ WalkInv' /\ GatewayInv /\ [Next]_vars => GatewayInv'
  <2> SUFFICES ASSUME WalkInv, WalkInv', GatewayInv, [Next]_vars PROVE GatewayInv'
      OBVIOUS
  <2>1. /\ k \in Nat \ {0} /\ Len(source) \in Nat /\ DOMAIN source = 1 .. Len(source)
        /\ DOMAIN source' \subseteq Nat \ {0}
      BY DEF WalkInv, WalkTypeOK
  <2>2. CASE UNCHANGED << reader, gateway, before, source, k >>
             /\ pc \in {"open", "entries", "done"}
      BY <2>2 DEF GatewayInv
  <2>3. CASE reader' # "get_gateway" \/ pc' \notin {"open", "entries", "done"}
      BY <2>3 DEF GatewayInv
  <2>4. CASE call
      BY <2>1, <2>4 DEF call, kept, GatewayInv
  <2>5. CASE route
    <3>1. /\ pc = "entries" /\ reader = "get_gateway" /\ k \in DOMAIN source
          /\ gateway' = IF source[k].default THEN source[k].addr ELSE gateway
          /\ k' = IF source[k].default THEN Len(source) + 1 ELSE k + 1
          /\ UNCHANGED << source, reader, pc, before >>
        BY <2>1, <2>5 DEF route, AtEntry, Entry
    <3>2. /\ gateway = before.gateway
          /\ \A i \in DOMAIN source : source[i].default => k <= i
        BY <2>1, <3>1 DEF GatewayInv
    <3>3. CASE source[k].default
        BY <3>1, <3>2, <3>3 DEF GatewayInv
    <3>4. CASE ~source[k].default
      <4>1. \A i \in DOMAIN source : source[i].default => k + 1 <= i
          BY <2>1, <3>2, <3>4
      <4> QED
          BY <3>1, <3>2, <3>4, <4>1 DEF GatewayInv
    <3> QED
        BY <3>3, <3>4
  <2>6. CASE open \/ open_fails \/ close
      BY <2>2, <2>6 DEF open, open_fails, close, kept
  <2>7. CASE UNCHANGED vars
      BY <2>7 DEF vars, kept, GatewayInv
  <2>8. CASE \/ return \/ get_num_of_cpu \/ Skip \/ plain_row \/ fs_row \/ ip_row
             \/ ip_unnamed \/ read_cpu_stat \/ io_row \/ io_unknown \/ proc_ended
             \/ proc_row \/ read_uptime_stat
    <3>1. reader' # "get_gateway"
        BY <2>8 DEF return, get_num_of_cpu, Skip, plain_row, fs_row, ip_row,
           ip_unnamed, read_cpu_stat, io_row, io_unknown, proc_ended, proc_row,
           read_uptime_stat, Plain, AtEntry, ListReaders, Next_entry, Same_entry
    <3> QED
        BY <2>3, <3>1
  <2> QED
      BY <2>4, <2>5, <2>6, <2>7, <2>8 DEF Next
<1>3. WalkInv /\ GatewayInv => GatewayIsFirstDefault
  <2> SUFFICES ASSUME WalkInv, GatewayInv, pc = "done", reader = "get_gateway"
               PROVE  GatewayIsFirstDefault
      BY DEF GatewayIsFirstDefault
  <2> DEFINE D == {i \in 1 .. Len(source) : source[i].default}
             j == SelectInSeq(source, LAMBDA e : e.default)
  <2>1. /\ k \in Nat \ {0} /\ Len(source) \in Nat /\ DOMAIN source = 1 .. Len(source)
      BY DEF WalkInv, WalkTypeOK
  <2>2. j = IF D # {} THEN Min(D) ELSE 0
      BY DEF SelectInSeq
  <2> HIDE DEF j
  <2>3. gateway = IF j = 0 \/ k <= j THEN before.gateway ELSE source[j].addr
    <3>1. CASE D = {}
        BY <2>1, <2>2, <3>1 DEF GatewayInv
    <3>2. CASE D # {}
      <4>1. D \subseteq Nat
          OBVIOUS
      <4>2. PICK m \in D : \A i \in D : m <= i
          BY <3>2, <4>1, LeastOfSome
      <4>3. j = m
          BY <2>1, <2>2, <3>2, <4>2 DEF Min
      <4> QED
          BY <2>1, <4>2, <4>3 DEF GatewayInv
    <3> QED
        BY <3>1, <3>2
  <2> QED
      BY <2>3 DEF j, GatewayIsFirstDefault
<1> QED
    BY <1>1, <1>2, <1>3, WalkInvariant, PTL DEF Spec

-----------------------------------------------------------------------------
(* Names that are numbers.                                                 *)

Digits(name, p) == p <= Len(name) /\ name[p] \in Digit

(* A digit, or a point with a digit behind it.                             *)
Fits(name, p) ==
  Digits(name, p) \/ (p <= Len(name) /\ name[p] = "." /\ Digits(name, p + 1))

(* What is_digit says of a name from its character p on, with its counter  *)
(* at i: only where the counter is 1 does a point not fit.                 *)
FitsFrom(name, p, i) ==
  \/ p > Len(name)
  \/ /\ Digits(name, p) \/ (i # 1 /\ Fits(name, p))
     /\ \A q \in p + 1 .. Len(name) : Fits(name, q)

(* One turn of is_digit's loop.                                            *)
Turn(name, f, p, i) ==
  IF p > Len(name) THEN TRUE
  ELSE IF name[p] = "."
  THEN i \notin {1, Len(name)} /\ Digits(name, p + 1) /\ f[p + 2][i + 1]
  ELSE Digits(name, p) /\ f[p + 1][i + 1]

(* Read from behind, each turn finds what FitsFrom says.                   *)
LEMMA TurnFits ==
  ASSUME NEW name, Len(name) \in Nat, NEW f, NEW p \in 1 .. Len(name) + 2, NEW i \in 1 .. p,
         p <= Len(name) => /\ f[p + 1][i + 1] = FitsFrom(name, p + 1, i + 1)
                           /\ f[p + 2][i + 1] = FitsFrom(name, p + 2, i + 1)
  PROVE  Turn(name, f, p, i) = FitsFrom(name, p, i)
<1> DEFINE n == Len(name)
<1>0. n \in Nat /\ "." \notin Digit /\ i + 1 # 1
  BY DEF Digit
<1>1. CASE p > n
  BY <1>1 DEF Turn, FitsFrom
<1>2. CASE p <= n /\ name[p] # "."
  <2>1. FitsFrom(name, p, i) <=> Digits(name, p) /\ \A q \in p + 1 .. n : Fits(name, q)
    BY <1>2 DEF FitsFrom, Fits
  <2>2. FitsFrom(name, p + 1, i + 1) <=> \A q \in p + 1 .. n : Fits(name, q)
    <3>1. p + 1 > n => p + 1 .. n = {}
      BY <1>0
    <3>2. p + 1 <= n => p + 1 .. n = {p + 1} \union (p + 1 + 1 .. n)
      BY <1>0
    <3>3. ~(p + 1 > n) <=> p + 1 <= n
      BY <1>0
    <3>4. FitsFrom(name, p + 1, i + 1) <=>
            \/ p + 1 > n
            \/ Fits(name, p + 1) /\ \A q \in p + 1 + 1 .. n : Fits(name, q)
      BY <1>0 DEF FitsFrom, Fits
    <3> QED
      BY <3>1, <3>2, <3>3, <3>4
  <2>3. Turn(name, f, p, i) = (Digits(name, p) /\ FitsFrom(name, p + 1, i + 1))
    <3>1. ~(p > Len(name)) /\ f[p + 1][i + 1] = FitsFrom(name, p + 1, i + 1)
      BY <1>0, <1>2
    <3> QED
      BY <3>1, <1>2, Zenon DEF Turn
  <2>4. FitsFrom(name, p, i) \in BOOLEAN
    BY DEF FitsFrom
  <2> QED
    BY <2>1, <2>2, <2>3, <2>4
<1>3. CASE p <= n /\ name[p] = "."
  <2>1. FitsFrom(name, p, i) <=>
          i # 1 /\ Digits(name, p + 1) /\ \A q \in p + 1 .. n : Fits(name, q)
    BY <1>0, <1>3 DEF FitsFrom, Fits, Digits
  <2>2. Digits(name, p + 1) =>
          (FitsFrom(name, p + 2, i + 1) <=> \A q \in p + 1 .. n : Fits(name, q))
    <3> SUFFICES ASSUME Digits(name, p + 1)
                 PROVE  FitsFrom(name, p + 2, i + 1) <=> \A q \in p + 1 .. n : Fits(name, q)
      OBVIOUS
    <3>1. p + 1 <= n /\ Fits(name, p + 1)
      BY DEF Digits, Fits
    <3>2. p + 2 > n => p + 1 .. n = {p + 1}
      BY <1>0, <3>1
    <3>3. p + 2 <= n => p + 1 .. n = {p + 1, p + 2} \union (p + 2 + 1 .. n)
      BY <1>0, <3>1
    <3>4. ~(p + 2 > n) <=> p + 2 <= n
      BY <1>0
    <3>5. FitsFrom(name, p + 2, i + 1) <=>
            \/ p + 2 > n
            \/ Fits(name, p + 2) /\ \A q \in p + 2 + 1 .. n : Fits(name, q)
      BY <1>0 DEF FitsFrom, Fits
    <3> QED
      BY <3>1, <3>2, <3>3, <3>4, <3>5
  <2>3. i = n => ~Digits(name, p + 1)
    BY <1>0, <1>3 DEF Digits
  <2>4. Turn(name, f, p, i) =
          (i \notin {1, n} /\ Digits(name, p + 1) /\ FitsFrom(name, p + 2, i + 1))
    <3>1. ~(p > Len(name)) /\ f[p + 2][i + 1] = FitsFrom(name, p + 2, i + 1)
      BY <1>0, <1>3
    <3> QED
      BY <3>1, <1>3, Zenon DEF Turn
  <2>5. FitsFrom(name, p, i) \in BOOLEAN
    BY DEF FitsFrom
  <2> QED
    BY <2>1, <2>2, <2>3, <2>4, <2>5
<1> QED
  BY <1>0, <1>1, <1>2, <1>3

(* The turns of is_digit, from any place of the name, say what FitsFrom    *)
(* says.                                                                   *)
LEMMA IsDigitFits ==
  ASSUME NEW name, Len(name) \in Nat
  PROVE  is_digit(name) =
           FitsFrom(name, IF Len(name) > 0 /\ name[1] = "-" THEN 2 ELSE 1, 1)
<1> DEFINE n == Len(name)
           turns(f) == f = [p \in 1 .. n + 2 |-> [i \in 1 .. p |-> Turn(name, f, p, i)]]
           start == IF n > 0 /\ name[1] = "-" THEN 2 ELSE 1
           reads == CHOOSE f : turns(f)
           said == [p \in 1 .. n + 2 |-> [i \in 1 .. p |-> FitsFrom(name, p, i)]]
<1>1. is_digit(name) = reads[start][1]
  BY DEF is_digit, Turn, Digits
<1>2. n \in Nat /\ start \in 1 .. 2
  OBVIOUS
<1>3. turns(said)
  <2>1. ASSUME NEW p \in 1 .. n + 2, NEW i \in 1 .. p
        PROVE  FitsFrom(name, p, i) = Turn(name, said, p, i)
    <3>1. p <= n => /\ said[p + 1][i + 1] = FitsFrom(name, p + 1, i + 1)
                    /\ said[p + 2][i + 1] = FitsFrom(name, p + 2, i + 1)
      <4> SUFFICES ASSUME p <= n
                   PROVE  /\ said[p + 1][i + 1] = FitsFrom(name, p + 1, i + 1)
                          /\ said[p + 2][i + 1] = FitsFrom(name, p + 2, i + 1)
        OBVIOUS
      <4>1. p + 1 \in 1 .. n + 2 /\ p + 2 \in 1 .. n + 2
            /\ i + 1 \in 1 .. p + 1 /\ i + 1 \in 1 .. p + 2
        BY <1>2
      <4> QED
        BY <4>1
    <3> HIDE DEF said, n
    <3> QED
      BY <3>1, <1>2, TurnFits DEF n
  <2> QED
    BY <2>1
<1>4. turns(reads)
  <2> HIDE DEF turns, said
  <2> QED
    BY <1>3
<1>5. ASSUME NEW f, turns(f)
      PROVE  \A p \in 1 .. n + 2 : \A i \in 1 .. p : f[p][i] = FitsFrom(name, p, i)
  <2> DEFINE D == {d \in 0 .. n + 1 : \E i \in 1 .. n + 2 - d :
                     f[n + 2 - d][i] # FitsFrom(name, n + 2 - d, i)}
  <2> HIDE DEF n
  <2>1. \A p \in 1 .. n + 2 : \A i \in 1 .. p : f[p][i] = Turn(name, f, p, i)
    <3> DEFINE g == [p \in 1 .. n + 2 |-> [i \in 1 .. p |-> Turn(name, f, p, i)]]
    <3>1. f = g
      BY <1>5 DEF turns
    <3>2. \A p \in 1 .. n + 2 : \A i \in 1 .. p : g[p][i] = Turn(name, f, p, i)
      OBVIOUS
    <3> HIDE DEF g
    <3> QED
      BY <3>1, <3>2, Zenon
  <2> HIDE DEF turns
  <2>2. SUFFICES ASSUME D # {} PROVE FALSE
    <3> SUFFICES ASSUME D = {}, NEW p \in 1 .. n + 2, NEW i \in 1 .. p
                 PROVE  f[p][i] = FitsFrom(name, p, i)
      OBVIOUS
    <3>1. n + 2 - p \in 0 .. n + 1 /\ n + 2 - (n + 2 - p) = p
      BY <1>2
    <3> QED
      BY <3>1
  <2>3. D \subseteq Nat
    OBVIOUS
  <2> HIDE DEF D
  <2>4. PICK d \in D : \A e \in D : d <= e
    BY <2>2, <2>3, LeastOfSome
  <2>5. /\ d \in 0 .. n + 1
        /\ \E i \in 1 .. n + 2 - d : f[n + 2 - d][i] # FitsFrom(name, n + 2 - d, i)
    BY <2>4 DEF D
  <2> DEFINE p == n + 2 - d
  <2>6. PICK i \in 1 .. p : f[p][i] # FitsFrom(name, p, i)
    BY <2>5
  <2>7. p \in 1 .. n + 2
    BY <1>2, <2>5
  <2>8. ASSUME NEW q \in 1 .. n + 2, q > p, NEW j \in 1 .. q
        PROVE  f[q][j] = FitsFrom(name, q, j)
    <3>1. n + 2 - q \in 0 .. n + 1 /\ n + 2 - q < d /\ n + 2 - (n + 2 - q) = q
      BY <1>2, <2>5, <2>8
    <3>2. n + 2 - q \notin D
      BY <2>4, <3>1, <2>5, <1>2
    <3> QED
      BY <3>1, <3>2 DEF D
  <2> HIDE DEF p
  <2>9. p <= n => /\ f[p + 1][i + 1] = FitsFrom(name, p + 1, i + 1)
                  /\ f[p + 2][i + 1] = FitsFrom(name, p + 2, i + 1)
    <3> SUFFICES ASSUME p <= n
                 PROVE  /\ f[p + 1][i + 1] = FitsFrom(name, p + 1, i + 1)
                        /\ f[p + 2][i + 1] = FitsFrom(name, p + 2, i + 1)
      OBVIOUS
    <3>1. /\ p + 1 \in 1 .. n + 2 /\ p + 2 \in 1 .. n + 2 /\ p + 1 > p /\ p + 2 > p
          /\ i + 1 \in 1 .. p + 1 /\ i + 1 \in 1 .. p + 2
      BY <1>2, <2>7
    <3> QED
      BY <3>1, <2>8
  <2>10. Turn(name, f, p, i) = FitsFrom(name, p, i)
    BY <1>2, <2>7, <2>9, TurnFits DEF n
  <2> QED
    BY <2>1, <2>6, <2>7, <2>10
<1>6. reads[start][1] = FitsFrom(name, start, 1)
  <2> HIDE DEF turns, reads, n
  <2>1. start \in 1 .. n + 2 /\ 1 \in 1 .. start
    BY <1>2
  <2> QED
    BY <2>1, <1>4, <1>5
<1> QED
  BY <1>1, <1>6

(* is_digit takes the names that are digits, with points between them,     *)
(* after a sign, whatever its counter counts (common.c:14-39).             *)
THEOREM NumbersTaken == Spec => []IsDigitTakesNumbers
<1>1. ASSUME NEW n \in Nat, NEW name \in [1 .. n -> {"0", "-", ".", "x"}]
      PROVE  LET start == IF n > 0 /\ name[1] = "-" THEN 2 ELSE 1
             IN  is_digit(name) <=>
                   \A p \in start .. n :
                     \/ name[p] \in Digit
                     \/ name[p] = "." /\ p > start /\ p < n /\ name[p + 1] \in Digit
  <2> DEFINE start == IF n > 0 /\ name[1] = "-" THEN 2 ELSE 1
             fits(p) == \/ name[p] \in Digit
                        \/ name[p] = "." /\ p > start /\ p < n /\ name[p + 1] \in Digit
  <2>1. Len(name) = n
    BY SMT
  <2>2. is_digit(name) = FitsFrom(name, start, 1)
    BY <2>1, IsDigitFits
  <2>3. start \in 1 .. 2
    OBVIOUS
  <2> HIDE DEF start
  <2>4. \A p \in start + 1 .. n : fits(p) <=> Fits(name, p)
    BY <2>1, <2>3 DEF Fits, Digits
  <2>5. start <= n => (fits(start) <=> Digits(name, start))
    BY <2>1, <2>3 DEF Digits
  <2> HIDE DEF fits
  <2>6. start <= n => start .. n = {start} \union (start + 1 .. n)
    BY <2>3
  <2>7. start > n => start .. n = {}
    BY <2>3
  <2>8. (start > n <=> ~(start <= n)) /\ n \in Nat
    BY <2>3
  <2>9. FitsFrom(name, start, 1) <=>
          start > n \/ (Digits(name, start) /\ \A q \in start + 1 .. n : Fits(name, q))
    BY <2>1 DEF FitsFrom
  <2>10. is_digit(name) <=> \A p \in start .. n : fits(p)
    BY <2>2, <2>4, <2>5, <2>6, <2>7, <2>8, <2>9
  <2> QED
    BY <2>10 DEF start, fits
<1>2. IsDigitTakesNumbers
  <2>1. \A n \in 0 .. MaxName : n \in Nat
    BY BoundsAssumption
  <2> QED
    BY <1>1, <2>1 DEF IsDigitTakesNumbers
<1> QED
  BY <1>2, PTL
=============================================================================
