------------------------------ MODULE Readers ------------------------------
(***************************************************************************)
(* The readers of libzsr from the inside: the walk over a source's entries *)
(* that turns some of them into rows, the block each row is allocated in,  *)
(* the descriptors it takes and the messages it logs.                      *)
(*                                                                         *)
(* A row is a block of memory, and what it shows is what its block was     *)
(* last filled with: the number of an entry of the source, NamesOf it when *)
(* only the names are the entry's and the figures what malloc left, 0 for  *)
(* what memset leaves and Unset for what malloc leaves.  malloc returns    *)
(* any block that is not allocated, a block just freed like any other.     *)
(***************************************************************************)
EXTENDS Logger, Uptime, Sequences, FiniteSets, SequencesExt

CONSTANTS
  Entries,     \* Entries[r]: what the source of reader r may consist of
  Seconds,     \* what /proc/uptime may show
  MaxRows,     \* bound: how many entries a source has
  FdLimit,     \* how many descriptors the process may hold open
  MaxCalls,    \* bound: the calls of readers that are looked at
  MaxName      \* bound: the length of the names is_digit is checked on

Block == 1 .. MaxRows    \* as many as a call takes
NULL  == 0
Unset == -1
NamesOf(entry) == Unset - entry

(* The readers that build a list, each with the fields of an entry that    *)
(* decide what becomes of it.                                              *)
IfAddr     == [family : {"null", "inet", "packet"}, usable : BOOLEAN]
NameServer == [local : BOOLEAN]
MountPoint == [device : BOOLEAN, statfs : BOOLEAN]
Utmp       == [user_process : BOOLEAN]
DiskLine   == [parses : BOOLEAN]
Route      == [default : BOOLEAN, addr : {1, 2}]
DirEntry   == [ name : Seq({"0", "-", ".", "x"}), directory : BOOLEAN,
                lives : BOOLEAN, account : BOOLEAN ]

EntryOf(r) ==
  CASE r \in {"get_ip_addr", "get_network"} -> IfAddr
    [] r = "get_dns"          -> NameServer
    [] r = "read_fs_stat"     -> MountPoint
    [] r = "get_login_user"   -> Utmp
    [] r = "read_io_stat"     -> DiskLine
    [] r = "get_all_proc"     -> DirEntry
    [] r = "get_gateway"      -> Route
    [] r = "read_uptime_stat" -> {}

ListReaders == { "get_ip_addr", "get_network", "get_dns", "read_fs_stat",
                 "get_login_user", "read_io_stat", "get_all_proc" }
Readers     == ListReaders \union {"get_gateway", "read_uptime_stat"}

ASSUME SourcesAssumption ==
  /\ \A r \in Readers : \A s \in Entries[r] :
       s \in Seq(EntryOf(r)) /\ Len(s) <= MaxRows
  /\ Seconds \subseteq Nat

ASSUME BoundsAssumption ==
  /\ MaxRows \in Nat /\ FdLimit \in Nat /\ MaxCalls \in Nat /\ MaxName \in Nat

VARIABLES
  pc,      \* "idle", "entries", "done"; "exit" and "crash" end the process
  calls,   \* the calls made so far
  reader,  \* the reader that is called
  source,  \* the entries of its source
  k,       \* the entry it has come to
  node,    \* its local node
  rows,    \* the list it builds, a sequence of blocks
  heap,    \* the blocks allocated in this call and not freed
  fields,  \* fields[b]: what block b was last filled with
  fds,     \* the descriptors that are open
  gateway, \* the address in the caller's gateway_t
  up,      \* the caller's uptime_t
  before   \* fds and gateway when the reader was called (a history)

memory == << node, rows, heap, fields >>
kept   == << gateway, up >>
vars   == << G_LOG_CONFIG, log_size, pc, calls, reader, source, k, memory, fds,
             kept, before >>

Init ==
  /\ LogInit
  /\ pc = "idle"
  /\ calls = 0
  /\ reader = "none"
  /\ source = << >>
  /\ k = 1
  /\ node = NULL
  /\ rows = << >>
  /\ heap = {}
  /\ fields = [b \in Block |-> Unset]
  /\ fds = 0
  /\ gateway = NULL
  /\ up = set_uptime(0)
  /\ before = [fds |-> 0, gateway |-> NULL]

-----------------------------------------------------------------------------
(* common.c.                                                               *)

Digit == {"0"}

(* As if a sign or a point could be anywhere.                              *)
is_digit_signs(name) ==
  \A p \in DOMAIN name : name[p] \in Digit \union {"-", "."}

(* p is the character s points at; i counts the turns of the loop, each of *)
(* which reads a digit, or a point and a digit, so that i is never ahead of *)
(* p.  len is that of the whole name, the sign included.                   *)
is_digit(name) ==
  LET len == Len(name)
      start == IF len > 0 /\ name[1] = "-" THEN 2 ELSE 1
      digit(p) == p <= len /\ name[p] \in Digit
      reads[p \in 1 .. len + 2] ==
        [i \in 1 .. p |->
          IF p > len THEN TRUE
          ELSE IF name[p] = "."
          THEN i \notin {1, len} /\ digit(p + 1) /\ reads[p + 2][i + 1]
          ELSE digit(p) /\ reads[p + 1][i + 1]]
  IN  reads[start][1]

-----------------------------------------------------------------------------
(* Opening and closing.                                                    *)

(* A message; a log file that cannot be opened ends the process.           *)
Logged(level, next) ==
  \/ /\ ToFile(level) => fds < FdLimit
     /\ _print_log(level)
     /\ pc' = next
  \/ /\ ToFile(level)
     /\ pc' = "exit"
     /\ UNCHANGED << G_LOG_CONFIG, log_size >>

quiet == UNCHANGED << G_LOG_CONFIG, log_size >>

call ==
  /\ pc = "idle" /\ calls < MaxCalls
  /\ \E r \in Readers :
       /\ reader' = r
       /\ source' \in Entries[r]
  /\ calls' = calls + 1
  /\ k' = 1
  /\ node' = NULL
  /\ rows' = << >>
  /\ heap' = {}
  /\ fields' = [b \in Block |-> Unset]
  /\ before' = [fds |-> fds, gateway |-> gateway]
  /\ pc' = "open"
  /\ quiet /\ UNCHANGED << fds, kept >>

open ==
  /\ pc = "open"
  /\ fds < FdLimit
  /\ fds' = fds + 1
  /\ pc' = "entries"
  /\ quiet
  /\ UNCHANGED << calls, reader, source, k, memory, kept, before >>

(* The source cannot be opened, for want of a descriptor or otherwise:     *)
(* some readers say so.                                                    *)
open_fails ==
  /\ pc = "open"
  /\ IF reader \in {"read_fs_stat", "read_io_stat", "get_gateway", "read_uptime_stat"}
     THEN Logged(LOG_ERROR, "done")
     ELSE pc' = "done" /\ quiet
  /\ reader = "read_io_stat" => fds < FdLimit
  /\ UNCHANGED << calls, reader, source, k, memory, fds, kept, before >>

(* read_io_stat's first call.                                              *)
get_num_of_cpu ==
  /\ pc = "open" /\ reader = "read_io_stat"
  /\ Logged(LOG_FATAL, "exit")
  /\ UNCHANGED << calls, reader, source, k, memory, fds, kept, before >>

(* As if endmntent were forgotten.                                         *)
Closes_not_fs(r) == r \notin {"read_io_stat", "read_fs_stat"}

(* read_io_stat does not close what it opened.                             *)
Closes(r) == r # "read_io_stat"

close ==
  /\ pc = "entries" /\ k > Len(source) /\ reader # "read_uptime_stat"
  /\ fds' = IF Closes(reader) THEN fds - 1 ELSE fds
  /\ pc' = "done"
  /\ quiet
  /\ UNCHANGED << calls, reader, source, k, memory, kept, before >>

return ==
  /\ pc = "done"
  /\ pc' = "idle"
  /\ quiet
  /\ reader' = "none" /\ source' = << >> /\ k' = 1
  /\ node' = NULL /\ rows' = << >> /\ heap' = {}
  /\ fields' = [b \in Block |-> Unset]
  /\ UNCHANGED << calls, fds, kept, before >>

-----------------------------------------------------------------------------
(* One entry of a list reader's source.                                    *)

Entry == source[k]

(* Which entries make a row.                                               *)
Takes(r, e) ==
  CASE r = "get_ip_addr"    -> e.family = "inet"
    [] r = "get_network"    -> e.family = "packet" /\ e.usable
    [] r = "get_dns"        -> ~e.local
    [] r = "read_fs_stat"   -> e.device
    [] r = "get_login_user" -> e.user_process
    [] r = "read_io_stat"   -> TRUE
    [] r = "get_all_proc"   -> /\ e.name[1] # "." /\ e.directory
                               /\ is_digit(e.name)

AtEntry(readers) ==
  /\ pc = "entries" /\ k <= Len(source)
  /\ reader \in readers

Next_entry == k' = k + 1 /\ UNCHANGED << calls, reader, source, kept, before >>
Same_entry == UNCHANGED << calls, reader, source, k, kept, before >>

Skip ==
  /\ AtEntry(ListReaders) /\ ~Takes(reader, Entry)
  /\ quiet /\ Next_entry
  /\ UNCHANGED << pc, memory, fds >>

(* As if the row were put in front, with list_add.                         *)
Row_front(what) ==
  \E b \in Block \ heap :
    /\ heap' = heap \union {b}
    /\ fields' = [fields EXCEPT ![b] = what]
    /\ rows' = << b >> \o rows
    /\ node' = NULL

(* malloc, filling in and list_add_tail in one.                            *)
Row(what) ==
  \E b \in Block \ heap :
    /\ heap' = heap \union {b}
    /\ fields' = [fields EXCEPT ![b] = what]
    /\ rows' = Append(rows, b)
    /\ node' = NULL

Plain == AtEntry({"get_network", "get_dns", "get_login_user"}) /\ Takes(reader, Entry)

(* get_network, get_dns, get_login_user.                                   *)
plain_row ==
  /\ Plain
  /\ Row(k)
  /\ quiet /\ Next_entry /\ UNCHANGED << pc, fds >>

(* read_fs_stat: the names come from the mount table, the figures from     *)
(* statfs; no memset, and no figures when statfs fails.                    *)
fs_row ==
  /\ AtEntry({"read_fs_stat"}) /\ Takes(reader, Entry)
  /\ Row(IF Entry.statfs THEN k ELSE NamesOf(k))
  /\ quiet /\ Next_entry /\ UNCHANGED << pc, fds >>

(* get_ip_addr takes a node only if it has none in hand.                   *)
Nodes == IF node = NULL THEN Block \ heap ELSE {node}
Allocated(b) == IF node = NULL THEN heap \union {b} ELSE heap

(* As if the node stayed in hand once it is linked in.                     *)
ip_row_in_hand ==
  /\ AtEntry({"get_ip_addr"}) /\ Takes(reader, Entry) /\ Entry.usable
  /\ \E b \in Nodes :
       /\ heap' = Allocated(b)
       /\ fields' = [fields EXCEPT ![b] = k]
       /\ rows' = Append(rows, b)
       /\ node' = b
  /\ quiet /\ Next_entry /\ UNCHANGED << pc, fds >>

ip_row ==
  /\ AtEntry({"get_ip_addr"}) /\ Takes(reader, Entry) /\ Entry.usable
  /\ \E b \in Nodes :
       /\ heap' = Allocated(b)
       /\ fields' = [fields EXCEPT ![b] = k]
       /\ rows' = Append(rows, b)
  /\ node' = NULL
  /\ quiet /\ Next_entry /\ UNCHANGED << pc, fds >>

(* The address has no name: the node is freed, and stays in hand.  Freed a *)
(* second time it ends the process.                                        *)
ip_unnamed ==
  /\ AtEntry({"get_ip_addr"}) /\ Takes(reader, Entry) /\ ~Entry.usable
  /\ \E b \in Nodes :
       /\ heap' = heap \ {b}
       /\ fields' = [fields EXCEPT ![b] = k]
       /\ node' = b
  /\ pc' = IF node = NULL \/ node \in heap THEN pc ELSE "crash"
  /\ quiet /\ Next_entry /\ UNCHANGED << rows, fds >>

(* read_io_stat and get_all_proc allocate a row, and read /proc/stat for   *)
(* each: a message when no descriptor is left for it.                      *)
read_cpu_stat ==
  /\ AtEntry({"read_io_stat", "get_all_proc"}) /\ Takes(reader, Entry)
  /\ \E b \in Block \ heap :
       /\ node' = b
       /\ heap' = heap \union {b}
       /\ fields' = [fields EXCEPT ![b] = 0]
  /\ IF fds < FdLimit THEN pc' = "node" /\ quiet ELSE Logged(LOG_ERROR, "node")
  /\ Same_entry /\ UNCHANGED << rows, fds >>

Link(what) ==
  /\ fields' = [fields EXCEPT ![node] = what]
  /\ rows' = Append(rows, node)
  /\ node' = NULL
  /\ UNCHANGED heap

io_row ==
  /\ pc = "node" /\ reader = "read_io_stat" /\ Entry.parses
  /\ Link(k)
  /\ pc' = "entries"
  /\ quiet /\ Next_entry /\ UNCHANGED fds

(* The scan ends, with the node in hand and the file open.                 *)
io_unknown ==
  /\ pc = "node" /\ reader = "read_io_stat" /\ ~Entry.parses
  /\ Logged(LOG_FATAL, "done")
  /\ Same_entry /\ UNCHANGED << memory, fds >>

(* store_single_pid_info: the files of a process that has ended, or that   *)
(* no descriptor is left for, are passed over with a message; without one  *)
(* if the process ended when its file was open.                            *)
proc_ended ==
  /\ pc = "node" /\ reader = "get_all_proc"
  /\ \/ (~Entry.lives \/ fds = FdLimit) /\ Logged(LOG_ERROR, "entries")
     \/ ~Entry.lives /\ fds < FdLimit /\ pc' = "entries" /\ quiet
  /\ IF pc' = "entries" THEN Link(0) /\ Next_entry
     ELSE UNCHANGED memory /\ Same_entry
  /\ UNCHANGED fds

(* read_pid_status uses the passwd entry of a user who need not have one.  *)
proc_row ==
  /\ pc = "node" /\ reader = "get_all_proc"
  /\ Entry.lives /\ fds < FdLimit
  /\ IF Entry.account
     THEN pc' = "entries" /\ Link(k) /\ Next_entry
     ELSE pc' = "crash" /\ UNCHANGED memory /\ Same_entry
  /\ quiet /\ UNCHANGED fds

-----------------------------------------------------------------------------
(* The readers that fill in what the caller passes.                        *)

(* As if the walk went on.                                                 *)
route_on ==
  /\ AtEntry({"get_gateway"})
  /\ gateway' = IF Entry.default THEN Entry.addr ELSE gateway
  /\ k' = k + 1
  /\ quiet
  /\ UNCHANGED << pc, calls, reader, source, memory, fds, up, before >>

(* The first default route is taken, and ends the walk.                    *)
route ==
  /\ AtEntry({"get_gateway"})
  /\ gateway' = IF Entry.default THEN Entry.addr ELSE gateway
  /\ k' = IF Entry.default THEN Len(source) + 1 ELSE k + 1
  /\ quiet
  /\ UNCHANGED << pc, calls, reader, source, memory, fds, up, before >>

read_uptime_stat ==
  /\ pc = "entries" /\ reader = "read_uptime_stat"
  /\ \E total_sec \in Seconds : up' = set_uptime(total_sec)
  /\ fds' = fds - 1
  /\ pc' = "done"
  /\ quiet
  /\ UNCHANGED << calls, reader, source, k, memory, gateway, before >>

Next ==
  \/ call \/ open \/ open_fails \/ close \/ return
  \/ get_num_of_cpu
  \/ Skip
  \/ plain_row
  \/ fs_row
  \/ ip_row
  \/ ip_unnamed
  \/ read_cpu_stat
  \/ io_row
  \/ io_unknown
  \/ proc_ended
  \/ proc_row
  \/ route
  \/ read_uptime_stat

Spec == Init /\ [][Next]_vars

-----------------------------------------------------------------------------
(* Properties.                                                             *)

ReportModules == INSTANCE ReportModules

Promised ==
  CASE reader = "get_ip_addr"      -> ReportModules!get_ip_addr
    [] reader = "get_network"      -> ReportModules!get_network
    [] reader = "get_dns"          -> ReportModules!get_dns
    [] reader = "read_fs_stat"     -> ReportModules!read_fs_stat
    [] reader = "get_login_user"   -> ReportModules!get_login_user
    [] reader = "read_io_stat"     -> ReportModules!read_io_stat
    [] reader = "get_all_proc"     -> ReportModules!get_all_proc
    [] reader = "get_gateway"      -> ReportModules!get_gateway
    [] reader = "read_uptime_stat" -> ReportModules!read_uptime_stat

Returned == pc = "done" /\ reader \in ListReaders

(* Whole: the walk came to the end of the source, or to io's bad line.     *)
Walked == k > Len(source) \/ node # NULL

(* An address without a name that another address follows: the second is   *)
(* written into a freed node.                                              *)
Reused ==
  /\ reader = "get_ip_addr"
  /\ \E i, j \in DOMAIN source :
       i < j /\ source[i].family = "inet" /\ ~source[i].usable
       /\ source[j].family = "inet"

RowsOK == IsInjective(rows) /\ Range(rows) \subseteq heap

(* What a reader owes the program, as ReportModules describes it: no more  *)
(* rows, forgotten rows or kept descriptors than that says, rows that are  *)
(* blocks of their own and allocated except from ip, a crash only in ip or *)
(* proc, and an end of the process only in io, whatever the source,        *)
(* whatever cannot be opened and whatever was lost before.  An end for     *)
(* want of a log file, which zsr itself does not write, is                 *)
(* ExitHasCause's (io.c:36-65, ip.c:28-64, proc.c:31-34 and 121-125,       *)
(* log.c:12-13).                                                           *)
KeepsPromise ==
  /\ Returned =>
       /\ Len(rows) \in Promised.rows
       /\ Cardinality(heap \ Range(rows)) \in Promised.drops
       /\ RowsOK \/ Promised.relinks
  /\ pc \in {"done", "idle"} /\ reader # "none" =>
       fds - before.fds \in IF Promised.opens = "leaks" THEN {0, 1} ELSE {0}
  /\ pc = "crash" => Promised.crashes
  /\ pc = "exit" /\ G_LOG_CONFIG.output_to # "file" => Promised.vital

(* A reader only ends the process in io before diskstats is open, or where *)
(* a message that is not filtered was to go to a log file that is not to   *)
(* be had: of a source that was not opened, of a file that no descriptor   *)
(* was left for, of a process that ended, of a line of diskstats that does *)
(* not parse.  No other failure of one entry takes the program down, and   *)
(* with logging off none does (log.c:34-41, 57-63, proc.c:31-34,           *)
(* cpu.c:7-10, 94-97, io.c:36-65).                                         *)
ExitHasCause ==
  LET due(level) == G_LOG_CONFIG.output_to = "file" /\ ~Filtered(level)
      unopened   == fds = before.fds
      starved    == fds >= FdLimit
  IN  pc = "exit" =>
        \/ reader = "read_io_stat" /\ unopened
        \/ /\ due(LOG_ERROR) /\ unopened
           /\ reader \in {"read_fs_stat", "get_gateway", "read_uptime_stat"}
        \/ due(LOG_ERROR) /\ starved /\ reader \in {"read_io_stat", "get_all_proc"}
        \/ due(LOG_ERROR) /\ reader = "get_all_proc" /\ ~source[k].lives
        \/ due(LOG_FATAL) /\ reader = "read_io_stat" /\ ~source[k].parses

(* The entries a reader's rows should show, what the row of one shows, and *)
(* its place among them.  With /proc open, no descriptor may be left for   *)
(* the files of a process.                                                 *)
Read ==
  {j \in DOMAIN source :
     /\ Takes(reader, source[j])
     /\ reader = "get_ip_addr" => source[j].usable
     /\ reader = "read_io_stat" => \A i \in 1 .. j : source[i].parses}

Shown(j) ==
  IF reader = "read_fs_stat" /\ ~source[j].statfs THEN NamesOf(j)
  ELSE IF reader = "get_all_proc" /\ (~source[j].lives \/ before.fds + 1 = FdLimit)
  THEN 0
  ELSE j

Place(j) == Cardinality({i \in Read : i <= j})

(* The rows show the entries they were made of, in order and one for one.  *)
(* The exceptions are ip's rows after an address without a name            *)
(* (ip.c:51-54), file systems that statfs fails for, which show no more    *)
(* of their entry than its names (fs.c:42-47), and processes that have     *)
(* ended, whose rows are all zeros (proc.c:31-34).                         *)
RowsShowTheirEntries ==
  (Returned /\ Walked /\ ~Reused) =>
    /\ Len(rows) = Cardinality(Read)
    /\ \A j \in Read : fields[rows[Place(j)]] = Shown(j)

(* Rows are blocks of their own and allocated, but for those ip makes in a *)
(* freed node; and that takes an address without a name with another       *)
(* behind it (ip.c:28-31, 51-54).                                          *)
RowsAreAllocated ==
  RowsOK \/ Reused

(* A reader only brings the process down where ip frees a node twice, for  *)
(* two addresses without a name and none with a name between them, or      *)
(* where a process's user has no passwd entry (ip.c:51-54, proc.c:121-125).*)
CrashHasCause ==
  LET unnamed(j) == source[j].family = "inet" /\ ~source[j].usable
  IN  pc = "crash" =>
        \/ /\ reader = "get_ip_addr"
           /\ \E i \in 1 .. k - 2 :
                /\ unnamed(i) /\ unnamed(k - 1)
                /\ \A j \in i + 1 .. k - 2 : source[j].family # "inet"
        \/ reader = "get_all_proc" /\ ~source[k].account

(* The gateway is the first default route's, or what it was before where   *)
(* there is none (gateway.c:13-27).                                        *)
GatewayIsFirstDefault ==
  (pc = "done" /\ reader = "get_gateway") =>
    LET j == SelectInSeq(source, LAMBDA e : e.default)
    IN  gateway = IF j = 0 \/ k <= j THEN before.gateway ELSE source[j].addr

(* The parts of the uptime add up to it (uptime.c:14-26).                  *)
UptimeAddsUp == PartsAddUp(up)

(* is_digit takes exactly the names that are digits after an optional      *)
(* sign, with points that have a digit behind them and are not in front:   *)
(* whole numbers and fractions, but also "", "-" and "1.2.3"; its counter  *)
(* falls behind its pointer at each point (common.c:14-39).                *)
IsDigitTakesNumbers ==
  calls = 0 =>
    \A n \in 0 .. MaxName : \A name \in [1 .. n -> {"0", "-", ".", "x"}] :
      LET start == IF n > 0 /\ name[1] = "-" THEN 2 ELSE 1
      IN  is_digit(name) <=>
            \A p \in start .. n :
              \/ name[p] \in Digit
              \/ name[p] = "." /\ p > start /\ p < n /\ name[p + 1] \in Digit
=============================================================================
