------------------------------ MODULE Reporter ------------------------------
(***************************************************************************)
(* The zsr program: main's reporting loop, the module registry it walks,   *)
(* the three callbacks of every registered module, and the memory and the  *)
(* descriptors they use up.  One action is one call the program makes.     *)
(*                                                                         *)
(* Modules are numbered in the order load_modules registers them, which is *)
(* the order MOD_LIST_HEAD is walked in.  A block of memory is named by    *)
(* the module it was allocated for, the round it was allocated in and a    *)
(* number within the round; round 0 holds the module_t blocks themselves.  *)
(* The contents of a record are abstracted to the round they were read in. *)
(***************************************************************************)
EXTENDS Integers, Sequences, FiniteSets, SequencesExt

CONSTANTS
  Info,       \* Info[m]: how module m keeps its records, and its reader
  Selections, \* the sets of modules the options may leave enabled
  Counts,     \* the values the options may leave in opt_count
  Unreadable, \* modules whose source may be unreadable although descriptors
              \* are left
  FdLimit,    \* how many descriptors the process may hold open
  MaxRounds   \* bound: the rounds of an endless run that are looked at

Mod == DOMAIN Info
N   == Len(Info)

Keeps(m)  == Info[m].keep
Source(m) == Info[m].reader

ReaderType ==
  [ rows : SUBSET Nat, opens : {"none", "closes", "leaks"},
    vital : BOOLEAN, drops : SUBSET Nat,
    crashes : BOOLEAN, relinks : BOOLEAN ]

ASSUME InfoAssumption ==
  /\ Info \in Seq([ keep : {"history", "batches", "single", "latest"},
                    reader : ReaderType ])
  /\ \A m \in Mod : Source(m).relinks => Keeps(m) = "latest"
  /\ N > 0

ASSUME ParameterAssumption ==
  /\ Selections \subseteq SUBSET Mod
  /\ Counts \subseteq Int
  /\ Unreadable \subseteq Mod
  /\ FdLimit \in Nat
  /\ MaxRounds \in Nat

VARIABLES
  pc,          \* where main is
  at,          \* the module main's walk over MOD_LIST_HEAD has come to
  enabled,     \* the modules with enable = 1
  opt_count,   \* main's opt_count
  is_loop,     \* main's is_loop
  i,           \* main's i: the number of the round
  record_list, \* record_list[m]: the records module m keeps
  record,      \* record[m]: the text in m's record buffer
  report,      \* report[m]: the text printed for m in this round
  printed,     \* the number of complete reports printed
  heap,        \* the blocks of memory that are allocated
  fds,         \* the descriptors left open
  status,      \* the exit status, -1 while the program runs
  answered,    \* answered[m]: the last rows m's source delivered (a history
               \* of the environment; the program has no such variable)
  damaged      \* the modules whose reader has linked in a row it had freed
               \* (a history as well)

vars == << pc, at, enabled, opt_count, is_loop, i, record_list, record,
           report, printed, heap, fds, status, answered, damaged >>

walk    == << enabled, opt_count, is_loop, i >>
records == << record_list, answered, damaged >>
texts   == << record, report, printed >>

-----------------------------------------------------------------------------
(* A text is known by the round its rows were read in and by their number. *)

Text  == [from : Nat, rows : Nat]
Blank == [from |-> 0, rows |-> 0]   \* the buffer after memset

(* A record owns blocks; its contents were read in round from (0: never,   *)
(* the block is as memset left it); the rates in it were computed against  *)
(* the contents read in round base (0: no rates were computed).            *)
Block  == Mod \X Nat \X Nat
Record == [blocks : SUBSET Block, from : Nat, rows : Nat, base : Nat]

module_t(m) == <<m, 0, 0>>
malloc(m, ks) == {<<m, i, k>> : k \in ks}

Owned(m) == UNION {record_list[m][j].blocks : j \in DOMAIN record_list[m]}

Init ==
  /\ pc = "load"
  /\ at = 1
  /\ enabled = {}
  /\ opt_count = -1
  /\ is_loop = FALSE
  /\ i = 0
  /\ record_list = [m \in Mod |-> <<>>]
  /\ record = [m \in Mod |-> Blank]
  /\ report = [m \in Mod |-> Blank]
  /\ printed = 0
  /\ heap = {}
  /\ fds = 0
  /\ status = -1
  /\ answered = [m \in Mod |-> Blank]
  /\ damaged = {}

(* The walk over MOD_LIST_HEAD: on to the next module, or to the next part *)
(* of main when the list is done.                                          *)
Advance(next) ==
  IF at < N
  THEN at' = at + 1 /\ UNCHANGED pc
  ELSE at' = 1 /\ pc' = next

Exit(code) ==
  /\ pc' = "exit"
  /\ status' = code

-----------------------------------------------------------------------------
(* Before the first round.                                                 *)

register_mod_fileds ==
  /\ pc = "load"
  /\ heap' = heap \union {module_t(at)}
  /\ Advance("options")
  /\ UNCHANGED << walk, records, texts, fds, status >>

(* The option loop, up to what it leaves behind: some set of modules       *)
(* enabled and some count, or an exit after help or a listing.             *)
ParseOptions ==
  /\ pc = "options"
  /\ \/ /\ \E E \in Selections, c \in Counts :
             /\ enabled' = E
             /\ opt_count' = c
             /\ is_loop' = IF c <= 0 THEN TRUE ELSE FALSE
        /\ pc' = "check"
        /\ UNCHANGED status
     \/ /\ Exit(0)
        /\ UNCHANGED << enabled, opt_count, is_loop >>
  /\ UNCHANGED << at, i, records, texts, heap, fds >>

check_enable_module ==
  /\ pc = "check"
  /\ IF enabled = {} THEN Exit(0) ELSE pc' = "loop" /\ UNCHANGED status
  /\ UNCHANGED << at, walk, records, texts, heap, fds >>

Done_late    == ~is_loop /\ opt_count < 0    \* one report too many
Done_endless == opt_count <= 0               \* is_loop is not looked at

Done == ~is_loop /\ opt_count <= 0

(* The head of the loop.  opt_count is only decremented in a counted run.  *)
LoopHead ==
  /\ pc = "loop"
  /\ IF Done
     THEN /\ pc' = "free"
          /\ opt_count' = opt_count - 1
          /\ UNCHANGED << i, report >>
     ELSE /\ is_loop => i < MaxRounds
          /\ pc' = "collect"
          /\ opt_count' = IF is_loop THEN opt_count ELSE opt_count - 1
          /\ i' = i + 1
          /\ report' = [m \in Mod |-> Blank]
  /\ UNCHANGED << at, enabled, is_loop, records, record, printed, heap, fds,
                  status >>

-----------------------------------------------------------------------------
(* collect_record: every registered module collects in every round, whether *)
(* it is enabled or not.                                                    *)

CanOpen_over(m) == Source(m).opens = "none" \/ fds <= FdLimit

CanOpen(m) == Source(m).opens = "none" \/ fds < FdLimit

(* As if the processors were counted with /proc/diskstats open already.    *)
MayFail_early(m) ==
  /\ Source(m).opens # "none"
  /\ m \in Unreadable \/ fds + 1 >= FdLimit

MayFail(m) ==
  /\ Source(m).opens # "none"
  /\ m \in Unreadable \/ fds = FdLimit

Delivered(n) ==
  answered' = IF n = 0 THEN answered
              ELSE [answered EXCEPT ![at] = [from |-> i, rows |-> n]]

Linked_front(kept, entry) == <<entry>> \o kept      \* list_add

(* The record that rates are computed against: list_last_entry.            *)
Baseline(kept) == IF kept = <<>> THEN 0 ELSE Last(kept).from

(* list_add_tail.                                                          *)
Linked(kept, entry) == Append(kept, entry)

(* The cpu module: an unreadable source leaves the new record as memset    *)
(* left it; from the second round on the rates are computed all the same.  *)
AppendOne(n) ==
  LET kept == record_list[at]
      entry == [ blocks |-> malloc(at, {0}),
                 from |-> IF n = 0 THEN 0 ELSE i,
                 rows |-> 1,
                 base |-> Baseline(kept) ]
  IN  /\ Keeps(at) = "history"
      /\ record_list' = [record_list EXCEPT ![at] = Linked(kept, entry)]
      /\ heap' = heap \union entry.blocks

(* The io and proc modules: a list_list_t that heads the rows, of which d  *)
(* more were allocated than were linked in.                                *)
AppendList(n, d) ==
  LET kept == record_list[at]
      cur_list == [ blocks |-> malloc(at, 0 .. n),
                    from |-> i,
                    rows |-> n,
                    base |-> Baseline(kept) ]
  IN  /\ Keeps(at) = "batches"
      /\ record_list' = [record_list EXCEPT ![at] = Linked(kept, cur_list)]
      /\ heap' = heap \union malloc(at, 0 .. n + d)

(* The modules that keep one record.                                       *)
Refill(n) ==
  LET kept == record_list[at]
      fresh == [ blocks |-> malloc(at, {0}), from |-> 0, rows |-> 1,
                 base |-> 0 ]
      entry == IF kept = <<>> THEN fresh ELSE kept[1]
  IN  /\ Keeps(at) = "single"
      /\ record_list' =
           [record_list EXCEPT ![at] =
              << [entry EXCEPT !.from = IF n = 0 THEN @ ELSE i] >>]
      /\ heap' = heap \union entry.blocks

(* list_del_init of the head of a list takes the head out of the ring of   *)
(* its entries, which nothing points to afterwards.                        *)
list_del_init(kept) == <<>>

(* The modules that keep the last answer; the rows in freed are linked in  *)
(* although their blocks are not allocated any more.                       *)
Replace(n, freed) ==
  LET row(k) == [ blocks |-> malloc(at, {k}), from |-> i, rows |-> 1,
                  base |-> 0 ]
  IN  /\ Keeps(at) = "latest"
      /\ record_list' =
           [record_list EXCEPT ![at] =
              list_del_init(record_list[at]) \o [k \in 1 .. n |-> row(k)]]
      /\ heap' = heap \union malloc(at, (1 .. n) \ freed)

(* As if only the modules that are enabled were asked to collect.          *)
Keep_if_enabled(n, d, freed) ==
  IF at \in enabled
  THEN AppendOne(n) \/ AppendList(n, d) \/ Refill(n) \/ Replace(n, freed)
  ELSE UNCHANGED << record_list, heap >>

Keep(n, d, freed) ==
  \/ AppendOne(n)
  \/ AppendList(n, d)
  \/ Refill(n)
  \/ Replace(n, freed)

collect_record ==
  /\ pc = "collect"
  /\ \/ /\ CanOpen(at)
        /\ \E n \in Source(at).rows, d \in Source(at).drops :
           \E freed \in IF Source(at).relinks THEN SUBSET (1 .. n) ELSE {{}} :
             /\ Keep(n, d, freed) /\ Delivered(n)
             /\ damaged' = IF freed = {} THEN damaged ELSE damaged \union {at}
        /\ fds' = IF Source(at).opens = "leaks" THEN fds + 1 ELSE fds
     \/ /\ MayFail(at)
        /\ Source(at).vital => CanOpen(at)
        /\ Keep(0, 0, {}) /\ Delivered(0)
        /\ UNCHANGED << fds, damaged >>
  /\ Advance("print")
  /\ UNCHANGED << walk, texts, status >>

(* The readers that may bring the process down: ip's frees the node of an  *)
(* address without a name twice, proc's uses the passwd entry of a user    *)
(* who has none.                                                           *)
reader_crash ==
  /\ pc = "collect"
  /\ Source(at).crashes
  /\ CanOpen(at)
  /\ pc' = "crash"
  /\ UNCHANGED << at, walk, records, texts, heap, fds, status >>

(* Once a freed row is linked in, what the program does is undefined: the  *)
(* row may be given out again, be linked in twice, so that a walk writes   *)
(* over the end of the buffer, or be freed again, and the process may die  *)
(* of it at any point.  No block of zsr's but an interface_t is of the     *)
(* row's size, so that the damage stays in the list of that module.        *)
die_of_freed_row ==
  /\ damaged # {}
  /\ pc \in {"loop", "collect", "print", "free", "unload"}
  /\ pc' = "crash"
  /\ UNCHANGED << at, walk, records, texts, heap, fds, status >>

(* The io module's reader counts the processors first, and exits when it   *)
(* cannot.                                                                 *)
get_num_of_cpu ==
  /\ pc = "collect"
  /\ Source(at).vital
  /\ MayFail(at)
  /\ Exit(1)
  /\ UNCHANGED << at, walk, records, texts, heap, fds >>

-----------------------------------------------------------------------------
(* print_mod_record.  The buffer is written from its start and is never    *)
(* cleared: with no row to write it keeps the text of an earlier round.    *)

(* As if list_first_entry were asked for the record to print.              *)
record_to_str_first(m) ==
  LET kept == record_list[m]
  IN  IF kept = <<>> \/ Head(kept).rows = 0
      THEN record[m]
      ELSE [ from |-> Head(kept).from,
             rows |-> IF Keeps(m) = "latest" THEN Len(kept)
                      ELSE Head(kept).rows ]

record_to_str(m) ==
  LET kept == record_list[m]
  IN  IF kept = <<>> \/ Last(kept).rows = 0
      THEN record[m]
      ELSE [ from |-> Last(kept).from,
             rows |-> IF Keeps(m) = "latest" THEN Len(kept)
                      ELSE Last(kept).rows ]

print_mod_record ==
  /\ pc = "print"
  /\ IF at \in enabled
     THEN /\ record' = [record EXCEPT ![at] = record_to_str(at)]
          /\ report' = [report EXCEPT ![at] = record'[at]]
     ELSE UNCHANGED << record, report >>
  /\ Advance("loop")
  /\ printed' = IF at = N THEN printed + 1 ELSE printed
  /\ UNCHANGED << walk, records, heap, fds, status >>

-----------------------------------------------------------------------------
(* After the last round of a counted run.                                  *)

(* The module as well as its records.                                      *)
Freed_module(m) == Owned(m) \union {module_t(m)}

(* As if the modules that keep the last answer had nothing to free.        *)
Freed_but_latest(m) == IF Keeps(m) = "latest" THEN {} ELSE Owned(m)

(* FREE_LIST_HEAD, and the two nested walks of io and proc.                *)
Freed(m) == Owned(m)

(* The lists are freed and not emptied: their heads go on pointing to the  *)
(* freed records.                                                          *)

free_record_list ==
  /\ pc = "free"
  /\ heap' = heap \ Freed(at)
  /\ Advance("unload")
  /\ UNCHANGED << walk, records, texts, fds, status >>

(* A walk that reads the next module from the freed one, and stays there.  *)
FREE_MOD_LIST_HEAD_unsafe ==
  /\ pc = "unload"
  /\ heap' = heap \ {module_t(at)}
  /\ UNCHANGED << pc, at, walk, records, texts, fds, status >>

FREE_MOD_LIST_HEAD ==
  /\ pc = "unload"
  /\ heap' = heap \ {module_t(at)}
  /\ Advance("end")
  /\ status' = IF at = N THEN 0 ELSE status
  /\ UNCHANGED << walk, records, texts, fds >>

Next ==
  \/ register_mod_fileds
  \/ ParseOptions
  \/ check_enable_module
  \/ LoopHead
  \/ collect_record
  \/ reader_crash
  \/ die_of_freed_row
  \/ get_num_of_cpu
  \/ print_mod_record
  \/ free_record_list
  \/ FREE_MOD_LIST_HEAD

Spec == Init /\ [][Next]_vars

(* The program is one thread and sleeps a bounded time between rounds, so  *)
(* it goes on as long as it has something to do.                           *)
FairSpec == Spec /\ WF_vars(Next)

-----------------------------------------------------------------------------
(* Properties.                                                             *)

Running == pc \notin {"exit", "end", "crash"}

(* Every variable keeps to its range, and the lists hold records of blocks *)
(* (module_t's fields and main's locals, tool_zsr.c:117-123).              *)
TypeOK ==
  /\ pc \in { "load", "options", "check", "loop", "collect", "print", "free",
              "unload", "exit", "end", "crash" }
  /\ at \in Mod
  /\ enabled \subseteq Mod
  /\ opt_count \in Int
  /\ is_loop \in BOOLEAN
  /\ i \in Nat
  /\ record_list \in [Mod -> Seq(Record)]
  /\ record \in [Mod -> Text]
  /\ report \in [Mod -> Text]
  /\ printed \in Nat
  /\ heap \subseteq Block
  /\ fds \in 0 .. FdLimit
  /\ status \in {-1, 0, 1}
  /\ answered \in [Mod -> Text]
  /\ damaged \subseteq {m \in Mod : Source(m).relinks}

(* What the program still points to: the module_t blocks from registration *)
(* until the final walk, and the records from collection until freed; and  *)
(* nothing when it has crashed.                                            *)
Registered == IF pc = "load" THEN 1 .. at - 1
              ELSE IF pc = "unload" THEN at .. N
              ELSE IF pc \in {"end", "crash"} THEN {}
              ELSE Mod

Unfreed == IF pc = "free" THEN at .. N
           ELSE IF pc \in {"unload", "end", "crash"} THEN {}
           ELSE Mod

(* No list the program goes on to walk leads to freed memory, and no block *)
(* is reached by way of two records, so that none is freed twice: whatever *)
(* the discipline of a module's callbacks, in every round and half-way     *)
(* through the final clean-up (tool_zsr.c:189-190).  The exception is a    *)
(* module whose reader itself linked in what it had freed, which only ip's *)
(* can (ip.c:51-64).                                                       *)
NoDanglingRecord ==
  /\ \A m \in Registered : module_t(m) \in heap
  /\ \A m \in Unfreed \ damaged :
       Owned(m) \subseteq heap \ {module_t(k) : k \in Mod}
  /\ \A m \in Mod \ damaged : \A j, k \in DOMAIN record_list[m] :
       j # k => record_list[m][j].blocks \cap record_list[m][k].blocks = {}

(* Memory the program has lost track of: rows of a "latest" module from an *)
(* earlier round, and the row an unparsable line of diskstats cost.        *)
Lost(b) ==
  LET m == b[1]  round == b[2]  k == b[3]
  IN  \/ Keeps(m) = "latest" /\ round \in 1 .. i - 1
      \/ /\ Keeps(m) = "batches"
         /\ round \in DOMAIN record_list[m]
         /\ record_list[m][round].rows < k

(* Every allocated block of a living process is reachable, or was lost in  *)
(* one of those two ways: what the last round read is reachable until the  *)
(* clean-up at the end of main frees it, and so are all histories.         *)
HeapAccountedFor ==
  pc # "crash" =>
    \A b \in heap :
      \/ \E m \in Registered : b = module_t(m)
      \/ \E m \in Unfreed : b \in Owned(m)
      \/ Lost(b)

(* What is on the terminal when a round is over.  An enabled module that   *)
(* keeps the last answer or the last list shows the last rows its source   *)
(* delivered, be it in this round or an earlier one; one that refills a    *)
(* record shows the last contents it got; cpu shows this round's, or       *)
(* zeros.  A module that is not enabled shows nothing.  Only what is       *)
(* printed of ip once it has linked in a freed row is anybody's guess.     *)
ReportShowsLastAnswer ==
  (pc = "loop" /\ printed > 0) =>
    \A m \in Mod \ damaged :
      IF m \notin enabled THEN report[m] = Blank
      ELSE CASE Keeps(m) \in {"latest", "batches"} -> report[m] = answered[m]
             [] Keeps(m) = "single" ->
                  report[m] = [from |-> answered[m].from, rows |-> 1]
             [] Keeps(m) = "history" ->
                  /\ report[m].rows = 1
                  /\ report[m].from =
                       IF answered[m].from = printed THEN printed ELSE 0

(* Rates are computed against the round just before, in every module that  *)
(* keeps a history, enabled or not: each round has left one record in it,  *)
(* and the deltas of cpu, io and proc span one interval of the loop and    *)
(* never more (tool_zsr.c:26-29, mod_cpu.c:25-29).                         *)
BaselineIsPreviousRound ==
  \A m \in Mod : Keeps(m) \in {"history", "batches"} =>
    /\ pc = "loop" => Len(record_list[m]) = i
    /\ \A k \in DOMAIN record_list[m] :
         LET r == record_list[m][k]
         IN  /\ r.base = IF k = 1 THEN 0 ELSE record_list[m][k - 1].from
             /\ r.from \in (IF Keeps(m) = "history" THEN {0, k} ELSE {k})

(* A record that is in a history is never changed or taken out, up to the  *)
(* end of the run.                                                         *)
HistoryIsKept ==
  [][\A m \in Mod : Keeps(m) \in {"history", "batches"} =>
       IsPrefix(record_list[m], record_list'[m])]_vars

Leaks == {m \in Mod : Source(m).opens = "leaks"}

(* If the readers that lose descriptors can open their sources, a run only *)
(* exits with status 1 for want of descriptors, and it is lost descriptors *)
(* that are wanting: no run makes more reports than FdLimit allows for,    *)
(* and none exits before, whatever other sources fail.  Where a reader may *)
(* bring the process down, a run may still come to that end at any time    *)
(* (io.c:36-42, cpu.c:95-98).                                              *)
DescriptorsBoundReports ==
  Unreadable \cap Leaks = {} =>
    /\ printed * Cardinality(Leaks) <= FdLimit
    /\ status = 1 => FdLimit < i * Cardinality(Leaks)

(* The stages of ReportLoop.                                               *)
Stage ==
  CASE pc \in {"load", "options", "check"} -> "idle"
    [] pc \in {"loop", "collect", "print"} -> "reporting"
    [] pc \in {"free", "unload", "end"} -> "finished"
    [] pc = "exit" /\ status = 0 -> "quit"
    [] OTHER -> "aborted"

(* opt_count counts down while i counts up, and once below 0 at the end.   *)
Asked ==
  IF is_loop \/ Stage \in {"idle", "quit"} THEN 0
  ELSE IF opt_count < 0 THEN opt_count + i + 1
  ELSE opt_count + i

RL == INSTANCE ReportLoop WITH stage <- Stage, asked <- Asked, made <- printed

(* main's loop, with its count that is tested and decremented in one place *)
(* and its reports that are complete only after two walks over the         *)
(* modules, makes exactly the reports asked for (tool_zsr.c:174-187).      *)
ReportLoopSpec == RL!Spec

(* A counted run comes to an end: main's walks over the modules, the last  *)
(* of which frees what it walks over, all come to theirs.                  *)
CountedRunEnds == (pc = "check" /\ ~is_loop) ~> ~Running

(* An endless run goes from every report to the next, or dies; it never    *)
(* gets to the clean-up.                                                   *)
EndlessRunGoesOn ==
  \A k \in 0 .. MaxRounds - 1 :
    (pc = "loop" /\ is_loop /\ i = k) ~>
      (pc = "loop" /\ printed = k + 1) \/ pc \in {"exit", "crash"}

-----------------------------------------------------------------------------
(* What the documentation and the comments say, and the code does not do.  *)

(* "the value of count determines the number of reports generated"         *)
(* (tool_zsr.c:94-95): a counted run that has begun to report stops after  *)
(* the last of its reports only.                                           *)
CountDeterminesReports ==
  (~is_loop /\ i > 0 /\ ~Running) => (opt_count = -1 /\ printed = i)

(* "only the last query's result is kept" (the comment of mod_who.c:23 and *)
(* of the other four): no rows of an earlier query are left in memory.     *)
OnlyLastAnswerKept ==
  pc = "loop" =>
    \A b \in heap : (Keeps(b[1]) = "latest" /\ b[2] > 0) => b \in Owned(b[1])
=============================================================================
