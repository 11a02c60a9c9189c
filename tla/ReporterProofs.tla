--------------------------- MODULE ReporterProofs ---------------------------
(***************************************************************************)
(* Proofs about Reporter, for any registry of modules and any parameters:  *)
(* types, the loop, the refinement of ReportLoop and memory safety; then   *)
(* what the modules keep, print and use up, which is the histories of cpu, *)
(* io and proc, the memory of all modules, the texts, and the descriptors  *)
(* that readers leave open.                                                *)
(***************************************************************************)
EXTENDS Reporter, ReportModules, FiniteSetTheorems, TLAPS

LEMMA SeqElement ==
  ASSUME NEW S, NEW s \in Seq(S), NEW k \in DOMAIN s
  PROVE  s[k] \in S
  OBVIOUS

LEMMA ModuleFacts ==
  /\ N \in Nat \ {0}
  /\ Mod = 1 .. N
  /\ 1 \in Mod
  /\ \A m \in Mod :
       /\ Source(m).rows \subseteq Nat
       /\ Source(m).drops \subseteq Nat
       /\ Keeps(m) \in {"history", "batches", "single", "latest"}
       /\ Source(m).relinks => Keeps(m) = "latest"
<1>1. N \in Nat /\ Mod = 1 .. N
  BY InfoAssumption DEF N, Mod
<1>2. N > 0
  BY InfoAssumption
<1>3. \A m \in Mod : Info[m] \in [ keep : {"history", "batches", "single", "latest"},
                    reader : ReaderType ]
  BY InfoAssumption, SeqElement DEF Mod
<1>4. \A m \in Mod : /\ Keeps(m) \in {"history", "batches", "single", "latest"}
                     /\ Source(m) \in ReaderType
  BY <1>3 DEF Keeps, Source
<1> QED
  BY <1>1, <1>2, <1>4, InfoAssumption DEF ReaderType

(* Only a module that keeps the last answer can be damaged.                *)
LEMMA DamagedAreLatest ==
  ASSUME TypeOK, NEW m \in Mod, Keeps(m) # "latest"
  PROVE  m \notin damaged
  BY ModuleFacts DEF TypeOK

(* A crash only takes main from where it is.                               *)
LEMMA Crashes ==
  ASSUME reader_crash \/ die_of_freed_row
  PROVE  /\ pc \in {"loop", "collect", "print", "free", "unload"}
         /\ pc' = "crash"
         /\ UNCHANGED << at, walk, records, texts, heap, fds, status >>
  BY DEF reader_crash, die_of_freed_row

LEMMA AppendElement ==
  ASSUME NEW S, NEW s \in Seq(S), NEW e \in S
  PROVE  Linked(s, e) \in Seq(S)
  BY DEF Linked

LEMMA FunctionIsSeq ==
  ASSUME NEW S, NEW n \in Nat, NEW f \in [1 .. n -> S]
  PROVE  f \in Seq(S)
  OBVIOUS

(* After list_del_init there is only what is added afterwards.             *)
LEMMA Emptied ==
  ASSUME NEW S, NEW s, NEW t \in Seq(S)
  PROVE  list_del_init(s) \o t = t
  BY DEF list_del_init

LEMMA LastElement ==
  ASSUME NEW S, NEW s \in Seq(S), s # <<>>
  PROVE  Last(s) \in S
  BY DEF Last

LEMMA BaselineType ==
  ASSUME NEW s \in Seq(Record)
  PROVE  Baseline(s) \in Nat
<1>1. CASE s = <<>>
  BY <1>1 DEF Baseline
<1>2. CASE s # <<>>
  <2>1. Last(s) \in Record
    BY <1>2, LastElement
  <2> QED
    BY <1>2, <2>1 DEF Baseline, Record
<1> QED
  BY <1>1, <1>2

LEMMA BlockType ==
  ASSUME NEW m \in Mod, i \in Nat, NEW ks \in SUBSET Nat
  PROVE  malloc(m, ks) \in SUBSET Block
  BY DEF malloc, Block

LEMMA AdvanceType ==
  ASSUME TypeOK, NEW next, Advance(next)
  PROVE  at' \in Mod /\ pc' \in {pc, next}
  BY ModuleFacts DEF TypeOK, Advance

(* What a collection draws: the rows delivered, those lost, those freed.   *)
LEMMA Collection ==
  ASSUME TypeOK, collect_record
  PROVE  /\ \E n \in Nat, d \in Nat, freed \in SUBSET Nat :
              /\ Keep(n, d, freed) /\ Delivered(n)
              /\ freed # {} => Source(at).relinks
              /\ damaged' = IF freed = {} THEN damaged ELSE damaged \union {at}
         /\ fds' \in 0 .. FdLimit
<1>0. at \in Mod /\ fds \in 0 .. FdLimit /\ FdLimit \in Nat
  BY ParameterAssumption DEF TypeOK
<1>1. CASE /\ Keep(0, 0, {}) /\ Delivered(0)
           /\ UNCHANGED << fds, damaged >>
  BY <1>0, <1>1
<1>2. CASE /\ CanOpen(at)
           /\ \E n \in Source(at).rows, d \in Source(at).drops :
              \E freed \in IF Source(at).relinks THEN SUBSET (1 .. n) ELSE {{}} :
                /\ Keep(n, d, freed) /\ Delivered(n)
                /\ damaged' = IF freed = {} THEN damaged ELSE damaged \union {at}
           /\ fds' = IF Source(at).opens = "leaks" THEN fds + 1 ELSE fds
  <2>1. PICK n \in Source(at).rows, d \in Source(at).drops :
          \E freed \in IF Source(at).relinks THEN SUBSET (1 .. n) ELSE {{}} :
            /\ Keep(n, d, freed) /\ Delivered(n)
            /\ damaged' = IF freed = {} THEN damaged ELSE damaged \union {at}
    BY <1>2
  <2>2. PICK freed \in IF Source(at).relinks THEN SUBSET (1 .. n) ELSE {{}} :
          /\ Keep(n, d, freed) /\ Delivered(n)
          /\ damaged' = IF freed = {} THEN damaged ELSE damaged \union {at}
    BY <2>1
  <2>3. n \in Nat /\ d \in Nat
    BY <1>0, ModuleFacts
  <2>4. freed \in SUBSET Nat /\ (freed # {} => Source(at).relinks)
    <3>1. CASE Source(at).relinks
      <4>1. freed \in SUBSET (1 .. n) /\ 1 .. n \subseteq Nat
        BY <3>1
      <4> QED
        BY <3>1, <4>1
    <3>2. CASE ~Source(at).relinks
      BY <3>2
    <3> QED
      BY <3>1, <3>2
  <2>5. fds' \in 0 .. FdLimit
    BY <1>0, <1>2 DEF CanOpen
  <2> QED
    BY <2>2, <2>3, <2>4, <2>5
<1> QED
  BY <1>1, <1>2 DEF collect_record

(* What one collection does to the lists and the memory, whatever the      *)
(* discipline of the module.                                               *)
LEMMA KeepType ==
  ASSUME TypeOK, NEW n \in Nat, NEW d \in Nat, NEW freed,
         Keep(n, d, freed), Delivered(n)
  PROVE  /\ record_list' \in [Mod -> Seq(Record)]
         /\ heap' \subseteq Block
         /\ answered' \in [Mod -> Text]
<1> USE DEF TypeOK
<1>1. answered' \in [Mod -> Text]
  BY DEF Delivered, Text
<1>2. record_list[at] \in Seq(Record) /\ Baseline(record_list[at]) \in Nat
  BY BaselineType
<1>3. /\ malloc(at, {0}) \in SUBSET Block
      /\ \A k \in Nat : malloc(at, 0 .. k) \in SUBSET Block
      /\ malloc(at, (1 .. n) \ freed) \in SUBSET Block
      /\ \A k \in Nat : malloc(at, {k}) \in SUBSET Block
  <2>1. \A k \in Nat : /\ 0 .. k \in SUBSET Nat
                       /\ (1 .. k) \ freed \in SUBSET Nat
                       /\ {k} \in SUBSET Nat
    OBVIOUS
  <2> QED
    BY <2>1, BlockType
<1>4. CASE AppendOne(n)
  <2> DEFINE entry == [ blocks |-> malloc(at, {0}),
                        from |-> IF n = 0 THEN 0 ELSE i,
                        rows |-> 1,
                        base |-> Baseline(record_list[at]) ]
  <2>1. /\ record_list' =
             [record_list EXCEPT ![at] = Linked(record_list[at], entry)]
        /\ heap' = heap \union malloc(at, {0})
    BY <1>4 DEF AppendOne
  <2>2. entry \in Record
    BY <1>2, <1>3 DEF Record
  <2>3. Linked(record_list[at], entry) \in Seq(Record)
    BY <1>2, <2>2, AppendElement
  <2> QED
    BY <1>1, <1>3, <2>1, <2>3
<1>5. CASE AppendList(n, d)
  <2> DEFINE entry == [ blocks |-> malloc(at, 0 .. n),
                        from |-> i,
                        rows |-> n,
                        base |-> Baseline(record_list[at]) ]
  <2>1. /\ record_list' =
             [record_list EXCEPT ![at] = Linked(record_list[at], entry)]
        /\ heap' = heap \union malloc(at, 0 .. n + d)
    BY <1>5 DEF AppendList
  <2>2. entry \in Record
    BY <1>2, <1>3 DEF Record
  <2>3. Linked(record_list[at], entry) \in Seq(Record)
    BY <1>2, <2>2, AppendElement
  <2>4. n + d \in Nat
    OBVIOUS
  <2> QED
    BY <1>1, <1>3, <2>1, <2>3, <2>4
<1>6. CASE Refill(n)
  <2> DEFINE fresh == [ blocks |-> malloc(at, {0}), from |-> 0, rows |-> 1,
                        base |-> 0 ]
             entry == IF record_list[at] = <<>> THEN fresh
                      ELSE record_list[at][1]
             filled == [entry EXCEPT !.from = IF n = 0 THEN @ ELSE i]
  <2>1. /\ record_list' = [record_list EXCEPT ![at] = << filled >>]
        /\ heap' = heap \union entry.blocks
    BY <1>6 DEF Refill
  <2>2. entry \in Record
    <3>1. fresh \in Record
      BY <1>3 DEF Record
    <3>2. record_list[at] # <<>> => record_list[at][1] \in Record
      BY <1>2
    <3> QED
      BY <3>1, <3>2
  <2>3. entry.blocks \subseteq Block /\ filled \in Record
    BY <2>2 DEF Record
  <2>4. << filled >> \in Seq(Record)
    BY <2>3
  <2> QED
    BY <1>1, <2>1, <2>3, <2>4
<1>7. CASE Replace(n, freed)
  <2> DEFINE row(k) == [ blocks |-> malloc(at, {k}), from |-> i, rows |-> 1,
                         base |-> 0 ]
             rows == [k \in 1 .. n |-> row(k)]
  <2>1. /\ record_list' =
             [record_list EXCEPT ![at] = list_del_init(record_list[at]) \o rows]
        /\ heap' = heap \union malloc(at, (1 .. n) \ freed)
    BY <1>7 DEF Replace
  <2>2. \A k \in 1 .. n : row(k) \in Record
    <3> TAKE k \in 1 .. n
    <3> k \in Nat
      OBVIOUS
    <3> QED
      BY <1>3 DEF Record
  <2>3. rows \in Seq(Record)
    <3> HIDE DEF row
    <3> QED
      BY <2>2, FunctionIsSeq
  <2>4. list_del_init(record_list[at]) \o rows \in Seq(Record)
    BY <2>3, Emptied
  <2> QED
    BY <1>1, <1>3, <2>1, <2>4
<1> QED
  BY <1>4, <1>5, <1>6, <1>7 DEF Keep

-----------------------------------------------------------------------------

(* Every variable keeps to its range whatever modules are registered, what *)
(* the options say and what the sources answer (tool_zsr.c:116-193).       *)
THEOREM TypeCorrect == Spec => []TypeOK
<1> USE ParameterAssumption, ModuleFacts
<1>1. Init => TypeOK
  <2> SUFFICES ASSUME Init PROVE TypeOK
    OBVIOUS
  <2>1. Blank \in Text /\ <<>> \in Seq(Record)
    BY DEF Blank, Text
  <2>2. /\ record_list \in [Mod -> Seq(Record)]
        /\ record \in [Mod -> Text]
        /\ report \in [Mod -> Text]
        /\ answered \in [Mod -> Text]
    BY <2>1 DEF Init
  <2>3. enabled \subseteq Mod /\ heap \subseteq Block /\ is_loop \in BOOLEAN
    BY DEF Init
  <2>4. /\ at \in Mod /\ fds \in 0 .. FdLimit /\ opt_count \in Int
        /\ damaged \subseteq {m \in Mod : Source(m).relinks}
    BY DEF Init
  <2> QED
    BY <2>2, <2>3, <2>4 DEF Init, TypeOK
<1>2. TypeOK /\ [Next]_vars => TypeOK'
  <2> SUFFICES ASSUME TypeOK, [Next]_vars
               PROVE  TypeOK'
    OBVIOUS
  <2>1. CASE register_mod_fileds
    <3>1. module_t(at) \in Block
      BY DEF TypeOK, module_t, Block
    <3> QED
      BY <2>1, <3>1, AdvanceType
      DEF TypeOK, register_mod_fileds, walk, records, texts
  <2>2. CASE ParseOptions
    <3>1. UNCHANGED << at, i, records, texts, heap, fds >>
      BY <2>2 DEF ParseOptions
    <3>2. CASE Exit(0) /\ UNCHANGED << enabled, opt_count, is_loop >>
      <4>1. pc' = "exit" /\ status' = 0
        BY <3>2 DEF Exit
      <4> QED
        BY <3>1, <3>2, <4>1 DEF TypeOK, records, texts
    <3>3. ASSUME NEW E \in Selections, NEW c \in Counts,
                 enabled' = E,
                 opt_count' = c,
                 is_loop' = IF c <= 0 THEN TRUE ELSE FALSE,
                 pc' = "check",
                 UNCHANGED status
          PROVE  TypeOK'
      <4>1. enabled' \subseteq Mod /\ opt_count' \in Int /\ is_loop' \in BOOLEAN
        BY <3>3
      <4>2. pc' = "check" /\ status' = status
        BY <3>3
      <4> QED
        BY <3>1, <4>1, <4>2 DEF TypeOK, records, texts
    <3> QED
      BY <2>2, <3>2, <3>3 DEF ParseOptions
  <2>3. CASE check_enable_module
    <3>1. pc' \in {"exit", "loop"} /\ status' \in {-1, 0, 1}
      BY <2>3 DEF TypeOK, check_enable_module, Exit
    <3>2. UNCHANGED << at, walk, records, texts, heap, fds >>
      BY <2>3 DEF check_enable_module
    <3> QED
      BY <3>1, <3>2 DEF TypeOK, walk, records, texts
  <2>4. CASE LoopHead
    <3>1. [m \in Mod |-> Blank] \in [Mod -> Text]
      BY DEF Blank, Text
    <3>2. report' \in [Mod -> Text]
      BY <2>4, <3>1 DEF TypeOK, LoopHead
    <3>3. opt_count' \in Int /\ i' \in Nat /\ pc' \in {"free", "collect"}
      BY <2>4 DEF TypeOK, LoopHead
    <3>4. UNCHANGED << at, enabled, is_loop, records, record, printed, heap, fds,
                       status >>
      BY <2>4 DEF LoopHead
    <3> QED
      BY <3>2, <3>3, <3>4 DEF TypeOK, records
  <2>5. CASE collect_record
    <3>1. /\ at' \in Mod /\ pc' \in {pc, "print"}
          /\ UNCHANGED << walk, texts, status >>
      BY <2>5, AdvanceType DEF collect_record
    <3>2. PICK n \in Nat, d \in Nat, freed \in SUBSET Nat :
            /\ Keep(n, d, freed) /\ Delivered(n)
            /\ freed # {} => Source(at).relinks
            /\ damaged' = IF freed = {} THEN damaged ELSE damaged \union {at}
      BY <2>5, Collection
    <3>3. damaged' \subseteq {m \in Mod : Source(m).relinks}
      BY <3>2 DEF TypeOK
    <3>4. fds' \in 0 .. FdLimit
      BY <2>5, Collection
    <3> QED
      BY <3>1, <3>2, <3>3, <3>4, KeepType DEF TypeOK, walk, texts
  <2>6. CASE get_num_of_cpu
    BY <2>6 DEF TypeOK, get_num_of_cpu, Exit, walk, records, texts
  <2>7. CASE print_mod_record
    <3>1. record_to_str(at) \in Text
      <4> DEFINE kept == record_list[at]
      <4>1. kept \in Seq(Record) /\ record[at] \in Text
        BY DEF TypeOK
      <4>2. CASE kept = <<>> \/ Last(kept).rows = 0
        BY <4>1, <4>2 DEF record_to_str
      <4>3. CASE ~(kept = <<>> \/ Last(kept).rows = 0)
        <5>1. Last(kept) \in Record
          BY <4>1, <4>3, LastElement
        <5>2. Len(kept) \in Nat /\ Last(kept).from \in Nat /\ Last(kept).rows \in Nat
          BY <4>1, <5>1 DEF Record
        <5> QED
          BY <4>3, <5>2 DEF record_to_str, Text
      <4> QED
        BY <4>2, <4>3
    <3>2. at' \in Mod /\ pc' \in {pc, "loop"}
      BY <2>7, AdvanceType DEF print_mod_record
    <3>3. record' \in [Mod -> Text] /\ report' \in [Mod -> Text]
      <4>1. CASE at \in enabled
        <5>1. record' = [record EXCEPT ![at] = record_to_str(at)]
          BY <2>7, <4>1 DEF print_mod_record
        <5>2. record' \in [Mod -> Text] /\ record'[at] \in Text
          BY <3>1, <5>1 DEF TypeOK
        <5>3. report' = [report EXCEPT ![at] = record'[at]]
          BY <2>7, <4>1 DEF print_mod_record
        <5> QED
          BY <5>2, <5>3 DEF TypeOK
      <4>2. CASE at \notin enabled
        BY <2>7, <4>2 DEF print_mod_record, TypeOK
      <4> QED
        BY <4>1, <4>2
    <3> QED
      BY <2>7, <3>2, <3>3 DEF print_mod_record, TypeOK, walk, records
  <2>8. CASE free_record_list
    BY <2>8, AdvanceType DEF TypeOK, free_record_list, walk, records, texts
  <2>9. CASE FREE_MOD_LIST_HEAD
    BY <2>9, AdvanceType DEF TypeOK, FREE_MOD_LIST_HEAD, walk, records, texts
  <2>10. CASE reader_crash \/ die_of_freed_row
    BY <2>10, Crashes DEF TypeOK, walk, records, texts
  <2>11. CASE UNCHANGED vars
    BY <2>11 DEF TypeOK, vars
  <2> QED
    BY <2>1, <2>2, <2>3, <2>4, <2>5, <2>6, <2>7, <2>8, <2>9, <2>10, <2>11
    DEF Next
<1> QED
  BY <1>1, <1>2, PTL DEF Spec

(* Where main is in its loop fixes how i, printed and opt_count relate.    *)
LoopInv ==
  /\ pc \in {"load", "options", "check"} => i = 0 /\ printed = 0
  /\ pc = "check" => (is_loop \/ opt_count > 0)
  /\ pc = "loop" => printed = i
  /\ pc \in {"collect", "print"} => i = printed + 1
  /\ (pc \in {"loop", "collect", "print"} /\ ~is_loop) =>
       (opt_count >= 0 /\ opt_count + i > 0)
  /\ pc \in {"free", "unload", "end"} =>
       (printed = i /\ ~is_loop /\ opt_count = -1)
  /\ (pc = "exit" /\ status = 0) => printed = 0
  /\ pc = "exit" => status \in {0, 1}

(* The relation between the counters of main is an invariant.              *)
THEOREM LoopInvariant == Spec => []LoopInv
<1> USE ParameterAssumption, ModuleFacts
<1>1. Init => LoopInv
  BY DEF Init, LoopInv
<1>2. TypeOK /\ LoopInv /\ [Next]_vars => LoopInv'
  <2> SUFFICES ASSUME TypeOK, LoopInv, [Next]_vars
               PROVE  LoopInv'
    OBVIOUS
  <2>0. /\ pc \in { "load", "options", "check", "loop", "collect", "print",
                    "free", "unload", "exit", "end", "crash" }
        /\ opt_count \in Int /\ i \in Nat /\ printed \in Nat
        /\ is_loop \in BOOLEAN /\ status \in {-1, 0, 1}
    BY DEF TypeOK
  <2> USE <2>0 DEF LoopInv
  <2>1. CASE register_mod_fileds
    BY <2>1 DEF register_mod_fileds, Advance, walk, texts
  <2>2. CASE ParseOptions
    <3>1. i' = i /\ printed' = printed /\ pc = "options"
      BY <2>2 DEF ParseOptions, texts
    <3>2. CASE Exit(0)
      BY <3>1, <3>2 DEF Exit
    <3>3. CASE \E c \in Counts :
                 /\ opt_count' = c
                 /\ is_loop' = IF c <= 0 THEN TRUE ELSE FALSE
                 /\ pc' = "check"
      <4>1. is_loop' \/ opt_count' > 0
        BY <3>3
      <4> QED
        BY <3>1, <3>3, <4>1
    <3> QED
      BY <2>2, <3>2, <3>3 DEF ParseOptions
  <2>3. CASE check_enable_module
    BY <2>3 DEF check_enable_module, Exit, walk, texts
  <2>4. CASE LoopHead
    BY <2>4 DEF LoopHead, Done
  <2>5. CASE collect_record
    BY <2>5 DEF collect_record, Advance, walk, texts
  <2>6. CASE get_num_of_cpu
    BY <2>6 DEF get_num_of_cpu, Exit, walk, texts
  <2>7. CASE print_mod_record
    <3>1. at < N \/ at = N
      BY DEF TypeOK
    <3>2. /\ UNCHANGED << walk, status >> /\ Advance("loop") /\ pc = "print"
          /\ printed' = IF at = N THEN printed + 1 ELSE printed
      BY <2>7 DEF print_mod_record
    <3>3. CASE at < N
      BY <3>2, <3>3, ModuleFacts DEF Advance, walk, TypeOK
    <3>4. CASE at = N
      BY <3>2, <3>4, ModuleFacts DEF Advance, walk
    <3> QED
      BY <3>1, <3>3, <3>4
  <2>8. CASE free_record_list
    BY <2>8 DEF free_record_list, Advance, walk, texts
  <2>9. CASE FREE_MOD_LIST_HEAD
    BY <2>9 DEF FREE_MOD_LIST_HEAD, Advance, walk, texts
  <2>10. CASE reader_crash \/ die_of_freed_row
    BY <2>10, Crashes
  <2>11. CASE UNCHANGED vars
    BY <2>11 DEF vars
  <2> QED
    BY <2>1, <2>2, <2>3, <2>4, <2>5, <2>6, <2>7, <2>8, <2>9, <2>10, <2>11
    DEF Next
<1> QED
  BY <1>1, <1>2, TypeCorrect, PTL DEF Spec

-----------------------------------------------------------------------------

(* The reporting loop implements ReportLoop: whatever the modules do, a    *)
(* run makes exactly the reports it was asked for and then finishes, goes  *)
(* on for ever when it was asked for none, or is cut short by an exit or a *)
(* crash, also in the clean-up (tool_zsr.c:171-192).                       *)
THEOREM ImplementsReportLoop == Spec => ReportLoopSpec
<1> USE ParameterAssumption, ModuleFacts
<1>1. Init => RL!Init
  <2> SUFFICES ASSUME Init PROVE RL!Init
    OBVIOUS
  <2>1. Stage = "idle"
    BY DEF Init, Stage
  <2>2. Asked = 0
    BY <2>1 DEF Asked
  <2> QED
    BY <2>1, <2>2 DEF Init, RL!Init
<1>2. /\ TypeOK /\ LoopInv /\ TypeOK' /\ LoopInv'
      /\ [Next]_vars
      => [RL!Next]_(RL!absVars)
  <2> SUFFICES ASSUME TypeOK, LoopInv, TypeOK', LoopInv', [Next]_vars
               PROVE  [RL!Next]_(RL!absVars)
    OBVIOUS
  <2>1. /\ pc \in {"load", "options", "check"} => Stage = "idle"
        /\ pc \in {"loop", "collect", "print"} => Stage = "reporting"
        /\ pc \in {"free", "unload", "end"} => Stage = "finished"
        /\ pc = "exit" /\ status = 0 => Stage = "quit"
        /\ pc = "exit" /\ status = 1 => Stage = "aborted"
        /\ pc = "crash" => Stage = "aborted"
    BY DEF Stage
  <2>2. /\ pc' \in {"load", "options", "check"} => Stage' = "idle"
        /\ pc' \in {"loop", "collect", "print"} => Stage' = "reporting"
        /\ pc' \in {"free", "unload", "end"} => Stage' = "finished"
        /\ pc' = "exit" /\ status' = 0 => Stage' = "quit"
        /\ pc' = "exit" /\ status' = 1 => Stage' = "aborted"
        /\ pc' = "crash" => Stage' = "aborted"
    BY DEF Stage
  <2>3. /\ is_loop \/ Stage \in {"idle", "quit"} => Asked = 0
        /\ ~is_loop /\ Stage \notin {"idle", "quit"} =>
             Asked = IF opt_count < 0 THEN opt_count + i + 1 ELSE opt_count + i
    BY DEF Asked
  <2>4. /\ is_loop' \/ Stage' \in {"idle", "quit"} => Asked' = 0
        /\ ~is_loop' /\ Stage' \notin {"idle", "quit"} =>
             Asked' = IF opt_count' < 0 THEN opt_count' + i' + 1
                      ELSE opt_count' + i'
    BY DEF Asked
  <2> USE DEF TypeOK, LoopInv
  <2>5. SUFFICES \/ RL!Start \/ RL!Quit \/ RL!Report \/ RL!Finish \/ RL!Abort
                 \/ Stage' = Stage /\ Asked' = Asked /\ printed' = printed
    BY DEF RL!Next, RL!absVars
  <2>6. CASE register_mod_fileds
    BY <2>1, <2>2, <2>3, <2>4, <2>6
    DEF register_mod_fileds, Advance, walk, texts
  <2>7. CASE ParseOptions
    <3>1. pc = "options" /\ printed' = printed
      BY <2>7 DEF ParseOptions, texts
    <3>2. pc' = "check" \/ (pc' = "exit" /\ status' = 0)
      BY <2>7 DEF ParseOptions, Exit
    <3> QED
      BY <2>1, <2>2, <2>3, <2>4, <3>1, <3>2 DEF RL!Quit
  <2>8. CASE check_enable_module
    <3>1. /\ pc = "check"
          /\ UNCHANGED << opt_count, is_loop, i, printed >>
      BY <2>8 DEF check_enable_module, walk, texts
    <3>2. CASE pc' = "loop"
      <4>1. Asked' \in Nat
        BY <2>2, <2>4, <3>1, <3>2
      <4> QED
        BY <2>1, <2>2, <3>1, <3>2, <4>1 DEF RL!Start
    <3>3. CASE pc' = "exit" /\ status' = 0
      BY <2>1, <2>2, <2>3, <2>4, <3>1, <3>3 DEF RL!Quit
    <3> QED
      BY <2>8, <3>2, <3>3 DEF check_enable_module, Exit
  <2>9. CASE LoopHead
    <3>1. CASE Done
      <4>1. /\ pc = "loop" /\ pc' = "free"
            /\ ~is_loop /\ ~is_loop' /\ opt_count = 0 /\ opt_count' = -1
            /\ i' = i /\ printed = i /\ printed' = printed
        BY <2>9, <3>1 DEF LoopHead, Done
      <4>2. Stage = "reporting" /\ Stage' = "finished"
        BY <2>1, <2>2, <4>1
      <4>3. Asked = i /\ Asked' = i /\ i # 0
        BY <2>3, <2>4, <4>1, <4>2
      <4> QED
        BY <4>1, <4>2, <4>3 DEF RL!Finish
    <3>2. CASE ~Done
      <4>1. /\ pc = "loop" /\ pc' = "collect"
            /\ is_loop' = is_loop /\ i' = i + 1 /\ printed' = printed
            /\ ~is_loop => opt_count' = opt_count - 1
        BY <2>9, <3>2 DEF LoopHead, Done
      <4>2. Stage = "reporting" /\ Stage' = "reporting"
        BY <2>1, <2>2, <4>1
      <4>3. CASE is_loop
        BY <2>3, <2>4, <4>1, <4>2, <4>3
      <4>4. CASE ~is_loop
        BY <2>3, <2>4, <4>1, <4>2, <4>4
      <4> QED
        BY <4>3, <4>4
    <3> QED
      BY <3>1, <3>2
  <2>10. CASE collect_record
    BY <2>1, <2>2, <2>3, <2>4, <2>10 DEF collect_record, Advance, walk, texts
  <2>11. CASE get_num_of_cpu
    <3>1. /\ pc = "collect" /\ pc' = "exit" /\ status' = 1
          /\ UNCHANGED << opt_count, is_loop, i, printed >>
      BY <2>11 DEF get_num_of_cpu, Exit, walk, texts
    <3>2. Stage = "reporting" /\ Stage' = "aborted"
      BY <2>1, <2>2, <3>1
    <3>3. Asked' = Asked
      BY <2>3, <2>4, <3>1, <3>2
    <3> QED
      BY <3>1, <3>2, <3>3 DEF RL!Abort
  <2>12. CASE print_mod_record
    <3>1. /\ pc = "print" /\ pc' \in {"print", "loop"}
          /\ UNCHANGED << opt_count, is_loop, i >>
      BY <2>12 DEF print_mod_record, Advance, walk
    <3>2. Stage = "reporting" /\ Stage' = "reporting"
      BY <2>1, <2>2, <3>1
    <3>3. Asked' = Asked
      BY <2>3, <2>4, <3>1, <3>2
    <3>4. CASE at = N
      <4>1. printed' = printed + 1
        BY <2>12, <3>4 DEF print_mod_record
      <4>2. Asked = 0 \/ printed < Asked
        BY <2>3, <3>1, <3>2
      <4> QED
        BY <3>2, <3>3, <4>1, <4>2 DEF RL!Report
    <3>5. CASE at # N
      BY <2>12, <3>2, <3>3, <3>5 DEF print_mod_record
    <3> QED
      BY <3>4, <3>5
  <2>13. CASE free_record_list
    BY <2>1, <2>2, <2>3, <2>4, <2>13 DEF free_record_list, Advance, walk, texts
  <2>14. CASE FREE_MOD_LIST_HEAD
    BY <2>1, <2>2, <2>3, <2>4, <2>14 DEF FREE_MOD_LIST_HEAD, Advance, walk, texts
  <2>15. CASE reader_crash \/ die_of_freed_row
    <3>1. /\ pc \in {"loop", "collect", "print", "free", "unload"}
          /\ pc' = "crash"
          /\ UNCHANGED << opt_count, is_loop, i, printed >>
      BY <2>15, Crashes DEF walk, texts
    <3>2. Stage \in {"reporting", "finished"} /\ Stage' = "aborted"
      BY <2>1, <2>2, <3>1
    <3>3. Asked' = Asked
      BY <2>3, <2>4, <3>1, <3>2
    <3> QED
      BY <3>1, <3>2, <3>3 DEF RL!Abort
  <2>16. CASE UNCHANGED vars
    BY <2>16 DEF vars, Stage, Asked
  <2> QED
    BY <2>6, <2>7, <2>8, <2>9, <2>10, <2>11, <2>12, <2>13, <2>14, <2>15, <2>16
    DEF Next
<1> QED
  BY <1>1, <1>2, TypeCorrect, LoopInvariant, PTL DEF Spec, RL!Spec, ReportLoopSpec

-----------------------------------------------------------------------------

(* The inductive form of NoDanglingRecord.  That a block is reached by way *)
(* of one record only is kept because the blocks of a round are named      *)
(* after it, and a module that has yet to collect in this round holds none *)
(* of its blocks.                                                          *)
Collected(m) == IF pc = "collect" /\ m >= at THEN i - 1 ELSE i

Tagged(m, r) == r.blocks \subseteq {m} \X (1 .. Collected(m)) \X Nat

Apart(s) ==
  \A j, k \in DOMAIN s : j # k => s[j].blocks \cap s[k].blocks = {}

HeapInv ==
  /\ \A m \in Registered : module_t(m) \in heap
  /\ \A m \in Unfreed \ damaged : \A j \in DOMAIN record_list[m] :
       record_list[m][j].blocks \subseteq heap
  /\ \A m \in Mod : \A j \in DOMAIN record_list[m] :
       Tagged(m, record_list[m][j])
  /\ \A m \in Mod : Apart(record_list[m])

LEMMA HeapInvSuffices ==
  ASSUME TypeOK, HeapInv
  PROVE  NoDanglingRecord
<1>1. \A m \in Unfreed : m \in Mod
  BY ModuleFacts DEF Unfreed, TypeOK
<1>2. ASSUME NEW m \in Unfreed \ damaged
      PROVE  Owned(m) \subseteq heap \ {module_t(k) : k \in Mod}
  <2> SUFFICES ASSUME NEW j \in DOMAIN record_list[m],
                      NEW b \in record_list[m][j].blocks
               PROVE  b \in heap \ {module_t(k) : k \in Mod}
    BY DEF Owned
  <2>1. b \in heap
    BY DEF HeapInv
  <2>2. b \in {m} \X (1 .. Collected(m)) \X Nat
    BY <1>1 DEF HeapInv, Tagged
  <2>3. b[2] >= 1
    BY <2>2 DEF Collected, TypeOK
  <2> QED
    BY <2>1, <2>3 DEF module_t
<1> QED
  BY <1>2 DEF NoDanglingRecord, HeapInv, Apart

LEMMA FreshBlocks ==
  ASSUME TypeOK, i > 0, NEW ks \in SUBSET Nat
  PROVE  malloc(at, ks) \subseteq {at} \X (1 .. i) \X Nat
  BY DEF TypeOK, malloc

(* One collection allocates what it links in, and links in nothing that    *)
(* another record of the module owns.                                      *)
LEMMA KeepHeap ==
  ASSUME TypeOK, HeapInv, pc = "collect", i > 0,
         NEW n \in Nat, NEW d \in Nat, NEW freed, Keep(n, d, freed)
  PROVE  /\ heap \subseteq heap'
         /\ \A m \in Mod : m # at => record_list'[m] = record_list[m]
         /\ \A j \in DOMAIN record_list'[at] :
              /\ (Keeps(at) = "latest" => freed = {}) =>
                   record_list'[at][j].blocks \subseteq heap'
              /\ record_list'[at][j].blocks \subseteq {at} \X (1 .. i) \X Nat
         /\ Apart(record_list'[at])
<1> DEFINE kept == record_list[at]
<1>1. at \in Mod /\ at \in Unfreed /\ kept \in Seq(Record) /\ i \in Nat
  BY DEF TypeOK, Unfreed
<1>2. \A j \in DOMAIN kept :
        /\ Keeps(at) # "latest" => kept[j].blocks \subseteq heap
        /\ kept[j].blocks \subseteq {at} \X (1 .. i - 1) \X Nat
        /\ kept[j].blocks \subseteq {at} \X (1 .. i) \X Nat
  BY <1>1, ModuleFacts, DamagedAreLatest DEF HeapInv, Tagged, Collected
<1>3. Apart(kept)
  BY <1>1 DEF HeapInv
<1>4. ASSUME NEW e \in Record, NEW ks \in SUBSET Nat,
             Keeps(at) # "latest", e.blocks = malloc(at, ks), e.blocks \subseteq heap',
             heap \subseteq heap',
             record_list' = [record_list EXCEPT ![at] = Linked(kept, e)]
      PROVE  /\ \A m \in Mod : m # at => record_list'[m] = record_list[m]
             /\ \A j \in DOMAIN record_list'[at] :
                  /\ record_list'[at][j].blocks \subseteq heap'
                  /\ record_list'[at][j].blocks \subseteq {at} \X (1 .. i) \X Nat
             /\ Apart(record_list'[at])
  <2>1. record_list'[at] = Append(kept, e)
    BY <1>1, <1>4 DEF Linked, TypeOK
  <2>2. /\ DOMAIN record_list'[at] = DOMAIN kept \union {Len(kept) + 1}
        /\ Len(kept) + 1 \notin DOMAIN kept
        /\ \A j \in DOMAIN kept : record_list'[at][j] = kept[j]
        /\ record_list'[at][Len(kept) + 1] = e
    BY <1>1, <2>1
  <2>3. \A j \in DOMAIN kept : kept[j].blocks \cap e.blocks = {}
    BY <1>1, <1>2, <1>4 DEF malloc
  <2>4. e.blocks \subseteq {at} \X (1 .. i) \X Nat
    BY <1>4, FreshBlocks
  <2>5. Apart(record_list'[at])
    BY <1>3, <2>2, <2>3 DEF Apart
  <2> QED
    BY <1>2, <1>4, <2>2, <2>4, <2>5 DEF TypeOK
<1>5. CASE AppendOne(n)
  <2> DEFINE e == [ blocks |-> malloc(at, {0}),
                    from |-> IF n = 0 THEN 0 ELSE i,
                    rows |-> 1,
                    base |-> Baseline(kept) ]
  <2>1. /\ record_list' = [record_list EXCEPT ![at] = Linked(kept, e)]
        /\ heap' = heap \union malloc(at, {0})
    BY <1>5 DEF AppendOne
  <2>2. {0} \in SUBSET Nat /\ Keeps(at) # "latest"
    BY <1>5 DEF AppendOne
  <2>3. e \in Record
    BY <1>1, <2>2, BaselineType, BlockType DEF Record
  <2>4. e.blocks = malloc(at, {0})
    OBVIOUS
  <2> HIDE DEF e
  <2> QED
    BY <1>4, <2>1, <2>2, <2>3, <2>4
<1>6. CASE AppendList(n, d)
  <2> DEFINE e == [ blocks |-> malloc(at, 0 .. n), from |-> i, rows |-> n,
                    base |-> Baseline(kept) ]
  <2>1. /\ record_list' = [record_list EXCEPT ![at] = Linked(kept, e)]
        /\ heap' = heap \union malloc(at, 0 .. n + d)
    BY <1>6 DEF AppendList
  <2>2. 0 .. n \in SUBSET Nat /\ Keeps(at) # "latest"
    BY <1>6 DEF AppendList
  <2>3. e \in Record
    BY <1>1, <2>2, BaselineType, BlockType DEF Record
  <2>4. malloc(at, 0 .. n) \subseteq malloc(at, 0 .. n + d)
    BY DEF malloc
  <2> QED
    BY <1>4, <2>1, <2>2, <2>3, <2>4
<1>7. CASE Refill(n)
  <2> DEFINE fresh == [ blocks |-> malloc(at, {0}), from |-> 0, rows |-> 1,
                        base |-> 0 ]
             entry == IF kept = <<>> THEN fresh ELSE kept[1]
             filled == [entry EXCEPT !.from = IF n = 0 THEN @ ELSE i]
  <2>0. Keeps(at) # "latest"
    BY <1>7 DEF Refill
  <2>1. /\ record_list' = [record_list EXCEPT ![at] = << filled >>]
        /\ heap' = heap \union entry.blocks
    BY <1>7 DEF Refill
  <2>2. /\ filled.blocks = entry.blocks
        /\ entry.blocks \subseteq {at} \X (1 .. i) \X Nat
    <3>1. CASE kept = <<>>
      BY <3>1, FreshBlocks
    <3>2. CASE kept # <<>>
      <4>1. 1 \in DOMAIN kept /\ kept[1] \in Record
        BY <1>1, <3>2
      <4> QED
        BY <1>2, <2>0, <3>2, <4>1 DEF Record
    <3> QED
      BY <3>1, <3>2
  <2>3. record_list'[at] = << filled >>
    BY <1>1, <2>1 DEF TypeOK
  <2>4. DOMAIN record_list'[at] = {1} /\ record_list'[at][1] = filled
    BY <2>3
  <2> HIDE DEF entry, filled
  <2> QED
    BY <2>1, <2>2, <2>4 DEF Apart, TypeOK
<1>8. CASE Replace(n, freed)
  <2> DEFINE row(k) == [ blocks |-> malloc(at, {k}), from |-> i, rows |-> 1,
                         base |-> 0 ]
             rows == [k \in 1 .. n |-> row(k)]
  <2>1. /\ Keeps(at) = "latest"
        /\ record_list' =
             [record_list EXCEPT ![at] = list_del_init(record_list[at]) \o rows]
        /\ heap' = heap \union malloc(at, (1 .. n) \ freed)
    BY <1>8 DEF Replace
  <2>2. \A k \in 1 .. n : row(k) \in Record
    <3> TAKE k \in 1 .. n
    <3> k \in Nat
      OBVIOUS
    <3> QED
      BY <1>1, BlockType DEF Record
  <2>3. rows \in Seq(Record)
    <3> HIDE DEF row
    <3> QED
      BY <2>2, FunctionIsSeq
  <2>4. record_list'[at] = rows
    BY <1>1, <2>1, <2>3, Emptied DEF TypeOK
  <2>5. /\ DOMAIN rows = 1 .. n
        /\ \A k \in 1 .. n : rows[k].blocks = {<<at, i, k>>}
    BY DEF malloc
  <2>6. freed = {} => \A k \in 1 .. n : <<at, i, k>> \in heap'
    BY <2>1 DEF malloc
  <2>7. \A k \in 1 .. n : <<at, i, k>> \in {at} \X (1 .. i) \X Nat
    BY <1>1
  <2> HIDE DEF rows
  <2>8. Apart(rows)
    BY <2>5 DEF Apart
  <2>9. \A m \in Mod : m # at => record_list'[m] = record_list[m]
    BY <1>1, <2>1 DEF TypeOK
  <2>10. heap \subseteq heap'
    BY <2>1
  <2>11. \A j \in DOMAIN record_list'[at] :
           /\ freed = {} => record_list'[at][j].blocks \subseteq heap'
           /\ record_list'[at][j].blocks \subseteq {at} \X (1 .. i) \X Nat
    BY <2>4, <2>5, <2>6, <2>7
  <2> QED
    BY <2>1, <2>4, <2>8, <2>9, <2>10, <2>11
<1> QED
  BY <1>5, <1>6, <1>7, <1>8 DEF Keep, AppendOne, AppendList, Refill, Replace

(* What the lists lead to is allocated, and named after its module and     *)
(* round, in every round and during both walks of the clean-up             *)
(* (tool_zsr.c:26-34, framework.c:41-49).                                  *)
THEOREM HeapInvariant == Spec => []HeapInv
<1> USE ParameterAssumption, ModuleFacts
<1>1. Init => HeapInv
  <2> SUFFICES ASSUME Init PROVE HeapInv
    OBVIOUS
  <2>1. Registered = {}
    BY DEF Init, Registered
  <2>2. \A m \in Mod : DOMAIN record_list[m] = {}
    BY DEF Init
  <2>3. \A m \in Unfreed : m \in Mod
    BY DEF Init, Unfreed
  <2> QED
    BY <2>1, <2>2, <2>3 DEF HeapInv, Apart
<1>2. TypeOK /\ LoopInv /\ HeapInv /\ [Next]_vars => HeapInv'
  <2> SUFFICES ASSUME TypeOK, LoopInv, HeapInv, [Next]_vars
               PROVE  HeapInv'
    OBVIOUS
  <2>0. at \in 1 .. N /\ i \in Nat /\ Unfreed \subseteq Mod
    BY DEF TypeOK, Unfreed
  <2>a. ASSUME UNCHANGED record_list, heap \subseteq heap', damaged' = damaged,
               Registered' \subseteq Registered, Unfreed' \subseteq Unfreed,
               \A m \in Mod : Collected(m)' \in Nat /\ Collected(m) <= Collected(m)'
        PROVE  HeapInv'
    <3>1. \A m \in Mod : Collected(m) \in Int
      BY <2>0 DEF Collected
    <3>2. \A m \in Mod : 1 .. Collected(m) \subseteq 1 .. Collected(m)'
      BY <2>a, <3>1
    <3>3. \A m \in Mod : \A j \in DOMAIN record_list'[m] :
            Tagged(m, record_list[m][j])'
      BY <2>a, <3>2 DEF HeapInv, Tagged
    <3> QED
      BY <2>a, <3>3 DEF HeapInv, Apart, module_t
  <2>1. CASE register_mod_fileds
    <3>1. /\ pc = "load" /\ pc' \in {"load", "options"}
          /\ UNCHANGED << record_list, damaged, i >>
          /\ heap' = heap \union {module_t(at)}
          /\ Registered = 1 .. at - 1
      BY <2>1 DEF register_mod_fileds, Advance, walk, records, Registered
    <3>2. Registered' = 1 .. at
      BY <2>0, <2>1 DEF register_mod_fileds, Advance, Registered
    <3>3. \A m \in Registered' : module_t(m)' \in heap'
      <4> SUFFICES ASSUME NEW m \in 1 .. at
                   PROVE  module_t(m) \in heap'
        BY <3>2 DEF module_t
      <4>1. CASE m = at
        BY <3>1, <4>1
      <4>2. CASE m # at
        BY <2>0, <3>1, <4>2 DEF HeapInv
      <4> QED
        BY <4>1, <4>2
    <3>4. \A m : Collected(m)' = Collected(m)
      BY <3>1 DEF Collected
    <3>5. Unfreed' = Unfreed
      BY <3>1 DEF Unfreed
    <3>6. \A m \in Mod : \A j \in DOMAIN record_list'[m] :
            Tagged(m, record_list[m][j])'
      BY <3>1, <3>4 DEF HeapInv, Tagged
    <3> QED
      BY <3>1, <3>3, <3>5, <3>6 DEF HeapInv, Apart
  <2>2. CASE ParseOptions
    <3>1. /\ pc = "options" /\ pc' \in {"check", "exit"}
          /\ UNCHANGED << record_list, damaged, heap, i, at >>
      BY <2>2 DEF ParseOptions, Exit, records
    <3> QED
      BY <2>0, <2>a, <3>1 DEF Registered, Unfreed, Collected
  <2>3. CASE check_enable_module
    <3>1. /\ pc = "check" /\ pc' \in {"loop", "exit"}
          /\ UNCHANGED << record_list, damaged, heap, i, at >>
      BY <2>3 DEF check_enable_module, Exit, records, walk
    <3> QED
      BY <2>0, <2>a, <3>1 DEF Registered, Unfreed, Collected
  <2>4. CASE LoopHead
    <3>1. /\ pc = "loop"
          /\ UNCHANGED << record_list, damaged, heap, at >>
          /\ \/ pc' = "free" /\ i' = i
             \/ pc' = "collect" /\ i' = i + 1
      BY <2>4 DEF LoopHead, records
    <3>2. \A m \in Mod : Collected(m)' \in Nat /\ Collected(m) <= Collected(m)'
      BY <2>0, <3>1 DEF Collected
    <3>3. Registered' = Registered
      BY <3>1 DEF Registered
    <3>4. CASE pc' = "collect"
      BY <2>a, <3>1, <3>2, <3>3, <3>4 DEF Unfreed
    <3>5. CASE pc' = "free"
      <4>1. Unfreed = Mod
        BY <3>1 DEF Unfreed
      <4>2. \A m \in Unfreed' : m \in Unfreed
        BY <2>0, <3>1, <3>5, <4>1 DEF Unfreed
      <4>3. \A m \in Mod : Collected(m)' = Collected(m)
        BY <3>1, <3>5 DEF Collected
      <4>4. \A m \in Mod : \A j \in DOMAIN record_list'[m] :
              Tagged(m, record_list[m][j])'
        BY <3>1, <4>3 DEF HeapInv, Tagged
      <4> QED
        BY <3>1, <3>3, <4>2, <4>4 DEF HeapInv, Apart, module_t
    <3> QED
      BY <3>1, <3>4, <3>5
  <2>5. CASE collect_record
    <3>1. /\ pc = "collect" /\ i > 0
          /\ pc' \in {"collect", "print"} /\ i' = i
          /\ pc' = "collect" => at' = at + 1
          /\ pc' = "print" => at = N
      BY <2>0, <2>5 DEF collect_record, Advance, walk, LoopInv, TypeOK
    <3>2. PICK n \in Nat, d \in Nat, freed \in SUBSET Nat :
            /\ Keep(n, d, freed)
            /\ damaged' = IF freed = {} THEN damaged ELSE damaged \union {at}
      BY <2>5, Collection
    <3>3. /\ heap \subseteq heap'
          /\ \A m \in Mod : m # at => record_list'[m] = record_list[m]
          /\ \A j \in DOMAIN record_list'[at] :
               /\ (Keeps(at) = "latest" => freed = {}) =>
                    record_list'[at][j].blocks \subseteq heap'
               /\ record_list'[at][j].blocks \subseteq {at} \X (1 .. i) \X Nat
          /\ Apart(record_list'[at])
      BY <3>1, <3>2, KeepHeap
    <3>4. Registered' = Registered /\ Unfreed' = Mod /\ Unfreed = Mod
      BY <3>1 DEF Registered, Unfreed
    <3>5. /\ \A m \in Mod : m = at => Collected(m)' = i
          /\ \A m \in Mod : m # at => Collected(m) <= Collected(m)'
          /\ \A m \in Mod : Collected(m) \in Int /\ Collected(m)' \in Int
      BY <2>0, <3>1 DEF Collected
    <3>6. \A m \in Mod : \A j \in DOMAIN record_list'[m] :
            Tagged(m, record_list[m][j])'
      <4> SUFFICES ASSUME NEW m \in Mod, NEW j \in DOMAIN record_list'[m]
                   PROVE  record_list'[m][j].blocks
                            \subseteq {m} \X (1 .. Collected(m)') \X Nat
        BY DEF Tagged
      <4>1. CASE m = at
        BY <3>3, <3>5, <4>1
      <4>2. CASE m # at
        <5>1. 1 .. Collected(m) \subseteq 1 .. Collected(m)'
          BY <3>5, <4>2
        <5> QED
          BY <3>3, <4>2, <5>1 DEF HeapInv, Tagged
      <4> QED
        BY <4>1, <4>2
    <3>7. \A m \in Mod \ damaged' : \A j \in DOMAIN record_list'[m] :
            record_list'[m][j].blocks \subseteq heap'
      <4> SUFFICES ASSUME NEW m \in Mod \ damaged', NEW j \in DOMAIN record_list'[m]
                   PROVE  record_list'[m][j].blocks \subseteq heap'
        OBVIOUS
      <4>1. m \notin damaged /\ (m = at => freed = {})
        BY <3>2
      <4> QED
        BY <3>3, <3>4, <4>1 DEF HeapInv
    <3>8. \A m \in Mod : Apart(record_list'[m])
      BY <3>3 DEF HeapInv
    <3> QED
      BY <3>3, <3>4, <3>6, <3>7, <3>8 DEF HeapInv, Apart, module_t
  <2>6. CASE get_num_of_cpu
    <3>1. /\ pc = "collect" /\ pc' = "exit"
          /\ UNCHANGED << record_list, damaged, heap, i, at >>
      BY <2>6 DEF get_num_of_cpu, Exit, records, walk
    <3>2. \A m \in Mod : Collected(m)' \in Nat /\ Collected(m) <= Collected(m)'
      BY <2>0, <3>1 DEF Collected
    <3> QED
      BY <2>a, <3>1, <3>2 DEF Registered, Unfreed
  <2>7. CASE print_mod_record
    <3>1. /\ pc = "print" /\ pc' \in {"print", "loop"}
          /\ UNCHANGED << record_list, damaged, heap, i >>
      BY <2>7 DEF print_mod_record, Advance, records, walk
    <3>2. \A m \in Mod : Collected(m)' \in Nat /\ Collected(m) <= Collected(m)'
      BY <2>0, <3>1 DEF Collected
    <3> QED
      BY <2>a, <3>1, <3>2 DEF Registered, Unfreed
  <2>8. CASE free_record_list
    <3>1. /\ pc = "free" /\ pc' \in {"free", "unload"}
          /\ UNCHANGED << record_list, damaged, i >>
          /\ heap' = heap \ Owned(at)
          /\ Unfreed = at .. N
      BY <2>8 DEF free_record_list, Freed, Advance, records, walk, Unfreed
    <3>2. Unfreed' = at + 1 .. N
      BY <2>0, <2>8 DEF free_record_list, Advance, Unfreed
    <3>3. Registered = Mod /\ Registered' = Mod
      BY <2>0, <2>8 DEF free_record_list, Advance, Registered
    <3>4. \A b \in Owned(at) : b[1] = at /\ b[2] >= 1
      <4> SUFFICES ASSUME NEW j \in DOMAIN record_list[at],
                          NEW b \in record_list[at][j].blocks
                   PROVE  b[1] = at /\ b[2] >= 1
        BY DEF Owned
      <4>1. b \in {at} \X (1 .. i) \X Nat
        BY <2>0, <3>1 DEF HeapInv, Tagged, Collected
      <4> QED
        BY <2>0, <4>1
    <3>5. \A m \in Registered' : module_t(m)' \in heap'
      <4> SUFFICES ASSUME NEW m \in Mod
                   PROVE  module_t(m) \in heap \ Owned(at)
        BY <3>1, <3>3 DEF module_t
      <4>1. module_t(m) \in heap
        BY <3>3 DEF HeapInv
      <4>2. ~(module_t(m)[2] >= 1)
        BY DEF module_t
      <4> QED
        BY <3>4, <4>1, <4>2
    <3>6. \A m \in Unfreed' \ damaged' : \A j \in DOMAIN record_list'[m] :
            record_list'[m][j].blocks \subseteq heap'
      <4> SUFFICES ASSUME NEW m \in (at + 1 .. N) \ damaged,
                          NEW j \in DOMAIN record_list[m],
                          NEW b \in record_list[m][j].blocks
                   PROVE  b \in heap \ Owned(at)
        BY <3>1, <3>2
      <4>1. m \in Unfreed \ damaged /\ m \in Mod /\ m # at
        BY <2>0, <3>1
      <4>2. b \in heap /\ b[1] = m
        BY <4>1 DEF HeapInv, Tagged
      <4> QED
        BY <3>4, <4>1, <4>2
    <3>7. \A m : Collected(m)' = Collected(m)
      BY <3>1 DEF Collected
    <3>8. \A m \in Mod : \A j \in DOMAIN record_list'[m] :
            Tagged(m, record_list[m][j])'
      BY <3>1, <3>7 DEF HeapInv, Tagged
    <3> QED
      BY <3>1, <3>5, <3>6, <3>8 DEF HeapInv, Apart
  <2>9. CASE FREE_MOD_LIST_HEAD
    <3>1. /\ pc = "unload" /\ pc' \in {"unload", "end"}
          /\ UNCHANGED << record_list, damaged, i >>
          /\ heap' = heap \ {module_t(at)}
          /\ Registered = at .. N
      BY <2>9 DEF FREE_MOD_LIST_HEAD, Advance, records, walk, Registered
    <3>2. Registered' \subseteq at + 1 .. N
      BY <2>0, <2>9 DEF FREE_MOD_LIST_HEAD, Advance, Registered
    <3>3. Unfreed' = {}
      BY <3>1 DEF Unfreed
    <3>4. \A m \in Registered' : module_t(m)' \in heap'
      <4> SUFFICES ASSUME NEW m \in at + 1 .. N
                   PROVE  module_t(m) \in heap \ {module_t(at)}
        BY <3>1, <3>2 DEF module_t
      <4>1. m \in Registered /\ m # at
        BY <2>0, <3>1
      <4> QED
        BY <4>1 DEF HeapInv, module_t
    <3>5. \A m : Collected(m)' = Collected(m)
      BY <3>1 DEF Collected
    <3>6. \A m \in Mod : \A j \in DOMAIN record_list'[m] :
            Tagged(m, record_list[m][j])'
      BY <3>1, <3>5 DEF HeapInv, Tagged
    <3> QED
      BY <3>1, <3>3, <3>4, <3>6 DEF HeapInv, Apart
  <2>10. CASE reader_crash \/ die_of_freed_row
    <3>1. /\ pc \in {"loop", "collect", "print", "free", "unload"}
          /\ pc' = "crash"
          /\ UNCHANGED << record_list, damaged, heap, i, at >>
      BY <2>10, Crashes DEF walk, records
    <3>2. \A m \in Mod : Collected(m)' \in Nat /\ Collected(m) <= Collected(m)'
      BY <2>0, <3>1 DEF Collected
    <3>3. Registered' = {} /\ Unfreed' = {}
      BY <3>1 DEF Registered, Unfreed
    <3> QED
      BY <2>a, <3>1, <3>2, <3>3
  <2>11. CASE UNCHANGED vars
    <3>1. Registered' = Registered /\ Unfreed' = Unfreed
      BY <2>11 DEF vars, Registered, Unfreed
    <3>2. \A m : Collected(m)' = Collected(m)
      BY <2>11 DEF vars, Collected
    <3>3. UNCHANGED << record_list, damaged, heap >>
      BY <2>11 DEF vars
    <3>4. \A m \in Mod : \A j \in DOMAIN record_list'[m] :
            Tagged(m, record_list[m][j])'
      BY <3>2, <3>3 DEF HeapInv, Tagged
    <3> QED
      BY <3>1, <3>3, <3>4 DEF HeapInv, Apart, module_t
  <2> QED
    BY <2>1, <2>2, <2>3, <2>4, <2>5, <2>6, <2>7, <2>8, <2>9, <2>10, <2>11
    DEF Next
<1> QED
  BY <1>1, <1>2, TypeCorrect, LoopInvariant, PTL DEF Spec

(* No record list that is still walked leads to freed memory, and nothing  *)
(* is freed twice, for any registry, but for the list of a module whose    *)
(* reader has linked in a row it had freed, as ip's may: every collection  *)
(* discipline, every round and both clean-up walks (tool_zsr.c:26-34,      *)
(* framework.c:41-49, ip.c:51-64).                                         *)
THEOREM NoDangling == Spec => []NoDanglingRecord
<1>1. TypeOK /\ HeapInv => NoDanglingRecord
  BY HeapInvSuffices
<1> QED
  BY <1>1, TypeCorrect, HeapInvariant, PTL

-----------------------------------------------------------------------------

(* The modules whose records are a history.                                *)
Historic == {m \in Mod : Keeps(m) \in {"history", "batches"}}

LEMMA AppendFacts ==
  ASSUME NEW S, NEW s \in Seq(S), NEW e \in S
  PROVE  /\ Append(s, e) \in Seq(S)
         /\ Len(Append(s, e)) = Len(s) + 1
         /\ DOMAIN Append(s, e) = DOMAIN s \union {Len(s) + 1}
         /\ Len(s) + 1 \notin DOMAIN s
         /\ \A k \in DOMAIN s : Append(s, e)[k] = s[k]
         /\ Append(s, e)[Len(s) + 1] = e
  OBVIOUS

LEMMA PrefixOfItself ==
  ASSUME NEW S, NEW s \in Seq(S)
  PROVE  IsPrefix(s, s)
  BY DEF IsPrefix

LEMMA PrefixOfAppended ==
  ASSUME NEW S, NEW s \in Seq(S), NEW e \in S
  PROVE  IsPrefix(s, Append(s, e))
<1>1. Len(s) <= Len(Append(s, e))
  OBVIOUS
<1>2. SubSeq(s, 1, Len(s)) = SubSeq(Append(s, e), 1, Len(s))
  OBVIOUS
<1> QED
  BY <1>1, <1>2 DEF IsPrefix

(* What the io and proc modules and the cpu module append to a history:    *)
(* the record of round i, that rates were computed for against the last.   *)
Appended(e, n) ==
  /\ e \in Record
  /\ e.base = Baseline(record_list[at])
  /\ Keeps(at) = "history" =>
       e.from \in {0, i} /\ e.blocks = malloc(at, {0})
  /\ Keeps(at) = "batches" =>
       e.from = i /\ e.rows = n /\ e.blocks = malloc(at, 0 .. n)

LEMMA HistoryGrows ==
  ASSUME TypeOK, at \in Historic, NEW n \in Nat, NEW d \in Nat, NEW freed,
         Keep(n, d, freed)
  PROVE  \E e : /\ Appended(e, n)
                /\ record_list' =
                     [record_list EXCEPT ![at] = Append(record_list[at], e)]
                /\ heap' = heap \union
                     IF Keeps(at) = "history" THEN malloc(at, {0})
                     ELSE malloc(at, 0 .. n + d)
<1>1. /\ Keeps(at) \in {"history", "batches"}
      /\ record_list[at] \in Seq(Record) /\ Baseline(record_list[at]) \in Nat
      /\ at \in Mod /\ i \in Nat
  BY BaselineType DEF TypeOK, Historic
<1>2. CASE AppendOne(n)
  <2> DEFINE e == [ blocks |-> malloc(at, {0}),
                    from |-> IF n = 0 THEN 0 ELSE i,
                    rows |-> 1,
                    base |-> Baseline(record_list[at]) ]
  <2>1. /\ Keeps(at) = "history"
        /\ record_list' =
             [record_list EXCEPT ![at] = Append(record_list[at], e)]
        /\ heap' = heap \union malloc(at, {0})
    BY <1>2 DEF AppendOne, Linked
  <2>2. {0} \in SUBSET Nat
    OBVIOUS
  <2>3. e \in Record
    BY <1>1, <2>2, BlockType DEF Record
  <2>4. Appended(e, n)
    BY <2>1, <2>3 DEF Appended
  <2> QED
    BY <2>1, <2>4
<1>3. CASE AppendList(n, d)
  <2> DEFINE e == [ blocks |-> malloc(at, 0 .. n), from |-> i, rows |-> n,
                    base |-> Baseline(record_list[at]) ]
  <2>1. /\ Keeps(at) = "batches"
        /\ record_list' =
             [record_list EXCEPT ![at] = Append(record_list[at], e)]
        /\ heap' = heap \union malloc(at, 0 .. n + d)
    BY <1>3 DEF AppendList, Linked
  <2>2. 0 .. n \in SUBSET Nat
    OBVIOUS
  <2>3. e \in Record
    BY <1>1, <2>2, BlockType DEF Record
  <2>4. Appended(e, n)
    BY <2>1, <2>3 DEF Appended
  <2> QED
    BY <2>1, <2>4
<1> QED
  BY <1>1, <1>2, <1>3 DEF Keep, Refill, Replace

(* A collection only touches the list of the module it is made for.        *)
LEMMA OthersKeep ==
  ASSUME TypeOK, NEW n, NEW d, NEW freed, Keep(n, d, freed)
  PROVE  \A m \in Mod : m # at => record_list'[m] = record_list[m]
  BY DEF Keep, AppendOne, AppendList, Refill, Replace, TypeOK

(* What collect_record does to the walk and to the lists.                  *)
LEMMA Collects ==
  ASSUME TypeOK, LoopInv, collect_record
  PROVE  /\ pc = "collect" /\ i > 0 /\ at \in Mod
         /\ i' = i /\ enabled' = enabled
         /\ \/ pc' = "collect" /\ at' = at + 1 /\ at < N
            \/ pc' = "print" /\ at' = 1 /\ at = N
         /\ \E n \in Nat, d \in Nat, freed \in SUBSET Nat :
              Keep(n, d, freed) /\ Delivered(n)
  BY ModuleFacts, Collection DEF collect_record, Advance, walk, LoopInv, TypeOK

(* Only collect_record changes a list.                                     *)
LEMMA ListsRest ==
  ASSUME [Next]_vars, ~collect_record
  PROVE  UNCHANGED << record_list, answered >>
  BY DEF Next, vars, register_mod_fileds, ParseOptions, check_enable_module,
     LoopHead, reader_crash, die_of_freed_row, get_num_of_cpu,
     print_mod_record, free_record_list, FREE_MOD_LIST_HEAD, records

-----------------------------------------------------------------------------

(* A record in a history is never changed or taken out, whatever modules   *)
(* are registered and however often any of them fails                      *)
(* (mod_cpu.c:31, mod_io.c:47, mod_proc.c:41).                             *)
THEOREM HistoryStays == Spec => HistoryIsKept
<1>1. TypeOK /\ LoopInv /\ [Next]_vars =>
        [\A m \in Mod : Keeps(m) \in {"history", "batches"} =>
           IsPrefix(record_list[m], record_list'[m])]_vars
  <2> SUFFICES ASSUME TypeOK, LoopInv, [Next]_vars,
                      NEW m \in Mod, m \in Historic
               PROVE  IsPrefix(record_list[m], record_list'[m])
    BY DEF Historic
  <2>0. record_list[m] \in Seq(Record)
    BY DEF TypeOK
  <2>1. CASE record_list'[m] = record_list[m]
    BY <2>0, <2>1, PrefixOfItself
  <2>2. CASE collect_record /\ m = at
    <3>1. PICK n \in Nat, d \in Nat, freed \in SUBSET Nat : Keep(n, d, freed)
      BY <2>2, Collects
    <3>2. PICK e : /\ Appended(e, n)
                   /\ record_list' = [record_list EXCEPT
                                        ![at] = Append(record_list[at], e)]
      BY <2>2, <3>1, HistoryGrows
    <3>3. record_list'[m] = Append(record_list[m], e) /\ e \in Record
      BY <2>2, <3>2 DEF TypeOK, Appended
    <3> QED
      BY <2>0, <3>3, PrefixOfAppended
  <2>3. CASE collect_record /\ m # at
    <3>1. PICK n \in Nat, d \in Nat, freed \in SUBSET Nat : Keep(n, d, freed)
      BY <2>3, Collects
    <3> QED
      BY <2>1, <2>3, <3>1, OthersKeep
  <2> QED
    BY <2>1, <2>2, <2>3, ListsRest
<1> QED
  BY <1>1, TypeCorrect, LoopInvariant, PTL DEF Spec, HistoryIsKept

-----------------------------------------------------------------------------

(* The inductive form of BaselineIsPreviousRound: a history has one record *)
(* for every round the module has collected in, so that the last record is *)
(* the last round's; and a round starts with the first module.             *)
Chained(m, s) ==
  \A k \in DOMAIN s :
    /\ s[k].base = IF k = 1 THEN 0 ELSE s[k - 1].from
    /\ s[k].from \in (IF Keeps(m) = "history" THEN {0, k} ELSE {k})

HistoryInv ==
  /\ \A m \in Historic : Chained(m, record_list[m])
  /\ pc \in {"options", "check", "loop"} => at = 1
  /\ pc \notin {"exit", "crash"} =>
       \A m \in Historic : Len(record_list[m]) = Collected(m)

LEMMA ChainGrows ==
  ASSUME NEW m \in Historic, NEW s \in Seq(Record), NEW e \in Record,
         Chained(m, s), e.base = Baseline(s),
         e.from \in (IF Keeps(m) = "history" THEN {0, Len(s) + 1}
                     ELSE {Len(s) + 1})
  PROVE  Chained(m, Append(s, e))
<1> DEFINE t == Append(s, e)
<1>1. /\ DOMAIN t = DOMAIN s \union {Len(s) + 1}
      /\ \A k \in DOMAIN s : t[k] = s[k]
      /\ t[Len(s) + 1] = e
  BY AppendFacts
<1>2. DOMAIN s = 1 .. Len(s) /\ Len(s) \in Nat
  OBVIOUS
<1>3. ASSUME NEW k \in DOMAIN s
      PROVE  k = 1 \/ k - 1 \in DOMAIN s
  BY <1>2
<1>4. e.base = IF Len(s) + 1 = 1 THEN 0 ELSE t[Len(s)].from
  <2>1. CASE s = <<>>
    BY <2>1 DEF Baseline
  <2>2. CASE s # <<>>
    <3>1. Len(s) \in DOMAIN s /\ Last(s) = s[Len(s)]
      BY <2>2 DEF Last
    <3> QED
      BY <1>1, <1>2, <2>2, <3>1 DEF Baseline
  <2> QED
    BY <2>1, <2>2
<1> HIDE DEF t
<1>5. ASSUME NEW k \in DOMAIN s
      PROVE  /\ t[k].base = IF k = 1 THEN 0 ELSE t[k - 1].from
             /\ t[k].from \in (IF Keeps(m) = "history" THEN {0, k} ELSE {k})
  BY <1>1, <1>3 DEF Chained
<1>6. /\ t[Len(s) + 1].base =
           IF Len(s) + 1 = 1 THEN 0 ELSE t[(Len(s) + 1) - 1].from
      /\ t[Len(s) + 1].from \in
           (IF Keeps(m) = "history" THEN {0, Len(s) + 1} ELSE {Len(s) + 1})
  <2>1. (Len(s) + 1) - 1 = Len(s)
    BY <1>2
  <2> QED
    BY <1>1, <1>4, <2>1
<1>7. Chained(m, t)
  BY <1>1, <1>5, <1>6 DEF Chained
<1> QED
  BY <1>7 DEF t

(* Outside of a collection the histories stay what they are.               *)
LEMMA HistoryRests ==
  ASSUME TypeOK, LoopInv, HistoryInv, [Next]_vars, ~collect_record
  PROVE  HistoryInv'
<1>0. at \in 1 .. N /\ i \in Nat
  BY ModuleFacts DEF TypeOK
<1>1. record_list' = record_list
  BY ListsRest
<1>2. \A m \in Historic : Chained(m, record_list'[m])
  BY <1>1 DEF HistoryInv
<1>3. pc' \in {"options", "check", "loop"} => at' = 1
  BY <1>0 DEF HistoryInv, Next, vars, register_mod_fileds, ParseOptions,
     check_enable_module, LoopHead, reader_crash, die_of_freed_row,
     get_num_of_cpu, Exit, Advance,
     print_mod_record, free_record_list, FREE_MOD_LIST_HEAD
<1>4. ASSUME pc' \notin {"exit", "crash"}, NEW m \in Mod
      PROVE  pc \notin {"exit", "crash"} /\ Collected(m)' = Collected(m)
  <2>1. m \in 1 .. N
    BY ModuleFacts
  <2>2. CASE LoopHead
    <3>1. at = 1 /\ at' = 1 /\ pc = "loop"
      BY <2>2 DEF LoopHead, HistoryInv
    <3>2. \/ pc' = "free" /\ i' = i
          \/ pc' = "collect" /\ i' = i + 1
      BY <2>2 DEF LoopHead
    <3> QED
      BY <1>0, <2>1, <3>1, <3>2 DEF Collected
  <2>3. CASE ~LoopHead
    <3>1. i' = i
      BY <2>3 DEF Next, vars, register_mod_fileds, ParseOptions,
         check_enable_module, reader_crash, die_of_freed_row, get_num_of_cpu,
         print_mod_record, free_record_list, FREE_MOD_LIST_HEAD, walk
    <3>2. /\ pc \notin {"exit", "crash"}
          /\ pc = "collect" => pc' = pc /\ at' = at
          /\ pc # "collect" => pc' # "collect"
      BY <1>4, <2>3 DEF Next, vars, register_mod_fileds, ParseOptions,
         check_enable_module, reader_crash, die_of_freed_row, get_num_of_cpu,
         Exit, Advance,
         print_mod_record, free_record_list, FREE_MOD_LIST_HEAD
    <3> QED
      BY <1>4, <2>3, <3>1, <3>2 DEF Collected
  <2> QED
    BY <2>2, <2>3
<1> QED
  BY <1>1, <1>2, <1>3, <1>4 DEF HistoryInv, Historic

(* A collection appends the record of its round to the module's history.   *)
LEMMA HistoryCollects ==
  ASSUME TypeOK, LoopInv, HistoryInv, collect_record
  PROVE  HistoryInv'
<1>1. /\ pc = "collect" /\ i > 0 /\ at \in 1 .. N /\ i' = i /\ i \in Nat
      /\ \/ pc' = "collect" /\ at' = at + 1 /\ at < N
         \/ pc' = "print" /\ at' = 1 /\ at = N
      /\ Mod = 1 .. N
  BY Collects, ModuleFacts DEF TypeOK
<1>2. PICK n \in Nat, d \in Nat, freed \in SUBSET Nat : Keep(n, d, freed)
  BY Collects
<1>3. /\ \A m \in Mod : m # at => Collected(m)' = Collected(m)
      /\ Collected(at) = i - 1
      /\ \A m \in Mod : m = at => Collected(m)' = i
  BY <1>1 DEF Collected
<1>4. \A m \in Mod : m # at => record_list'[m] = record_list[m]
  BY <1>2, OthersKeep
<1>5. ASSUME NEW m \in Historic, m = at
      PROVE  Len(record_list'[m]) = i /\ Chained(m, record_list'[m])
  <2> DEFINE s == record_list[m]
  <2>1. s \in Seq(Record) /\ m \in Mod
    BY <1>1, <1>5 DEF TypeOK
  <2>2. Len(s) = i - 1 /\ Chained(m, s)
    BY <1>1, <1>3, <1>5 DEF HistoryInv
  <2>3. PICK e : /\ Appended(e, n)
                 /\ record_list' = [record_list EXCEPT
                                      ![at] = Append(record_list[at], e)]
    BY <1>2, <1>5, HistoryGrows
  <2>4. record_list'[m] = Append(s, e)
    BY <1>5, <2>1, <2>3 DEF TypeOK
  <2>5. e \in Record /\ e.base = Baseline(s)
    BY <1>5, <2>3 DEF Appended
  <2>6. e.from \in (IF Keeps(m) = "history" THEN {0, Len(s) + 1}
                    ELSE {Len(s) + 1})
    <3>1. Len(s) + 1 = i
      BY <1>1, <2>2
    <3>2. Keeps(m) = "history" => e.from \in {0, i}
      BY <1>5, <2>3 DEF Appended
    <3>3. Keeps(m) = "batches" => e.from = i
      BY <1>5, <2>3 DEF Appended
    <3> QED
      BY <3>1, <3>2, <3>3 DEF Historic
  <2> HIDE DEF s
  <2>7. Len(Append(s, e)) = i
    BY <1>1, <2>1, <2>2, <2>5, AppendFacts
  <2>8. Chained(m, Append(s, e))
    BY <2>1, <2>2, <2>5, <2>6, ChainGrows
  <2> QED
    BY <2>4, <2>7, <2>8
<1>6. ASSUME NEW m \in Historic
      PROVE  /\ Len(record_list'[m]) = Collected(m)'
             /\ Chained(m, record_list'[m])
  <2>1. CASE m = at
    BY <1>3, <1>5, <2>1 DEF Historic
  <2>2. CASE m # at
    <3>1. record_list'[m] = record_list[m] /\ Collected(m)' = Collected(m)
      BY <1>3, <1>4, <2>2 DEF Historic
    <3>2. Len(record_list[m]) = Collected(m) /\ Chained(m, record_list[m])
      BY <1>1 DEF HistoryInv
    <3> QED
      BY <3>1, <3>2
  <2> QED
    BY <2>1, <2>2
<1>7. pc' \notin {"options", "check", "loop"}
  BY <1>1
<1>8. \A m \in Historic : (Len(record_list[m]) = Collected(m))'
  BY <1>6
<1> QED
  BY <1>6, <1>7, <1>8 DEF HistoryInv, Historic

THEOREM HistoryInvariant == Spec => []HistoryInv
<1>1. Init => HistoryInv
  <2> SUFFICES ASSUME Init PROVE HistoryInv
    OBVIOUS
  <2>1. /\ \A m \in Mod : record_list[m] = <<>>
        /\ pc = "load" /\ i = 0
    BY DEF Init
  <2>2. \A m \in Historic : Len(record_list[m]) = Collected(m)
    BY <2>1 DEF Historic, Collected
  <2> QED
    BY <2>1, <2>2 DEF HistoryInv, Historic, Chained
<1>2. TypeOK /\ LoopInv /\ HistoryInv /\ [Next]_vars => HistoryInv'
  BY HistoryRests, HistoryCollects
<1> QED
  BY <1>1, <1>2, TypeCorrect, LoopInvariant, PTL DEF Spec

(* The rates of cpu, io and proc are computed against the round just       *)
(* before, and every round leaves one record, enabled or not and whatever  *)
(* fails (tool_zsr.c:26-29, mod_cpu.c:25-31, mod_io.c:42-47,               *)
(* mod_proc.c:36-41).                                                      *)
THEOREM BaselineHolds == Spec => []BaselineIsPreviousRound
<1>1. HistoryInv => BaselineIsPreviousRound
  <2> SUFFICES ASSUME HistoryInv, NEW m \in Historic
               PROVE  /\ pc = "loop" => Len(record_list[m]) = i
                      /\ Chained(m, record_list[m])
    BY DEF BaselineIsPreviousRound, Historic, Chained
  <2>1. pc = "loop" => Collected(m) = i
    BY DEF Collected
  <2> QED
    BY <2>1 DEF HistoryInv
<1> QED
  BY <1>1, HistoryInvariant, PTL

-----------------------------------------------------------------------------

(* A block the program can still reach, or has lost in a known way.        *)
Accounted(b) ==
  \/ \E m \in Registered : b = module_t(m)
  \/ \E m \in Unfreed : b \in Owned(m)
  \/ Lost(b)

(* The inductive form of HeapAccountedFor: a module that refills a record  *)
(* has one record at most, so that no second one can go astray.            *)
MemoryInv ==
  /\ pc # "crash" => \A b \in heap : Accounted(b)
  /\ \A m \in Mod : Keeps(m) = "single" => Len(record_list[m]) <= 1

(* What was lost stays lost while the lists stay what they are.            *)
LEMMA LostRests ==
  ASSUME TypeOK, record_list' = record_list, i' \in {i, i + 1},
         NEW b, Lost(b)
  PROVE  Lost(b)'
<1>1. ASSUME NEW j \in Nat, NEW k \in Nat, j <= k
      PROVE  1 .. j - 1 \subseteq 1 .. k - 1
  BY <1>1
<1>2. i \in Nat /\ i' \in Nat /\ i <= i'
  BY DEF TypeOK
<1>3. 1 .. i - 1 \subseteq 1 .. i' - 1
  BY <1>1, <1>2
<1> QED
  BY <1>3 DEF Lost

(* Outside of a collection nothing is lost: registration and the two walks *)
(* of the clean-up account for what they allocate and free.                *)
LEMMA MemoryRests ==
  ASSUME TypeOK, HistoryInv, MemoryInv, [Next]_vars, ~collect_record
  PROVE  MemoryInv'
<1>0. at \in 1 .. N /\ i \in Nat /\ Mod = 1 .. N /\ N \in Nat
  BY ModuleFacts DEF TypeOK
<1>1. record_list' = record_list
  BY ListsRest
<1>2. i' \in {i, i + 1}
  BY DEF Next, vars, register_mod_fileds, ParseOptions, check_enable_module,
     LoopHead, reader_crash, die_of_freed_row, get_num_of_cpu,
     print_mod_record, free_record_list, FREE_MOD_LIST_HEAD, walk
<1>3. \A m : Owned(m)' = Owned(m)
  BY <1>1 DEF Owned
<1>4. \A b : Lost(b) => Lost(b)'
  BY <1>1, <1>2, LostRests
<1>5. SUFFICES ASSUME pc' # "crash", NEW b \in heap'
               PROVE  Accounted(b)'
  BY <1>1 DEF MemoryInv
<1>a. ~reader_crash /\ ~die_of_freed_row /\ pc # "crash"
  BY <1>5 DEF Next, vars, register_mod_fileds, ParseOptions,
     check_enable_module, LoopHead, reader_crash, die_of_freed_row,
     get_num_of_cpu, print_mod_record, free_record_list, FREE_MOD_LIST_HEAD
<1>b. b \in heap => Accounted(b)
  BY <1>a DEF MemoryInv
<1>6. CASE register_mod_fileds
  <2>1. /\ heap' = heap \union {module_t(at)}
        /\ pc = "load" /\ pc' \in {"load", "options"}
        /\ Registered = 1 .. at - 1
    BY <1>6 DEF register_mod_fileds, Advance, Registered
  <2>2. Registered' = 1 .. at
    BY <1>0, <1>6 DEF register_mod_fileds, Advance, Registered
  <2>3. Unfreed' = Unfreed
    BY <2>1 DEF Unfreed
  <2>4. CASE b = module_t(at)
    BY <1>0, <2>2, <2>4 DEF Accounted, module_t
  <2>5. CASE b \in heap
    <3>1. Accounted(b)
      BY <1>b, <2>5
    <3>2. \A m \in Registered : m \in Registered'
      BY <1>0, <2>1, <2>2
    <3> QED
      BY <1>3, <1>4, <2>3, <3>1, <3>2 DEF Accounted, module_t
  <2> QED
    BY <2>1, <2>4, <2>5
<1>7. CASE free_record_list
  <2>1. /\ heap' = heap \ Owned(at)
        /\ Unfreed = at .. N
        /\ Registered = Mod
    BY <1>7 DEF free_record_list, Freed, Unfreed, Registered
  <2>2. Unfreed' = at + 1 .. N
    BY <1>0, <1>7 DEF free_record_list, Advance, Unfreed
  <2>3. Registered' = Mod
    BY <1>0, <1>7 DEF free_record_list, Advance, Registered
  <2>4. b \in heap /\ b \notin Owned(at) /\ Accounted(b)
    BY <1>b, <2>1
  <2>5. \A m \in Unfreed : m # at => m \in Unfreed'
    BY <1>0, <2>1, <2>2
  <2> QED
    BY <1>3, <1>4, <2>1, <2>3, <2>4, <2>5 DEF Accounted, module_t
<1>8. CASE FREE_MOD_LIST_HEAD
  <2>1. /\ heap' = heap \ {module_t(at)}
        /\ Registered = at .. N
        /\ Unfreed = {}
    BY <1>8 DEF FREE_MOD_LIST_HEAD, Registered, Unfreed
  <2>2. \A m \in Registered : m # at => m \in Registered'
    BY <1>0, <1>8, <2>1 DEF FREE_MOD_LIST_HEAD, Advance, Registered
  <2>3. b \in heap /\ b # module_t(at) /\ Accounted(b)
    BY <1>b, <2>1
  <2> QED
    BY <1>3, <1>4, <2>1, <2>2, <2>3 DEF Accounted, module_t
<1>9. CASE ~(register_mod_fileds \/ free_record_list \/ FREE_MOD_LIST_HEAD)
  <2>1. heap' = heap
    BY <1>9, <1>a DEF Next, vars, ParseOptions, check_enable_module, LoopHead,
       get_num_of_cpu, print_mod_record
  <2>2. Registered' = Registered
    BY <1>0, <1>9, <1>a
    DEF Next, vars, ParseOptions, check_enable_module, LoopHead,
       get_num_of_cpu, print_mod_record, Exit, Advance, Registered
  <2>3. Unfreed \subseteq Unfreed'
    <3>1. CASE LoopHead
      <4>1. at' = 1 /\ pc = "loop" /\ pc' \in {"free", "collect"}
        BY <3>1 DEF LoopHead, HistoryInv
      <4> QED
        BY <1>0, <4>1 DEF Unfreed
    <3>2. CASE ~LoopHead
      BY <1>0, <1>9, <1>a, <3>2
      DEF Next, vars, ParseOptions, check_enable_module, get_num_of_cpu,
          print_mod_record, Exit, Advance, Unfreed
    <3> QED
      BY <3>1, <3>2
  <2>4. Accounted(b)
    BY <1>b, <2>1
  <2> QED
    BY <1>3, <1>4, <2>2, <2>3, <2>4 DEF Accounted, module_t
<1> QED
  BY <1>6, <1>7, <1>8, <1>9

(* A record that joins a history owns all that was allocated for it, but   *)
(* for a row of the unparsable line, which is lost.                        *)
LEMMA HistoryAccounts ==
  ASSUME TypeOK, LoopInv, HistoryInv, MemoryInv, pc = "collect", i > 0,
         at \in Historic, NEW n \in Nat, NEW d \in Nat, NEW freed,
         Keep(n, d, freed), i' = i,
         Registered' = Registered, Unfreed = Mod, Unfreed' = Mod,
         NEW b \in heap'
  PROVE  Accounted(b)'
<1>0. i \in Nat /\ at \in Mod /\ record_list[at] \in Seq(Record)
  BY DEF TypeOK
<1>1. PICK e : /\ Appended(e, n)
               /\ record_list' = [record_list EXCEPT
                                    ![at] = Append(record_list[at], e)]
               /\ heap' = heap \union
                    IF Keeps(at) = "history" THEN malloc(at, {0})
                    ELSE malloc(at, 0 .. n + d)
  BY HistoryGrows
<1>2. record_list'[at] = Append(record_list[at], e) /\ e \in Record
  BY <1>0, <1>1 DEF Appended, TypeOK
<1>3. Len(record_list[at]) = i - 1
  BY <1>0, ModuleFacts DEF HistoryInv, Collected
<1>4. /\ DOMAIN record_list'[at] = DOMAIN record_list[at] \union {i}
      /\ \A k \in DOMAIN record_list[at] :
           record_list'[at][k] = record_list[at][k]
      /\ record_list'[at][i] = e
  BY <1>0, <1>2, <1>3, AppendFacts
<1>5. \A m \in Mod : m # at => record_list'[m] = record_list[m]
  BY <1>1 DEF TypeOK
<1>6. CASE b \in heap
  <2>1. Accounted(b)
    BY <1>6 DEF MemoryInv
  <2>2. ASSUME NEW m \in Mod, b \in Owned(m)
        PROVE  b \in Owned(m)'
    BY <1>4, <1>5, <2>2 DEF Owned
  <2>3. Lost(b) => Lost(b)'
    <3>1. b \in Block
      BY <1>6 DEF TypeOK
    <3>2. b[1] \in Mod
      BY <3>1 DEF Block
    <3> QED
      BY <1>0, <1>4, <1>5, <3>2 DEF Lost
  <2> QED
    BY <2>1, <2>2, <2>3 DEF Accounted, module_t
<1>7. CASE b \in e.blocks
  BY <1>0, <1>4, <1>7 DEF Accounted, Owned
<1>8. CASE Keeps(at) = "batches" /\ b \in malloc(at, 0 .. n + d)
  <2>1. PICK k \in 0 .. n + d : b = <<at, i, k>>
    BY <1>8 DEF malloc
  <2>2. e.blocks = malloc(at, 0 .. n) /\ e.rows = n
    BY <1>1, <1>8 DEF Appended
  <2>3. CASE k <= n
    <3>1. k \in 0 .. n
      BY <2>3
    <3>2. b \in e.blocks
      BY <2>1, <2>2, <3>1 DEF malloc
    <3> QED
      BY <1>7, <3>2
  <2>4. CASE n < k
    <3>1. Lost(b)'
      BY <1>0, <1>4, <1>8, <2>1, <2>2, <2>4 DEF Lost
    <3> QED
      BY <3>1 DEF Accounted
  <2> QED
    BY <2>3, <2>4
<1>9. Keeps(at) = "history" => e.blocks = malloc(at, {0})
  BY <1>1 DEF Appended
<1> QED
  BY <1>0, <1>1, <1>6, <1>7, <1>8, <1>9 DEF Historic

LEMMA OneElement ==
  ASSUME NEW S, NEW s \in Seq(S), s # <<>>, Len(s) <= 1
  PROVE  DOMAIN s = {1}
<1>1. Len(s) \in Nat /\ DOMAIN s = 1 .. Len(s)
  OBVIOUS
<1>2. Len(s) # 0
  OBVIOUS
<1> QED
  BY <1>1, <1>2

(* The one record of a module that refills it keeps its block.             *)
LEMMA RefillAccounts ==
  ASSUME TypeOK, MemoryInv, pc = "collect", NEW n \in Nat, Refill(n), i' = i,
         Registered' = Registered, Unfreed = Mod, Unfreed' = Mod
  PROVE  /\ \A b \in heap' : Accounted(b)'
         /\ Len(record_list'[at]) = 1
<1> DEFINE kept == record_list[at]
           fresh == [ blocks |-> malloc(at, {0}), from |-> 0, rows |-> 1,
                      base |-> 0 ]
           entry == IF kept = <<>> THEN fresh ELSE kept[1]
           filled == [entry EXCEPT !.from = IF n = 0 THEN @ ELSE i]
<1>0. at \in Mod /\ kept \in Seq(Record) /\ Keeps(at) = "single"
  BY DEF TypeOK, Refill
<1>1. /\ record_list' = [record_list EXCEPT ![at] = << filled >>]
      /\ heap' = heap \union entry.blocks
  BY DEF Refill
<1>2. filled.blocks = entry.blocks
  <2>1. CASE kept = <<>>
    BY <2>1
  <2>2. CASE kept # <<>>
    <3>1. kept[1] \in Record
      BY <1>0, <2>2
    <3> QED
      BY <2>2, <3>1 DEF Record
  <2> QED
    BY <2>1, <2>2
<1> HIDE DEF filled
<1>3. record_list'[at] = << filled >>
  BY <1>0, <1>1 DEF TypeOK
<1>4. \A m \in Mod : m # at => record_list'[m] = record_list[m]
  BY <1>0, <1>1 DEF TypeOK
<1>5. kept # <<>> => DOMAIN kept = {1}
  <2>1. Len(kept) <= 1
    BY <1>0 DEF MemoryInv
  <2> HIDE DEF kept
  <2> QED
    BY <1>0, <2>1, OneElement
<1>6. /\ DOMAIN record_list'[at] = {1}
      /\ record_list'[at][1].blocks = entry.blocks
  BY <1>2, <1>3
<1>7. ASSUME NEW b \in entry.blocks
      PROVE  \E m \in Mod : b \in Owned(m)'
  BY <1>0, <1>6 DEF Owned
<1>8. ASSUME NEW m \in Mod, NEW b \in Owned(m)
      PROVE  \E k \in Mod : b \in Owned(k)'
  <2>1. CASE m # at
    BY <1>4, <2>1 DEF Owned
  <2>2. CASE m = at
    <3>1. PICK j \in DOMAIN kept : b \in kept[j].blocks
      BY <2>2 DEF Owned
    <3>2. kept # <<>> /\ j = 1
      BY <1>0, <1>5
    <3> QED
      BY <1>7, <3>1, <3>2
  <2> QED
    BY <2>1, <2>2
<1> HIDE DEF entry, kept
<1>9. ASSUME NEW b \in heap, Accounted(b)
      PROVE  Accounted(b)'
  <2>1. b[1] \in Mod
    BY <1>9 DEF TypeOK, Block
  <2>2. Lost(b) => Lost(b)'
    BY <1>0, <1>4, <2>1 DEF Lost
  <2> QED
    BY <1>8, <1>9, <2>2 DEF Accounted, module_t
<1>10. Len(record_list'[at]) = 1
  BY <1>3
<1>11. \A b \in entry.blocks : Accounted(b)'
  BY <1>7 DEF Accounted
<1> QED
  BY <1>1, <1>9, <1>10, <1>11 DEF MemoryInv

(* The rows that list_del_init takes out of a list are lost.               *)
LEMMA ReplaceAccounts ==
  ASSUME TypeOK, HeapInv, MemoryInv, pc = "collect",
         NEW n \in Nat, NEW freed, Replace(n, freed), i' = i,
         Registered' = Registered, Unfreed = Mod, Unfreed' = Mod,
         NEW b \in heap'
  PROVE  Accounted(b)'
<1> DEFINE row(k) == [ blocks |-> malloc(at, {k}), from |-> i, rows |-> 1,
                       base |-> 0 ]
           rows == [k \in 1 .. n |-> row(k)]
<1>0. at \in Mod /\ Keeps(at) = "latest" /\ i \in Nat
  BY DEF TypeOK, Replace
<1>1. /\ record_list' =
           [record_list EXCEPT ![at] = list_del_init(record_list[at]) \o rows]
      /\ heap' = heap \union malloc(at, (1 .. n) \ freed)
  BY DEF Replace
<1>2. rows \in Seq(Record)
  <2>1. \A k \in 1 .. n : row(k) \in Record
    <3> TAKE k \in 1 .. n
    <3> k \in Nat
      OBVIOUS
    <3> QED
      BY <1>0, BlockType DEF Record
  <2> HIDE DEF row
  <2> QED
    BY <2>1, FunctionIsSeq
<1>3. record_list'[at] = rows
  BY <1>0, <1>1, <1>2, Emptied DEF TypeOK
<1>4. \A m \in Mod : m # at => record_list'[m] = record_list[m]
  BY <1>0, <1>1 DEF TypeOK
<1>5. CASE b \in heap
  <2>1. Accounted(b) /\ b[1] \in Mod
    BY <1>5 DEF MemoryInv, TypeOK, Block
  <2>2. Lost(b) => Lost(b)'
    BY <1>0, <1>4, <2>1 DEF Lost
  <2>3. ASSUME NEW m \in Mod, m # at, b \in Owned(m)
        PROVE  b \in Owned(m)'
    BY <1>4, <2>3 DEF Owned
  <2>4. ASSUME b \in Owned(at)
        PROVE  Lost(b)'
    <3>1. PICK j \in DOMAIN record_list[at] : b \in record_list[at][j].blocks
      BY <2>4 DEF Owned
    <3>2. b \in {at} \X (1 .. Collected(at)) \X Nat
      BY <1>0, <3>1 DEF HeapInv, Tagged
    <3>3. b[1] = at /\ b[2] \in 1 .. i - 1
      BY <1>0, <3>2, ModuleFacts DEF Collected
    <3> QED
      BY <1>0, <3>3 DEF Lost
  <2> QED
    BY <2>1, <2>2, <2>3, <2>4 DEF Accounted, module_t
<1>6. CASE b \in malloc(at, (1 .. n) \ freed)
  <2>1. PICK k \in 1 .. n : b = <<at, i, k>>
    BY <1>6 DEF malloc
  <2>2. DOMAIN rows = 1 .. n /\ rows[k].blocks = {b}
    BY <2>1 DEF malloc
  <2> HIDE DEF rows
  <2>3. \E m \in Mod : b \in Owned(m)'
    BY <1>0, <1>3, <2>1, <2>2 DEF Owned
  <2> QED
    BY <2>3 DEF Accounted
<1> QED
  BY <1>1, <1>5, <1>6

LEMMA MemoryCollects ==
  ASSUME TypeOK, LoopInv, HeapInv, HistoryInv, MemoryInv, collect_record
  PROVE  MemoryInv'
<1>1. /\ pc = "collect" /\ i > 0 /\ at \in Mod /\ i' = i
      /\ pc' \in {"collect", "print"}
  BY Collects
<1>2. Registered' = Registered /\ Unfreed = Mod /\ Unfreed' = Mod
  BY <1>1 DEF Registered, Unfreed
<1>3. PICK n \in Nat, d \in Nat, freed \in SUBSET Nat : Keep(n, d, freed)
  BY Collects
<1>4. \A b \in heap' : Accounted(b)'
  <2>1. CASE at \in Historic
    BY <1>1, <1>2, <1>3, <2>1, HistoryAccounts
  <2>2. CASE Refill(n)
    BY <1>1, <1>2, <2>2, RefillAccounts
  <2>3. CASE Replace(n, freed)
    BY <1>1, <1>2, <2>3, ReplaceAccounts
  <2> QED
    BY <1>1, <1>3, <2>1, <2>2, <2>3
    DEF Keep, AppendOne, AppendList, Historic
<1>5. ASSUME NEW m \in Mod, Keeps(m) = "single"
      PROVE  Len(record_list'[m]) <= 1
  <2>1. CASE m # at
    BY <1>3, <1>5, <2>1, OthersKeep DEF MemoryInv
  <2>2. CASE m = at
    <3>1. Refill(n)
      BY <1>3, <1>5, <2>2 DEF Keep, AppendOne, AppendList, Replace
    <3>2. Len(record_list'[at]) = 1
      BY <1>1, <1>2, <3>1, RefillAccounts
    <3> QED
      BY <2>2, <3>2
  <2> QED
    BY <2>1, <2>2
<1> QED
  BY <1>4, <1>5 DEF MemoryInv

THEOREM MemoryInvariant == Spec => []MemoryInv
<1>1. Init => MemoryInv
  BY DEF Init, MemoryInv
<1>2. TypeOK /\ LoopInv /\ HeapInv /\ HistoryInv /\ MemoryInv /\ [Next]_vars
        => MemoryInv'
  BY MemoryRests, MemoryCollects
<1> QED
  BY <1>1, <1>2, TypeCorrect, LoopInvariant, HeapInvariant, HistoryInvariant,
     PTL DEF Spec

(* As long as the process lives, every allocated block is reachable, or    *)
(* was lost in one of the two ways Lost names: what the last round read,   *)
(* and all histories, stay reachable until the clean-up frees them,        *)
(* whatever modules are registered and whatever fails (mod_who.c:21,       *)
(* io.c:63-66, tool_zsr.c:31-34).                                          *)
THEOREM MemoryAccounted == Spec => []HeapAccountedFor
<1>1. MemoryInv => HeapAccountedFor
  BY DEF MemoryInv, Accounted, HeapAccountedFor
<1> QED
  BY <1>1, MemoryInvariant, PTL

-----------------------------------------------------------------------------
(* What is printed.                                                        *)

(* The text module m has to print in this round.                           *)
Target(m) ==
  IF Keeps(m) \in {"latest", "batches"} THEN answered[m]
  ELSE IF Keeps(m) = "single" THEN [from |-> answered[m].from, rows |-> 1]
  ELSE [from |-> IF answered[m].from = i THEN i ELSE 0, rows |-> 1]

(* Module m has collected in this round and has yet to print.              *)
ToPrint(m) ==
  \/ pc = "collect" /\ m < at
  \/ pc = "print" /\ m >= at

(* Module m has printed in the round that is, or has just been, made.      *)
HasPrinted(m) ==
  \/ pc = "print" /\ m < at
  \/ pc = "loop" /\ i > 0

(* The record of a module that refills it holds its source's last answer.  *)
Refilled(m) ==
  Keeps(m) = "single" =>
    \/ record_list[m] = <<>> /\ answered[m].from = 0
    \/ /\ record_list[m] # <<>>
       /\ Len(record_list[m]) = 1
       /\ record_list[m][1].rows = 1
       /\ record_list[m][1].from = answered[m].from

Alive == pc \notin {"exit", "crash"}

(* The inductive form of ReportShowsLastAnswer.  Between two of its prints *)
(* a module's buffer may be older than the last answer, but only from the  *)
(* collection of a round up to its print: whenever it collects and gets    *)
(* nothing, the buffer holds the answer before.                            *)
TextInv ==
  \A m \in Mod :
    /\ Alive => answered[m].from <= Collected(m)
    /\ Refilled(m)
    /\ (m \in enabled /\ ToPrint(m)) => record_to_str(m) = Target(m)
    /\ ( /\ Keeps(m) \in {"latest", "batches"}
         /\ m \in enabled \/ pc \in {"load", "options", "check"}
         /\ ~ToPrint(m) /\ Alive )
       => record[m] = answered[m]
    /\ (pc = "collect" \/ (pc = "print" /\ m >= at)) => report[m] = Blank
    /\ HasPrinted(m) =>
         report[m] = IF m \in enabled THEN Target(m) ELSE Blank

LEMMA LastOfAppended ==
  ASSUME NEW S, NEW s \in Seq(S), NEW e \in S
  PROVE  Append(s, e) # <<>> /\ Last(Append(s, e)) = e
  BY DEF Last

LEMMA RowsOfList ==
  ASSUME NEW S, NEW n \in Nat, NEW f \in [1 .. n -> S]
  PROVE  /\ Len(f) = n
         /\ n = 0 => f = <<>>
         /\ n > 0 => f # <<>> /\ Last(f) = f[n]
<1>1. f \in Seq(S) /\ DOMAIN f = 1 .. n
  OBVIOUS
<1>2. Len(f) = n
  BY <1>1
<1>3. n = 0 => f = <<>>
  BY <1>1, <1>2
<1>4. n > 0 => f # <<>>
  BY <1>1, <1>2
<1> QED
  BY <1>2, <1>3, <1>4 DEF Last

(* What the collection of the module in turn leaves to be printed.         *)
LEMMA CollectedText ==
  ASSUME TypeOK, TextInv, pc = "collect", i > 0, i' = i,
         UNCHANGED << record, enabled >>,
         NEW n \in Nat, NEW d \in Nat, NEW freed,
         Keep(n, d, freed), Delivered(n), NEW m \in Mod, m = at
  PROVE  /\ answered'[m].from <= i
         /\ Refilled(m)'
         /\ m \in enabled => record_to_str(m)' = Target(m)'
<1> DEFINE kept == record_list[m]
<1>0. /\ kept \in Seq(Record) /\ i \in Nat /\ answered[m] \in Text
      /\ Baseline(kept) \in Nat
  BY BaselineType DEF TypeOK
<1>1. /\ answered[m].from <= i - 1
      /\ Refilled(m)
      /\ (Keeps(m) \in {"latest", "batches"} /\ m \in enabled) =>
           record[m] = answered[m]
  BY <1>0, ModuleFacts DEF TextInv, Alive, Collected, ToPrint
<1>2. answered'[m] = IF n = 0 THEN answered[m] ELSE [from |-> i, rows |-> n]
  BY DEF Delivered, TypeOK
<1>3. answered'[m].from = IF n = 0 THEN answered[m].from ELSE i
  BY <1>2
<1>4. answered'[m].from <= i /\ answered[m].from \in Nat
  BY <1>0, <1>1, <1>3 DEF Text
<1>5. CASE AppendOne(n)
  <2> DEFINE e == [ blocks |-> malloc(at, {0}),
                    from |-> IF n = 0 THEN 0 ELSE i,
                    rows |-> 1,
                    base |-> Baseline(kept) ]
  <2>1. Keeps(m) = "history" /\ record_list'[m] = Append(kept, e)
    BY <1>5 DEF AppendOne, Linked, TypeOK
  <2>2. {0} \in SUBSET Nat
    OBVIOUS
  <2>3. e \in Record
    BY <1>0, <2>2, BlockType DEF Record
  <2>4. record_list'[m] # <<>> /\ Last(record_list'[m]) = e
    BY <1>0, <2>1, <2>3, LastOfAppended
  <2>5. record_to_str(m)' = [from |-> IF n = 0 THEN 0 ELSE i, rows |-> 1]
    BY <2>1, <2>4 DEF record_to_str
  <2>6. Target(m)' = [from |-> IF n = 0 THEN 0 ELSE i, rows |-> 1]
    <3>1. (answered'[m].from = i) <=> (n # 0)
      BY <1>0, <1>1, <1>3, <1>4
    <3> QED
      BY <2>1, <3>1 DEF Target
  <2> QED
    BY <1>4, <2>1, <2>5, <2>6 DEF Refilled
<1>6. CASE AppendList(n, d)
  <2> DEFINE e == [ blocks |-> malloc(at, 0 .. n), from |-> i, rows |-> n,
                    base |-> Baseline(kept) ]
  <2>1. Keeps(m) = "batches" /\ record_list'[m] = Append(kept, e)
    BY <1>6 DEF AppendList, Linked, TypeOK
  <2>2. 0 .. n \in SUBSET Nat
    OBVIOUS
  <2>3. e \in Record
    BY <1>0, <2>2, BlockType DEF Record
  <2>4. record_list'[m] # <<>> /\ Last(record_list'[m]) = e
    BY <1>0, <2>1, <2>3, LastOfAppended
  <2>5. record_to_str(m)' = IF n = 0 THEN record[m]
                            ELSE [from |-> i, rows |-> n]
    BY <2>1, <2>4 DEF record_to_str
  <2> QED
    BY <1>1, <1>2, <1>4, <2>1, <2>5 DEF Refilled, Target
<1>7. CASE Refill(n)
  <2> DEFINE fresh == [ blocks |-> malloc(at, {0}), from |-> 0, rows |-> 1,
                        base |-> 0 ]
             entry == IF kept = <<>> THEN fresh ELSE kept[1]
             filled == [entry EXCEPT !.from = IF n = 0 THEN @ ELSE i]
  <2>1. Keeps(m) = "single" /\ record_list'[m] = << filled >>
    BY <1>7 DEF Refill, TypeOK
  <2>2. filled.rows = 1 /\ filled.from = answered'[m].from
    <3>1. CASE kept = <<>>
      BY <1>1, <1>3, <2>1, <3>1 DEF Refilled
    <3>2. CASE kept # <<>>
      <4>1. kept[1] \in Record
        BY <1>0, <3>2
      <4>2. kept[1].rows = 1 /\ kept[1].from = answered[m].from
        BY <1>1, <2>1, <3>2 DEF Refilled
      <4> QED
        BY <1>3, <3>2, <4>1, <4>2 DEF Record
    <3> QED
      BY <3>1, <3>2
  <2> HIDE DEF filled
  <2>3. /\ record_list'[m] # <<>> /\ Len(record_list'[m]) = 1
        /\ record_list'[m][1] = filled /\ Last(record_list'[m]) = filled
    BY <2>1 DEF Last
  <2>4. record_to_str(m)' = [from |-> answered'[m].from, rows |-> 1]
    BY <2>1, <2>2, <2>3 DEF record_to_str
  <2> QED
    BY <1>4, <2>1, <2>2, <2>3, <2>4 DEF Refilled, Target
<1>8. CASE Replace(n, freed)
  <2> DEFINE row(k) == [ blocks |-> malloc(at, {k}), from |-> i, rows |-> 1,
                         base |-> 0 ]
             rows == [k \in 1 .. n |-> row(k)]
  <2>1. Keeps(m) = "latest"
    BY <1>8 DEF Replace
  <2>2. rows \in [1 .. n -> Record]
    <3>1. \A k \in 1 .. n : row(k) \in Record
      <4> TAKE k \in 1 .. n
      <4> k \in Nat
        OBVIOUS
      <4> QED
        BY <1>0, BlockType DEF Record
    <3> HIDE DEF row
    <3> QED
      BY <3>1
  <2>3. n > 0 => rows[n].from = i /\ rows[n].rows = 1
    OBVIOUS
  <2>4. record_list'[m] = list_del_init(kept) \o rows
    BY <1>8 DEF Replace, TypeOK
  <2> HIDE DEF rows
  <2>5. record_list'[m] = rows
    BY <2>2, <2>4, FunctionIsSeq, Emptied
  <2>6. record_to_str(m)' = IF n = 0 THEN record[m]
                            ELSE [from |-> i, rows |-> n]
    <3>1. /\ Len(rows) = n
          /\ n = 0 => rows = <<>>
          /\ n > 0 => rows # <<>> /\ Last(rows) = rows[n]
      BY <2>2, RowsOfList
    <3>2. record_to_str(m)' = IF rows = <<>> \/ Last(rows).rows = 0
                              THEN record[m]
                              ELSE [from |-> Last(rows).from, rows |-> Len(rows)]
      BY <2>1, <2>5 DEF record_to_str
    <3>3. CASE n = 0
      BY <3>1, <3>2, <3>3
    <3>4. CASE n > 0
      BY <2>3, <3>1, <3>2, <3>4
    <3> QED
      BY <3>3, <3>4
  <2> QED
    BY <1>1, <1>2, <1>4, <2>1, <2>6 DEF Refilled, Target
<1> QED
  BY <1>5, <1>6, <1>7, <1>8 DEF Keep

LEMMA TextCollects ==
  ASSUME TypeOK, LoopInv, TextInv, collect_record
  PROVE  TextInv'
<1>1. /\ pc = "collect" /\ i > 0 /\ i \in Nat /\ at \in 1 .. N /\ Mod = 1 .. N
      /\ i' = i /\ enabled' = enabled
      /\ \/ pc' = "collect" /\ at' = at + 1 /\ at < N
         \/ pc' = "print" /\ at' = 1 /\ at = N
  BY Collects, ModuleFacts DEF TypeOK
<1>2. UNCHANGED << record, report >>
  BY DEF collect_record, texts
<1>3. PICK n \in Nat, d \in Nat, freed \in SUBSET Nat :
        Keep(n, d, freed) /\ Delivered(n)
  BY Collects
<1>4. \A m \in Mod : m # at => /\ record_list'[m] = record_list[m]
                               /\ answered'[m] = answered[m]
  BY <1>3, OthersKeep DEF Delivered, TypeOK
<1>5. ASSUME NEW m \in Mod
      PROVE  report'[m] = Blank
  <2>1. report[m] = Blank
    BY <1>1 DEF TextInv
  <2>2. report' = report
    BY <1>2
  <2> QED
    BY <2>1, <2>2
<1>6. \A m \in Mod : /\ ToPrint(m)' <=> ToPrint(m) \/ m = at
                     /\ ~HasPrinted(m)'
                     /\ Collected(m)' = IF m = at THEN i ELSE Collected(m)
  BY <1>1 DEF ToPrint, HasPrinted, Collected
<1>7. ASSUME NEW m \in Mod
      PROVE  /\ answered'[m].from <= Collected(m)'
             /\ Refilled(m)'
             /\ (m \in enabled /\ ToPrint(m)') => record_to_str(m)' = Target(m)'
  <2>1. CASE m = at
    BY <1>1, <1>2, <1>3, <1>6, <2>1, CollectedText
  <2>2. CASE m # at
    <3>1. /\ answered[m].from <= Collected(m)
          /\ Refilled(m)
          /\ (m \in enabled /\ ToPrint(m)) => record_to_str(m) = Target(m)
      BY <1>1 DEF TextInv, Alive
    <3>2. record_to_str(m)' = record_to_str(m) /\ Target(m)' = Target(m)
      BY <1>1, <1>2, <1>4, <2>2 DEF record_to_str, Target
    <3> QED
      BY <1>4, <1>6, <2>2, <3>1, <3>2 DEF Refilled
  <2> QED
    BY <2>1, <2>2
<1>8. ASSUME NEW m \in Mod, Keeps(m) \in {"latest", "batches"},
             m \in enabled, ~ToPrint(m)'
      PROVE  record'[m] = answered'[m]
  BY <1>1, <1>2, <1>4, <1>6, <1>8 DEF TextInv, Alive
<1> QED
  BY <1>1, <1>5, <1>6, <1>7, <1>8 DEF TextInv, Alive

LEMMA TextPrints ==
  ASSUME TypeOK, LoopInv, TextInv, print_mod_record
  PROVE  TextInv'
<1>1. /\ pc = "print" /\ i > 0 /\ i \in Nat /\ at \in 1 .. N /\ Mod = 1 .. N
      /\ i' = i /\ enabled' = enabled
      /\ UNCHANGED << record_list, answered >>
      /\ \/ pc' = "print" /\ at' = at + 1 /\ at < N
         \/ pc' = "loop" /\ at' = 1 /\ at = N
  BY ModuleFacts
  DEF print_mod_record, Advance, walk, records, LoopInv, TypeOK
<1>2. \A m \in Mod : m # at => /\ record'[m] = record[m]
                               /\ report'[m] = report[m]
  BY DEF print_mod_record, TypeOK
<1>3. \A m \in Mod : /\ Target(m)' = Target(m)
                     /\ Refilled(m)' <=> Refilled(m)
  BY <1>1 DEF Target, Refilled
<1>4. \A m \in Mod : /\ ToPrint(m)' <=> ToPrint(m) /\ m # at
                     /\ ToPrint(m) <=> m >= at
                     /\ HasPrinted(m)' <=> m <= at
                     /\ HasPrinted(m) <=> m < at
                     /\ (pc' = "print" /\ m >= at') <=> m > at
                     /\ pc' # "collect"
                     /\ Collected(m)' = i /\ Collected(m) = i
  BY <1>1 DEF ToPrint, HasPrinted, Collected
<1>5. ASSUME NEW m \in Mod, m = at
      PROVE  /\ report'[m] = IF m \in enabled THEN Target(m) ELSE Blank
             /\ (m \in enabled /\ Keeps(m) \in {"latest", "batches"}) =>
                  record'[m] = answered[m]
  <2>1. CASE m \in enabled
    <3>1. record'[m] = record_to_str(m) /\ report'[m] = record_to_str(m)
      BY <1>5, <2>1 DEF print_mod_record, TypeOK
    <3>2. record_to_str(m) = Target(m)
      <4>1. ToPrint(m)
        BY <1>1, <1>5 DEF ToPrint
      <4> QED
        BY <2>1, <4>1 DEF TextInv
    <3>3. Keeps(m) \in {"latest", "batches"} => Target(m) = answered[m]
      BY DEF Target
    <3> QED
      BY <2>1, <3>1, <3>2, <3>3
  <2>2. CASE m \notin enabled
    <3>1. report' = report
      BY <1>5, <2>2 DEF print_mod_record
    <3>2. pc = "print" /\ m >= at
      BY <1>1, <1>5
    <3>3. report[m] = Blank
      BY <3>2 DEF TextInv
    <3> QED
      BY <2>2, <3>1, <3>3
  <2> QED
    BY <2>1, <2>2
<1>6. \A m \in Mod : m # at => (record_to_str(m)' = record_to_str(m))
  BY <1>1, <1>2 DEF record_to_str
<1> SUFFICES ASSUME NEW m \in Mod
             PROVE
    /\ (Alive => answered[m].from <= Collected(m))'
    /\ Refilled(m)'
    /\ ((m \in enabled /\ ToPrint(m)) => record_to_str(m) = Target(m))'
    /\ (( /\ Keeps(m) \in {"latest", "batches"}
          /\ m \in enabled \/ pc \in {"load", "options", "check"}
          /\ ~ToPrint(m) /\ Alive )
        => record[m] = answered[m])'
    /\ ((pc = "collect" \/ (pc = "print" /\ m >= at)) => report[m] = Blank)'
    /\ (HasPrinted(m) =>
          report[m] = IF m \in enabled THEN Target(m) ELSE Blank)'
  BY DEF TextInv
<1>7. CASE m = at
  BY <1>1, <1>3, <1>4, <1>5, <1>7 DEF TextInv, Alive
<1>8. CASE m # at
  BY <1>1, <1>2, <1>3, <1>4, <1>6, <1>8 DEF TextInv, Alive
<1> QED
  BY <1>7, <1>8

(* All other steps leave the lists, the buffers and the answers alone, and *)
(* only LoopHead, which blanks the terminal, starts another round.         *)
LEMMA TextRests ==
  ASSUME TypeOK, LoopInv, HistoryInv, TextInv, [Next]_vars,
         ~collect_record, ~print_mod_record
  PROVE  TextInv'
<1>1. /\ i \in Nat /\ at \in 1 .. N /\ Mod = 1 .. N
      /\ UNCHANGED << record_list, answered >>
  BY ListsRest, ModuleFacts DEF TypeOK
<1>2. record' = record
  BY DEF Next, vars, register_mod_fileds, ParseOptions, check_enable_module,
     LoopHead, reader_crash, die_of_freed_row, get_num_of_cpu,
     free_record_list, FREE_MOD_LIST_HEAD, texts
<1>3. \A m \in Mod : Refilled(m)' <=> Refilled(m)
  BY <1>1 DEF Refilled
<1> SUFFICES ASSUME NEW m \in Mod
             PROVE
    /\ (Alive => answered[m].from <= Collected(m))'
    /\ Refilled(m)'
    /\ ((m \in enabled /\ ToPrint(m)) => record_to_str(m) = Target(m))'
    /\ (( /\ Keeps(m) \in {"latest", "batches"}
          /\ m \in enabled \/ pc \in {"load", "options", "check"}
          /\ ~ToPrint(m) /\ Alive )
        => record[m] = answered[m])'
    /\ ((pc = "collect" \/ (pc = "print" /\ m >= at)) => report[m] = Blank)'
    /\ (HasPrinted(m) =>
          report[m] = IF m \in enabled THEN Target(m) ELSE Blank)'
  BY DEF TextInv
<1>4. CASE LoopHead
  <2>1. /\ pc = "loop" /\ at = 1 /\ at' = 1 /\ enabled' = enabled
        /\ \/ pc' = "free" /\ i' = i
           \/ pc' = "collect" /\ i' = i + 1 /\ report'[m] = Blank
    BY <1>4 DEF LoopHead, HistoryInv
  <2>2. /\ ~ToPrint(m) /\ ~ToPrint(m)' /\ ~HasPrinted(m)'
        /\ Collected(m)' = Collected(m)
    BY <1>1, <2>1 DEF ToPrint, HasPrinted, Collected
  <2> QED
    BY <1>1, <1>2, <1>3, <2>1, <2>2 DEF TextInv, Alive
<1>5. CASE UNCHANGED vars
  <2>1. /\ pc' = pc /\ at' = at /\ i' = i /\ enabled' = enabled
        /\ report' = report
    BY <1>5 DEF vars
  <2>2. /\ ToPrint(m)' <=> ToPrint(m)
        /\ HasPrinted(m)' <=> HasPrinted(m)
        /\ Collected(m)' = Collected(m)
        /\ record_to_str(m)' = record_to_str(m)
        /\ Target(m)' = Target(m)
    BY <1>1, <1>2, <2>1
    DEF ToPrint, HasPrinted, Collected, record_to_str, Target
  <2> QED
    BY <1>1, <1>2, <1>3, <2>1, <2>2 DEF TextInv, Alive
<1>6. CASE ~LoopHead /\ ~(UNCHANGED vars)
  <2>1. /\ i' = i /\ report' = report
        /\ pc' \in {"load", "options", "check", "loop", "free", "unload", "end"}
             \/ ~Alive'
        /\ pc \in {"load", "options", "check", "free", "unload"}
             \/ ~Alive'
        /\ Alive' =>
             \/ enabled' = enabled /\ pc' \in {"load", "options"}
                /\ pc \in {"load", "options"}
             \/ pc = "options" /\ pc' = "check"
             \/ enabled' = enabled /\ pc = "check" /\ pc' = "loop"
             \/ enabled' = enabled /\ pc' \in {"free", "unload", "end"}
                /\ pc \in {"free", "unload"}
    BY <1>6 DEF Next, register_mod_fileds, ParseOptions, check_enable_module,
       reader_crash, die_of_freed_row, get_num_of_cpu, Exit, Advance,
       free_record_list, FREE_MOD_LIST_HEAD, walk, texts, Alive
  <2>2. pc' = "loop" => i' = 0
    BY <2>1 DEF LoopInv, Alive
  <2>3. ~ToPrint(m)' /\ ~HasPrinted(m)' /\ pc' \notin {"collect", "print"}
    BY <2>1, <2>2 DEF ToPrint, HasPrinted, Alive
  <2>4. Alive' => Alive /\ ~ToPrint(m) /\ Collected(m)' = Collected(m)
    BY <2>1 DEF ToPrint, Collected, Alive
  <2>5. ( /\ Keeps(m) \in {"latest", "batches"}
          /\ Alive'
          /\ m \in enabled' \/ pc' \in {"load", "options", "check"} )
        => record[m] = answered[m]
    BY <2>1, <2>4 DEF TextInv
  <2>6. Alive' => answered[m].from <= Collected(m)'
    BY <2>4 DEF TextInv
  <2>7. Refilled(m)'
    BY <1>3 DEF TextInv
  <2> QED
    BY <1>1, <1>2, <2>3, <2>5, <2>6, <2>7
<1> QED
  BY <1>4, <1>5, <1>6

THEOREM TextInvariant == Spec => []TextInv
<1>1. Init => TextInv
  <2> SUFFICES ASSUME Init, NEW m \in Mod
               PROVE  /\ answered[m].from <= Collected(m)
                      /\ Refilled(m)
                      /\ ~ToPrint(m) /\ ~HasPrinted(m) /\ pc = "load"
                      /\ record[m] = answered[m]
    BY DEF TextInv
  <2>1. /\ record_list[m] = <<>> /\ record[m] = Blank /\ answered[m] = Blank
        /\ pc = "load" /\ i = 0
    BY DEF Init
  <2> QED
    BY <2>1 DEF Blank, Collected, Refilled, ToPrint, HasPrinted
<1>2. TypeOK /\ LoopInv /\ HistoryInv /\ TextInv /\ [Next]_vars => TextInv'
  BY TextCollects, TextPrints, TextRests
<1> QED
  BY <1>1, <1>2, TypeCorrect, LoopInvariant, HistoryInvariant, PTL DEF Spec

(* What is on the terminal after a round is exactly the last answer of     *)
(* each enabled module's source, in the way its discipline has it, for any *)
(* registry and however many rounds a source delivers nothing, but for     *)
(* modules that have linked in a freed row (tool_zsr.c:106-114).           *)
THEOREM ReportsShowAnswers == Spec => []ReportShowsLastAnswer
<1>1. TypeOK /\ LoopInv /\ TextInv => ReportShowsLastAnswer
  <2> SUFFICES ASSUME TypeOK, LoopInv, TextInv, pc = "loop", printed > 0,
                      NEW m \in Mod \ damaged
               PROVE
      IF m \notin enabled THEN report[m] = Blank
      ELSE CASE Keeps(m) \in {"latest", "batches"} -> report[m] = answered[m]
             [] Keeps(m) = "single" ->
                  report[m] = [from |-> answered[m].from, rows |-> 1]
             [] Keeps(m) = "history" ->
                  /\ report[m].rows = 1
                  /\ report[m].from =
                       IF answered[m].from = printed THEN printed ELSE 0
    BY DEF ReportShowsLastAnswer
  <2>1. printed = i /\ HasPrinted(m)
    BY DEF LoopInv, HasPrinted
  <2>2. report[m] = IF m \in enabled THEN Target(m) ELSE Blank
    BY <2>1 DEF TextInv
  <2>3. Keeps(m) \in {"history", "batches", "single", "latest"}
    BY ModuleFacts
  <2>4. CASE Keeps(m) \in {"latest", "batches"}
    BY <2>2, <2>4 DEF Target
  <2>5. CASE Keeps(m) = "single"
    BY <2>2, <2>5 DEF Target
  <2>6. CASE Keeps(m) = "history"
    BY <2>1, <2>2, <2>6 DEF Target
  <2> QED
    BY <2>3, <2>4, <2>5, <2>6
<1> QED
  BY <1>1, TypeCorrect, LoopInvariant, TextInvariant, PTL

-----------------------------------------------------------------------------
(* The descriptors that are left open.                                     *)

(* The readers that leave a descriptor open are those that end the program *)
(* when they get none: of zsr's, read_io_stat (io.c:36-42, cpu.c:95-98).   *)
OnlyLeaksExit == \A m \in Mod : Source(m).vital <=> Source(m).opens = "leaks"

L == Cardinality(Leaks)

(* The modules the walk has been to that left a descriptor open.           *)
LeakedBefore(k) == {m \in Leaks : m < k}

LEMMA LeaksFinite ==
  /\ IsFiniteSet(Leaks) /\ L \in Nat
  /\ \A k : /\ IsFiniteSet(LeakedBefore(k))
            /\ Cardinality(LeakedBefore(k)) \in Nat
            /\ Cardinality(LeakedBefore(k)) <= L
<1>1. IsFiniteSet(Mod)
  BY ModuleFacts, FS_Interval
<1>2. IsFiniteSet(Leaks)
  BY <1>1, FS_Subset DEF Leaks
<1>3. L \in Nat
  BY <1>2, FS_CardinalityType DEF L
<1>4. ASSUME NEW k
      PROVE  /\ IsFiniteSet(LeakedBefore(k))
             /\ Cardinality(LeakedBefore(k)) \in Nat
             /\ Cardinality(LeakedBefore(k)) <= L
  <2>1. LeakedBefore(k) \in SUBSET Leaks
    BY DEF LeakedBefore
  <2> QED
    BY <1>2, <2>1, FS_Subset, FS_CardinalityType DEF L
<1> QED
  BY <1>2, <1>3, <1>4

LEMMA LeaksCounted ==
  /\ Cardinality(LeakedBefore(1)) = 0
  /\ \A k \in Mod : Cardinality(LeakedBefore(k + 1)) =
       IF k \in Leaks THEN Cardinality(LeakedBefore(k)) + 1
       ELSE Cardinality(LeakedBefore(k))
  /\ Cardinality(LeakedBefore(N + 1)) = L
<1>1. /\ N \in Nat
      /\ \A m \in Mod : m \in Nat /\ 1 <= m /\ m <= N
      /\ \A m \in Leaks : m \in Mod
  BY ModuleFacts DEF Leaks
<1>a. \A m, k : m \in LeakedBefore(k) <=> m \in Leaks /\ m < k
  BY DEF LeakedBefore
<1>2. LeakedBefore(1) = {}
  <2>1. \A m : m \notin LeakedBefore(1)
    BY <1>1, <1>a
  <2> QED
    BY <2>1
<1>3. LeakedBefore(N + 1) = Leaks
  <2>1. \A m \in Leaks : m < N + 1
    BY <1>1
  <2>2. \A m : m \in LeakedBefore(N + 1) <=> m \in Leaks
    BY <1>a, <2>1
  <2> QED
    BY <2>2
<1>4. ASSUME NEW k \in Mod
      PROVE  Cardinality(LeakedBefore(k + 1)) =
               IF k \in Leaks THEN Cardinality(LeakedBefore(k)) + 1
               ELSE Cardinality(LeakedBefore(k))
  <2>0. \A m \in Leaks : m < k + 1 <=> m < k \/ m = k
    BY <1>1
  <2>1. CASE k \in Leaks
    <3>1. \A m : m \in LeakedBefore(k + 1) <=> m \in LeakedBefore(k) \cup {k}
      BY <1>a, <2>0, <2>1
    <3>2. LeakedBefore(k + 1) = LeakedBefore(k) \cup {k}
      BY <3>1
    <3>3. k \notin LeakedBefore(k)
      BY <1>1, <1>a
    <3> QED
      BY <2>1, <3>2, <3>3, LeaksFinite, FS_AddElement
  <2>2. CASE k \notin Leaks
    <3>1. \A m : m \in LeakedBefore(k + 1) <=> m \in LeakedBefore(k)
      BY <1>a, <2>0, <2>2
    <3>2. LeakedBefore(k + 1) = LeakedBefore(k)
      BY <3>1
    <3> QED
      BY <2>2, <3>2
  <2> QED
    BY <2>1, <2>2
<1> QED
  BY <1>2, <1>3, <1>4, FS_EmptySet DEF L

(* The inductive form of DescriptorsBoundReports: the descriptors in use   *)
(* are those of the rounds made and of the part of the round in progress.  *)
NoLeakFails == Unreadable \cap Leaks = {}

DescriptorInv ==
  NoLeakFails =>
    /\ pc \notin {"collect", "exit", "crash"} => fds = i * L
    /\ pc = "collect" => fds = (i - 1) * L + Cardinality(LeakedBefore(at))
    /\ pc \in {"exit", "crash"} => printed * L <= FdLimit
    /\ status = 1 => pc = "exit" /\ FdLimit < i * L

LEMMA Rounds ==
  ASSUME NEW k \in Nat
  PROVE  ((k + 1) - 1) * L = k * L /\ (k - 1) * L + L = k * L
  BY LeaksFinite

LEMMA DescriptorsCollect ==
  ASSUME OnlyLeaksExit, TypeOK, LoopInv, DescriptorInv, collect_record
  PROVE  DescriptorInv'
<1> SUFFICES ASSUME NoLeakFails PROVE DescriptorInv'
  BY DEF DescriptorInv
<1>1. /\ pc = "collect" /\ i > 0 /\ i \in Nat /\ at \in Mod
      /\ i' = i /\ fds \in 0 .. FdLimit
      /\ \/ pc' = "collect" /\ at' = at + 1
         \/ pc' = "print" /\ at = N
  BY Collects DEF TypeOK
<1>2. status' = status /\ status # 1
  BY <1>1 DEF collect_record, DescriptorInv
<1>3. fds = (i - 1) * L + Cardinality(LeakedBefore(at))
  BY <1>1 DEF DescriptorInv
<1>4. fds' = IF at \in Leaks THEN fds + 1 ELSE fds
  <2>1. CASE fds' = IF Source(at).opens = "leaks" THEN fds + 1 ELSE fds
    BY <1>1, <2>1 DEF Leaks
  <2>2. CASE /\ MayFail(at)
             /\ Source(at).vital => CanOpen(at)
             /\ UNCHANGED fds
    <3>1. ASSUME at \in Leaks PROVE FALSE
      <4>1. at \notin Unreadable
        BY <3>1 DEF NoLeakFails
      <4>2. Source(at).vital
        BY <1>1, <3>1 DEF OnlyLeaksExit, Leaks
      <4> QED
        BY <1>1, <2>2, <4>1, <4>2 DEF MayFail, CanOpen
    <3> QED
      BY <2>2, <3>1
  <2> QED
    BY <2>1, <2>2 DEF collect_record
<1>5. fds' = (i - 1) * L + Cardinality(LeakedBefore(at + 1))
  <2>1. Cardinality(LeakedBefore(at + 1)) =
          IF at \in Leaks THEN Cardinality(LeakedBefore(at)) + 1
          ELSE Cardinality(LeakedBefore(at))
    BY <1>1, LeaksCounted
  <2>2. Cardinality(LeakedBefore(at)) \in Nat /\ (i - 1) * L \in Int
    BY <1>1, LeaksFinite
  <2> QED
    BY <1>3, <1>4, <2>1, <2>2
<1>6. CASE pc' = "collect" /\ at' = at + 1
  BY <1>1, <1>2, <1>5, <1>6 DEF DescriptorInv
<1>7. CASE pc' = "print" /\ at = N
  <2>1. fds' = i * L
    BY <1>1, <1>5, <1>7, LeaksCounted, Rounds
  <2> QED
    BY <1>1, <1>2, <1>7, <2>1 DEF DescriptorInv
<1> QED
  BY <1>1, <1>6, <1>7

(* The exit comes when the descriptors of all rounds before and of a part  *)
(* of this one are all there are, and this reader's is wanting.            *)
LEMMA DescriptorsAbort ==
  ASSUME OnlyLeaksExit, TypeOK, LoopInv, DescriptorInv, get_num_of_cpu
  PROVE  DescriptorInv'
<1> SUFFICES ASSUME NoLeakFails PROVE DescriptorInv'
  BY DEF DescriptorInv
<1>1. /\ pc = "collect" /\ pc' = "exit" /\ i' = i /\ printed' = printed
      /\ i \in Nat /\ i = printed + 1 /\ printed \in Nat /\ at \in Mod
      /\ FdLimit \in Nat
  BY ParameterAssumption
  DEF get_num_of_cpu, Exit, walk, texts, TypeOK, LoopInv
<1>2. fds = FdLimit /\ at \in Leaks
  BY <1>1 DEF get_num_of_cpu, MayFail, OnlyLeaksExit, NoLeakFails, Leaks
<1>3. fds = (i - 1) * L + Cardinality(LeakedBefore(at))
  BY <1>1 DEF DescriptorInv
<1>4. Cardinality(LeakedBefore(at)) + 1 <= L
  <2>1. Cardinality(LeakedBefore(at + 1)) = Cardinality(LeakedBefore(at)) + 1
    BY <1>1, <1>2, LeaksCounted
  <2> QED
    BY <2>1, LeaksFinite
<1>5. /\ Cardinality(LeakedBefore(at)) \in Nat /\ L \in Nat
      /\ (i - 1) * L \in Int /\ (i - 1) * L + L = i * L
      /\ printed * L = (i - 1) * L
  BY <1>1, LeaksFinite, Rounds
<1>6. FdLimit < i * L /\ printed * L <= FdLimit
  BY <1>1, <1>2, <1>3, <1>4, <1>5
<1> QED
  BY <1>1, <1>6 DEF DescriptorInv

LEMMA DescriptorsRest ==
  ASSUME TypeOK, LoopInv, HistoryInv, DescriptorInv, [Next]_vars,
         ~collect_record, ~get_num_of_cpu, ~reader_crash, ~die_of_freed_row
  PROVE  DescriptorInv'
<1> SUFFICES ASSUME NoLeakFails PROVE DescriptorInv'
  BY DEF DescriptorInv
<1>1. /\ i \in Nat /\ at \in Mod /\ fds' = fds /\ fds \in 0 .. FdLimit
      /\ FdLimit \in Nat /\ printed \in Nat
  BY ParameterAssumption
  DEF TypeOK, Next, vars, register_mod_fileds, ParseOptions,
     check_enable_module, LoopHead, print_mod_record, free_record_list,
     FREE_MOD_LIST_HEAD
<1>2. CASE LoopHead
  <2>1. /\ pc = "loop" /\ at = 1 /\ at' = 1 /\ status' = status
        /\ \/ pc' = "free" /\ i' = i
           \/ pc' = "collect" /\ i' = i + 1
    BY <1>2 DEF LoopHead, HistoryInv
  <2>2. fds = i * L /\ status # 1
    BY <2>1 DEF DescriptorInv
  <2>3. CASE pc' = "free" /\ i' = i
    BY <1>1, <2>1, <2>2, <2>3 DEF DescriptorInv
  <2>4. CASE pc' = "collect" /\ i' = i + 1
    <3>1. (i' - 1) * L = i * L /\ i * L \in Int
      BY <1>1, <2>4, LeaksFinite, Rounds
    <3>2. Cardinality(LeakedBefore(at')) = 0
      BY <2>1, LeaksCounted
    <3>3. fds' = (i' - 1) * L + Cardinality(LeakedBefore(at'))
      BY <1>1, <2>2, <3>1, <3>2
    <3> QED
      BY <2>1, <2>2, <2>4, <3>3 DEF DescriptorInv
  <2> QED
    BY <2>1, <2>3, <2>4
<1>3. CASE UNCHANGED vars
  BY <1>3 DEF vars, DescriptorInv
<1>4. CASE ~LoopHead /\ ~(UNCHANGED vars)
  <2>1. /\ i' = i
        /\ pc \notin {"collect", "exit", "crash"}
        /\ pc' \notin {"collect", "crash"}
        /\ status' = status \/ status' = 0
        /\ pc' = "exit" => /\ pc \in {"options", "check"}
                           /\ printed' = printed
    BY <1>4 DEF Next, register_mod_fileds, ParseOptions, check_enable_module,
       print_mod_record, free_record_list, FREE_MOD_LIST_HEAD, Exit, Advance,
       walk, texts
  <2>2. fds = i * L /\ status # 1
    BY <2>1 DEF DescriptorInv
  <2>3. pc' = "exit" => printed' * L <= FdLimit
    <3>1. pc' = "exit" => printed' = 0
      BY <2>1 DEF LoopInv
    <3> QED
      BY <1>1, <3>1, LeaksFinite
  <2> QED
    BY <1>1, <2>1, <2>2, <2>3 DEF DescriptorInv
<1> QED
  BY <1>2, <1>3, <1>4

(* What is used is never more than there is.                               *)
LEMMA DescriptorsSuffice ==
  ASSUME TypeOK, LoopInv, DescriptorInv, NoLeakFails
  PROVE  /\ printed * L <= FdLimit
         /\ status = 1 => FdLimit < i * L
<1>1. /\ printed \in Nat /\ i \in Nat /\ fds <= FdLimit /\ fds \in Nat
      /\ L \in Nat /\ FdLimit \in Nat
  BY ParameterAssumption, LeaksFinite DEF TypeOK
<1>2. CASE pc \in {"exit", "crash"}
  BY <1>2 DEF DescriptorInv
<1>3. CASE pc = "collect"
  <2>1. fds = printed * L + Cardinality(LeakedBefore(at))
    <3>1. i - 1 = printed
      BY <1>1, <1>3 DEF LoopInv
    <3> QED
      BY <1>3, <3>1 DEF DescriptorInv
  <2>2. printed * L \in Nat /\ Cardinality(LeakedBefore(at)) \in Nat
    BY <1>1, LeaksFinite
  <2>3. printed * L <= FdLimit
    BY <1>1, <2>1, <2>2
  <2> QED
    BY <1>3, <2>3 DEF DescriptorInv
<1>4. CASE pc \notin {"exit", "crash", "collect"}
  <2>1. fds = i * L /\ status # 1
    BY <1>4 DEF DescriptorInv
  <2>2. i = printed \/ i = printed + 1
    BY <1>1, <1>4 DEF LoopInv, TypeOK
  <2>3. printed * L <= i * L
    <3>1. (printed + 1) * L = printed * L + L /\ printed * L \in Nat
      BY <1>1
    <3> QED
      BY <1>1, <2>2, <3>1
  <2>4. printed * L \in Nat /\ i * L \in Nat
    BY <1>1
  <2> QED
    BY <1>1, <2>1, <2>3, <2>4
<1> QED
  BY <1>2, <1>3, <1>4

LEMMA DescriptorsCrash ==
  ASSUME TypeOK, LoopInv, DescriptorInv, reader_crash \/ die_of_freed_row
  PROVE  DescriptorInv'
<1> SUFFICES ASSUME NoLeakFails PROVE DescriptorInv'
  BY DEF DescriptorInv
<1>1. /\ pc \notin {"exit", "crash"} /\ pc' = "crash"
      /\ status' = status /\ printed' = printed
  BY Crashes DEF texts
<1>2. status # 1
  BY <1>1 DEF DescriptorInv
<1>3. printed * L <= FdLimit
  BY DescriptorsSuffice
<1> QED
  BY <1>1, <1>2, <1>3 DEF DescriptorInv

THEOREM DescriptorInvariant == OnlyLeaksExit => (Spec => []DescriptorInv)
<1> SUFFICES ASSUME OnlyLeaksExit PROVE Spec => []DescriptorInv
  OBVIOUS
<1>1. Init => DescriptorInv
  <2> SUFFICES ASSUME Init PROVE DescriptorInv
    OBVIOUS
  <2>1. fds = 0 /\ i = 0 /\ pc = "load" /\ status = -1
    BY DEF Init
  <2>2. 0 * L = 0
    BY LeaksFinite
  <2> QED
    BY <2>1, <2>2 DEF DescriptorInv
<1>2. TypeOK /\ LoopInv /\ HistoryInv /\ DescriptorInv /\ [Next]_vars
        => DescriptorInv'
  BY DescriptorsCollect, DescriptorsAbort, DescriptorsCrash, DescriptorsRest
<1> QED
  BY <1>1, <1>2, TypeCorrect, LoopInvariant, HistoryInvariant, PTL DEF Spec

(* As long as the readers that lose a descriptor in every round can open   *)
(* their sources, a run makes no more reports than there are descriptors   *)
(* for, and exits with status 1 only when they are used up: for any number *)
(* of such readers, any limit and whatever other sources fail.  It says    *)
(* nothing of the crashes of ip and proc, which come without a status      *)
(* (io.c:36-42, cpu.c:95-98).                                              *)
THEOREM DescriptorsBound == OnlyLeaksExit => (Spec => []DescriptorsBoundReports)
<1> SUFFICES ASSUME OnlyLeaksExit PROVE Spec => []DescriptorsBoundReports
  OBVIOUS
<1>1. TypeOK /\ LoopInv /\ DescriptorInv => DescriptorsBoundReports
  BY DescriptorsSuffice DEF DescriptorsBoundReports, NoLeakFails, L
<1> QED
  BY <1>1, TypeCorrect, LoopInvariant, DescriptorInvariant, PTL

-----------------------------------------------------------------------------
(* The fourteen modules of the program.                                    *)

RegisteredModules ==
  { mod_cpu, mod_dns, mod_fs, mod_gateway, mod_io, mod_ip, mod_load_avg,
    mod_mem, mod_network, mod_proc, mod_swap, mod_time, mod_uptime, mod_who }

(* Of the readers only io's leaks and exits, and only ip's relinks.        *)
LEMMA ModuleIs ==
  ASSUME NEW mod \in RegisteredModules
  PROVE  /\ mod \in [ keep : {"history", "batches", "single", "latest"},
                      reader : ReaderType ]
         /\ mod.reader.vital <=> mod.reader.opens = "leaks"
         /\ mod.reader.relinks => mod = mod_ip
<1> DEFINE Keep4 == {"history", "batches", "single", "latest"}
<1>1. Row \subseteq Nat /\ Rows \subseteq Nat /\ {0, 1} \subseteq Nat
  BY MaxRowsAssumption DEF Row, Rows
<1>2. ASSUME NEW keep \in Keep4, NEW rows \in SUBSET Nat,
             NEW opens \in {"none", "closes"},
             mod = Keeping(keep, Reader(rows, opens))
      PROVE  /\ mod \in [keep : Keep4, reader : ReaderType]
             /\ ~mod.reader.vital /\ mod.reader.opens # "leaks"
             /\ ~mod.reader.relinks
  BY <1>2 DEF Keeping, Reader, ReaderType
<1>3. CASE mod = mod_io
  BY <1>1, <1>3 DEF mod_io, Keeping, read_io_stat, Reader, ReaderType
<1>4. CASE mod = mod_ip
  BY <1>1, <1>4 DEF mod_ip, Keeping, get_ip_addr, Reader, ReaderType
<1>5. CASE mod = mod_proc
  BY <1>1, <1>5 DEF mod_proc, Keeping, get_all_proc, Reader, ReaderType
<1>6. CASE mod \notin {mod_io, mod_ip, mod_proc}
  <2>1. \E keep \in Keep4, rows \in SUBSET Nat, opens \in {"none", "closes"} :
          mod = Keeping(keep, Reader(rows, opens))
    BY <1>1, <1>6 DEF RegisteredModules, mod_cpu, mod_dns, mod_fs,
       mod_gateway, mod_load_avg, mod_mem, mod_network, mod_swap, mod_time,
       mod_uptime, mod_who, read_cpu_stat, get_dns, read_fs_stat, get_gateway,
       read_load_stat, read_mem_stat, get_network, read_swap_stat,
       get_sys_time, read_uptime_stat, get_login_user
  <2> QED
    BY <1>2, <2>1
<1> QED
  BY <1>3, <1>4, <1>5, <1>6

LEMMA ModulesLoaded ==
  ASSUME Info = load_modules, NEW m \in Mod
  PROVE  Info[m] \in RegisteredModules
  BY DEF Mod, load_modules, RegisteredModules

(* In the program only ip's list may ever hold a row that was freed before *)
(* it was linked in, so that NoDangling and ReportsShowAnswers speak of    *)
(* the lists and texts of all the other thirteen (framework.c:20-35,       *)
(* ip.c:51-64).                                                            *)
THEOREM OnlyIpIsDamaged ==
  Info = load_modules => (Spec => [](\A m \in damaged : Info[m] = mod_ip))
<1> SUFFICES ASSUME Info = load_modules
             PROVE  Spec => [](\A m \in damaged : Info[m] = mod_ip)
  OBVIOUS
<1>1. TypeOK => \A m \in damaged : Info[m] = mod_ip
  BY ModulesLoaded, ModuleIs DEF TypeOK, Source
<1> QED
  BY <1>1, TypeCorrect, PTL

(* The program's io module is the only one that leaves descriptors open,   *)
(* and the only one that exits: a run of zsr makes no more reports than it *)
(* may hold descriptors, and exits with status 1 only when its rounds have *)
(* used them up, as long as io's sources can be read (framework.c:20-35,   *)
(* io.c:36-42, cpu.c:95-98).                                               *)
THEOREM DescriptorsBoundOfZsr ==
  Info = load_modules => (Spec => []DescriptorsBoundReports)
<1> SUFFICES ASSUME Info = load_modules
             PROVE  Spec => []DescriptorsBoundReports
  OBVIOUS
<1>1. OnlyLeaksExit
  BY ModulesLoaded, ModuleIs DEF OnlyLeaksExit, Source
<1> QED
  BY <1>1, DescriptorsBound
=============================================================================
