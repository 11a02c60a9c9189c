--------------------------- MODULE ProcStatProofs ---------------------------
(***************************************************************************)
(* Proofs about the scan of /proc and the utilisations made of it, for any *)
(* processes and any interleaving of the system's steps with the scan's.   *)
(***************************************************************************)
EXTENDS ProcStat, FiniteSetTheorems, TLAPS

-----------------------------------------------------------------------------
(* Numbers and lists.                                                      *)

(* A remainder of W is a value of W's words.                              *)
LEMMA Remainder ==
  ASSUME NEW x \in Int
  PROVE  x % W \in 0 .. W - 1
BY WordAssumption

(* A set of numbers has a least one, and a set of places a last one.       *)
LEMMA LeastOfSome ==
  ASSUME NEW S, S \subseteq Nat, S # {}
  PROVE  \E m \in S : \A k \in S : m <= k
<1> DEFINE R == OpToRel(<, Nat)
<1>1. IsWellFoundedOn(R, Nat)
  BY NatLessThanWellFounded, Zenon
<1>2. \A k, j \in Nat : k < j => <<k, j>> \in R
  BY DEF OpToRel
<1> HIDE DEF R
<1>3. \E m \in S : \A k \in S : ~(<<k, m>> \in R)
  BY <1>1, WFMin, Zenon
<1>4. PICK m \in S : \A k \in S : ~(<<k, m>> \in R)
  BY <1>3
<1>5. \A k \in S : ~(k < m)
  BY <1>2, <1>4
<1> QED
  BY <1>5

LEMMA LastOfSome ==
  ASSUME NEW n \in Nat, NEW S, S \subseteq 1 .. n, S # {}
  PROVE  \E m \in S : \A k \in S : k <= m
<1> DEFINE T == {n - k : k \in S}
<1>1. \A k \in S : k \in 1 .. n
  OBVIOUS
<1>2. PICK x \in T : \A y \in T : x <= y
  <2>1. \A k \in S : n - k \in Nat
    BY <1>1
  <2>2. T \subseteq Nat /\ T # {}
    BY <2>1
  <2> HIDE DEF T
  <2> QED
    BY <2>2, LeastOfSome
<1>3. PICK m \in S : x = n - m
  BY <1>2
<1>4. ASSUME NEW k \in S
      PROVE  k <= m
  <2>1. n - m <= n - k
    BY <1>2, <1>3
  <2> QED
    BY <1>1, <2>1
<1> QED
  BY <1>4

LEMMA Appending ==
  ASSUME NEW s \in Seq(Row), NEW e \in Row
  PROVE  /\ Append(s, e) \in Seq(Row)
         /\ DOMAIN Append(s, e) = DOMAIN s \union {Len(s) + 1}
         /\ Len(s) + 1 \notin DOMAIN s
         /\ \A k \in DOMAIN s : Append(s, e)[k] = s[k]
         /\ Append(s, e)[Len(s) + 1] = e
         /\ Pids(Append(s, e)) = Pids(s) \union {e.pid}
<1> DEFINE t == Append(s, e)
<1>1. /\ t \in Seq(Row)
      /\ DOMAIN t = DOMAIN s \union {Len(s) + 1}
      /\ Len(s) + 1 \notin DOMAIN s
      /\ \A k \in DOMAIN s : t[k] = s[k]
      /\ t[Len(s) + 1] = e
  OBVIOUS
<1> HIDE DEF t
<1>2. Pids(t) = Pids(s) \union {e.pid}
  BY <1>1 DEF Pids
<1> QED
  BY <1>1, <1>2 DEF t

-----------------------------------------------------------------------------
(* compute_proc_cpu_stat.                                                  *)

(* The number of a match is a place of the array, and no two matches have  *)
(* the same.                                                               *)
LEMMA MatchesAreNumbered ==
  ASSUME cur_list \in Seq(Row)
  PROVE  /\ \A c \in Matched : MatchNo(c) \in DOMAIN cur_list
         /\ \A c, d \in Matched : MatchNo(c) = MatchNo(d) => c = d
<1> DEFINE upto(c) == {k \in Matched : k <= c}
<1>1. PICK n \in Nat : DOMAIN cur_list = 1 .. n /\ Matched \subseteq 1 .. n
  BY DEF Matched
<1>0. \A k \in Matched : k \in Nat /\ 1 <= k /\ k <= n
  BY <1>1
<1>2. ASSUME NEW c \in Matched
      PROVE  /\ IsFiniteSet(upto(c)) /\ Cardinality(upto(c)) \in 1 .. c
  <2>1. c \in 1 .. n /\ upto(c) \subseteq 1 .. c /\ {c} \subseteq upto(c)
    BY <1>0
  <2>2. IsFiniteSet(1 .. c) /\ Cardinality(1 .. c) = c
    BY <2>1, FS_Interval
  <2>3. IsFiniteSet(upto(c)) /\ Cardinality(upto(c)) <= c
    BY <2>1, <2>2, FS_Subset
  <2>4. Cardinality({c}) = 1
    BY FS_Singleton
  <2>5. 1 <= Cardinality(upto(c)) /\ Cardinality(upto(c)) \in Nat
    BY <2>1, <2>3, <2>4, FS_Subset, FS_CardinalityType
  <2> QED
    BY <2>1, <2>3, <2>5
<1>3. ASSUME NEW c \in Matched, NEW d \in Matched, c < d
      PROVE  Cardinality(upto(c)) # Cardinality(upto(d))
  <2>1. upto(c) \subseteq upto(d) /\ d \in upto(d) /\ d \notin upto(c)
    BY <1>0, <1>3
  <2>2. Cardinality(upto(d)) = Cardinality(upto(c)) => upto(d) = upto(c)
    BY <1>2, <2>1, FS_Subset
  <2> QED
    BY <2>1, <2>2
<1>4. \A c : MatchNo(c) = Cardinality(upto(c))
  BY DEF MatchNo
<1> HIDE DEF upto
<1>5. ASSUME NEW c \in Matched, NEW d \in Matched, c # d
      PROVE  MatchNo(c) # MatchNo(d)
  <2>1. c \in Nat /\ d \in Nat /\ (c < d \/ d < c)
    BY <1>1, <1>5
  <2> QED
    BY <1>3, <1>4, <2>1
<1>6. ASSUME NEW c \in Matched
      PROVE  MatchNo(c) \in DOMAIN cur_list
  <2>1. c \in 1 .. n
    BY <1>1
  <2> QED
    BY <1>1, <1>2, <1>4, <2>1
<1> QED
  BY <1>5, <1>6

(* What compute_proc_cpu_stat puts down for a match at place c.            *)
Beyond == [Len(prev_list) + 1 .. Len(cur_list) ->
             [cpu_time : Garbage, sys_cpu_time : Garbage]]

Diff(c, beyond) ==
  [ pid  |-> cur_list[c].pid,
    rate |-> Rate(Minus(cur_list[c].cpu_time, Found(c, beyond).cpu_time),
                  Minus(cur_list[c].sys_cpu_time, Found(c, beyond).sys_cpu_time)) ]

Quotient == (0 .. W - 1) \X (0 .. W - 1)

(* The array of differences holds those of the matches, each at its number, *)
(* and zeros elsewhere.                                                    *)
LEMMA DiffsAreOfMatches ==
  ASSUME cur_list \in Seq(Row), NEW beyond
  PROVE  /\ DOMAIN cs_array(beyond) = DOMAIN cur_list
         /\ \A i \in DOMAIN cur_list :
              \/ cs_array(beyond)[i] = [pid |-> 0, rate |-> Rate(0, 0)]
              \/ \E c \in Matched : cs_array(beyond)[i] = Diff(c, beyond)
         /\ \A c \in Matched : /\ MatchNo(c) \in DOMAIN cur_list
                               /\ cs_array(beyond)[MatchNo(c)] = Diff(c, beyond)
<1> DEFINE at(i) == CHOOSE k \in Matched : MatchNo(k) = i
           arr == [i \in DOMAIN cur_list |->
                     IF \A k \in Matched : MatchNo(k) # i
                       THEN [pid |-> 0, rate |-> Rate(0, 0)]
                       ELSE Diff(at(i), beyond)]
<1>1. cs_array(beyond) = arr
  BY DEF cs_array, Diff, PrevPlace
<1>2. ASSUME NEW i, ~(\A k \in Matched : MatchNo(k) # i)
      PROVE  at(i) \in Matched /\ MatchNo(at(i)) = i
  BY <1>2
<1> HIDE DEF at
<1>3. ASSUME NEW c \in Matched
      PROVE  /\ MatchNo(c) \in DOMAIN cur_list
             /\ arr[MatchNo(c)] = Diff(c, beyond)
  <2>1. MatchNo(c) \in DOMAIN cur_list /\ at(MatchNo(c)) = c
    BY <1>2, MatchesAreNumbered
  <2> QED
    BY <2>1
<1>4. ASSUME NEW i \in DOMAIN cur_list
      PROVE  \/ arr[i] = [pid |-> 0, rate |-> Rate(0, 0)]
             \/ \E c \in Matched : arr[i] = Diff(c, beyond)
  BY <1>2
<1> QED
  BY <1>1, <1>3, <1>4

LEMMA DiffsAreQuotients ==
  ASSUME cur_list \in Seq(Row), prev_list \in Seq(Row), NEW beyond \in Beyond,
         NEW i \in DOMAIN cur_list
  PROVE  cs_array(beyond)[i].rate \in Quotient
<1>1. \A a, b \in Int : Minus(a, b) \in 0 .. W - 1
  <2> SUFFICES ASSUME NEW a \in Int, NEW b \in Int
               PROVE  Minus(a, b) \in 0 .. W - 1
    OBVIOUS
  <2>1. a - b \in Int
    OBVIOUS
  <2> QED
    BY <2>1, Remainder, Zenon DEF Minus
<1>2. \A k \in DOMAIN cur_list : cur_list[k] \in Row
  OBVIOUS
<1>3. ASSUME NEW c \in Matched
      PROVE  Diff(c, beyond).rate \in Quotient
  <2>1. cur_list[c].cpu_time \in Int /\ cur_list[c].sys_cpu_time \in Int
    BY <1>2 DEF Row, Matched
  <2>2. Found(c, beyond).cpu_time \in Int /\ Found(c, beyond).sys_cpu_time \in Int
    <3>1. CASE c \in DOMAIN prev_list
      <4>1. prev_list[c] \in Row
        BY <3>1
      <4> QED
        BY <3>1, <4>1 DEF Row, Found
    <3>2. CASE c \notin DOMAIN prev_list
      <4>1. c \in Len(prev_list) + 1 .. Len(cur_list)
        BY <3>2 DEF Matched
      <4>2. beyond[c] \in [cpu_time : Garbage, sys_cpu_time : Garbage]
        BY <4>1 DEF Beyond
      <4>3. Garbage \subseteq Int
        BY WordAssumption
      <4> QED
        BY <3>2, <4>2, <4>3 DEF Found
    <3> QED
      BY <3>1, <3>2
  <2> QED
    BY <1>1, <2>1, <2>2 DEF Diff, Rate, Quotient
<1>4. Rate(0, 0) \in Quotient
  BY WordAssumption DEF Rate, Quotient
<1> QED
  BY <1>3, <1>4, DiffsAreOfMatches

(* A row stays as it was or is given one of the differences, as its pid has. *)
LEMMA RatedFromDiffs ==
  ASSUME cur_list \in Seq(Row), NEW diffs, DOMAIN diffs = DOMAIN cur_list,
         NEW c \in DOMAIN cur_list
  PROVE  \/ Rated(c, diffs) = cur_list[c]
         \/ \E i \in DOMAIN cur_list :
              /\ diffs[i].pid = cur_list[c].pid
              /\ Rated(c, diffs) = [cur_list[c] EXCEPT !.cpu_util = diffs[i].rate]
<1> DEFINE mine == {i \in DOMAIN diffs : diffs[i].pid = cur_list[c].pid}
           last_of == CHOOSE k \in mine : \A l \in mine : l <= k
<1>1. PICK n \in Nat : DOMAIN cur_list = 1 .. n
  OBVIOUS
<1>2. CASE mine = {}
  BY <1>2 DEF Rated
<1>3. CASE mine # {}
  <2>1. last_of \in mine
    BY <1>1, <1>3, LastOfSome
  <2>2. Rated(c, diffs) \in {cur_list[c],
          [cur_list[c] EXCEPT !.cpu_util = diffs[last_of].rate]}
    BY DEF Rated
  <2> HIDE DEF last_of
  <2> QED
    BY <2>1, <2>2
<1> QED
  BY <1>2, <1>3

(* Utilisations go into rows that are there, and change nothing else.      *)
LEMMA ComputeKeepsRows ==
  ASSUME cur_list \in Seq(Row), prev_list \in Seq(Row), compute_proc_cpu_stat
  PROVE  /\ cur_list' \in Seq(Row)
         /\ DOMAIN cur_list' = DOMAIN cur_list
         /\ \A c \in DOMAIN cur_list : cur_list'[c].pid = cur_list[c].pid
         /\ Pids(cur_list') = Pids(cur_list)
<1>1. PICK beyond \in Beyond :
        cur_list' = IF scans = 1 THEN cur_list
                    ELSE [c \in DOMAIN cur_list |-> Rated(c, cs_array(beyond))]
  BY DEF compute_proc_cpu_stat, Beyond
<1>2. CASE scans = 1
  BY <1>1, <1>2
<1>3. CASE scans # 1
  <2> DEFINE diffs == cs_array(beyond)
  <2>1. DOMAIN diffs = DOMAIN cur_list
    BY DiffsAreOfMatches
  <2>2. ASSUME NEW c \in DOMAIN cur_list
        PROVE  Rated(c, diffs) \in Row /\ Rated(c, diffs).pid = cur_list[c].pid
    <3>1. cur_list[c] \in Row
      OBVIOUS
    <3>2. CASE Rated(c, diffs) = cur_list[c]
      BY <3>1, <3>2
    <3>3. ASSUME NEW i \in DOMAIN cur_list,
                 Rated(c, diffs) = [cur_list[c] EXCEPT !.cpu_util = diffs[i].rate]
          PROVE  Rated(c, diffs) \in Row /\ Rated(c, diffs).pid = cur_list[c].pid
      <4>1. diffs[i].rate \in Quotient
        BY <1>1, DiffsAreQuotients
      <4> HIDE DEF diffs
      <4> QED
        BY <3>1, <3>3, <4>1 DEF Row, Quotient
    <3> HIDE DEF diffs
    <3> QED
      BY <2>1, <3>2, <3>3, RatedFromDiffs
  <2> HIDE DEF diffs
  <2>3. cur_list' = [c \in DOMAIN cur_list |-> Rated(c, diffs)]
    BY <1>1, <1>3 DEF diffs
  <2>4. cur_list' \in [1 .. Len(cur_list) -> Row] /\ Len(cur_list) \in Nat
    BY <2>2, <2>3
  <2>5. cur_list' \in Seq(Row)
    BY <2>4
  <2>6. \A c \in DOMAIN cur_list : cur_list'[c].pid = cur_list[c].pid
    BY <2>2, <2>3
  <2>7. DOMAIN cur_list' = DOMAIN cur_list
    BY <2>3
  <2> QED
    BY <2>5, <2>6, <2>7 DEF Pids
<1> QED
  BY <1>2, <1>3

-----------------------------------------------------------------------------
(* Types.                                                                  *)

LEMMA ProcIsRow ==
  ASSUME TypeOK, NEW pid \in Pid \union {0}, NEW time \in Nat
  PROVE  proc_t(pid, time) \in Row
<1>1. time \in Int /\ cpu.guest + cpu.idle + cpu.busy \in Int
  BY DEF TypeOK
<1>2. time % W \in 0 .. W - 1 /\ set_sys_cpu_time(cpu) \in 0 .. W - 1
  BY <1>1, Remainder DEF set_sys_cpu_time
<1> QED
  BY <1>2 DEF proc_t, Row

LEMMA ReadKeepsTypes ==
  ASSUME TypeOK, read_pid_stat
  PROVE  TypeOK'
<1>1. ASSUME NEW pid \in Pid \union {0}, NEW time \in Nat
      PROVE  proc_t(pid, time) \in Row
  BY ProcIsRow
<1>2. cur_list' \in Seq(Row) /\ stayed' \subseteq stayed
  <2> HIDE DEF proc_t
  <2>1. CASE /\ last \in alive
             /\ cur_list' = Append(cur_list, proc_t(last, cpu_time[last]))
             /\ UNCHANGED stayed
    <3>1. proc_t(last, cpu_time[last]) \in Row
      BY <1>1, <2>1 DEF TypeOK
    <3> QED
      BY <2>1, <3>1, Appending DEF TypeOK
  <2>2. CASE /\ cur_list' = Append(cur_list, proc_t(0, 0))
             /\ stayed' = stayed \ {last}
    BY <1>1, <2>2, Appending DEF TypeOK
  <2> QED
    BY <2>1, <2>2 DEF read_pid_stat
<1> QED
  BY <1>2 DEF TypeOK, read_pid_stat, AfterUnread, system

(* Every variable keeps to its range: in particular each time and each     *)
(* difference of times is a uint64_t, also those that wrapped around and   *)
(* those made of what lies beyond an array (proc.c:243-249).               *)
THEOREM TypeCorrect == Spec => []TypeOK
<1>1. Init => TypeOK
  BY PidAssumption DEF Init, TypeOK, NoTime
<1>2. TypeOK /\ [Next]_vars => TypeOK'
  <2> SUFFICES ASSUME TypeOK, [Next]_vars
               PROVE  TypeOK'
    OBVIOUS
  <2>1. ASSUME NEW p \in Pid, Fork(p) \/ Ends(p)
        PROVE  TypeOK'
    <3>1. /\ alive' \subseteq Pid /\ Lasting \subseteq alive'
          /\ stayed' \subseteq alive' /\ cpu_time' \in [Pid -> Nat]
          /\ UNCHANGED << stat, scanner >>
      BY <2>1 DEF TypeOK, Fork, Ends
    <3> QED
      BY <3>1 DEF TypeOK, scanner
  <2>2. ASSUME NEW p \in Pid, Runs(p)
        PROVE  TypeOK'
    <3>1. cpu_time' \in [Pid -> Nat] /\ UNCHANGED << alive, scanner, stayed >>
      BY <2>2 DEF TypeOK, Runs
    <3>2. stat' \in [busy : Nat, idle : Nat, guest : Nat]
      <4>1. stat.guest + 1 \in Nat /\ stat.busy + 1 \in Nat
        BY DEF TypeOK
      <4>2. PICK g \in Nat : stat' = [stat EXCEPT !.busy = @ + 1, !.guest = g]
        BY <2>2, <4>1 DEF TypeOK, Runs
      <4> QED
        BY <4>1, <4>2 DEF TypeOK
    <3> QED
      BY <3>1, <3>2 DEF TypeOK, scanner
  <2>3. CASE Idles \/ UNCHANGED vars
    BY <2>3 DEF TypeOK, Idles, scanner, system, vars
  <2>4. CASE collect_record
    BY <2>4 DEF TypeOK, collect_record, system
  <2>5. CASE readdir
    BY <2>5 DEF TypeOK, readdir, Later, system
  <2>6. CASE read_cpu_stat
    BY <2>6 DEF TypeOK, read_cpu_stat, NoTime, system
  <2>7. CASE closedir
    BY <2>7 DEF TypeOK, closedir, system
  <2>8. CASE compute_proc_cpu_stat
    <3>1. cur_list' \in Seq(Row)
      BY <2>8, ComputeKeepsRows DEF TypeOK
    <3> QED
      BY <2>8, <3>1 DEF TypeOK, compute_proc_cpu_stat, system
  <2>9. CASE list_add_tail
    BY <2>9 DEF TypeOK, list_add_tail, system
  <2> QED
    BY <2>1, <2>2, <2>3, <2>4, <2>5, <2>6, <2>7, <2>8, <2>9, ReadKeepsTypes
    DEF Next
<1> QED
  BY <1>1, <1>2, PTL DEF Spec

-----------------------------------------------------------------------------
(* The scan.                                                               *)

Distinct(list) ==
  \A j, k \in DOMAIN list : list[j].pid = list[k].pid => j = k \/ list[j].pid = 0

(* The processes the scan is done with: all up to the one it has come to,  *)
(* without that one while its files are still to be read.                  *)
DoneWith(p) == IF pc = "readdir" THEN p <= last ELSE p < last

Scanning == pc \in {"readdir", "read_cpu_stat", "read_pid_stat"}

(* The inductive form of ScanIsComplete.  The order of the process numbers *)
(* makes the scan complete: a process that is there all the time is either *)
(* behind the scan, and has a row, or ahead of it.                         *)
ScanInv ==
  /\ TypeOK
  /\ pc # "wait" => Distinct(cur_list)
  /\ Scanning => /\ \A k \in DOMAIN cur_list : DoneWith(cur_list[k].pid)
                 /\ \A p \in stayed : DoneWith(p) => p \in Pids(cur_list)
  /\ pc \in {"compute", "report"} => stayed \subseteq Pids(cur_list)

(* Process numbers are numbers.                                            *)
LEMMA PidsAreNumbers ==
  ASSUME TypeOK
  PROVE  /\ last \in Nat
         /\ \A p \in Pid : p \in Nat /\ p > 0
         /\ alive \subseteq Pid /\ stayed \subseteq alive
         /\ \A k \in DOMAIN cur_list : cur_list[k].pid \in Nat
<1>1. \A p \in Pid : p \in Nat /\ p > 0
  BY PidAssumption
<1>2. \A k \in DOMAIN cur_list : cur_list[k].pid \in Pid \union {0}
  <2>1. \A k \in DOMAIN cur_list : cur_list[k] \in Row
    BY DEF TypeOK
  <2> QED
    BY <2>1 DEF Row
<1> QED
  BY <1>1, <1>2 DEF TypeOK

(* The row that a process is given, or a blank one when it cannot be read. *)
LEMMA ReadKeepsScan ==
  ASSUME ScanInv, TypeOK', read_pid_stat
  PROVE  ScanInv'
<1>1. /\ pc = "read_pid_stat" /\ pc' = "readdir" /\ last' = last
      /\ cur_list \in Seq(Row)
  BY DEF read_pid_stat, AfterUnread, ScanInv, TypeOK
<1>2. PICK e \in Row : /\ cur_list' = Append(cur_list, e)
                       /\ \/ e.pid = last /\ last \in alive /\ stayed' = stayed
                          \/ e.pid = 0 /\ stayed' = stayed \ {last}
  <2>1. \A p \in Pid : cpu_time[p] \in Nat
    BY DEF ScanInv, TypeOK
  <2>2. ASSUME NEW pid \in Pid \union {0}, NEW time \in Nat
        PROVE  proc_t(pid, time) \in Row /\ proc_t(pid, time).pid = pid
    BY ProcIsRow DEF ScanInv, proc_t
  <2> HIDE DEF proc_t
  <2>3. CASE /\ last \in alive
             /\ cur_list' = Append(cur_list, proc_t(last, cpu_time[last]))
             /\ UNCHANGED stayed
    <3>1. last \in Pid
      BY <2>3 DEF ScanInv, TypeOK
    <3> QED
      BY <2>1, <2>2, <2>3, <3>1
  <2>4. CASE /\ cur_list' = Append(cur_list, proc_t(0, 0))
             /\ stayed' = stayed \ {last}
    BY <2>2, <2>4
  <2> QED
    BY <2>3, <2>4 DEF read_pid_stat
<1>3. /\ last \in Nat /\ stayed \subseteq Nat
      /\ \A k \in DOMAIN cur_list : cur_list[k].pid \in Nat
  BY PidsAreNumbers DEF ScanInv
<1>4. /\ DOMAIN cur_list' = DOMAIN cur_list \union {Len(cur_list) + 1}
      /\ Len(cur_list) + 1 \notin DOMAIN cur_list
      /\ \A k \in DOMAIN cur_list : cur_list'[k] = cur_list[k]
      /\ cur_list'[Len(cur_list) + 1] = e
      /\ Pids(cur_list') = Pids(cur_list) \union {e.pid}
  BY <1>1, <1>2, Appending
<1>5. /\ \A k \in DOMAIN cur_list : cur_list[k].pid < last
      /\ \A p \in stayed : p < last => p \in Pids(cur_list)
      /\ Distinct(cur_list)
  BY <1>1 DEF ScanInv, Scanning, DoneWith
<1>6. Distinct(cur_list')
  <2>1. ASSUME NEW k \in DOMAIN cur_list, cur_list[k].pid = e.pid
        PROVE  e.pid = 0
    BY <1>2, <1>3, <1>5, <2>1
  <2> QED
    BY <1>4, <1>5, <2>1 DEF Distinct
<1>7. \A k \in DOMAIN cur_list' : cur_list'[k].pid <= last
  BY <1>2, <1>3, <1>4, <1>5
<1>8. ASSUME NEW p \in stayed', p <= last
      PROVE  p \in Pids(cur_list')
  <2>1. p \in stayed /\ p \in Nat
    BY <1>2, <1>3
  <2>2. CASE p = last
    BY <1>2, <1>4, <2>2, <1>8
  <2>3. CASE p # last
    <3>1. p < last
      BY <1>3, <1>8, <2>1, <2>3
    <3> QED
      BY <1>4, <1>5, <2>1, <3>1
  <2> QED
    BY <2>2, <2>3
<1> QED
  BY <1>1, <1>6, <1>7, <1>8 DEF ScanInv, Scanning, DoneWith

(* The next process is the first after the last: none that stayed is       *)
(* passed over.                                                            *)
LEMMA ReaddirKeepsScan ==
  ASSUME ScanInv, TypeOK', readdir
  PROVE  ScanInv'
<1>1. /\ pc = "readdir" /\ pc' = "read_cpu_stat"
      /\ UNCHANGED << alive, cur_list, stayed >>
  BY DEF readdir, system
<1>2. /\ last' \in alive /\ last' > last
      /\ \A q \in alive : q > last => last' <= q
  BY DEF readdir, Later
<1>3. /\ last \in Nat /\ alive \subseteq Nat /\ stayed \subseteq alive
      /\ \A k \in DOMAIN cur_list : cur_list[k].pid \in Nat
  BY PidsAreNumbers DEF ScanInv
<1>4. \A k \in DOMAIN cur_list : cur_list[k].pid < last'
  <2> SUFFICES ASSUME NEW k \in DOMAIN cur_list
               PROVE  cur_list[k].pid < last'
    OBVIOUS
  <2>1. cur_list[k].pid <= last
    BY <1>1 DEF ScanInv, Scanning, DoneWith
  <2> QED
    BY <1>2, <1>3, <2>1
<1>5. ASSUME NEW p \in stayed, p < last'
      PROVE  p \in Pids(cur_list)
  <2>1. p \in alive /\ p \in Nat /\ last' \in Nat
    BY <1>2, <1>3
  <2>2. p <= last
    BY <1>2, <1>3, <1>5, <2>1
  <2> QED
    BY <1>1, <2>2 DEF ScanInv, Scanning, DoneWith
<1>6. Pids(cur_list)' = Pids(cur_list)
  BY <1>1 DEF Pids
<1> QED
  BY <1>1, <1>4, <1>5, <1>6 DEF ScanInv, Scanning, DoneWith, Distinct

LEMMA OthersKeepScan ==
  ASSUME ScanInv, TypeOK', [Next]_vars, ~readdir, ~read_pid_stat
  PROVE  ScanInv'
<1>1. CASE \E p \in Pid : Fork(p) \/ Ends(p) \/ Runs(p)
  <2>1. UNCHANGED << pc, last, cur_list >> /\ stayed' \subseteq stayed
    BY <1>1 DEF Fork, Ends, Runs, scanner
  <2> QED
    BY <2>1 DEF ScanInv, Scanning, DoneWith, Distinct, Pids
<1>2. CASE Idles \/ UNCHANGED vars
  BY <1>2 DEF ScanInv, Scanning, DoneWith, Distinct, Pids, Idles, vars,
     scanner, system
<1>3. CASE collect_record
  <2>1. pc' = "readdir" /\ last' = 0 /\ cur_list' = << >> /\ stayed' = alive
    BY <1>3 DEF collect_record
  <2>2. \A p \in stayed' : ~(p <= 0)
    BY <2>1, PidsAreNumbers DEF ScanInv
  <2> QED
    BY <2>1, <2>2 DEF ScanInv, Scanning, DoneWith, Distinct
<1>4. CASE read_cpu_stat
  <2>1. /\ pc = "read_cpu_stat" /\ pc' = "read_pid_stat"
        /\ UNCHANGED << last, cur_list, stayed >>
    BY <1>4 DEF read_cpu_stat
  <2> QED
    BY <2>1 DEF ScanInv, Scanning, DoneWith, Distinct, Pids
<1>5. CASE closedir
  <2>1. /\ pc = "readdir" /\ pc' = "compute"
        /\ UNCHANGED << cur_list, stayed >>
        /\ \A p \in alive : ~(p > last)
    BY <1>5 DEF closedir, Later
  <2>2. \A p \in stayed : p <= last
    BY <2>1, PidsAreNumbers DEF ScanInv
  <2>3. stayed \subseteq Pids(cur_list)
    BY <2>1, <2>2 DEF ScanInv, Scanning, DoneWith
  <2> QED
    BY <2>1, <2>3 DEF ScanInv, Scanning, Distinct, Pids
<1>6. CASE compute_proc_cpu_stat
  <2>1. pc = "compute" /\ pc' = "report" /\ stayed' = stayed
    BY <1>6 DEF compute_proc_cpu_stat
  <2>2. /\ DOMAIN cur_list' = DOMAIN cur_list
        /\ \A k \in DOMAIN cur_list : cur_list'[k].pid = cur_list[k].pid
        /\ Pids(cur_list') = Pids(cur_list)
    BY <1>6, ComputeKeepsRows DEF ScanInv, TypeOK
  <2>3. Distinct(cur_list')
    BY <2>1, <2>2 DEF ScanInv, Distinct
  <2> QED
    BY <2>1, <2>2, <2>3 DEF ScanInv, Scanning
<1>7. CASE list_add_tail
  <2>1. pc' = "wait"
    BY <1>7 DEF list_add_tail
  <2> QED
    BY <2>1 DEF ScanInv, Scanning
<1> QED
  BY <1>1, <1>2, <1>3, <1>4, <1>5, <1>6, <1>7 DEF Next

THEOREM ScanInvariant == Spec => []ScanInv
<1>1. Init /\ TypeOK => ScanInv
  BY PidAssumption DEF Init, ScanInv, Scanning
<1>2. ScanInv /\ TypeOK' /\ [Next]_vars => ScanInv'
  BY ReaddirKeepsScan, ReadKeepsScan, OthersKeepScan
<1> QED
  BY <1>1, <1>2, TypeCorrect, PTL DEF Spec

(* Every process that is there from the beginning of a scan of /proc to    *)
(* its end, and can be read, has exactly one row in it, however many       *)
(* processes start and end meanwhile (proc.c:167-184).                     *)
THEOREM ScanCompletes == Spec => []ScanIsComplete
<1>1. ScanInv => ScanIsComplete
  BY DEF ScanInv, ScanIsComplete, Distinct
<1> QED
  BY <1>1, ScanInvariant, PTL

-----------------------------------------------------------------------------
(* The utilisations.                                                       *)

(* The inductive form of RatedWhenKnown and SamePlaceIsExact: a scan rates *)
(* no row before the computation, and the list kept from the scan before,  *)
(* by which OwnRate finds a process, has no process twice.                 *)
RateInv ==
  /\ Distinct(prev_list)
  /\ Scanning \/ pc = "compute" =>
       \A c \in DOMAIN cur_list : cur_list[c].cpu_util = NoRate
  /\ RatedWhenKnown
  /\ SamePlaceIsExact

(* A row of a process, set against a list with its process in it, is given *)
(* the difference made at its own place, and otherwise nothing.            *)
LEMMA RatedByItsDiff ==
  ASSUME cur_list \in Seq(Row), Distinct(cur_list), NEW beyond,
         NEW c \in DOMAIN cur_list, cur_list[c].pid # 0
  PROVE  Rated(c, cs_array(beyond)) =
           IF Known(cur_list[c].pid)
           THEN [cur_list[c] EXCEPT !.cpu_util = Diff(c, beyond).rate]
           ELSE cur_list[c]
<1> DEFINE diffs == cs_array(beyond)
           mine == {i \in DOMAIN diffs : diffs[i].pid = cur_list[c].pid}
           last_of == CHOOSE k \in mine : \A l \in mine : l <= k
<1>1. PICK n \in Nat : DOMAIN cur_list = 1 .. n
  OBVIOUS
<1>2. \A k \in 1 .. c - 1 : cur_list[k].pid # cur_list[c].pid
  <2>1. \A k \in 1 .. c - 1 : k \in DOMAIN cur_list /\ k # c
    BY <1>1
  <2> QED
    BY <2>1 DEF Distinct
<1>3. Rated(c, diffs) = IF mine = {} THEN cur_list[c]
                        ELSE [cur_list[c] EXCEPT !.cpu_util = diffs[last_of].rate]
  BY <1>2 DEF Rated
<1>4. /\ DOMAIN diffs = DOMAIN cur_list
      /\ \A i \in DOMAIN cur_list :
           \/ diffs[i] = [pid |-> 0, rate |-> Rate(0, 0)]
           \/ \E d \in Matched : diffs[i] = Diff(d, beyond)
      /\ \A d \in Matched : /\ MatchNo(d) \in DOMAIN cur_list
                            /\ diffs[MatchNo(d)] = Diff(d, beyond)
  BY DiffsAreOfMatches
<1>5. \A d \in Matched : /\ d \in DOMAIN cur_list /\ Known(cur_list[d].pid)
                         /\ Diff(d, beyond).pid = cur_list[d].pid
  BY DEF Matched, Diff
<1> HIDE DEF diffs
<1>6. \A i \in mine : c \in Matched /\ diffs[i] = Diff(c, beyond)
  <2> SUFFICES ASSUME NEW i \in mine
               PROVE  c \in Matched /\ diffs[i] = Diff(c, beyond)
    OBVIOUS
  <2>1. PICK d \in Matched : diffs[i] = Diff(d, beyond)
    BY <1>4
  <2>2. d = c
    BY <1>5, <2>1 DEF Distinct
  <2> QED
    BY <2>1, <2>2
<1>7. CASE Known(cur_list[c].pid)
  <2>1. c \in Matched /\ MatchNo(c) \in mine
    BY <1>4, <1>5, <1>7 DEF Matched
  <2>2. \A i \in mine : \E m \in mine : \A l \in mine : l <= m
    BY <1>1, <1>4, LastOfSome
  <2>3. last_of \in mine
    BY <2>1, <2>2
  <2> HIDE DEF mine, last_of
  <2> QED
    BY <1>3, <1>6, <1>7, <2>1, <2>3 DEF diffs
<1>8. CASE ~Known(cur_list[c].pid)
  <2>1. mine = {}
    BY <1>5, <1>6, <1>8
  <2> QED
    BY <1>3, <1>8, <2>1 DEF diffs
<1> QED
  BY <1>7, <1>8

LEMMA ComputeRates ==
  ASSUME ScanInv, TypeOK', RateInv, compute_proc_cpu_stat
  PROVE  RateInv'
<1>1. /\ pc = "compute" /\ pc' = "report" /\ UNCHANGED << prev_list, scans >>
      /\ cur_list \in Seq(Row) /\ prev_list \in Seq(Row)
      /\ Distinct(cur_list) /\ Distinct(prev_list)
  BY DEF compute_proc_cpu_stat, ScanInv, TypeOK, RateInv
<1>2. PICK beyond \in Beyond :
        cur_list' = IF scans = 1 THEN cur_list
                    ELSE [c \in DOMAIN cur_list |-> Rated(c, cs_array(beyond))]
  BY DEF compute_proc_cpu_stat, Beyond
<1>3. CASE scans = 1
  BY <1>1, <1>3 DEF RateInv, Scanning, Distinct, RatedWhenKnown,
     SamePlaceIsExact, Reported
<1>4. CASE scans # 1
  <2>1. DOMAIN cur_list' = DOMAIN cur_list
    BY <1>2, <1>4
  <2>2. ASSUME NEW c \in DOMAIN cur_list
        PROVE  cur_list'[c].pid = cur_list[c].pid
    BY <1>1, ComputeKeepsRows
  <2>3. ASSUME NEW c \in DOMAIN cur_list, cur_list[c].pid # 0
        PROVE  cur_list'[c] =
                 IF Known(cur_list[c].pid)
                 THEN [cur_list[c] EXCEPT !.cpu_util = Diff(c, beyond).rate]
                 ELSE cur_list[c]
    BY <1>1, <1>2, <1>4, <2>3, RatedByItsDiff
  <2>4. ASSUME NEW c \in DOMAIN cur_list, cur_list[c].pid # 0
        PROVE  cur_list'[c].cpu_util =
                 IF Known(cur_list[c].pid) THEN Diff(c, beyond).rate ELSE NoRate
    <3>1. cur_list[c] \in Row /\ cur_list[c].cpu_util = NoRate
      BY <1>1 DEF RateInv
    <3> QED
      BY <2>3, <2>4, <3>1 DEF Row
  <2>5. RatedWhenKnown'
    <3> SUFFICES ASSUME NEW c \in DOMAIN cur_list, cur_list'[c].pid # 0
                 PROVE  cur_list'[c].cpu_util # NoRate
                          <=> cur_list'[c].pid \in Pids(prev_list)
      BY <1>1, <2>1 DEF RatedWhenKnown, Pids
    <3>1. Diff(c, beyond).rate # NoRate
      BY DEF Diff, Rate, NoRate
    <3> QED
      BY <2>2, <2>4, <3>1 DEF Known
  <2>6. SamePlaceIsExact'
    <3> SUFFICES ASSUME NEW c \in DOMAIN cur_list \cap DOMAIN prev_list,
                        cur_list'[c].pid # 0, prev_list[c].pid = cur_list'[c].pid
                 PROVE  cur_list'[c].cpu_util = OwnRate(c)'
      BY <1>1, <2>1 DEF SamePlaceIsExact
    <3>1. cur_list[c].pid # 0 /\ prev_list[c].pid = cur_list[c].pid
      BY <2>2
    <3>2. Known(cur_list[c].pid) /\ Found(c, beyond) = prev_list[c]
      BY <3>1 DEF Known, Pids, Found
    <3> DEFINE own == CHOOSE k \in DOMAIN prev_list :
                        prev_list[k].pid = cur_list'[c].pid
    <3>3. own = c
      BY <1>1, <2>2, <3>1 DEF Distinct
    <3>4. /\ cur_list'[c].cpu_time = cur_list[c].cpu_time
          /\ cur_list'[c].sys_cpu_time = cur_list[c].sys_cpu_time
      <4>1. cur_list[c] \in Row
        BY <1>1
      <4> QED
        BY <2>3, <3>1, <4>1 DEF Row
    <3>5. OwnRate(c)' = Diff(c, beyond).rate
      <4>1. OwnRate(c)' =
              Rate(Minus(cur_list'[c].cpu_time, prev_list[own].cpu_time),
                   Minus(cur_list'[c].sys_cpu_time, prev_list[own].sys_cpu_time))
        BY <1>1 DEF OwnRate, Rate, Minus
      <4> HIDE DEF own
      <4> QED
        BY <3>2, <3>3, <3>4, <4>1 DEF Diff
    <3> QED
      BY <2>4, <3>1, <3>2, <3>5
  <2> QED
    BY <1>1, <2>5, <2>6 DEF RateInv, Scanning
<1> QED
  BY <1>3, <1>4

LEMMA OthersKeepRates ==
  ASSUME ScanInv, TypeOK', RateInv, [Next]_vars, ~compute_proc_cpu_stat
  PROVE  RateInv'
<1>1. CASE UNCHANGED scanner
  BY <1>1 DEF RateInv, scanner, Distinct, Scanning, RatedWhenKnown,
     SamePlaceIsExact, Reported, OwnRate, Minus, Pids
<1>2. CASE collect_record
  BY <1>2 DEF collect_record, RateInv, Scanning, RatedWhenKnown,
     SamePlaceIsExact, Reported
<1>3. CASE readdir \/ read_cpu_stat \/ closedir
  BY <1>3 DEF readdir, read_cpu_stat, closedir, RateInv, Scanning,
     RatedWhenKnown, SamePlaceIsExact, Reported
<1>4. CASE read_pid_stat
  <2>1. /\ pc = "read_pid_stat" /\ pc' = "readdir" /\ prev_list' = prev_list
        /\ cur_list \in Seq(Row)
    BY <1>4 DEF read_pid_stat, AfterUnread, ScanInv, TypeOK
  <2>2. PICK e : /\ cur_list' = Append(cur_list, e) /\ e \in Row
                 /\ e.cpu_util = NoRate
    <3>1. last \in alive => last \in Pid /\ cpu_time[last] \in Nat
      BY DEF ScanInv, TypeOK
    <3>2. ASSUME NEW pid \in Pid \union {0}, NEW time \in Nat
          PROVE  proc_t(pid, time) \in Row /\ proc_t(pid, time).cpu_util = NoRate
      BY ProcIsRow DEF ScanInv, proc_t
    <3> HIDE DEF proc_t
    <3> QED
      BY <1>4, <3>1, <3>2 DEF read_pid_stat
  <2>3. \A k \in DOMAIN cur_list' : cur_list'[k].cpu_util = NoRate
    <3>1. \A k \in DOMAIN cur_list : cur_list[k].cpu_util = NoRate
      BY <2>1 DEF RateInv, Scanning
    <3> QED
      BY <2>1, <2>2, <3>1, Appending
  <2> QED
    BY <2>1, <2>3 DEF RateInv, RatedWhenKnown, SamePlaceIsExact, Reported
<1>5. CASE list_add_tail
  BY <1>5 DEF list_add_tail, RateInv, ScanInv, Scanning, Distinct,
     RatedWhenKnown, SamePlaceIsExact, Reported
<1> QED
  BY <1>1, <1>2, <1>3, <1>4, <1>5 DEF Next, Fork, Ends, Runs, Idles, vars

THEOREM RateInvariant == Spec => []RateInv
<1>1. Init => RateInv
  BY DEF Init, RateInv, Distinct, Scanning, RatedWhenKnown, SamePlaceIsExact,
     Reported
<1>2. ScanInv /\ TypeOK' /\ RateInv /\ [Next]_vars => RateInv'
  BY ComputeRates, OthersKeepRates
<1> QED
  BY <1>1, <1>2, TypeCorrect, ScanInvariant, PTL DEF Spec

(* A process has a utilisation exactly when the scan before has a row of   *)
(* it, whatever processes come, go, or cannot be read (proc.c:240-266).    *)
THEOREM UtilisationsOfKnown == Spec => []RatedWhenKnown
BY RateInvariant, PTL DEF RateInv

(* A process that kept its place is rated by its own times, whatever came  *)
(* and went behind it and whatever the arrays hold beyond their ends       *)
(* (proc.c:243-249).                                                       *)
THEOREM SamePlaceRates == Spec => []SamePlaceIsExact
BY RateInvariant, PTL DEF RateInv
=============================================================================
