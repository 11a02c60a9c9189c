------------------------------ MODULE ProcStat ------------------------------
(***************************************************************************)
(* The process report: get_all_proc scans /proc while processes run, start *)
(* and end, and compute_proc_cpu_stat sets the rows of the new scan against *)
(* those of the scan before it.                                            *)
(*                                                                         *)
(* The two reads a row's utilisation is made of, the system's counters and *)
(* the process's, are steps of their own: the system goes on in between.   *)
(* A row keeps its pid, its two times and its utilisation; the rest of     *)
(* proc_t is text.  Times are unsigned numbers below W.                    *)
(***************************************************************************)
EXTENDS Integers, Sequences, FiniteSets

CONSTANTS
  Pid,       \* the process numbers in use
  Lasting,   \* processes that never end (the first, and zsr itself)
  Guests,    \* processes whose time is spent in a virtual machine
  W,         \* how many values a uint64_t has
  Garbage,   \* what may be found beyond the end of an allocated array
  MaxTicks,  \* bound: the ticks of the clock that are looked at
  MaxScans   \* bound: the scans that are looked at

ASSUME PidAssumption ==
  /\ Pid \subseteq Nat \ {0}
  /\ Lasting \subseteq Pid
  /\ Guests \subseteq Pid

ASSUME WordAssumption ==
  /\ W \in Nat \ {0}
  /\ Garbage \subseteq 0 .. W - 1
  /\ MaxTicks \in Nat
  /\ MaxScans \in Nat

VARIABLES
  alive,     \* the processes there are
  cpu_time,  \* cpu_time[p]: the ticks process p has run for
  stat,      \* the counters of /proc/stat
  pc,        \* where the scan is
  last,      \* the process readdir has come to, 0 before the first
  cpu,       \* store_single_pid_info's copy of the counters
  cur_list,  \* the rows of this scan
  prev_list, \* the rows of the scan before it
  scans,     \* the number of scans begun
  stayed     \* the processes that were there when the scan began, have not
             \* ended since and could be read (a history of the environment)

system  == << alive, cpu_time, stat >>
scanner == << pc, last, cpu, cur_list, prev_list, scans >>
vars    == << system, scanner, stayed >>

-----------------------------------------------------------------------------
(* As if times were signed.                                                *)
Minus_signed(a, b) == a - b

(* The unsigned difference of two times.                                   *)
Minus(a, b) == (a - b) % W

NoTime == [busy |-> 0, idle |-> 0, guest |-> 0]

Ticks == stat.busy + stat.idle

(* guest is added although busy, which stands for the fields user, nice    *)
(* and the like, counts the same ticks.                                    *)
set_sys_cpu_time(c) == (c.guest + c.idle + c.busy) % W

(* cpu_util as set by memset, and as a quotient of two differences.        *)
NoRate == << >>
Rate(cpu_diff, sys_diff) == << cpu_diff, sys_diff >>

Row == [ pid : Pid \union {0}, cpu_time : 0 .. W - 1, sys_cpu_time : 0 .. W - 1,
         cpu_util : {NoRate} \union ((0 .. W - 1) \X (0 .. W - 1)) ]

proc_t(pid, time) ==
  [ pid |-> pid, cpu_time |-> time % W, sys_cpu_time |-> set_sys_cpu_time(cpu),
    cpu_util |-> NoRate ]

Pids(list) == {list[k].pid : k \in DOMAIN list}

Init ==
  /\ alive = Lasting
  /\ cpu_time = [p \in Pid |-> 0]
  /\ stat = NoTime
  /\ pc = "wait"
  /\ last = 0
  /\ cpu = NoTime
  /\ cur_list = << >>
  /\ prev_list = << >>
  /\ scans = 0
  /\ stayed = {}

-----------------------------------------------------------------------------
(* The system, at any time.                                                *)

Fork(p) ==
  /\ p \notin alive
  /\ alive' = alive \union {p}
  /\ cpu_time' = [cpu_time EXCEPT ![p] = 0]
  /\ UNCHANGED << stat, scanner, stayed >>

Ends(p) ==
  /\ p \in alive \ Lasting
  /\ alive' = alive \ {p}
  /\ stayed' = stayed \ {p}
  /\ UNCHANGED << cpu_time, stat, scanner >>

Runs(p) ==
  /\ p \in alive
  /\ Ticks < MaxTicks
  /\ cpu_time' = [cpu_time EXCEPT ![p] = @ + 1]
  /\ stat' = [stat EXCEPT !.busy = @ + 1,
                          !.guest = IF p \in Guests THEN @ + 1 ELSE @]
  /\ UNCHANGED << alive, scanner, stayed >>

Idles ==
  /\ Ticks < MaxTicks
  /\ stat' = [stat EXCEPT !.idle = @ + 1]
  /\ UNCHANGED << alive, cpu_time, scanner, stayed >>

-----------------------------------------------------------------------------
(* get_all_proc.                                                           *)

(* mod_proc's collect_record.                                              *)
collect_record ==
  /\ pc = "wait"
  /\ scans < MaxScans
  /\ pc' = "readdir"
  /\ scans' = scans + 1
  /\ last' = 0
  /\ cur_list' = << >>
  /\ stayed' = alive
  /\ UNCHANGED << system, cpu, prev_list >>

(* readdir gives the processes in the order of their numbers.  The stat    *)
(* that follows is part of the step: a process that ends between the two   *)
(* is passed over like one that ended before.                              *)
Later == {p \in alive : p > last}

readdir ==
  /\ pc = "readdir"
  /\ \E p \in Later :
       /\ \A q \in Later : p <= q
       /\ last' = p
  /\ pc' = "read_cpu_stat"
  /\ UNCHANGED << system, cpu, cur_list, prev_list, scans, stayed >>

(* The counters stay 0 when /proc/stat cannot be opened.                   *)
read_cpu_stat ==
  /\ pc = "read_cpu_stat"
  /\ cpu' \in {stat, NoTime}
  /\ pc' = "read_pid_stat"
  /\ UNCHANGED << system, last, cur_list, prev_list, scans, stayed >>

(* As if a process that has ended also ended the scan.                     *)
AfterUnread_return == "compute"

(* A process whose files cannot be read costs its own row only.            *)
AfterUnread == "readdir"

(* A process that has ended, or for which no descriptor is left, is listed *)
(* all the same, as memset left its row.                                   *)
read_pid_stat ==
  /\ pc = "read_pid_stat"
  /\ \/ /\ last \in alive
        /\ cur_list' = Append(cur_list, proc_t(last, cpu_time[last]))
        /\ pc' = "readdir"
        /\ UNCHANGED stayed
     \/ /\ cur_list' = Append(cur_list, proc_t(0, 0))
        /\ pc' = AfterUnread
        /\ stayed' = stayed \ {last}
  /\ UNCHANGED << system, last, cpu, prev_list, scans >>

closedir ==
  /\ pc = "readdir"
  /\ Later = {}
  /\ pc' = "compute"
  /\ UNCHANGED << system, last, cpu, cur_list, prev_list, scans, stayed >>

-----------------------------------------------------------------------------
(* compute_proc_cpu_stat.                                                  *)

Known_any(pid) == TRUE

Known(pid) == pid \in Pids(prev_list)

(* The places of cur_list whose process has a row in prev_list.            *)
Matched == {c \in DOMAIN cur_list : Known(cur_list[c].pid)}

(* What i has come to with the match at place c: one for each match so far. *)
MatchNo(c) == Cardinality({k \in Matched : k <= c})

(* The i-th match is at place c of cur_list.                               *)
PrevPlace_match(c, i) == i

(* The place of prev_list a match is set against is its own place in       *)
(* cur_list (c), not the place where its process was found (p).            *)
PrevPlace(c, i) == c

(* What the arrays of prev_list hold at place k, its rows or what lies     *)
(* beyond them.                                                            *)
Found(k, beyond) == IF k \in DOMAIN prev_list THEN prev_list[k] ELSE beyond[k]

(* The array of differences, as long as cur_list: the matches, then zeros. *)
cs_array(beyond) ==
  [i \in DOMAIN cur_list |->
     IF \A k \in Matched : MatchNo(k) # i THEN [pid |-> 0, rate |-> Rate(0, 0)]
     ELSE LET c == CHOOSE k \in Matched : MatchNo(k) = i
              cs == cur_list[c]
              ps == Found(PrevPlace(c, i), beyond)
          IN  [ pid |-> cs.pid,
                rate |-> Rate(Minus(cs.cpu_time, ps.cpu_time),
                              Minus(cs.sys_cpu_time, ps.sys_cpu_time)) ]]

(* Each difference goes to the first row with its pid; where several go to *)
(* the same row, as they may for rows without a pid, the last one stays.   *)
Rated(c, diffs) ==
  LET pid == cur_list[c].pid
      mine == {i \in DOMAIN diffs : diffs[i].pid = pid}
      first == \A k \in 1 .. c - 1 : cur_list[k].pid # pid
  IN  IF ~first \/ mine = {} THEN cur_list[c]
      ELSE LET i == CHOOSE k \in mine : \A l \in mine : l <= k
           IN  [cur_list[c] EXCEPT !.cpu_util = diffs[i].rate]

compute_proc_cpu_stat ==
  /\ pc = "compute"
  /\ \E beyond \in [Len(prev_list) + 1 .. Len(cur_list) ->
                      [cpu_time : Garbage, sys_cpu_time : Garbage]] :
       LET diffs == cs_array(beyond)
       IN  cur_list' = IF scans = 1 THEN cur_list
                       ELSE [c \in DOMAIN cur_list |-> Rated(c, diffs)]
  /\ pc' = "report"
  /\ UNCHANGED << system, last, cpu, prev_list, scans, stayed >>

(* The new list is linked in as the last.                                  *)
list_add_tail ==
  /\ pc = "report"
  /\ prev_list' = cur_list
  /\ pc' = "wait"
  /\ UNCHANGED << system, last, cpu, cur_list, scans, stayed >>

Next ==
  \/ \E p \in Pid : Fork(p)
  \/ \E p \in Pid : Ends(p)
  \/ \E p \in Pid : Runs(p)
  \/ Idles
  \/ collect_record
  \/ readdir
  \/ read_cpu_stat
  \/ read_pid_stat
  \/ closedir
  \/ compute_proc_cpu_stat
  \/ list_add_tail

Spec == Init /\ [][Next]_vars

-----------------------------------------------------------------------------
(* Properties.                                                             *)

(* Every variable keeps to its range.                                      *)
TypeOK ==
  /\ alive \subseteq Pid
  /\ Lasting \subseteq alive
  /\ cpu_time \in [Pid -> Nat]
  /\ stat \in [busy : Nat, idle : Nat, guest : Nat]
  /\ pc \in { "wait", "readdir", "read_cpu_stat", "read_pid_stat", "compute",
              "report" }
  /\ last \in Pid \union {0}
  /\ cpu \in [busy : Nat, idle : Nat, guest : Nat]
  /\ cur_list \in Seq(Row)
  /\ prev_list \in Seq(Row)
  /\ scans \in Nat
  /\ stayed \subseteq alive

Reported == pc = "report" /\ scans > 1

(* What the utilisation of row c would be, set against the row of the same *)
(* process (zsr.h's comment on cpu_time).                                  *)
OwnRate(c) ==
  LET cs == cur_list[c]
      ps == prev_list[CHOOSE k \in DOMAIN prev_list : prev_list[k].pid = cs.pid]
  IN  Rate(Minus(cs.cpu_time, ps.cpu_time), Minus(cs.sys_cpu_time, ps.sys_cpu_time))

(* A process that is there from the beginning of a scan to its end has one *)
(* row in it, and no process has two, whatever starts and ends and whatever *)
(* cannot be read in the meantime (proc.c:167-184).                        *)
ScanIsComplete ==
  pc \in {"compute", "report"} =>
    /\ stayed \subseteq Pids(cur_list)
    /\ \A j, k \in DOMAIN cur_list :
         cur_list[j].pid = cur_list[k].pid => j = k \/ cur_list[j].pid = 0

(* A process has a utilisation exactly when the scan before has a row of   *)
(* it: a process that has just started is not given one (proc.c:240-266).  *)
RatedWhenKnown ==
  Reported =>
    \A c \in DOMAIN cur_list : cur_list[c].pid # 0 =>
      (cur_list[c].cpu_util # NoRate <=> cur_list[c].pid \in Pids(prev_list))

(* A process that has the same place in both scans is rated by its own     *)
(* times, whatever became of the others (proc.c:243-249).                  *)
SamePlaceIsExact ==
  Reported =>
    \A c \in DOMAIN cur_list \cap DOMAIN prev_list :
      (cur_list[c].pid # 0 /\ prev_list[c].pid = cur_list[c].pid) =>
        cur_list[c].cpu_util = OwnRate(c)

-----------------------------------------------------------------------------
(* What the comments say, and the code does not do.                        *)

(* "used to compute the CPU utilisation of one and the same process" (the  *)
(* comment of zsr.h on proc_cpu_stat_array_t): every utilisation is made   *)
(* of the times of the process it is given to.                             *)
RateIsOfOneProcess ==
  Reported =>
    \A c \in DOMAIN cur_list :
      (cur_list[c].pid # 0 /\ cur_list[c].pid \in Pids(prev_list)) =>
        cur_list[c].cpu_util = OwnRate(c)
=============================================================================
