------------------------------- MODULE Rates -------------------------------
(***************************************************************************)
(* The rates of the cpu and the io report: two samples of the kernel's     *)
(* counters, a round apart, and the differences between them.              *)
(*                                                                         *)
(* The kernel goes on between any two reads: ticks pass, processors and    *)
(* devices come and go, idle or iowait falls (which /proc/stat does not    *)
(* exclude), a file cannot be opened.  Numbers are unsigned, below W.  A   *)
(* rate is kept as the two numbers it is the quotient of.                  *)
(***************************************************************************)
EXTENDS Integers, Sequences, FiniteSets

CONSTANTS
  Devices,   \* the block devices, in the order /proc/diskstats lists them
  HZ,        \* clock ticks per second
  W,         \* how many values a uint64_t has
  MaxTicks,  \* bound: the clock ticks that are looked at
  MaxIos,    \* bound: the I/Os of a device that are looked at
  MaxFaults, \* bound: how often something unusual happens
  MaxRounds  \* bound: the rounds that are looked at

Device == DOMAIN Devices

ASSUME DevicesAssumption == Devices \in Seq(STRING)

(* The clock is 100 ticks a second on Linux; a rate that divides 100 is one *)
(* that the hundredths of /proc/uptime can show.                           *)
ASSUME ClockAssumption == HZ \in {h \in 1 .. 100 : 100 % h = 0}

(* No counter wraps around while the system is looked at: 64 bits hold     *)
(* more ticks, at 100 a second, and more I/Os than any machine lasts for.  *)
ASSUME WordAssumption ==
  /\ MaxTicks \in Nat /\ MaxIos \in Nat /\ MaxFaults \in Nat /\ MaxRounds \in Nat
  /\ W \in Nat /\ W > 2 * MaxTicks + 4 /\ W > MaxIos

Counter == {"busy", "idle", "iowait", "irq"}

VARIABLES
  stat,        \* the counters of /proc/stat, all processors together
  uptime,      \* ticks since boot, which /proc/uptime shows
  cpus,        \* the processors /proc/stat lists
  disk,        \* disk[d]: is d attached, how often has it been, its I/Os
  ticks,       \* the ticks that have passed since the program was started
  faults,      \* the unusual things that have happened so far
  pc,          \* where the round is
  round,       \* the number of the round
  entry,       \* the cpu record of this round
  prev_record, \* the cpu record of the round before
  NUM_OF_CPU,  \* io.c's static, kept from round to round
  line,        \* the line of /proc/diskstats that is read next
  node,        \* the row being filled in
  cur_list,    \* the rows of this round
  prev_list    \* the rows of the round before

kernel == << stat, uptime, cpus, disk, ticks >>
cpu    == << entry, prev_record >>
io     == << NUM_OF_CPU, line, node, cur_list, prev_list >>
vars   == << kernel, faults, pc, round, cpu, io >>

-----------------------------------------------------------------------------
(* The unsigned difference.                                                *)
Minus(a, b) == (a - b) % W

NoStat == [c \in Counter |-> 0]
NoRate == << >>

(* busy stands for user, nice, sys and the rest: sum_cpu_stat adds each    *)
(* counter once, guest time not at all.                                    *)
sum_cpu_stat_without_iowait(s) == (s["busy"] + s["idle"] + s["irq"]) % W

sum_cpu_stat(s) == (s["busy"] + s["idle"] + s["iowait"] + s["irq"]) % W

(* Seconds and hundredths, as /proc/uptime shows them, turned into ticks.  *)
Jiffies(up_sec, up_cent) == (up_sec * HZ + (up_cent * HZ) \div 100) % W

Centiseconds(t) == (t * 100) \div HZ

-----------------------------------------------------------------------------
(* A cpu record and an io row, as memset leaves them.  read, gen, smp and  *)
(* at are histories: was the source read, how often had the device been    *)
(* attached, was the row read on several processors, and when.             *)
Record == [stat |-> NoStat, read |-> FALSE, rate |-> NoRate]
Row    == [ dev |-> 0, gen |-> 0, ios |-> 0, uptime |-> 0, uptime0 |-> 0,
            read |-> FALSE, smp |-> FALSE, at |-> 0, tps |-> NoRate ]

Init ==
  /\ stat = [c \in Counter |-> 1]
  /\ uptime = Cardinality(Counter)
  /\ cpus \in {1, 2}
  /\ disk = [d \in Device |-> [on |-> TRUE, gen |-> 1, ios |-> 0]]
  /\ ticks = 0
  /\ faults = 0
  /\ pc = "wait"
  /\ round = 0
  /\ entry = Record
  /\ prev_record = Record
  /\ NUM_OF_CPU = 1
  /\ line = 1
  /\ node = Row
  /\ cur_list = << >>
  /\ prev_list = << >>

(* Something unusual happens.                                              *)
Unusual == faults < MaxFaults /\ faults' = faults + 1

-----------------------------------------------------------------------------
(* The kernel, at any time.                                                *)

(* Every processor spends the tick on the same thing.                      *)
Tick(c) ==
  /\ ticks < MaxTicks
  /\ ticks' = ticks + 1
  /\ uptime' = uptime + 1
  /\ stat' = [stat EXCEPT ![c] = @ + cpus]
  /\ UNCHANGED << cpus, disk, faults, pc, round, cpu, io >>

Falls(c) ==
  /\ Unusual
  /\ c \in {"idle", "iowait"} /\ stat[c] > 0
  /\ stat' = [stat EXCEPT ![c] = @ - 1]
  /\ UNCHANGED << uptime, cpus, disk, ticks, pc, round, cpu, io >>

PlugCpu ==
  /\ Unusual
  /\ cpus' = 3 - cpus
  /\ UNCHANGED << stat, uptime, disk, ticks, pc, round, cpu, io >>

Transfer(d) ==
  /\ disk[d].on
  /\ disk[d].ios < MaxIos
  /\ disk' = [disk EXCEPT ![d].ios = @ + 1]
  /\ UNCHANGED << stat, uptime, cpus, ticks, faults, pc, round, cpu, io >>

Detach(d) ==
  /\ Unusual
  /\ disk[d].on
  /\ disk' = [disk EXCEPT ![d].on = FALSE]
  /\ UNCHANGED << stat, uptime, cpus, ticks, pc, round, cpu, io >>

Attach(d) ==
  /\ ~disk[d].on
  /\ disk' = [disk EXCEPT ![d] = [on |-> TRUE, gen |-> @.gen + 1, ios |-> 0]]
  /\ UNCHANGED << stat, uptime, cpus, ticks, faults, pc, round, cpu, io >>

(* Between two reads: a step the kernel takes while the program reads      *)
(* nothing can as well be taken before the next read.                      *)
Reading ==
  \/ pc = "wait" /\ round < MaxRounds
  \/ pc \in {"count", "fgets", "uptime", "uptime0"}

Kernel ==
  /\ Reading
  /\ \/ \E c \in Counter : Tick(c) \/ Falls(c)
     \/ PlugCpu
     \/ \E d \in Device : Transfer(d) \/ Detach(d) \/ Attach(d)

-----------------------------------------------------------------------------
(* The cpu module.                                                         *)

(* A source is read, or it cannot be opened and leaves what memset left.   *)
Reads(read) == IF read THEN UNCHANGED faults ELSE Unusual

compute_cpu_stat_first(cs, ps) ==
  LET total == Minus(sum_cpu_stat(cs), sum_cpu_stat(ps))
  IN  IF total = 0
      THEN NoRate
      ELSE << (Minus(cs["idle"], ps["idle"]) + Minus(cs["irq"], ps["irq"])) % W,
              Minus(cs["iowait"], ps["iowait"]),
              total >>

(* << idle, wa, total >>, unless the older record was not read or the      *)
(* totals are the same.  The counter that the code names steal is the one  *)
(* /proc/stat has for irq, and counts as idle.                             *)
compute_cpu_stat(cs, ps) ==
  LET total == Minus(sum_cpu_stat(cs), sum_cpu_stat(ps))
  IN  IF sum_cpu_stat(ps) = 0 \/ total = 0
      THEN NoRate
      ELSE << (Minus(cs["idle"], ps["idle"]) + Minus(cs["irq"], ps["irq"])) % W,
              Minus(cs["iowait"], ps["iowait"]),
              total >>

(* mod_cpu's collect_record.                                               *)
collect_cpu ==
  /\ pc = "wait" /\ round < MaxRounds
  /\ round' = round + 1
  /\ \E read \in BOOLEAN :
       LET now == IF read THEN stat ELSE NoStat
       IN  /\ Reads(read)
           /\ entry' = [ stat |-> now, read |-> read,
                         rate |-> IF round = 0 THEN NoRate
                                  ELSE compute_cpu_stat(now, prev_record.stat) ]
  /\ pc' = "cpu"
  /\ UNCHANGED << kernel, prev_record, io >>

(* The new record is the last entry of the history from now on; those      *)
(* before it are kept, and not looked at again.                            *)
list_add_tail_cpu ==
  /\ pc = "cpu"
  /\ prev_record' = entry
  /\ entry' = Record
  /\ pc' = "count"
  /\ UNCHANGED << kernel, faults, round, io >>

-----------------------------------------------------------------------------
(* The io module: read_io_stat, compute_io_stat.                           *)

get_num_of_cpu ==
  /\ pc = "count"
  /\ \E read \in BOOLEAN :
       /\ Reads(read)
       /\ NUM_OF_CPU' = IF read THEN cpus ELSE NUM_OF_CPU
       /\ pc' = IF read THEN "open" ELSE "exit"
  /\ UNCHANGED << kernel, round, cpu, line, node, cur_list, prev_list >>

open_diskstats ==
  /\ pc = "open"
  /\ \E read \in BOOLEAN :
       /\ Reads(read)
       /\ pc' = IF read THEN "fgets" ELSE "compute"
  /\ line' = 1
  /\ cur_list' = << >>
  /\ UNCHANGED << kernel, round, cpu, NUM_OF_CPU, node, prev_list >>

fgets ==
  /\ pc = "fgets"
  /\ LET lines == {d \in Device : line <= d /\ disk[d].on}
     IN  \/ /\ lines = {}
            /\ pc' = "compute"
            /\ UNCHANGED << line, node >>
         \/ \E d \in lines :
              /\ \A e \in lines : d <= e
              /\ node' = [Row EXCEPT !.dev = d, !.gen = disk[d].gen,
                                     !.ios = disk[d].ios % W]
              /\ line' = d + 1
              /\ pc' = "uptime"
  /\ UNCHANGED << kernel, faults, round, cpu, NUM_OF_CPU, cur_list, prev_list >>

(* node->stat.uptime = get_cpu_time_in_jiffies().                          *)
get_cpu_time_in_jiffies ==
  /\ pc = "uptime"
  /\ \E read \in BOOLEAN :
       /\ Reads(read)
       /\ node' = [node EXCEPT !.uptime = sum_cpu_stat(IF read THEN stat ELSE NoStat),
                               !.read = read, !.at = uptime]
  /\ pc' = IF NUM_OF_CPU > 1 THEN "uptime0" ELSE "sscanf"
  /\ UNCHANGED << kernel, round, cpu, NUM_OF_CPU, line, cur_list, prev_list >>

(* node->stat.uptime0 = read_uptime_in_jiffies(), on an SMP machine.       *)
read_uptime_in_jiffies ==
  /\ pc = "uptime0"
  /\ \E read \in BOOLEAN :
       LET up == Centiseconds(uptime)
       IN  /\ Reads(read)
           /\ node' = [node EXCEPT
                         !.uptime0 = IF read THEN Jiffies(up \div 100, up % 100)
                                     ELSE 0,
                         !.read = read, !.at = uptime, !.smp = TRUE]
  /\ pc' = "sscanf"
  /\ UNCHANGED << kernel, round, cpu, NUM_OF_CPU, line, cur_list, prev_list >>

(* A line that does not parse ends the scan, and its row is lost.          *)
sscanf ==
  /\ pc = "sscanf"
  /\ \E read \in BOOLEAN :
       /\ Reads(read)
       /\ cur_list' = IF read THEN Append(cur_list, node) ELSE cur_list
       /\ pc' = IF read THEN "fgets" ELSE "compute"
  /\ node' = Row
  /\ UNCHANGED << kernel, round, cpu, NUM_OF_CPU, line, prev_list >>

Own_any(row) == DOMAIN prev_list               \* without the strcmp
Interval_uptime(cs, ps) == Minus(cs.uptime, ps.uptime)

Own(row) == {k \in DOMAIN prev_list : prev_list[k].dev = row.dev}

Interval(cs, ps) ==
  IF NUM_OF_CPU > 1 THEN Minus(cs.uptime0, ps.uptime0)
  ELSE Minus(cs.uptime, ps.uptime)

(* tps stands for all the rates that are differences over the interval.    *)
Rated(row) ==
  LET own == Own(row)
      ps == prev_list[CHOOSE k \in own : \A j \in own : k <= j]
  IN  IF own = {} THEN row
      ELSE [row EXCEPT !.tps = << Minus(row.ios, ps.ios), Interval(row, ps) >>]

compute_io_stat ==
  /\ pc = "compute"
  /\ cur_list' = IF round = 1 THEN cur_list
                 ELSE [k \in DOMAIN cur_list |-> Rated(cur_list[k])]
  /\ pc' = "report"
  /\ UNCHANGED << kernel, faults, round, cpu, NUM_OF_CPU, line, node, prev_list >>

(* The rows of this round are the last entry of the history from now on.   *)
list_add_tail ==
  /\ pc = "report"
  /\ prev_list' = cur_list
  /\ cur_list' = << >>
  /\ pc' = "wait"
  /\ UNCHANGED << kernel, faults, round, cpu, NUM_OF_CPU, line, node >>

Next ==
  \/ Kernel
  \/ collect_cpu
  \/ list_add_tail_cpu
  \/ get_num_of_cpu
  \/ open_diskstats
  \/ fgets
  \/ get_cpu_time_in_jiffies
  \/ read_uptime_in_jiffies
  \/ sscanf
  \/ compute_io_stat
  \/ list_add_tail

Spec == Init /\ [][Next]_vars

-----------------------------------------------------------------------------
(* Properties.                                                             *)

Computed == pc = "cpu" /\ round > 1

(* A cpu record has rates exactly when the record before it was read and   *)
(* the totals differ: none in the first round, none in the round after one *)
(* that could not read /proc/stat, whose baseline is all zeros             *)
(* (cpu.c:64-70).                                                          *)
CpuRatedAgainstReading ==
  Computed =>
    (entry.rate # NoRate <=>
       prev_record.read /\ sum_cpu_stat(entry.stat) # sum_cpu_stat(prev_record.stat))

(* As long as no counter falls, idle, wa and the rest are shares of one    *)
(* whole: the utilisation includes wa, as mod_cpu's description has it,    *)
(* and what it has beyond wa is the growth of busy (cpu.c:72-75).          *)
SharesAddUp ==
  (Computed /\ entry.rate # NoRate /\ entry.read
     /\ \A c \in Counter : prev_record.stat[c] <= entry.stat[c]) =>
    LET idle == entry.rate[1]  wa == entry.rate[2]  total == entry.rate[3]
    IN  total - idle - wa = entry.stat["busy"] - prev_record.stat["busy"]

Row_of(d) == CHOOSE k \in DOMAIN prev_list : prev_list[k].dev = d

Rows == {cur_list[k] : k \in DOMAIN cur_list}

(* A device is rated exactly when it has a row in the round before, and by *)
(* that row's count, whatever was attached, detached or unreadable in      *)
(* between; the count only wraps when the device was detached, and not for *)
(* one that stayed (io.c:116-122).                                         *)
IoRatedByOwnRow ==
  (pc = "report" /\ round > 1) =>
    \A row \in Rows :
      /\ row.tps # NoRate <=> \E k \in DOMAIN prev_list : prev_list[k].dev = row.dev
      /\ row.tps # NoRate =>
           LET ps == prev_list[Row_of(row.dev)]
           IN  ps.gen = row.gen => row.tps[1] = row.ios - ps.ios

(* The interval is the time that passed between the two reads of the       *)
(* device.  With several processors that takes both rows to have been read *)
(* with several: after one in which /proc/uptime could not be read, or     *)
(* there was one processor only, it is the time since boot.  With one, it  *)
(* is right as long as nothing unusual happens (io.c:124-128).             *)
IntervalIsElapsed ==
  (pc = "report" /\ round > 1) =>
    \A row \in Rows : (row.tps # NoRate /\ row.read) =>
      LET ps == prev_list[Row_of(row.dev)]
          elapsed == row.at - ps.at
      IN  /\ NUM_OF_CPU > 1 =>
               row.tps[2] = IF ps.smp /\ ps.read THEN elapsed ELSE row.at
          /\ faults = 0 => row.tps[2] = elapsed

-----------------------------------------------------------------------------
(* What a comment says, and the code does not do.                          *)

(* "no tick changes, or tick overflows" (cpu.c:68) above the test that     *)
(* leaves a record without rates: rates are only computed from a total     *)
(* that has grown.                                                         *)
NoRateFromLostTicks ==
  (Computed /\ entry.rate # NoRate) =>
    sum_cpu_stat(entry.stat) > sum_cpu_stat(prev_record.stat)
=============================================================================
