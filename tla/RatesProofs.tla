----------------------------- MODULE RatesProofs -----------------------------
(***************************************************************************)
(* Proofs about the cpu and io rates, for any number of devices, any       *)
(* course of the counters and any reads that fail.                         *)
(***************************************************************************)
EXTENDS Rates, FiniteSetTheorems, TLAPS

-----------------------------------------------------------------------------
(* Numbers.                                                                *)

(* Remainders of W, and differences of numbers below W.                    *)
LEMMA Exact ==
  /\ \A x \in 0 .. W - 1 : x % W = x
  /\ \A a, b \in 0 .. W - 1 : b <= a => Minus(a, b) = a - b
  /\ \A a, b \in 0 .. W - 1 : Minus(a, b) = 0 <=> a = b
  /\ \A a, b \in Int : Minus(a, b) \in 0 .. W - 1
  /\ \A x \in Int : x % W \in 0 .. W - 1
BY WordAssumption DEF Minus

(* What the program makes of /proc/uptime is the ticks since boot, if the  *)
(* clock's rate divides 100.                                               *)
LEMMA UptimeIsExact ==
  ASSUME NEW t \in 0 .. W - 1
  PROVE  Jiffies(Centiseconds(t) \div 100, Centiseconds(t) % 100) = t
<1>1. HZ \in {1, 2, 4, 5, 10, 20, 25, 50, 100}
  BY ClockAssumption
<1>2. CASE HZ = 100
  BY <1>2, Exact DEF Jiffies, Centiseconds
<1>3. CASE HZ = 50
  BY <1>3, Exact DEF Jiffies, Centiseconds
<1>4. CASE HZ = 25
  BY <1>4, Exact DEF Jiffies, Centiseconds
<1>5. CASE HZ = 20
  BY <1>5, Exact DEF Jiffies, Centiseconds
<1>6. CASE HZ = 10
  BY <1>6, Exact DEF Jiffies, Centiseconds
<1>7. CASE HZ = 5
  BY <1>7, Exact DEF Jiffies, Centiseconds
<1>8. CASE HZ = 4
  BY <1>8, Exact DEF Jiffies, Centiseconds
<1>9. CASE HZ = 2
  BY <1>9, Exact DEF Jiffies, Centiseconds
<1>10. CASE HZ = 1
  BY <1>10, Exact DEF Jiffies, Centiseconds
<1> QED
  BY <1>1, <1>2, <1>3, <1>4, <1>5, <1>6, <1>7, <1>8, <1>9, <1>10

LEMMA FourCounters == Cardinality(Counter) = 4
<1>1. IsFiniteSet({}) /\ Cardinality({}) = 0
  BY FS_EmptySet
<1>2. /\ IsFiniteSet({} \union {"busy"}) /\ Cardinality({} \union {"busy"}) = 1
  BY <1>1, FS_AddElement
<1>3. /\ IsFiniteSet({"busy"}) /\ Cardinality({"busy"}) = 1
  BY FS_Singleton
<1>4. /\ IsFiniteSet({"busy"} \union {"idle"})
      /\ Cardinality({"busy"} \union {"idle"}) = 2
  BY <1>3, FS_AddElement
<1>5. /\ IsFiniteSet({"busy", "idle"} \union {"iowait"})
      /\ Cardinality({"busy", "idle"} \union {"iowait"}) = 3
  <2>1. {"busy", "idle"} = {"busy"} \union {"idle"} /\ "iowait" \notin {"busy", "idle"}
    OBVIOUS
  <2> QED
    BY <1>4, <2>1, FS_AddElement
<1>6. Cardinality({"busy", "idle", "iowait"} \union {"irq"}) = 4
  <2>1. /\ {"busy", "idle", "iowait"} = {"busy", "idle"} \union {"iowait"}
        /\ "irq" \notin {"busy", "idle", "iowait"}
    OBVIOUS
  <2> QED
    BY <1>5, <2>1, FS_AddElement
<1>7. Counter = {"busy", "idle", "iowait"} \union {"irq"}
  BY DEF Counter
<1> QED
  BY <1>6, <1>7

-----------------------------------------------------------------------------
(* The kernel.                                                             *)

Total(s) == s["busy"] + s["idle"] + s["iowait"] + s["irq"]

(* What is known of the sources: the counters add up to no more than two   *)
(* processors can have spent, and to the time since boot when there is one *)
(* processor and nothing unusual has happened.                             *)
KernelInv ==
  /\ stat \in [Counter -> Nat] /\ stat["busy"] > 0
  /\ Total(stat) <= 2 * ticks + 4
  /\ ticks \in 0 .. MaxTicks /\ uptime = ticks + 4
  /\ cpus \in {1, 2}
  /\ disk \in [Device -> [on : BOOLEAN, gen : Nat, ios : 0 .. MaxIos]]
  /\ faults \in Nat
  /\ faults = 0 /\ cpus = 1 => Total(stat) = uptime

(* A device counts on as long as it stays attached.                        *)
Behind(a, b) == a.gen < b.gen \/ (a.gen = b.gen /\ a.ios <= b.ios)

LEMMA TotalsFit ==
  ASSUME KernelInv
  PROVE  /\ uptime \in 0 .. W - 1
         /\ Total(stat) \in 1 .. W - 1
         /\ sum_cpu_stat(stat) = Total(stat)
<1>1. Total(stat) \in 1 .. W - 1
  BY WordAssumption DEF KernelInv, Total, Counter
<1>2. sum_cpu_stat(stat) = Total(stat)
  BY <1>1, Exact DEF sum_cpu_stat, Total
<1>3. uptime \in 0 .. W - 1
  BY WordAssumption DEF KernelInv
<1> QED
  BY <1>1, <1>2, <1>3

LEMMA KernelGoesOn ==
  ASSUME KernelInv, Kernel
  PROVE  /\ KernelInv'
         /\ uptime <= uptime' /\ uptime' \in Nat
         /\ \A d \in Device : Behind(disk[d], disk'[d])
         /\ faults' = 0 => faults = 0 /\ cpus' = cpus
         /\ UNCHANGED << pc, round, cpu, io >>
<1>1. ASSUME NEW c \in Counter, Tick(c)
      PROVE  /\ KernelInv' /\ uptime' = uptime + 1
             /\ UNCHANGED << cpus, disk, faults, pc, round, cpu, io >>
  <2>1. /\ ticks < MaxTicks /\ ticks' = ticks + 1 /\ uptime' = uptime + 1
        /\ UNCHANGED << cpus, disk, faults, pc, round, cpu, io >>
    BY <1>1 DEF Tick
  <2>2. stat' \in [Counter -> Nat] /\ stat'["busy"] > 0
    BY <1>1 DEF Tick, KernelInv, Counter
  <2>3. Total(stat') = Total(stat) + cpus
    BY <1>1 DEF Tick, KernelInv, Counter, Total
  <2>4. Total(stat) \in Nat
    BY DEF KernelInv, Counter, Total
  <2> QED
    BY <2>1, <2>2, <2>3, <2>4, WordAssumption DEF KernelInv
<1>2. ASSUME NEW c \in Counter, Falls(c)
      PROVE  /\ KernelInv' /\ faults' # 0
             /\ UNCHANGED << uptime, disk, pc, round, cpu, io >>
  <2>1. /\ faults' = faults + 1 /\ faults \in Nat
        /\ UNCHANGED << uptime, ticks, cpus, disk, pc, round, cpu, io >>
    BY <1>2 DEF Falls, Unusual, KernelInv
  <2>2. stat' \in [Counter -> Nat] /\ stat'["busy"] > 0
    BY <1>2 DEF Falls, KernelInv, Counter
  <2>3. Total(stat') = Total(stat) - 1
    BY <1>2 DEF Falls, KernelInv, Counter, Total
  <2>4. Total(stat) \in Nat
    BY DEF KernelInv, Counter, Total
  <2> QED
    BY <2>1, <2>2, <2>3, <2>4, WordAssumption DEF KernelInv
<1>3. ASSUME PlugCpu
      PROVE  /\ KernelInv' /\ faults' # 0
             /\ UNCHANGED << uptime, disk, pc, round, cpu, io >>
  BY <1>3 DEF PlugCpu, Unusual, KernelInv, Total
<1>4. ASSUME NEW d \in Device, Transfer(d) \/ Detach(d) \/ Attach(d)
      PROVE  /\ KernelInv'
             /\ \A e \in Device : Behind(disk[e], disk'[e])
             /\ faults' = 0 => faults = 0
             /\ UNCHANGED << uptime, cpus, pc, round, cpu, io >>
  <2>1. /\ UNCHANGED << stat, uptime, cpus, ticks, pc, round, cpu, io >>
        /\ faults' \in {faults, faults + 1}
    BY <1>4 DEF Transfer, Detach, Attach, Unusual
  <2>2. disk[d] \in [on : BOOLEAN, gen : Nat, ios : 0 .. MaxIos]
    BY DEF KernelInv
  <2>3. PICK new \in [on : BOOLEAN, gen : Nat, ios : 0 .. MaxIos] :
          disk' = [disk EXCEPT ![d] = new] /\ Behind(disk[d], new)
    <3>1. CASE Transfer(d)
      <4> DEFINE new == [disk[d] EXCEPT !.ios = @ + 1]
      <4>1. disk' = [disk EXCEPT ![d] = new]
        BY <3>1 DEF Transfer
      <4>2. new \in [on : BOOLEAN, gen : Nat, ios : 0 .. MaxIos]
        BY <2>2, <3>1, WordAssumption DEF Transfer
      <4>3. Behind(disk[d], new)
        BY <2>2 DEF Behind
      <4> QED
        BY <4>1, <4>2, <4>3
    <3>2. CASE Detach(d)
      <4> DEFINE new == [disk[d] EXCEPT !.on = FALSE]
      <4>1. disk' = [disk EXCEPT ![d] = new]
        BY <3>2 DEF Detach
      <4>2. new \in [on : BOOLEAN, gen : Nat, ios : 0 .. MaxIos]
        BY <2>2
      <4>3. Behind(disk[d], new)
        BY <2>2 DEF Behind
      <4> QED
        BY <4>1, <4>2, <4>3
    <3>3. CASE Attach(d)
      <4> DEFINE new == [on |-> TRUE, gen |-> disk[d].gen + 1, ios |-> 0]
      <4>1. disk' = [disk EXCEPT ![d] = new]
        BY <3>3 DEF Attach
      <4>2. new \in [on : BOOLEAN, gen : Nat, ios : 0 .. MaxIos]
        BY <2>2, WordAssumption
      <4>3. Behind(disk[d], new)
        BY <2>2 DEF Behind
      <4> QED
        BY <4>1, <4>2, <4>3
    <3> QED
      BY <1>4, <3>1, <3>2, <3>3
  <2>4. disk' \in [Device -> [on : BOOLEAN, gen : Nat, ios : 0 .. MaxIos]]
    BY <2>3 DEF KernelInv
  <2>5. \A e \in Device : Behind(disk[e], disk'[e])
    <3>1. \A e \in Device : disk[e].gen \in Nat /\ disk[e].ios \in Nat
      BY WordAssumption DEF KernelInv
    <3> QED
      BY <2>3, <3>1 DEF Behind, KernelInv
  <2> QED
    BY <2>1, <2>4, <2>5 DEF KernelInv
<1>5. \A e \in Device : Behind(disk[e], disk[e])
  <2>1. \A e \in Device : disk[e].gen \in Nat /\ disk[e].ios \in Nat
    BY WordAssumption DEF KernelInv
  <2> QED
    BY <2>1 DEF Behind
<1>6. uptime \in Nat
  BY DEF KernelInv
<1> QED
  BY <1>1, <1>2, <1>3, <1>4, <1>5, <1>6 DEF Kernel

LEMMA ReadsChangesFaults ==
  ASSUME KernelInv, NEW read \in BOOLEAN, Reads(read), UNCHANGED kernel
  PROVE  KernelInv' /\ (faults' = 0 => read /\ faults = 0)
<1>1. (faults' = faults /\ read) \/ faults' = faults + 1
  BY DEF Reads, Unusual
<1> QED
  BY <1>1 DEF KernelInv, kernel

(* Everything that is known of the sources holds at all times.             *)
THEOREM KernelInvariant == Spec => []KernelInv
<1>1. Init => KernelInv
  BY FourCounters, WordAssumption DEF Init, KernelInv, Total, Counter
<1>2. KernelInv /\ [Next]_vars => KernelInv'
  <2> SUFFICES ASSUME KernelInv, [Next]_vars
               PROVE  KernelInv'
    OBVIOUS
  <2>1. CASE Kernel
    BY <2>1, KernelGoesOn
  <2>2. CASE UNCHANGED << kernel, faults >>
    BY <2>2 DEF KernelInv, kernel
  <2>3. CASE \E read \in BOOLEAN : Reads(read) /\ UNCHANGED kernel
    BY <2>3, ReadsChangesFaults
  <2> QED
    BY <2>1, <2>2, <2>3 DEF Next, vars, collect_cpu, list_add_tail_cpu,
       get_num_of_cpu, open_diskstats, fgets, get_cpu_time_in_jiffies,
       read_uptime_in_jiffies, sscanf, compute_io_stat, list_add_tail
<1> QED
  BY <1>1, <1>2, PTL DEF Spec

-----------------------------------------------------------------------------
(* The cpu module.                                                         *)

(* A record that was read has a total that is not 0 and below W; one that  *)
(* was not has what memset left.                                           *)
IsRecord(r) ==
  /\ r.stat \in [Counter -> Nat] /\ r.read \in BOOLEAN
  /\ Total(r.stat) < W
  /\ r.read => Total(r.stat) > 0
  /\ ~r.read => r.stat = NoStat

CpuInv ==
  /\ round \in Nat
  /\ IsRecord(entry) /\ IsRecord(prev_record)
  /\ Computed => entry.rate = compute_cpu_stat(entry.stat, prev_record.stat)

LEMMA RecordsAdd ==
  ASSUME NEW r, IsRecord(r)
  PROVE  /\ sum_cpu_stat(r.stat) = Total(r.stat) /\ Total(r.stat) \in 0 .. W - 1
         /\ sum_cpu_stat(r.stat) = 0 <=> ~r.read
<1>1. Total(r.stat) \in 0 .. W - 1
  BY WordAssumption DEF IsRecord, Total, Counter
<1>2. sum_cpu_stat(r.stat) = Total(r.stat)
  BY <1>1, Exact DEF sum_cpu_stat, Total
<1>3. ~r.read => Total(r.stat) = 0
  BY DEF IsRecord, NoStat, Total, Counter
<1> QED
  BY <1>1, <1>2, <1>3 DEF IsRecord

LEMMA BlankRecord == IsRecord(Record)
BY WordAssumption DEF IsRecord, Record, NoStat, Total, Counter

THEOREM CpuInvariant == Spec => []CpuInv
<1>1. Init => CpuInv
  BY BlankRecord DEF Init, CpuInv, Computed
<1>2. KernelInv /\ CpuInv /\ [Next]_vars => CpuInv'
  <2> SUFFICES ASSUME KernelInv, CpuInv, [Next]_vars
               PROVE  CpuInv'
    OBVIOUS
  <2>1. CASE collect_cpu
    <3>1. PICK read \in BOOLEAN :
            entry' = [ stat |-> IF read THEN stat ELSE NoStat, read |-> read,
                       rate |-> IF round = 0 THEN NoRate
                                ELSE compute_cpu_stat(IF read THEN stat ELSE NoStat,
                                                      prev_record.stat) ]
      BY <2>1 DEF collect_cpu
    <3>2. /\ round \in Nat /\ round' = round + 1
          /\ prev_record' = prev_record /\ IsRecord(prev_record)
      BY <2>1 DEF collect_cpu, CpuInv
    <3>3. IsRecord(entry')
      <4>1. CASE read
        <5>1. entry'.stat = stat /\ entry'.read \in BOOLEAN /\ entry'.read
          BY <3>1, <4>1
        <5>2. Total(stat) \in 1 .. W - 1 /\ stat \in [Counter -> Nat]
          BY TotalsFit DEF KernelInv
        <5>3. Total(entry'.stat) < W /\ Total(entry'.stat) > 0
          BY <5>1, <5>2, WordAssumption
        <5> QED
          BY <5>1, <5>2, <5>3 DEF IsRecord
      <4>2. CASE ~read
        BY <3>1, <4>2, BlankRecord DEF IsRecord, Record
      <4> QED
        BY <4>1, <4>2
    <3>4. round' > 1 => entry'.rate = compute_cpu_stat(entry'.stat, prev_record.stat)
      <4> HIDE DEF compute_cpu_stat
      <4> QED
        BY <3>1, <3>2
    <3> QED
      BY <3>2, <3>3, <3>4 DEF CpuInv, Computed, compute_cpu_stat, sum_cpu_stat, Minus
  <2>2. CASE list_add_tail_cpu
    BY <2>2, BlankRecord DEF list_add_tail_cpu, CpuInv, Computed, IsRecord, Total
  <2>3. CASE UNCHANGED << pc, round, cpu >>
    BY <2>3 DEF CpuInv, Computed, IsRecord, Total, cpu, compute_cpu_stat, sum_cpu_stat, Minus
  <2>4. CASE UNCHANGED << round, cpu >> /\ pc' # "cpu"
    BY <2>4 DEF CpuInv, Computed, IsRecord, Total, cpu
  <2> QED
    BY <2>1, <2>2, <2>3, <2>4, KernelGoesOn DEF Next, vars,
       get_num_of_cpu, open_diskstats, fgets, get_cpu_time_in_jiffies,
       read_uptime_in_jiffies, sscanf, compute_io_stat, list_add_tail
<1> QED
  BY <1>1, <1>2, KernelInvariant, PTL DEF Spec

(* A cpu record has rates exactly when the one before it was read and the  *)
(* totals differ (cpu.c:64-70).                                            *)
THEOREM CpuRates == Spec => []CpuRatedAgainstReading
<1>1. CpuInv => CpuRatedAgainstReading
  <2> SUFFICES ASSUME CpuInv, Computed
               PROVE  entry.rate # NoRate <=>
                        /\ prev_record.read
                        /\ sum_cpu_stat(entry.stat) # sum_cpu_stat(prev_record.stat)
    BY DEF CpuRatedAgainstReading
  <2> DEFINE cs == sum_cpu_stat(entry.stat)
             ps == sum_cpu_stat(prev_record.stat)
  <2>1. cs \in 0 .. W - 1 /\ ps \in 0 .. W - 1 /\ (ps = 0 <=> ~prev_record.read)
    BY RecordsAdd DEF CpuInv
  <2>2. Minus(cs, ps) = 0 <=> cs = ps
    BY <2>1, Exact
  <2>3. entry.rate # NoRate <=> ~(ps = 0 \/ Minus(cs, ps) = 0)
    BY DEF CpuInv, compute_cpu_stat, NoRate
  <2> QED
    BY <2>1, <2>2, <2>3
<1> QED
  BY <1>1, CpuInvariant, PTL

(* As long as no counter falls, idle, wa and the rest are shares of one    *)
(* whole (cpu.c:72-75).                                                    *)
THEOREM CpuShares == Spec => []SharesAddUp
<1>1. CpuInv => SharesAddUp
  <2> DEFINE c == entry.stat
             p == prev_record.stat
  <2> SUFFICES ASSUME CpuInv, Computed, entry.rate # NoRate,
                      \A k \in Counter : p[k] <= c[k]
               PROVE  entry.rate[3] - entry.rate[1] - entry.rate[2]
                        = c["busy"] - p["busy"]
    BY DEF SharesAddUp
  <2>1. entry.rate = << (Minus(c["idle"], p["idle"]) + Minus(c["irq"], p["irq"])) % W,
                        Minus(c["iowait"], p["iowait"]),
                        Minus(sum_cpu_stat(c), sum_cpu_stat(p)) >>
    BY DEF CpuInv, compute_cpu_stat
  <2>2. /\ c \in [Counter -> Nat] /\ p \in [Counter -> Nat]
        /\ Total(c) < W /\ Total(p) < W
        /\ sum_cpu_stat(c) = Total(c) /\ sum_cpu_stat(p) = Total(p)
    BY RecordsAdd DEF CpuInv, IsRecord
  <2>3. \A k \in Counter : /\ c[k] \in 0 .. W - 1 /\ p[k] \in 0 .. W - 1
                           /\ Minus(c[k], p[k]) = c[k] - p[k]
    <3>1. \A k \in Counter : c[k] \in 0 .. W - 1 /\ p[k] \in 0 .. W - 1 /\ p[k] <= c[k]
      BY <2>2, WordAssumption DEF Total, Counter
    <3> QED
      BY <3>1, Exact
  <2>4. Minus(Total(c), Total(p)) = Total(c) - Total(p)
    <3>1. Total(p) <= Total(c) /\ Total(c) \in 0 .. W - 1 /\ Total(p) \in 0 .. W - 1
      BY <2>2, WordAssumption DEF Total, Counter
    <3> QED
      BY <3>1, Exact
  <2>5. (Minus(c["idle"], p["idle"]) + Minus(c["irq"], p["irq"])) % W
          = c["idle"] - p["idle"] + c["irq"] - p["irq"]
    <3>1. c["idle"] - p["idle"] + c["irq"] - p["irq"] \in 0 .. W - 1
      BY <2>2, WordAssumption DEF Total, Counter
    <3>2. Minus(c["idle"], p["idle"]) + Minus(c["irq"], p["irq"])
            = c["idle"] - p["idle"] + c["irq"] - p["irq"]
      BY <2>2, <2>3 DEF Counter
    <3> QED
      BY <3>1, <3>2, Exact
  <2>6. /\ entry.rate[1] = c["idle"] - p["idle"] + c["irq"] - p["irq"]
        /\ entry.rate[2] = c["iowait"] - p["iowait"]
        /\ entry.rate[3] = Total(c) - Total(p)
    BY <2>1, <2>2, <2>3, <2>4, <2>5 DEF Counter
  <2> QED
    BY <2>2, <2>6 DEF Total, Counter
<1> QED
  BY <1>1, CpuInvariant, PTL

-----------------------------------------------------------------------------
(* The io module.                                                          *)

RowType == [ dev : Device, gen : Nat, ios : 0 .. MaxIos, uptime : 0 .. W - 1,
             uptime0 : 0 .. W - 1, read : BOOLEAN, smp : BOOLEAN, at : Nat,
             tps : {NoRate} \union (Int \X Int) ]

(* What a row says of its device and of the time it was read at: uptime0   *)
(* is that time if the row was read on several processors, uptime is it if *)
(* there is one and nothing unusual has happened.                          *)
IsRow(r) ==
  /\ r \in RowType
  /\ r.at <= uptime
  /\ Behind(r, disk[r.dev])
  /\ r.uptime0 = IF r.smp /\ r.read THEN r.at ELSE 0
  /\ faults = 0 => /\ r.read /\ (r.smp <=> cpus > 1)
                   /\ ~r.smp => r.uptime = r.at

(* A list has a device once, in the order of /proc/diskstats.              *)
Ordered(list) == \A j, k \in DOMAIN list : j < k => list[j].dev < list[k].dev

(* What a row that is read now has to a row of the round before.           *)
Follows(r, p) == p.dev = r.dev => Behind(p, r)

Reader == {"fgets", "uptime", "uptime0", "sscanf"}

(* The row in hand.                                                        *)
NodeInv ==
  pc \in {"uptime", "uptime0", "sscanf"} =>
    /\ node \in RowType /\ node.tps = NoRate
    /\ Behind(node, disk[node.dev])
    /\ node.dev < line
    /\ \A k \in DOMAIN cur_list : cur_list[k].dev < node.dev
    /\ \A k \in DOMAIN prev_list : Follows(node, prev_list[k])
    /\ IF pc = "sscanf"
         THEN /\ IsRow(node) /\ (node.smp <=> NUM_OF_CPU > 1)
              /\ \A k \in DOMAIN prev_list : prev_list[k].at <= node.at
         ELSE /\ ~node.smp /\ node.uptime0 = 0
              /\ pc = "uptime0" => NUM_OF_CPU > 1

(* What the rows of this round are once they are rated.                    *)
RatedInv ==
  \A r \in Rows :
    /\ \A k \in DOMAIN prev_list : prev_list[k].dev = r.dev =>
         r.tps = << Minus(r.ios, prev_list[k].ios), Interval(r, prev_list[k]) >>
    /\ (\A k \in DOMAIN prev_list : prev_list[k].dev # r.dev) => r.tps = NoRate

IoInv ==
  /\ pc \in Reader \union {"wait", "cpu", "count", "open", "compute", "report", "exit"}
  /\ NUM_OF_CPU \in {1, 2} /\ line \in Nat
  /\ faults = 0 /\ pc \in Reader \union {"open", "compute", "report"} =>
       NUM_OF_CPU = cpus
  /\ cur_list \in Seq(RowType) /\ prev_list \in Seq(RowType)
  /\ Ordered(cur_list) /\ Ordered(prev_list)
  /\ \A k \in DOMAIN prev_list : IsRow(prev_list[k])
  /\ pc \notin Reader \union {"compute", "report"} => cur_list = << >>
  /\ \A k \in DOMAIN cur_list :
       /\ IsRow(cur_list[k]) /\ (cur_list[k].smp <=> NUM_OF_CPU > 1)
       /\ pc \in Reader => cur_list[k].dev < line
       /\ pc # "report" => cur_list[k].tps = NoRate
       /\ \A j \in DOMAIN prev_list : /\ prev_list[j].at <= cur_list[k].at
                                      /\ Follows(cur_list[k], prev_list[j])
  /\ NodeInv
  /\ pc = "report" /\ round > 1 => RatedInv

LEMMA DevicesAreNumbers == \A d \in Device : d \in Nat /\ d > 0
BY DevicesAssumption DEF Device

(* A row stays what it is while the kernel goes on.                        *)
LEMMA RowsStay ==
  ASSUME NEW r, IsRow(r), uptime \in Nat, uptime' \in Nat, uptime <= uptime',
         disk \in [Device -> [on : BOOLEAN, gen : Nat, ios : 0 .. MaxIos]],
         disk' \in [Device -> [on : BOOLEAN, gen : Nat, ios : 0 .. MaxIos]],
         \A d \in Device : Behind(disk[d], disk'[d]),
         faults' = 0 => faults = 0 /\ cpus' = cpus
  PROVE  IsRow(r)'
<1>1. r \in RowType /\ r.dev \in Device /\ r.gen \in Nat /\ r.ios \in Int /\ r.at \in Nat
  BY WordAssumption DEF IsRow, RowType
<1>2. disk[r.dev].gen \in Nat /\ disk'[r.dev].gen \in Nat
      /\ disk[r.dev].ios \in Int /\ disk'[r.dev].ios \in Int
  BY <1>1, WordAssumption
<1>3. Behind(r, disk'[r.dev])
  BY <1>1, <1>2 DEF IsRow, Behind
<1>4. r.at <= uptime'
  BY <1>1 DEF IsRow
<1> QED
  BY <1>1, <1>3, <1>4 DEF IsRow

(* IoInv while the rows are left alone.                                    *)
LEMMA KernelKeepsIo ==
  ASSUME KernelInv, IoInv, Kernel
  PROVE  IoInv'
<1>1. /\ KernelInv' /\ uptime <= uptime' /\ uptime' \in Nat
      /\ \A d \in Device : Behind(disk[d], disk'[d])
      /\ faults' = 0 => faults = 0 /\ cpus' = cpus
      /\ UNCHANGED << pc, round, io >>
  BY KernelGoesOn
<1>2. ASSUME NEW r, IsRow(r)
      PROVE  IsRow(r)'
  <2>1. uptime \in Nat /\ uptime' \in Nat
    BY <1>1, TotalsFit, WordAssumption
  <2> QED
    BY <1>1, <1>2, <2>1, RowsStay DEF KernelInv
<1>3. UNCHANGED << pc, round, NUM_OF_CPU, line, node, cur_list, prev_list >>
  BY <1>1 DEF io
<1>4. NodeInv'
  <2>1. pc # "report"
    BY DEF Kernel, Reading
  <2>2. node \in RowType => /\ node.dev \in Device /\ node.gen \in Nat /\ node.ios \in Int
    BY WordAssumption DEF RowType
  <2>3. node \in RowType => /\ disk[node.dev].gen \in Nat /\ disk'[node.dev].gen \in Nat
                           /\ disk[node.dev].ios \in Int /\ disk'[node.dev].ios \in Int
    BY <1>1, <2>2, WordAssumption DEF KernelInv
  <2>4. node \in RowType /\ Behind(node, disk[node.dev]) => Behind(node, disk'[node.dev])
    BY <1>1, <2>2, <2>3 DEF Behind
  <2> QED
    BY <1>2, <1>3, <2>4 DEF IoInv, NodeInv, Follows
<1>5. pc # "report"
  BY DEF Kernel, Reading
<1> QED
  BY <1>1, <1>2, <1>3, <1>4, <1>5 DEF IoInv, Ordered, Follows

(* What open_diskstats, get_num_of_cpu and the end of a round do.          *)
LEMMA BlankList == << >> \in Seq(RowType) /\ Ordered(<< >>)
BY DEF Ordered

LEMMA BetweenRoundsKeepsIo ==
  ASSUME KernelInv, IoInv, KernelInv',
         collect_cpu \/ list_add_tail_cpu \/ get_num_of_cpu \/ open_diskstats
  PROVE  IoInv'
<1>1. /\ UNCHANGED << kernel, prev_list >> /\ cur_list' = << >>
      /\ NUM_OF_CPU' \in {1, 2} /\ line' \in Nat
      /\ pc' \in {"cpu", "count", "open", "fgets", "compute", "exit"}
      /\ faults' = 0 => faults = 0
      /\ faults' = 0 /\ pc' \in {"open", "fgets", "compute"} => NUM_OF_CPU' = cpus
  <2>1. CASE collect_cpu
    BY <2>1 DEF collect_cpu, IoInv, io, Reader, Reads, Unusual, KernelInv
  <2>2. CASE list_add_tail_cpu
    BY <2>2 DEF list_add_tail_cpu, IoInv, io, Reader
  <2>3. CASE get_num_of_cpu
    BY <2>3 DEF get_num_of_cpu, IoInv, Reader, Reads, Unusual, KernelInv
  <2>4. CASE open_diskstats
    BY <2>4 DEF open_diskstats, IoInv, Reader, Reads, Unusual, KernelInv
  <2> QED
    BY <2>1, <2>2, <2>3, <2>4
<1>2. \A k \in DOMAIN prev_list : IsRow(prev_list[k])'
  BY <1>1 DEF IoInv, IsRow, kernel, Behind
<1> QED
  BY <1>1, <1>2, BlankList DEF IoInv, NodeInv, Reader, kernel

(* The line read next gives a row that is not listed yet.                  *)
LEMMA FgetsKeepsIo ==
  ASSUME KernelInv, IoInv, fgets
  PROVE  IoInv'
<1>1. /\ pc = "fgets"
      /\ UNCHANGED << kernel, faults, round, NUM_OF_CPU, cur_list, prev_list >>
  BY DEF fgets
<1>2. /\ \A k \in DOMAIN prev_list : IsRow(prev_list[k])'
      /\ \A k \in DOMAIN cur_list : IsRow(cur_list[k])'
  BY <1>1 DEF IoInv, IsRow, kernel, Behind
<1>3. CASE pc' = "compute" /\ UNCHANGED << line, node >>
  BY <1>1, <1>2, <1>3 DEF IoInv, NodeInv, Reader, Ordered, Follows, kernel
<1>4. ASSUME NEW d \in Device, line <= d,
             node' = [Row EXCEPT !.dev = d, !.gen = disk[d].gen,
                                 !.ios = disk[d].ios % W],
             line' = d + 1, pc' = "uptime"
      PROVE  IoInv'
  <2>1. /\ disk[d].gen \in Nat /\ disk[d].ios \in 0 .. MaxIos
        /\ disk[d].ios % W = disk[d].ios
    <3>1. disk[d].gen \in Nat /\ disk[d].ios \in 0 .. MaxIos
      BY DEF KernelInv
    <3>2. disk[d].ios \in 0 .. W - 1
      BY <3>1, WordAssumption
    <3> QED
      BY <3>1, <3>2, Exact
  <2>2. node' = [ dev |-> d, gen |-> disk[d].gen, ios |-> disk[d].ios,
                  uptime |-> 0, uptime0 |-> 0, read |-> FALSE, smp |-> FALSE,
                  at |-> 0, tps |-> NoRate ]
    BY <1>4, <2>1 DEF Row
  <2>3. node' \in RowType
    BY <2>1, <2>2, WordAssumption DEF RowType
  <2>4. d \in Nat /\ line \in Nat
    BY DevicesAreNumbers DEF IoInv
  <2>5. /\ Behind(node', disk[d])
        /\ \A k \in DOMAIN prev_list : Follows(node', prev_list[k])
    <3>1. Behind(node', disk[d])
      BY <2>1, <2>2, WordAssumption DEF Behind
    <3>2. \A k \in DOMAIN prev_list : Behind(prev_list[k], disk[prev_list[k].dev])
      BY DEF IoInv, IsRow
    <3> QED
      BY <2>2, <3>1, <3>2 DEF Follows, Behind
  <2>6. \A k \in DOMAIN cur_list : cur_list[k].dev < d /\ cur_list[k].dev < d + 1
    <3>1. \A k \in DOMAIN cur_list : cur_list[k].dev \in Device /\ cur_list[k].dev < line
      BY <1>1 DEF IoInv, Reader, IsRow, RowType
    <3> QED
      BY <1>4, <2>4, <3>1, DevicesAreNumbers
  <2>7. NodeInv'
    <3>1. /\ node'.dev = d /\ node'.tps = NoRate /\ ~node'.smp
          /\ node'.uptime0 = 0
      BY <2>2
    <3>2. d < line'
      BY <1>4, <2>4
    <3> QED
      BY <1>1, <1>4, <2>3, <2>5, <2>6, <3>1, <3>2 DEF NodeInv, kernel
  <2> QED
    BY <1>1, <1>2, <1>4, <2>4, <2>6, <2>7
    DEF IoInv, Reader, Ordered, Follows, kernel
<1> QED
  BY <1>3, <1>4 DEF fgets

(* The two clocks a row is read with.                                      *)
LEMMA CpuTimeKeepsIo ==
  ASSUME KernelInv, IoInv, KernelInv', get_cpu_time_in_jiffies
  PROVE  IoInv'
<1>1. /\ pc = "uptime"
      /\ pc' = IF NUM_OF_CPU > 1 THEN "uptime0" ELSE "sscanf"
      /\ UNCHANGED << kernel, round, NUM_OF_CPU, line, cur_list, prev_list >>
  BY DEF get_cpu_time_in_jiffies
<1>2. PICK read \in BOOLEAN :
        /\ Reads(read)
        /\ node' = [node EXCEPT
                      !.uptime = sum_cpu_stat(IF read THEN stat ELSE NoStat),
                      !.read = read, !.at = uptime]
  BY DEF get_cpu_time_in_jiffies
<1>3. faults' = 0 => faults = 0 /\ read
  BY <1>1, <1>2, ReadsChangesFaults
<1>4. /\ \A k \in DOMAIN prev_list : IsRow(prev_list[k])'
      /\ \A k \in DOMAIN cur_list : IsRow(cur_list[k])'
  BY <1>1, <1>3 DEF IoInv, IsRow, kernel, Behind
<1>5. /\ node \in RowType /\ node.tps = NoRate /\ ~node.smp /\ node.uptime0 = 0
      /\ Behind(node, disk[node.dev]) /\ node.dev < line
      /\ \A k \in DOMAIN cur_list : cur_list[k].dev < node.dev
      /\ \A k \in DOMAIN prev_list : Follows(node, prev_list[k])
  BY <1>1 DEF IoInv, NodeInv
<1>6. sum_cpu_stat(IF read THEN stat ELSE NoStat) \in 0 .. W - 1
  <2>1. sum_cpu_stat(stat) \in 0 .. W - 1
    BY TotalsFit
  <2>2. sum_cpu_stat(NoStat) \in 0 .. W - 1
    BY Exact, WordAssumption DEF sum_cpu_stat, NoStat, Counter
  <2> QED
    BY <2>1, <2>2
<1>7. uptime \in Nat
  BY TotalsFit, WordAssumption
<1>8. /\ node' \in RowType /\ node'.tps = NoRate /\ ~node'.smp /\ node'.uptime0 = 0
      /\ node'.dev = node.dev /\ node'.gen = node.gen /\ node'.ios = node.ios
      /\ node'.at = uptime /\ (node'.read <=> read)
      /\ node'.uptime = sum_cpu_stat(IF read THEN stat ELSE NoStat)
  BY <1>2, <1>5, <1>6, <1>7 DEF RowType
<1>9. faults' = 0 /\ cpus = 1 => node'.uptime = uptime
  BY <1>3, <1>8, TotalsFit DEF KernelInv
<1>10. NodeInv'
  <2>1. /\ Behind(node', disk[node'.dev])
        /\ \A k \in DOMAIN prev_list : Follows(node', prev_list[k])
        /\ \A k \in DOMAIN cur_list : cur_list[k].dev < node'.dev
        /\ node'.dev < line
    BY <1>5, <1>8 DEF Behind, Follows
  <2>2. CASE NUM_OF_CPU > 1
    BY <1>1, <1>8, <2>1, <2>2 DEF NodeInv, kernel
  <2>3. CASE ~(NUM_OF_CPU > 1)
    <3>1. IsRow(node)'
      <4>1. faults' = 0 => cpus = 1
        BY <1>1, <1>3, <2>3 DEF IoInv, Reader, KernelInv
      <4>2. node'.at <= uptime
        BY <1>7, <1>8
      <4> QED
        BY <1>1, <1>3, <1>8, <1>9, <2>1, <4>1, <4>2 DEF IsRow, kernel
    <3>2. \A k \in DOMAIN prev_list : prev_list[k].at <= node'.at
      BY <1>8 DEF IoInv, IsRow
    <3> QED
      BY <1>1, <1>8, <2>1, <2>3, <3>1, <3>2 DEF NodeInv, kernel
  <2> QED
    BY <2>2, <2>3
<1> QED
  BY <1>1, <1>3, <1>4, <1>10 DEF IoInv, Reader, Ordered, Follows, kernel

LEMMA UptimeKeepsIo ==
  ASSUME KernelInv, IoInv, KernelInv', read_uptime_in_jiffies
  PROVE  IoInv'
<1>1. /\ pc = "uptime0" /\ pc' = "sscanf"
      /\ UNCHANGED << kernel, round, NUM_OF_CPU, line, cur_list, prev_list >>
  BY DEF read_uptime_in_jiffies
<1> DEFINE up == Centiseconds(uptime)
<1>2. PICK read \in BOOLEAN :
        /\ Reads(read)
        /\ node' = [node EXCEPT
                      !.uptime0 = IF read THEN Jiffies(up \div 100, up % 100) ELSE 0,
                      !.read = read, !.at = uptime, !.smp = TRUE]
  BY DEF read_uptime_in_jiffies
<1>3. faults' = 0 => faults = 0 /\ read
  BY <1>1, <1>2, ReadsChangesFaults
<1>4. /\ \A k \in DOMAIN prev_list : IsRow(prev_list[k])'
      /\ \A k \in DOMAIN cur_list : IsRow(cur_list[k])'
  BY <1>1, <1>3 DEF IoInv, IsRow, kernel, Behind
<1>5. /\ node \in RowType /\ node.tps = NoRate /\ NUM_OF_CPU > 1
      /\ Behind(node, disk[node.dev]) /\ node.dev < line
      /\ \A k \in DOMAIN cur_list : cur_list[k].dev < node.dev
      /\ \A k \in DOMAIN prev_list : Follows(node, prev_list[k])
  BY <1>1 DEF IoInv, NodeInv
<1>6. uptime \in 0 .. W - 1 /\ uptime \in Nat /\ 0 \in 0 .. W - 1
  BY TotalsFit, WordAssumption
<1>7. Jiffies(up \div 100, up % 100) = uptime
  BY <1>6, UptimeIsExact
<1> HIDE DEF up
<1>8. /\ node' \in RowType /\ node'.tps = NoRate /\ node'.smp
      /\ node'.uptime0 = IF read THEN uptime ELSE 0
      /\ node'.dev = node.dev /\ node'.gen = node.gen /\ node'.ios = node.ios
      /\ node'.at = uptime /\ (node'.read <=> read)
  <2> DEFINE u == IF read THEN Jiffies(up \div 100, up % 100) ELSE 0
  <2>1. node' = [node EXCEPT !.uptime0 = u, !.read = read, !.at = uptime, !.smp = TRUE]
    BY <1>2
  <2>2. u = (IF read THEN uptime ELSE 0) /\ u \in 0 .. W - 1
    BY <1>6, <1>7
  <2> HIDE DEF u
  <2>3. node' \in RowType
    BY <1>5, <1>6, <2>1, <2>2 DEF RowType
  <2> QED
    BY <1>5, <2>1, <2>2, <2>3 DEF RowType
<1>9. /\ Behind(node', disk[node'.dev])
      /\ \A k \in DOMAIN prev_list : Follows(node', prev_list[k])
      /\ \A k \in DOMAIN cur_list : cur_list[k].dev < node'.dev
      /\ node'.dev < line
  BY <1>5, <1>8 DEF Behind, Follows
<1>10. IsRow(node)'
  <2>1. faults' = 0 => cpus > 1
    BY <1>1, <1>3, <1>5 DEF IoInv, Reader
  <2>2. node'.at <= uptime
    BY <1>6, <1>8
  <2> QED
    BY <1>1, <1>3, <1>8, <1>9, <2>1, <2>2 DEF IsRow, kernel
<1>11. \A k \in DOMAIN prev_list : prev_list[k].at <= node'.at
  BY <1>8 DEF IoInv, IsRow
<1>12. NodeInv'
  BY <1>1, <1>5, <1>8, <1>9, <1>10, <1>11 DEF NodeInv, kernel
<1> QED
  BY <1>1, <1>3, <1>4, <1>12 DEF IoInv, Reader, Ordered, Follows, kernel

(* The row in hand is listed last.                                         *)
LEMMA SscanfKeepsIo ==
  ASSUME KernelInv, IoInv, KernelInv', sscanf
  PROVE  IoInv'
<1>1. /\ pc = "sscanf" /\ pc' \in {"fgets", "compute"}
      /\ UNCHANGED << kernel, round, NUM_OF_CPU, line, prev_list >>
      /\ cur_list' \in {cur_list, Append(cur_list, node)}
      /\ faults' = 0 => faults = 0
  BY DEF sscanf, Reads, Unusual, KernelInv
<1>2. /\ IsRow(node) /\ node \in RowType /\ (node.smp <=> NUM_OF_CPU > 1)
      /\ node.tps = NoRate /\ node.dev < line
      /\ \A k \in DOMAIN cur_list : cur_list[k].dev < node.dev
      /\ \A k \in DOMAIN prev_list : /\ prev_list[k].at <= node.at
                                     /\ Follows(node, prev_list[k])
  BY <1>1 DEF IoInv, NodeInv
<1>3. \A r : IsRow(r) => IsRow(r)'
  BY <1>1 DEF IsRow, kernel, Behind
<1>4. /\ cur_list \in Seq(RowType) /\ Ordered(cur_list)
      /\ \A k \in DOMAIN cur_list :
           /\ IsRow(cur_list[k]) /\ (cur_list[k].smp <=> NUM_OF_CPU > 1)
           /\ cur_list[k].dev < line /\ cur_list[k].tps = NoRate
           /\ \A j \in DOMAIN prev_list : /\ prev_list[j].at <= cur_list[k].at
                                          /\ Follows(cur_list[k], prev_list[j])
  BY <1>1 DEF IoInv, Reader
<1> DEFINE new == cur_list'
<1>5. /\ new \in Seq(RowType) /\ Ordered(new)
      /\ \A k \in DOMAIN new :
           /\ IsRow(new[k]) /\ (new[k].smp <=> NUM_OF_CPU > 1)
           /\ new[k].dev < line /\ new[k].tps = NoRate
           /\ \A j \in DOMAIN prev_list : /\ prev_list[j].at <= new[k].at
                                          /\ Follows(new[k], prev_list[j])
  <2>1. CASE new = cur_list
    BY <1>4, <2>1
  <2>2. CASE new = Append(cur_list, node)
    <3>1. /\ new \in Seq(RowType) /\ DOMAIN new = DOMAIN cur_list \union {Len(cur_list) + 1}
          /\ \A k \in DOMAIN cur_list : new[k] = cur_list[k] /\ k < Len(cur_list) + 1
          /\ new[Len(cur_list) + 1] = node /\ Len(cur_list) \in Nat
      BY <1>2, <1>4, <2>2
    <3> HIDE DEF new
    <3>2. DOMAIN cur_list \subseteq Nat
      BY <1>4
    <3>3. Ordered(new)
      BY <1>2, <1>4, <3>1, <3>2 DEF Ordered
    <3> QED
      BY <1>2, <1>4, <3>1, <3>3
  <2> QED
    BY <1>1, <2>1, <2>2
<1> QED
  BY <1>1, <1>3, <1>5 DEF IoInv, NodeInv, Reader, Follows, kernel

(* The rates of the rows: each is made with the one row of its device.     *)
LEMMA RatedByOwn ==
  ASSUME prev_list \in Seq(RowType), Ordered(prev_list), NEW r \in RowType,
         r.tps = NoRate
  PROVE  /\ Rated(r) \in RowType
         /\ \A f \in {"dev", "gen", "ios", "uptime", "uptime0", "read", "smp", "at"} :
              Rated(r)[f] = r[f]
         /\ \A k \in DOMAIN prev_list : prev_list[k].dev = r.dev =>
              Rated(r).tps = << Minus(r.ios, prev_list[k].ios), Interval(r, prev_list[k]) >>
         /\ (\A k \in DOMAIN prev_list : prev_list[k].dev # r.dev) =>
              Rated(r).tps = NoRate
<1>1. CASE \A k \in DOMAIN prev_list : prev_list[k].dev # r.dev
  BY <1>1 DEF Rated, Own
<1>2. ASSUME NEW k \in DOMAIN prev_list, prev_list[k].dev = r.dev
      PROVE  Rated(r) = [r EXCEPT !.tps =
               << Minus(r.ios, prev_list[k].ios), Interval(r, prev_list[k]) >>]
  <2>1. \A j \in DOMAIN prev_list : prev_list[j].dev = r.dev => j = k
    <3> SUFFICES ASSUME NEW j \in DOMAIN prev_list, prev_list[j].dev = r.dev, j # k
                 PROVE  FALSE
      OBVIOUS
    <3>1. j \in Nat /\ k \in Nat /\ (j < k \/ k < j)
      OBVIOUS
    <3>2. prev_list[j].dev < prev_list[k].dev \/ prev_list[k].dev < prev_list[j].dev
      BY <3>1 DEF Ordered
    <3>3. r.dev \in Nat
      BY DevicesAreNumbers DEF RowType
    <3> QED
      BY <1>2, <3>2, <3>3
  <2>2. Own(r) = {k}
    BY <1>2, <2>1 DEF Own
  <2>3. k \in Nat
    OBVIOUS
  <2>4. (CHOOSE i \in Own(r) : \A j \in Own(r) : i <= j) = k
    BY <2>2, <2>3
  <2> QED
    BY <2>2, <2>4 DEF Rated
<1>3. ASSUME NEW k \in DOMAIN prev_list
      PROVE  << Minus(r.ios, prev_list[k].ios), Interval(r, prev_list[k]) >> \in Int \X Int
  <2>1. prev_list[k] \in RowType
    OBVIOUS
  <2>2. /\ prev_list[k].ios \in Int /\ prev_list[k].uptime \in Int /\ prev_list[k].uptime0 \in Int
        /\ r.ios \in Int /\ r.uptime \in Int /\ r.uptime0 \in Int
    BY <2>1 DEF RowType
  <2>3. \A a, b \in Int : Minus(a, b) \in Int
    BY Exact
  <2> QED
    BY <2>2, <2>3 DEF Interval
<1>4. ASSUME NEW k \in DOMAIN prev_list, prev_list[k].dev = r.dev
      PROVE  /\ Rated(r) \in RowType
             /\ \A f \in {"dev", "gen", "ios", "uptime", "uptime0", "read", "smp", "at"} :
                  Rated(r)[f] = r[f]
             /\ Rated(r).tps = << Minus(r.ios, prev_list[k].ios), Interval(r, prev_list[k]) >>
  <2> DEFINE t == << Minus(r.ios, prev_list[k].ios), Interval(r, prev_list[k]) >>
  <2>1. Rated(r) = [r EXCEPT !.tps = t] /\ t \in Int \X Int
    BY <1>2, <1>3, <1>4
  <2> HIDE DEF t
  <2>2. Rated(r).tps = t
    BY <2>1 DEF RowType
  <2>3. /\ Rated(r) \in RowType
        /\ \A f \in {"dev", "gen", "ios", "uptime", "uptime0", "read", "smp", "at"} :
             Rated(r)[f] = r[f]
    BY <2>1 DEF RowType
  <2> QED
    BY <2>2, <2>3 DEF t
<1> QED
  BY <1>1, <1>4

LEMMA ComputeKeepsIo ==
  ASSUME KernelInv, IoInv, compute_io_stat
  PROVE  IoInv'
<1>1. /\ pc = "compute" /\ pc' = "report"
      /\ UNCHANGED << kernel, faults, round, NUM_OF_CPU, line, node, prev_list >>
      /\ cur_list' = IF round = 1 THEN cur_list
                     ELSE [k \in DOMAIN cur_list |-> Rated(cur_list[k])]
  BY DEF compute_io_stat
<1>2. \A r : IsRow(r) => IsRow(r)'
  BY <1>1 DEF IsRow, kernel, Behind
<1>3. CASE round = 1
  BY <1>1, <1>2, <1>3 DEF IoInv, NodeInv, Reader, Ordered, Follows, kernel
<1>4. CASE round # 1
  <2> DEFINE new == [k \in DOMAIN cur_list |-> Rated(cur_list[k])]
  <2>1. ASSUME NEW k \in DOMAIN cur_list
        PROVE  /\ cur_list[k] \in RowType /\ cur_list[k].tps = NoRate
               /\ IsRow(cur_list[k]) /\ (cur_list[k].smp <=> NUM_OF_CPU > 1)
               /\ \A j \in DOMAIN prev_list : /\ prev_list[j].at <= cur_list[k].at
                                              /\ Follows(cur_list[k], prev_list[j])
    BY <1>1 DEF IoInv
  <2>2. prev_list \in Seq(RowType) /\ Ordered(prev_list)
    BY DEF IoInv
  <2>3. ASSUME NEW k \in DOMAIN cur_list
        PROVE  /\ new[k] \in RowType
               /\ \A f \in {"dev", "gen", "ios", "uptime", "uptime0", "read", "smp", "at"} :
                    new[k][f] = cur_list[k][f]
               /\ \A j \in DOMAIN prev_list : prev_list[j].dev = new[k].dev =>
                    new[k].tps = << Minus(cur_list[k].ios, prev_list[j].ios),
                                    Interval(cur_list[k], prev_list[j]) >>
               /\ (\A j \in DOMAIN prev_list : prev_list[j].dev # new[k].dev) =>
                    new[k].tps = NoRate
    <3> DEFINE r == cur_list[k]
    <3>1. new[k] = Rated(r) /\ r \in RowType /\ r.tps = NoRate
      BY <2>1
    <3> HIDE DEF r, new
    <3>2. Rated(r).dev = r.dev
      BY <2>2, <3>1, RatedByOwn
    <3> QED
      BY <2>2, <3>1, <3>2, RatedByOwn DEF r
  <2>4. DOMAIN new = DOMAIN cur_list /\ new \in Seq(RowType)
    <3>1. cur_list \in Seq(RowType)
      BY DEF IoInv
    <3>2. new \in [1 .. Len(cur_list) -> RowType] /\ Len(cur_list) \in Nat
      BY <2>3, <3>1
    <3> QED
      BY <3>2
  <2>5. cur_list' = new
    BY <1>1, <1>4
  <2> HIDE DEF new
  <2>6. ASSUME NEW k \in DOMAIN new
        PROVE  /\ IsRow(new[k]) /\ (new[k].smp <=> NUM_OF_CPU > 1)
               /\ \A j \in DOMAIN prev_list : /\ prev_list[j].at <= new[k].at
                                              /\ Follows(new[k], prev_list[j])
    <3>1. /\ new[k].dev = cur_list[k].dev /\ new[k].gen = cur_list[k].gen
          /\ new[k].ios = cur_list[k].ios /\ new[k].uptime = cur_list[k].uptime
          /\ new[k].uptime0 = cur_list[k].uptime0 /\ new[k].read = cur_list[k].read
          /\ new[k].smp = cur_list[k].smp /\ new[k].at = cur_list[k].at
          /\ k \in DOMAIN cur_list
      BY <2>3, <2>4
    <3>2. IsRow(new[k])
      BY <2>1, <2>3, <3>1 DEF IsRow, Behind
    <3>3. \A j \in DOMAIN prev_list : /\ prev_list[j].at <= new[k].at
                                      /\ Follows(new[k], prev_list[j])
      BY <2>1, <3>1 DEF Follows, Behind
    <3> QED
      BY <2>1, <3>1, <3>2, <3>3
  <2>7. Ordered(new)
    <3>1. \A k \in DOMAIN cur_list : new[k].dev = cur_list[k].dev
      BY <2>3
    <3> QED
      BY <2>4, <3>1 DEF IoInv, Ordered
  <2>8. RatedInv'
    <3>1. ASSUME NEW k \in DOMAIN new
          PROVE  /\ \A j \in DOMAIN prev_list : prev_list[j].dev = new[k].dev =>
                      new[k].tps = << Minus(new[k].ios, prev_list[j].ios),
                                      Interval(new[k], prev_list[j]) >>
                 /\ (\A j \in DOMAIN prev_list : prev_list[j].dev # new[k].dev) =>
                      new[k].tps = NoRate
      <4>1. /\ new[k].ios = cur_list[k].ios /\ new[k].uptime = cur_list[k].uptime
            /\ new[k].uptime0 = cur_list[k].uptime0
        BY <2>3, <2>4
      <4>2. \A j : Interval(new[k], prev_list[j]) = Interval(cur_list[k], prev_list[j])
        BY <4>1 DEF Interval
      <4> QED
        BY <2>3, <2>4, <4>1, <4>2
    <3>2. \A r, p : Interval(r, p)' = Interval(r, p)
      BY <1>1 DEF Interval, Minus
    <3> QED
      BY <1>1, <2>5, <3>1, <3>2 DEF RatedInv, Rows, Minus
  <2>9. \A k \in DOMAIN prev_list : IsRow(prev_list[k])'
    BY <1>1, <1>2 DEF IoInv
  <2>10. \A k \in DOMAIN new : IsRow(cur_list[k])'
    BY <1>2, <2>5, <2>6
  <2> QED
    BY <1>1, <2>4, <2>5, <2>6, <2>7, <2>8, <2>9, <2>10
    DEF IoInv, NodeInv, Reader, Follows, kernel
<1> QED
  BY <1>3, <1>4

(* At the end of a round its rows are the rows of the round before.        *)
LEMMA ListAddTailKeepsIo ==
  ASSUME KernelInv, IoInv, list_add_tail
  PROVE  IoInv'
<1>1. /\ pc = "report" /\ pc' = "wait" /\ prev_list' = cur_list /\ cur_list' = << >>
      /\ UNCHANGED << kernel, faults, round, NUM_OF_CPU, line, node >>
  BY DEF list_add_tail
<1>2. \A r : IsRow(r) => IsRow(r)'
  BY <1>1 DEF IsRow, kernel, Behind
<1>3. \A k \in DOMAIN prev_list' : IsRow(prev_list[k])'
  BY <1>1, <1>2 DEF IoInv
<1> QED
  BY <1>1, <1>3, BlankList DEF IoInv, NodeInv, Reader

(* What is known of the rows of the two rounds, at any time.               *)
THEOREM IoInvariant == Spec => []IoInv
<1>1. Init => IoInv
  <2> SUFFICES ASSUME Init PROVE IoInv
    OBVIOUS
  <2>1. /\ pc = "wait" /\ NUM_OF_CPU = 1 /\ line = 1 /\ cur_list = << >>
        /\ prev_list = << >>
    BY DEF Init
  <2> QED
    BY <2>1, BlankList DEF IoInv, NodeInv, Reader
<1>2. KernelInv /\ KernelInv' /\ IoInv /\ [Next]_vars => IoInv'
  <2> SUFFICES ASSUME KernelInv, KernelInv', IoInv, [Next]_vars PROVE IoInv'
    OBVIOUS
  <2>1. CASE Kernel
    BY <2>1, KernelKeepsIo
  <2>2. CASE collect_cpu \/ list_add_tail_cpu \/ get_num_of_cpu \/ open_diskstats
    BY <2>2, BetweenRoundsKeepsIo
  <2>3. CASE fgets
    BY <2>3, FgetsKeepsIo
  <2>4. CASE get_cpu_time_in_jiffies
    BY <2>4, CpuTimeKeepsIo
  <2>5. CASE read_uptime_in_jiffies
    BY <2>5, UptimeKeepsIo
  <2>6. CASE sscanf
    BY <2>6, SscanfKeepsIo
  <2>7. CASE compute_io_stat
    BY <2>7, ComputeKeepsIo
  <2>8. CASE list_add_tail
    BY <2>8, ListAddTailKeepsIo
  <2>9. CASE UNCHANGED vars
    <3>1. UNCHANGED << kernel, faults, pc, round, io >>
      BY <2>9 DEF vars
    <3>2. UNCHANGED << NUM_OF_CPU, line, node, cur_list, prev_list >>
      BY <3>1 DEF io
    <3>3. \A r : IsRow(r) => IsRow(r)'
      BY <3>1 DEF IsRow, kernel, Behind
    <3>4. RatedInv => RatedInv'
      BY <3>2 DEF RatedInv, Rows, Interval, Minus
    <3>5. NodeInv'
      BY <3>1, <3>2, <3>3 DEF IoInv, NodeInv, Follows, kernel
    <3>6. \A k \in DOMAIN prev_list : IsRow(prev_list[k])'
      BY <3>2, <3>3 DEF IoInv
    <3>7. \A k \in DOMAIN cur_list : IsRow(cur_list[k])'
      BY <3>2, <3>3 DEF IoInv
    <3> QED
      BY <3>1, <3>2, <3>4, <3>5, <3>6, <3>7 DEF IoInv, Ordered, Follows, kernel
  <2> QED
    BY <2>1, <2>2, <2>3, <2>4, <2>5, <2>6, <2>7, <2>8, <2>9 DEF Next
<1> QED
  BY <1>1, <1>2, KernelInvariant, PTL DEF Spec

(* The row of a device's own in the round before, and what rates it.       *)
LEMMA RowOfOwn ==
  ASSUME IoInv, pc = "report", round > 1,
         NEW row \in Rows,
         \E k \in DOMAIN prev_list : prev_list[k].dev = row.dev
  PROVE  LET ps == prev_list[Row_of(row.dev)]
         IN  /\ IsRow(row) /\ (row.smp <=> NUM_OF_CPU > 1)
             /\ IsRow(ps) /\ ps.at <= row.at /\ Behind(ps, row)
             /\ row.tps = << Minus(row.ios, ps.ios), Interval(row, ps) >>
<1> DEFINE k == Row_of(row.dev)
<1>1. k \in DOMAIN prev_list /\ prev_list[k].dev = row.dev
  BY DEF Row_of
<1> HIDE DEF k
<1>2. PICK i \in DOMAIN cur_list : row = cur_list[i]
  BY DEF Rows
<1>3. /\ IsRow(row) /\ (row.smp <=> NUM_OF_CPU > 1)
      /\ prev_list[k].at <= row.at /\ Follows(row, prev_list[k])
      /\ IsRow(prev_list[k]) /\ RatedInv
  BY <1>1, <1>2 DEF IoInv
<1>4. row.tps = << Minus(row.ios, prev_list[k].ios), Interval(row, prev_list[k]) >>
  BY <1>1, <1>3 DEF RatedInv
<1> QED
  BY <1>1, <1>3, <1>4 DEF Follows, k

(* A device has rates exactly if the round before has a row of it, and the *)
(* I/Os counted are the difference of its own two counts: compute_io_stat  *)
(* pairs rows by name, whatever came and went (io.c:116-122).              *)
THEOREM IoRatesOfOwnRow == Spec => []IoRatedByOwnRow
<1>1. IoInv => IoRatedByOwnRow
  <2> SUFFICES ASSUME IoInv, pc = "report", round > 1, NEW row \in Rows
               PROVE  /\ row.tps # NoRate <=>
                           \E k \in DOMAIN prev_list : prev_list[k].dev = row.dev
                      /\ row.tps # NoRate =>
                           LET ps == prev_list[Row_of(row.dev)]
                           IN  ps.gen = row.gen => row.tps[1] = row.ios - ps.ios
    BY DEF IoRatedByOwnRow
  <2> DEFINE listed == \E k \in DOMAIN prev_list : prev_list[k].dev = row.dev
             ps == prev_list[Row_of(row.dev)]
  <2>1. ~listed => row.tps = NoRate
    BY DEF IoInv, RatedInv
  <2>2. ASSUME listed
        PROVE  row.tps # NoRate /\ (ps.gen = row.gen => row.tps[1] = row.ios - ps.ios)
    <3>1. /\ IsRow(row) /\ IsRow(ps) /\ Behind(ps, row)
          /\ row.tps = << Minus(row.ios, ps.ios), Interval(row, ps) >>
      BY <2>2, RowOfOwn
    <3> HIDE DEF ps
    <3>2. /\ row.gen \in Nat /\ ps.gen \in Nat
          /\ row.ios \in 0 .. MaxIos /\ ps.ios \in 0 .. MaxIos
      BY <3>1 DEF IsRow, RowType
    <3>3. row.tps # NoRate
      BY <3>1 DEF NoRate
    <3>4. ASSUME ps.gen = row.gen PROVE row.tps[1] = row.ios - ps.ios
      <4>1. row.ios - ps.ios \in 0 .. W - 1
        BY <3>1, <3>2, <3>4, WordAssumption DEF Behind
      <4>2. Minus(row.ios, ps.ios) = row.ios - ps.ios
        BY <3>2, <4>1, Exact DEF Minus
      <4> QED
        BY <3>1, <4>2
    <3> QED
      BY <3>3, <3>4
  <2> QED
    BY <2>1, <2>2
<1> QED
  BY <1>1, IoInvariant, PTL

(* The interval that rates are divided by is the time between the two      *)
(* reads of the device, or, with several processors and a row before that  *)
(* has no uptime0, the time since boot (io.c:124-128).                     *)
THEOREM IntervalElapses == Spec => []IntervalIsElapsed
<1>1. KernelInv /\ IoInv => IntervalIsElapsed
  <2> SUFFICES ASSUME KernelInv, IoInv, pc = "report", round > 1, NEW row \in Rows,
                      row.tps # NoRate, row.read
               PROVE  LET ps == prev_list[Row_of(row.dev)]
                          elapsed == row.at - ps.at
                      IN  /\ NUM_OF_CPU > 1 =>
                               row.tps[2] = IF ps.smp /\ ps.read THEN elapsed ELSE row.at
                          /\ faults = 0 => row.tps[2] = elapsed
    BY DEF IntervalIsElapsed
  <2> DEFINE ps == prev_list[Row_of(row.dev)]
  <2>1. \E k \in DOMAIN prev_list : prev_list[k].dev = row.dev
    BY DEF IoInv, RatedInv
  <2>2. /\ IsRow(row) /\ IsRow(ps) /\ ps.at <= row.at /\ (row.smp <=> NUM_OF_CPU > 1)
        /\ row.tps = << Minus(row.ios, ps.ios), Interval(row, ps) >>
    BY <2>1, RowOfOwn
  <2> HIDE DEF ps
  <2>3. /\ row.at \in 0 .. W - 1 /\ ps.at \in 0 .. W - 1
        /\ row.at - ps.at \in 0 .. W - 1
    <3>1. row.at \in Nat /\ ps.at \in Nat /\ row.at <= uptime
      BY <2>2 DEF IsRow, RowType
    <3>2. uptime \in 0 .. W - 1
      BY TotalsFit
    <3> QED
      BY <2>2, <3>1, <3>2, WordAssumption
  <2>4. row.tps[2] = Interval(row, ps)
    BY <2>2
  <2>5. /\ row.smp \in BOOLEAN /\ ps.smp \in BOOLEAN
    BY <2>2 DEF IsRow, RowType
  <2>6. /\ row.uptime0 = IF row.smp /\ row.read THEN row.at ELSE 0
        /\ ps.uptime0 = IF ps.smp /\ ps.read THEN ps.at ELSE 0
        /\ faults = 0 => /\ ps.read /\ (row.smp <=> cpus > 1) /\ (ps.smp <=> cpus > 1)
                         /\ ~row.smp => row.uptime = row.at
                         /\ ~ps.smp => ps.uptime = ps.at
    BY <2>2 DEF IsRow
  <2>7. CASE NUM_OF_CPU > 1
    <3>1. row.uptime0 = row.at
      BY <2>2, <2>6, <2>7
    <3>2. Interval(row, ps) = Minus(row.at, ps.uptime0)
      BY <2>7, <3>1 DEF Interval
    <3>3. Minus(row.at, ps.at) = row.at - ps.at /\ Minus(row.at, 0) = row.at
      BY <2>3, Exact DEF Minus
    <3>4. faults = 0 => ps.smp /\ ps.read
      BY <2>2, <2>6, <2>7
    <3> QED
      BY <2>4, <2>6, <3>2, <3>3, <3>4 DEF ps
  <2>8. CASE ~(NUM_OF_CPU > 1)
    <3>1. faults = 0 => row.uptime = row.at /\ ps.uptime = ps.at
      BY <2>2, <2>6, <2>8
    <3>2. Interval(row, ps) = Minus(row.uptime, ps.uptime)
      BY <2>8 DEF Interval
    <3>3. Minus(row.at, ps.at) = row.at - ps.at
      BY <2>3, Exact DEF Minus
    <3> QED
      BY <2>4, <2>8, <3>1, <3>2, <3>3 DEF ps
  <2> QED
    BY <2>7, <2>8
<1> QED
  BY <1>1, KernelInvariant, IoInvariant, PTL
==============================================================================
