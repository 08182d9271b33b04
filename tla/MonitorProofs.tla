--------------------------- MODULE MonitorProofs ---------------------------
(***************************************************************************)
(* For any cores, cards, descriptors and sensors: what the monitors of the *)
(* system report.  For any number of processes and any bound on their      *)
(* ticks: as long as no pid is given out again, every tick of a process is *)
(* counted once.                                                           *)
(***************************************************************************)
EXTENDS ProcessMonitor, SystemMonitors, SumLemmas, TLAPS

----------------------------------------------------------------------------
(* ProcessMonitor *)

\* Nothing is reported before a first sample, and a search is made only without
\* a pid.  A cached pid was given out, and its counter, as far as it can still
\* be read, has not gone back behind what the monitor remembers of it.
CounterInv ==
    /\ first_sample => reported = 0
    /\ pc = "scan" => cached_pid = NoPid
    /\ \A p \in Pids : proc[p].state # "none" => proc[p].used
    /\ cached_pid # NoPid =>
         /\ proc[cached_pid].used
         /\ ~first_sample /\ proc[cached_pid].state # "none" => prev_ticks <= proc[cached_pid].ticks
    /\ pc = "rest" =>
         /\ ~first_sample => prev_ticks <= ticks
         /\ proc[cached_pid].state # "none" => ticks <= proc[cached_pid].ticks

\* A difference that is not negative and fits is its own remainder.
LEMMA SmallRemainder ==
    ASSUME NEW n \in Nat, n < TickMod
    PROVE  n % TickMod = n
  BY MonitorAssumption

\* The steps of the processes leave the monitor's own invariants alone.
LEMMA ProcessesKeepTypes ==
    ASSUME TypeOK, NEW p \in Pids, Starts(p) \/ Works(p) \/ Exits(p) \/ Reaped(p)
    PROVE  TypeOK'
  <1> USE MonitorAssumption DEF TypeOK, monitor, Names
  <1>1. CASE Starts(p)
    BY <1>1 DEF Starts
  <1>2. CASE Works(p)
    BY <1>2 DEF Works
  <1>3. CASE Exits(p)
    BY <1>3 DEF Exits
  <1>4. CASE Reaped(p)
    BY <1>4 DEF Reaped
  <1> QED BY <1>1, <1>2, <1>3, <1>4

\* What dticks is when the counter has not gone back.
LEMMA Difference ==
    ASSUME TypeOK, prev_ticks <= ticks
    PROVE  dticks = ticks - prev_ticks
  <1>1. ticks - prev_ticks \in Nat /\ ticks - prev_ticks < TickMod
    BY MonitorAssumption DEF TypeOK
  <1> QED BY <1>1, SmallRemainder DEF dticks

\* dticks is a natural number in any case.
LEMMA DticksNat == TypeOK => dticks \in Nat
  BY MonitorAssumption DEF TypeOK, dticks

\* TypeOK is inductive.
LEMMA TypeStep == TypeOK /\ [Next]_vars => TypeOK'
  <1> SUFFICES ASSUME TypeOK, [Next]_vars PROVE TypeOK'
    OBVIOUS
  <1> USE MonitorAssumption DEF monitor
  <1>1. ASSUME NEW p \in Pids, Starts(p) \/ Works(p) \/ Exits(p) \/ Reaped(p) PROVE TypeOK'
    BY <1>1, ProcessesKeepTypes
  <1>2. CASE SampleCalled
    BY <1>2 DEF SampleCalled, TypeOK, Pids, NoPid
  <1>3. CASE ScanEntry
    <2>1. CASE Matches(at)
      <3>1. at \in Pids /\ at # NoPid
        BY <1>3 DEF ScanEntry, Pids, NoPid
      <3>2. cached_pid' \in Pids /\ cached_pid' # NoPid /\ first_sample' \in BOOLEAN
            /\ pc' = "stat" /\ at' = at
        BY <1>3, <2>1, <3>1 DEF ScanEntry
      <3> QED BY <1>3, <3>2 DEF ScanEntry, TypeOK
    <2>2. CASE ~Matches(at)
      <3>1. at' = at + 1 /\ cached_pid' = cached_pid /\ first_sample' = first_sample /\ pc' = pc
        BY <1>3, <2>2 DEF ScanEntry
      <3>2. at' \in 1..(MaxPid + 1)
        BY <1>3, <3>1 DEF ScanEntry, Pids
      <3> QED BY <1>3, <3>1, <3>2 DEF ScanEntry, TypeOK
    <2> QED BY <2>1, <2>2
  <1>4. CASE NotFound
    BY <1>4 DEF NotFound, Fails, TypeOK
  <1>5. CASE StatFails
    BY <1>5 DEF StatFails, Fails, Reset, TypeOK
  <1>6. CASE ReadStat
    BY <1>6 DEF ReadStat, TypeOK
  <1>7. CASE FirstSample \/ Measured \/ TooSoon
    <2>1. CASE FirstSample
      <3>1. cached_pid' # NoPid /\ first_sample' \in BOOLEAN
        BY <2>1 DEF FirstSample, Succeeds, TypeOK
      <3>2. reported' \in Nat
        BY <2>1 DEF FirstSample, Succeeds, TypeOK
      <3> QED BY <2>1, <3>1, <3>2 DEF FirstSample, Succeeds, TypeOK
    <2>2. CASE Measured
      BY <2>2, DticksNat DEF Measured, Succeeds, TypeOK
    <2>3. CASE TooSoon
      BY <2>3 DEF TooSoon, Succeeds, TypeOK
    <2> QED BY <1>7, <2>1, <2>2, <2>3
  <1>8. CASE ResetCalled
    BY <1>8 DEF ResetCalled, Reset, TypeOK
  <1>9. CASE UNCHANGED vars
    BY <1>9 DEF vars, TypeOK
  <1> QED BY <1>1, <1>2, <1>3, <1>4, <1>5, <1>6, <1>7, <1>8, <1>9 DEF Next, Sample

\* Every variable keeps its type, and without a cached pid nothing is
\* remembered of an earlier process.
THEOREM Typing == Spec => []TypeOK
  <1>1. Init => TypeOK
    BY MonitorAssumption DEF Init, TypeOK, Names, Pids, NoPid
  <1> QED BY <1>1, TypeStep, PTL DEF Spec

\* The processes do not make a counter go back when no pid is given out again.
LEMMA ProcessesKeepCounters ==
    ASSUME PidReuse = FALSE, TypeOK, CounterInv, NEW p \in Pids,
           Starts(p) \/ Works(p) \/ Exits(p) \/ Reaped(p)
    PROVE  CounterInv'
  <1> USE DEF TypeOK, monitor, Names
  <1>1. CASE Starts(p)
    BY <1>1 DEF Starts, CounterInv
  <1>2. CASE Works(p)
    BY <1>2 DEF Works, CounterInv
  <1>3. CASE Exits(p)
    BY <1>3 DEF Exits, CounterInv
  <1>4. CASE Reaped(p)
    BY <1>4 DEF Reaped, CounterInv
  <1> QED BY <1>1, <1>2, <1>3, <1>4

\* The steps of sample keep what is said of the counters and of the count.
LEMMA CountStep ==
    ASSUME PidReuse = FALSE, TypeOK, TypeOK', CounterInv, TicksCountedOnce, [Next]_vars
    PROVE  CounterInv' /\ TicksCountedOnce'
  <1> USE MonitorAssumption DEF monitor
  <1>1. ASSUME NEW p \in Pids, Starts(p) \/ Works(p) \/ Exits(p) \/ Reaped(p)
        PROVE  CounterInv' /\ TicksCountedOnce'
    <2>1. CounterInv'
      BY <1>1, ProcessesKeepCounters
    <2>2. TicksCountedOnce'
      BY <1>1 DEF Starts, Works, Exits, Reaped, TicksCountedOnce
    <2> QED BY <2>1, <2>2
  <1>2. CASE SampleCalled
    BY <1>2 DEF SampleCalled, TypeOK, Pids, NoPid, TicksCountedOnce, CounterInv
  <1>3. CASE ScanEntry
    <2>1. CASE Matches(at)
      BY <1>3, <2>1 DEF ScanEntry, Matches, TypeOK, TicksCountedOnce, CounterInv
    <2>2. CASE ~Matches(at)
      BY <1>3, <2>2 DEF ScanEntry, TicksCountedOnce, CounterInv
    <2> QED BY <2>1, <2>2
  <1>4. CASE NotFound
    BY <1>4 DEF NotFound, Fails, TicksCountedOnce, CounterInv
  <1>5. CASE StatFails
    BY <1>5 DEF StatFails, Fails, Reset, TicksCountedOnce, CounterInv
  <1>6. CASE ReadStat
    BY <1>6 DEF ReadStat, TypeOK, TicksCountedOnce, CounterInv
  <1>7. CASE FirstSample
    <2>1. TicksCountedOnce'
      <3>1. firstTicks' = ticks /\ prev_ticks' = ticks /\ reported' = reported /\ ticks \in Nat
        BY <1>7 DEF FirstSample, Succeeds, TypeOK
      <3>2. reported = 0
        BY <1>7 DEF FirstSample, CounterInv
      <3> QED BY <3>1, <3>2 DEF TicksCountedOnce
    <2>2. CounterInv'
      <3>1. /\ proc' = proc /\ cached_pid' = cached_pid /\ prev_ticks' = ticks /\ pc' = "idle"
            /\ first_sample' = FALSE
            /\ proc[cached_pid].state # "none" => ticks <= proc[cached_pid].ticks
        BY <1>7 DEF FirstSample, Succeeds, CounterInv
      <3> QED BY <3>1 DEF CounterInv
    <2> QED BY <2>1, <2>2
  <1>8. CASE Measured
    <2>1. prev_ticks <= ticks
      BY <1>8 DEF Measured, CounterInv
    <2>2. dticks = ticks - prev_ticks
      BY <2>1, Difference
    <2>3. reported' = reported + (ticks - prev_ticks) /\ firstTicks + reported = prev_ticks
      BY <1>8, <2>2 DEF Measured, Succeeds, TicksCountedOnce
    <2>4. TicksCountedOnce'
      BY <1>8, <2>3 DEF Measured, Succeeds, TypeOK, TicksCountedOnce
    <2>5. CounterInv'
      BY <1>8 DEF Measured, Succeeds, TypeOK, CounterInv
    <2> QED BY <2>4, <2>5
  <1>9. CASE TooSoon
    BY <1>9 DEF TooSoon, Succeeds, TypeOK, TicksCountedOnce, CounterInv
  <1>10. CASE ResetCalled
    BY <1>10 DEF ResetCalled, Reset, TicksCountedOnce, CounterInv
  <1>11. CASE UNCHANGED vars
    BY <1>11 DEF vars, TicksCountedOnce, CounterInv
  <1> QED BY <1>1, <1>2, <1>3, <1>4, <1>5, <1>6, <1>7, <1>8, <1>9, <1>10, <1>11 DEF Next, Sample

\* Every tick of a process is reported once, over any number of samples.
THEOREM CountTheorem ==
    ASSUME PidReuse = FALSE
    PROVE  Spec => []TicksCountedOnce
  <1>1. Init => CounterInv /\ TicksCountedOnce
    BY DEF Init, CounterInv, TicksCountedOnce, NoPid, Pids
  <1>2. TypeOK /\ TypeOK' /\ CounterInv /\ TicksCountedOnce /\ [Next]_vars
          => CounterInv' /\ TicksCountedOnce'
    BY CountStep
  <1> QED BY <1>1, <1>2, Typing, PTL DEF Spec

----------------------------------------------------------------------------
(* CpuMonitor *)

\* What the counters are, how they moved since the last sample, and that the
\* lines kept are those of that sample, for all cores and for the ones that
\* stayed on line.
KeptLines == {Aggregate} \cup {c \in steady : c < core_count}

CpuTypes ==
    /\ stat \in [Lines -> [CpuFields -> Nat]]
    /\ \A l \in Lines : get_total_ticks(stat[l]) <= MaxCpuTicks
    /\ statThen \in [Lines -> [CpuFields -> Nat]]
    /\ prev_lines \in [Lines -> [CpuFields -> Nat]]
    /\ online \subseteq Cores /\ core_count \in Nat /\ steady \subseteq online
    /\ cpu_metrics \in [Lines -> [total : 0..100, user : 0..100, iowait : 0..100]]

CpuInv ==
    /\ CpuTypes
    /\ \A l \in Lines : \A f \in CpuFields \ {"iowait"} : statThen[l][f] <= stat[l][f]
    /\ ~cpu_first => \A l \in KeptLines : prev_lines[l] = statThen[l]

\* What clamp_pct (cpu.cpp) returns.
LEMMA ClampPercent == ASSUME NEW v \in Int PROVE clamp_pct(v) \in 0..100
  BY DEF clamp_pct

\* Differences are numbers below the modulus.
LEMMA DeltaType ==
    ASSUME NEW prev \in [CpuFields -> Nat], NEW curr \in [CpuFields -> Nat]
    PROVE  calculate_delta(prev, curr) \in [CpuFields -> 0..(CpuTickMod - 1)]
  <1>1. CpuTickMod \in Nat \ {0}
    BY CpuAssumption
  <1>2. \A n \in Int : n % CpuTickMod \in 0..(CpuTickMod - 1)
    BY <1>1
  <1> QED BY <1>2 DEF calculate_delta

\* Whatever the differences are.
LEMMA MetricsType ==
    ASSUME NEW delta \in [CpuFields -> Nat]
    PROVE  calculate_metrics(delta) \in [total : 0..100, user : 0..100, iowait : 0..100]
  <1> DEFINE total == get_total_ticks(delta) % CpuTickMod
             idle  == (delta.idle + delta.iowait) % CpuTickMod
  <1>1. CpuTickMod \in Nat \ {0}
    BY CpuAssumption
  <1>2. delta.user \in Nat /\ delta.system \in Nat /\ delta.idle \in Nat /\ delta.iowait \in Nat
    BY DEF CpuFields
  <1>3. get_total_ticks(delta) \in Nat /\ delta.idle + delta.iowait \in Nat
    BY <1>2 DEF get_total_ticks
  <1>4. total \in Nat /\ idle \in Nat
    BY <1>1, <1>3
  <1>5. calculate_metrics(delta) =
          IF total = 0 THEN NoCpuMetrics
          ELSE [total  |-> clamp_pct((100 * (total - idle)) \div total),
                user   |-> clamp_pct((100 * delta.user) \div total),
                iowait |-> clamp_pct((100 * delta.iowait) \div total)]
    BY DEF calculate_metrics
  <1> HIDE DEF total, idle
  <1>6. CASE total = 0
    BY <1>5, <1>6 DEF NoCpuMetrics
  <1>7. CASE total # 0
    <2>1. \A n \in Int : n \div total \in Int
      BY <1>4, <1>7
    <2>2. /\ (100 * (total - idle)) \div total \in Int
          /\ (100 * delta.user) \div total \in Int
          /\ (100 * delta.iowait) \div total \in Int
      BY <1>2, <1>4, <2>1
    <2> QED BY <1>5, <1>7, <2>2, ClampPercent
  <1> QED BY <1>6, <1>7

\* The constructor knows no earlier lines.
LEMMA CpuInitial == CpuInit => CpuInv
  <1> SUFFICES ASSUME CpuInit PROVE CpuInv
    OBVIOUS
  <1>1. NoTicks \in [CpuFields -> Nat] /\ get_total_ticks(NoTicks) = 0
    BY DEF NoTicks, get_total_ticks, CpuFields
  <1>2. NoCpuMetrics \in [total : 0..100, user : 0..100, iowait : 0..100]
    BY DEF NoCpuMetrics
  <1>3. core_count \in Nat
    <2>1. IsFiniteSet(online)
      BY CpuAssumption, FS_Subset DEF CpuInit
    <2> QED BY <2>1, FS_CardinalityType DEF CpuInit
  <1>4. MaxCpuTicks \in Nat
    BY CpuAssumption
  <1>5. CpuTypes
    BY <1>1, <1>2, <1>3, <1>4 DEF CpuInit, CpuTypes
  <1> QED BY <1>1, <1>5 DEF CpuInit, CpuInv

\* One more tick of a line.
LEMMA TickLine ==
    ASSUME NEW s \in [CpuFields -> Nat], NEW f \in CpuFields
    PROVE  /\ [s EXCEPT ![f] = @ + 1] \in [CpuFields -> Nat]
           /\ get_total_ticks([s EXCEPT ![f] = @ + 1]) = get_total_ticks(s) + 1
           /\ \A g \in CpuFields : s[g] <= [s EXCEPT ![f] = @ + 1][g]
  BY DEF get_total_ticks, CpuFields

\* A line whose iowait goes back by one.
LEMMA IowaitLine ==
    ASSUME NEW s \in [CpuFields -> Nat], s.iowait > 0
    PROVE  /\ [s EXCEPT !.iowait = @ - 1] \in [CpuFields -> Nat]
           /\ get_total_ticks([s EXCEPT !.iowait = @ - 1]) = get_total_ticks(s) - 1
           /\ \A g \in CpuFields \ {"iowait"} : s[g] <= [s EXCEPT !.iowait = @ - 1][g]
  BY DEF get_total_ticks, CpuFields

\* A change of the lines of a core and of all cores that lets no field but
\* iowait fall.
LEMMA StatMoves ==
    ASSUME CpuInv, UNCHANGED <<online, core_count, prev_lines, cpu_metrics, cpu_first, statThen, steady>>,
           stat' \in [Lines -> [CpuFields -> Nat]],
           \A l \in Lines : get_total_ticks(stat'[l]) <= MaxCpuTicks,
           \A l \in Lines : \A f \in CpuFields \ {"iowait"} : stat[l][f] <= stat'[l][f]
    PROVE  CpuInv'
  <1>1. CpuTypes'
    BY DEF CpuInv, CpuTypes
  <1>2. \A l \in Lines : \A f \in CpuFields \ {"iowait"} : statThen'[l][f] <= stat'[l][f]
    <2> SUFFICES ASSUME NEW l \in Lines, NEW f \in CpuFields \ {"iowait"} PROVE statThen[l][f] <= stat'[l][f]
      OBVIOUS
    <2>1. statThen[l][f] \in Nat /\ stat[l][f] \in Nat /\ stat'[l][f] \in Nat
      BY DEF CpuInv, CpuTypes
    <2>2. statThen[l][f] <= stat[l][f] /\ stat[l][f] <= stat'[l][f]
      BY DEF CpuInv
    <2> QED BY <2>1, <2>2
  <1>3. (~cpu_first => \A l \in KeptLines : prev_lines[l] = statThen[l])'
    BY DEF CpuInv, KeptLines
  <1> QED BY <1>1, <1>2, <1>3 DEF CpuInv

\* A tick is counted on its core's line and on that of all cores.
LEMMA CpuTickKeeps ==
    ASSUME CpuInv, NEW c \in Cores, NEW f \in CpuFields, CpuTick(c, f)
    PROVE  CpuInv'
  <1> DEFINE up(s) == [s EXCEPT ![f] = @ + 1]
  <1>1. stat \in [Lines -> [CpuFields -> Nat]] /\ c \in Lines /\ Aggregate \in Lines /\ c # Aggregate
    BY CpuAssumption DEF CpuInv, CpuTypes, Lines, Aggregate
  <1>2. /\ stat' = [stat EXCEPT ![c] = up(@), ![Aggregate] = up(@)]
        /\ \A l \in {c, Aggregate} : get_total_ticks(stat[l]) < MaxCpuTicks
        /\ UNCHANGED <<online, core_count, prev_lines, cpu_metrics, cpu_first, statThen, steady>>
    BY DEF CpuTick
  <1>3. \A l \in Lines : stat'[l] = IF l \in {c, Aggregate} THEN up(stat[l]) ELSE stat[l]
    BY <1>1, <1>2
  <1>4. \A s \in [CpuFields -> Nat] :
           /\ up(s) \in [CpuFields -> Nat] /\ get_total_ticks(up(s)) = get_total_ticks(s) + 1
           /\ \A g \in CpuFields : s[g] <= up(s)[g]
    BY TickLine
  <1>5. \A s \in [CpuFields -> Nat] : get_total_ticks(s) \in Nat
    BY DEF get_total_ticks, CpuFields
  <1> HIDE DEF up
  <1>6. stat' \in [Lines -> [CpuFields -> Nat]]
    BY <1>1, <1>2, <1>4
  <1>7. \A l \in Lines : get_total_ticks(stat'[l]) <= MaxCpuTicks
    BY <1>1, <1>2, <1>3, <1>4, <1>5, CpuAssumption DEF CpuInv, CpuTypes
  <1>8. \A l \in Lines : \A g \in CpuFields \ {"iowait"} : stat[l][g] <= stat'[l][g]
    <2> SUFFICES ASSUME NEW l \in Lines, NEW g \in CpuFields \ {"iowait"} PROVE stat[l][g] <= stat'[l][g]
      OBVIOUS
    <2>1. stat[l] \in [CpuFields -> Nat] /\ stat[l][g] \in Nat
      BY <1>1
    <2> QED BY <1>3, <1>4, <2>1
  <1> QED BY <1>2, <1>6, <1>7, <1>8, StatMoves

\* iowait may go back; the invariant says nothing of it.
LEMMA IowaitFallsKeeps ==
    ASSUME CpuInv, NEW c \in Cores, IowaitFalls(c)
    PROVE  CpuInv'
  <1> DEFINE down(s) == [s EXCEPT !.iowait = @ - 1]
  <1>1. stat \in [Lines -> [CpuFields -> Nat]] /\ c \in Lines /\ Aggregate \in Lines /\ c # Aggregate
    BY CpuAssumption DEF CpuInv, CpuTypes, Lines, Aggregate
  <1>2. /\ stat' = [stat EXCEPT ![c] = down(@), ![Aggregate] = down(@)]
        /\ \A l \in {c, Aggregate} : stat[l].iowait > 0
        /\ UNCHANGED <<online, core_count, prev_lines, cpu_metrics, cpu_first, statThen, steady>>
    BY DEF IowaitFalls
  <1>3. \A l \in Lines : stat'[l] = IF l \in {c, Aggregate} THEN down(stat[l]) ELSE stat[l]
    BY <1>1, <1>2
  <1>4. \A s \in [CpuFields -> Nat] : s.iowait > 0 =>
           /\ down(s) \in [CpuFields -> Nat] /\ get_total_ticks(down(s)) = get_total_ticks(s) - 1
           /\ \A g \in CpuFields \ {"iowait"} : s[g] <= down(s)[g]
    BY IowaitLine
  <1>5. \A s \in [CpuFields -> Nat] : get_total_ticks(s) \in Nat
    BY DEF get_total_ticks, CpuFields
  <1> HIDE DEF down
  <1>6. stat' \in [Lines -> [CpuFields -> Nat]]
    BY <1>1, <1>2, <1>4
  <1>7. \A l \in Lines : get_total_ticks(stat'[l]) <= MaxCpuTicks
    BY <1>1, <1>2, <1>3, <1>4, <1>5, CpuAssumption DEF CpuInv, CpuTypes
  <1>8. \A l \in Lines : \A g \in CpuFields \ {"iowait"} : stat[l][g] <= stat'[l][g]
    <2> SUFFICES ASSUME NEW l \in Lines, NEW g \in CpuFields \ {"iowait"} PROVE stat[l][g] <= stat'[l][g]
      OBVIOUS
    <2>1. stat[l] \in [CpuFields -> Nat] /\ stat[l][g] \in Nat
      BY <1>1
    <2>2. CASE l \in {c, Aggregate}
      <3>1. stat[l].iowait > 0 /\ stat'[l] = down(stat[l])
        BY <1>2, <1>3, <2>2
      <3> QED BY <1>4, <2>1, <3>1
    <2>3. CASE l \notin {c, Aggregate}
      BY <1>3, <2>1, <2>3
    <2> QED BY <2>2, <2>3
  <1> QED BY <1>2, <1>6, <1>7, <1>8, StatMoves

\* What is parsed of a line.
LEMMA ParsedType ==
    ASSUME CpuInv, NEW l \in Lines
    PROVE  Parsed(l) \in [CpuFields -> Nat]
  BY DEF CpuInv, CpuTypes, Parsed, NoTicks

\* A sample keeps the lines it read.
LEMMA CpuSampledKeeps == ASSUME CpuInv, CpuSampled PROVE CpuInv'
  <1>1. prev_lines' \in [Lines -> [CpuFields -> Nat]]
    BY ParsedType DEF CpuSampled
  <1>2. cpu_metrics' \in [Lines -> [total : 0..100, user : 0..100, iowait : 0..100]]
    <2>1. NoCpuMetrics \in [total : 0..100, user : 0..100, iowait : 0..100]
      BY DEF NoCpuMetrics
    <2>2. ASSUME NEW l \in Lines
          PROVE  calculate_metrics(calculate_delta(prev_lines[l], Parsed(l)))
                   \in [total : 0..100, user : 0..100, iowait : 0..100]
      <3>1. prev_lines[l] \in [CpuFields -> Nat] /\ Parsed(l) \in [CpuFields -> Nat]
        BY ParsedType DEF CpuInv, CpuTypes
      <3>2. calculate_delta(prev_lines[l], Parsed(l)) \in [CpuFields -> 0..(CpuTickMod - 1)]
        BY <3>1, DeltaType
      <3>3. calculate_delta(prev_lines[l], Parsed(l)) \in [CpuFields -> Nat]
        BY <3>2, CpuAssumption
      <3> QED BY <3>3, MetricsType
    <2> QED BY <2>1, <2>2 DEF CpuSampled
  <1>3. CpuTypes'
    BY <1>1, <1>2 DEF CpuInv, CpuTypes, CpuSampled
  <1>4. \A l \in Lines : \A f \in CpuFields \ {"iowait"} : statThen'[l][f] <= stat'[l][f]
    BY DEF CpuSampled, CpuInv, CpuTypes
  <1>5. \A l \in KeptLines' : prev_lines'[l] = statThen'[l]
    <2>1. \A l \in KeptLines' : l \in Lines /\ Parsed(l) = stat[l]
      BY DEF KeptLines, CpuSampled, Parsed, Lines, CpuInv, CpuTypes
    <2> QED BY <2>1 DEF CpuSampled
  <1> QED BY <1>3, <1>4, <1>5 DEF CpuInv

\* The invariant of CpuMonitor is inductive.
LEMMA CpuStep == CpuInv /\ [CpuNext]_cpuVars => CpuInv'
  <1> SUFFICES ASSUME CpuInv, [CpuNext]_cpuVars PROVE CpuInv'
    OBVIOUS
  <1>1. ASSUME NEW c \in Cores, Hotplug(c) PROVE CpuInv'
    BY <1>1 DEF Hotplug, CpuInv, CpuTypes, KeptLines
  <1>2. ASSUME NEW c \in Cores, IowaitFalls(c) PROVE CpuInv'
    BY <1>2, IowaitFallsKeeps
  <1>3. ASSUME NEW c \in Cores, NEW f \in CpuFields, CpuTick(c, f) PROVE CpuInv'
    BY <1>3, CpuTickKeeps
  <1>4. CASE CpuSampled
    BY <1>4, CpuSampledKeeps
  <1>5. CASE UNCHANGED cpuVars
    BY <1>5 DEF cpuVars, CpuInv, CpuTypes, KeptLines
  <1> QED BY <1>1, <1>2, <1>3, <1>4, <1>5 DEF CpuNext

\* A number that is a little above or below what the modulus allows.
LEMMA Wrapped ==
    ASSUME NEW m \in Nat, m > 0, NEW n \in Int
    PROVE  /\ 0 <= n /\ n < m => n % m = n
           /\ -m <= n /\ n < 0 => n % m = n + m
           /\ m <= n /\ n < 2 * m => n % m = n - m
  <1>1. n % m \in 0..(m - 1) /\ n = m * (n \div m) + (n % m) /\ n \div m \in Int
    OBVIOUS
  <1>2. 0 <= n /\ n < m => n \div m = 0
    BY <1>1
  <1>3. -m <= n /\ n < 0 => n \div m = -1
    BY <1>1
  <1>4. m <= n /\ n < 2 * m => n \div m = 1
    BY <1>1
  <1> QED BY <1>1, <1>2, <1>3, <1>4

\* A part of the whole needs no clamping.
LEMMA ShareClamped ==
    ASSUME NEW n \in Nat, NEW total \in Nat, total > 0, n <= total
    PROVE  clamp_pct((100 * n) \div total) = (100 * n) \div total
  <1> DEFINE q == (100 * n) \div total
  <1>1. q \in Nat /\ total * q <= 100 * n
    OBVIOUS
  <1>2. q <= 100
    <2>1. ASSUME q > 100 PROVE FALSE
      <3>1. total * q >= total * 101
        BY <1>1, <2>1
      <3> QED BY <1>1, <3>1
    <2> QED BY <1>1, <2>1
  <1> QED BY <1>1, <1>2 DEF clamp_pct

\* What calculate_delta and calculate_metrics make of two counts of a line, of
\* which only iowait may have fallen, and not by more than idle has grown.
LEMMA LineShares ==
    ASSUME NEW prev \in [CpuFields -> Nat], NEW curr \in [CpuFields -> Nat],
           get_total_ticks(curr) <= MaxCpuTicks,
           \A f \in CpuFields \ {"iowait"} : prev[f] <= curr[f],
           NEW moved, moved = [f \in CpuFields |-> curr[f] - prev[f]],
           get_total_ticks(moved) > 0, moved.idle + moved.iowait >= 0
    PROVE  LET m == calculate_metrics(calculate_delta(prev, curr))
               total == get_total_ticks(moved)
           IN  /\ m.total = (100 * (moved.user + moved.system)) \div total
               /\ m.user = (100 * moved.user) \div total
               /\ moved.iowait >= 0 => m.iowait = (100 * moved.iowait) \div total
  <1> DEFINE M == CpuTickMod
             total == get_total_ticks(moved)
             d == calculate_delta(prev, curr)
             Wrap(n) == n % M
  <1>1. M \in Nat /\ M > 0 /\ MaxCpuTicks \in Nat /\ MaxCpuTicks < M
    BY CpuAssumption
  <1>2. /\ curr.user \in Nat /\ curr.system \in Nat /\ curr.idle \in Nat /\ curr.iowait \in Nat
        /\ prev.user \in Nat /\ prev.system \in Nat /\ prev.idle \in Nat /\ prev.iowait \in Nat
    BY DEF CpuFields
  <1>3. /\ moved.user = curr.user - prev.user /\ moved.system = curr.system - prev.system
        /\ moved.idle = curr.idle - prev.idle /\ moved.iowait = curr.iowait - prev.iowait
    BY DEF CpuFields
  <1>4. prev.user <= curr.user /\ prev.system <= curr.system /\ prev.idle <= curr.idle
    BY DEF CpuFields
  <1>5. /\ moved.user \in 0..(M - 1) /\ moved.system \in 0..(M - 1) /\ moved.idle \in 0..(M - 1)
        /\ moved.iowait \in -(M - 1)..(M - 1)
        /\ total = moved.user + moved.system + moved.idle + moved.iowait /\ total \in 1..(M - 1)
    BY <1>1, <1>2, <1>3, <1>4 DEF get_total_ticks
  <1>6. /\ d.user = Wrap(moved.user) /\ d.system = Wrap(moved.system)
        /\ d.idle = Wrap(moved.idle) /\ d.iowait = Wrap(moved.iowait)
    BY <1>3 DEF calculate_delta, CpuFields
  <1> HIDE DEF M, total, d, Wrap
  <1>60. \A n \in Int : /\ n \in 0..(M - 1) => Wrap(n) = n
                        /\ n + M \in 0..(M - 1) => Wrap(n) = n + M
                        /\ n - M \in 0..(M - 1) => Wrap(n) = n - M
    <2> SUFFICES ASSUME NEW n \in Int
                 PROVE  /\ n \in 0..(M - 1) => Wrap(n) = n
                        /\ n + M \in 0..(M - 1) => Wrap(n) = n + M
                        /\ n - M \in 0..(M - 1) => Wrap(n) = n - M
      OBVIOUS
    <2>1. /\ 0 <= n /\ n < M => Wrap(n) = n
          /\ -M <= n /\ n < 0 => Wrap(n) = n + M
          /\ M <= n /\ n < 2 * M => Wrap(n) = n - M
      BY <1>1, Wrapped DEF Wrap
    <2> QED BY <1>1, <2>1
  <1>7. d.user = moved.user /\ d.system = moved.system /\ d.idle = moved.idle
    <2>1. moved.user \in Int /\ moved.system \in Int /\ moved.idle \in Int
      BY <1>1, <1>5
    <2> QED BY <1>5, <1>6, <1>60, <2>1
  <1>8. d.iowait = IF moved.iowait >= 0 THEN moved.iowait ELSE moved.iowait + M
    <2>1. moved.iowait \in Int
      BY <1>1, <1>5
    <2>2. /\ moved.iowait >= 0 => moved.iowait \in 0..(M - 1)
          /\ ~(moved.iowait >= 0) => moved.iowait + M \in 0..(M - 1)
      BY <1>1, <1>5
    <2> QED BY <1>6, <1>60, <2>1, <2>2
  <1>9. Wrap(get_total_ticks(d)) = total
    <2>1. get_total_ticks(d) = IF moved.iowait >= 0 THEN total ELSE total + M
      BY <1>1, <1>5, <1>7, <1>8 DEF get_total_ticks
    <2>2. get_total_ticks(d) \in Int /\ total \in Int
      BY <1>1, <1>5, <2>1
    <2>3. CASE moved.iowait >= 0
      BY <1>1, <1>5, <1>60, <2>1, <2>2, <2>3
    <2>4. CASE ~(moved.iowait >= 0)
      <3>1. Wrap(total + M) = total
        <4>1. total + M \in Int /\ (total + M) - M \in 0..(M - 1) /\ (total + M) - M = total
          BY <1>1, <1>5
        <4> QED BY <1>60, <4>1
      <3> QED BY <2>1, <2>4, <3>1
    <2> QED BY <2>3, <2>4
  <1>10. Wrap(d.idle + d.iowait) = moved.idle + moved.iowait
    <2> DEFINE idle == moved.idle + moved.iowait
    <2>1. idle \in 0..(M - 1)
      BY <1>1, <1>5
    <2>2. d.idle + d.iowait = IF moved.iowait >= 0 THEN idle ELSE idle + M
      BY <1>1, <1>5, <1>7, <1>8
    <2> HIDE DEF idle
    <2>3. Wrap(d.idle + d.iowait) = idle
      <3>1. Wrap(idle) = idle
        BY <1>1, <1>60, <2>1
      <3>2. Wrap(idle + M) = idle
        <4>1. idle + M \in Int /\ (idle + M) - M \in 0..(M - 1) /\ (idle + M) - M = idle
          BY <1>1, <2>1
        <4> QED BY <1>60, <4>1
      <3> QED BY <2>2, <3>1, <3>2
    <2> QED BY <2>3 DEF idle
  <1>11. calculate_metrics(d) =
           [total  |-> clamp_pct((100 * (total - (moved.idle + moved.iowait))) \div total),
            user   |-> clamp_pct((100 * d.user) \div total),
            iowait |-> clamp_pct((100 * d.iowait) \div total)]
    BY <1>5, <1>9, <1>10 DEF calculate_metrics, M, Wrap
  <1>12. total - (moved.idle + moved.iowait) = moved.user + moved.system
    BY <1>1, <1>5
  <1>13. clamp_pct((100 * (moved.user + moved.system)) \div total) = (100 * (moved.user + moved.system)) \div total
    <2>1. moved.user + moved.system \in Nat /\ moved.user + moved.system <= total /\ total \in Nat /\ total > 0
      BY <1>1, <1>5
    <2> QED BY <2>1, ShareClamped
  <1>14. clamp_pct((100 * moved.user) \div total) = (100 * moved.user) \div total
    <2>1. moved.user \in Nat /\ moved.user <= total /\ total \in Nat /\ total > 0
      BY <1>1, <1>5
    <2> QED BY <2>1, ShareClamped
  <1>15. ASSUME moved.iowait >= 0
         PROVE  clamp_pct((100 * moved.iowait) \div total) = (100 * moved.iowait) \div total
    <2>1. moved.iowait \in Nat /\ moved.iowait <= total /\ total \in Nat /\ total > 0
      BY <1>1, <1>5, <1>15
    <2> QED BY <2>1, ShareClamped
  <1>16. calculate_metrics(d).total = (100 * (moved.user + moved.system)) \div total
    BY <1>11, <1>12, <1>13
  <1>17. calculate_metrics(d).user = (100 * moved.user) \div total
    BY <1>7, <1>11, <1>14
  <1>18. moved.iowait >= 0 => calculate_metrics(d).iowait = (100 * moved.iowait) \div total
    BY <1>8, <1>11, <1>15
  <1> QED BY <1>16, <1>17, <1>18 DEF d, total

\* What is reported is what has been counted since the last sample, also when
\* iowait went back by no more than idle went on.
THEOREM SharesTheorem == SystemSpec => SharesTruthful
  <1> DEFINE Truthful ==
        CpuSampled /\ ~cpu_first =>
          \A l \in {Aggregate} \cup {c \in steady : c < core_count} :
            LET moved == [f \in CpuFields |-> stat[l][f] - statThen[l][f]]
                idle  == moved.idle + moved.iowait
                total == get_total_ticks(moved)
                share(n) == (100 * n) \div total
            IN  total > 0 /\ idle >= 0 =>
                  /\ cpu_metrics'[l].total = share(moved.user + moved.system)
                  /\ cpu_metrics'[l].user = share(moved.user)
                  /\ moved.iowait >= 0 => cpu_metrics'[l].iowait = share(moved.iowait)
  <1>1. SystemInit => CpuInv
    BY CpuInitial DEF SystemInit
  <1>2. CpuInv /\ [SystemNext]_systemVars => CpuInv'
    <2>1. [SystemNext]_systemVars => [CpuNext]_cpuVars
      BY DEF SystemNext, systemVars
    <2> QED BY <2>1, CpuStep
  <1>3. CpuInv => Truthful
    <2> SUFFICES ASSUME CpuInv, CpuSampled, ~cpu_first, NEW l \in KeptLines,
                        NEW moved, moved = [f \in CpuFields |-> stat[l][f] - statThen[l][f]],
                        get_total_ticks(moved) > 0, moved.idle + moved.iowait >= 0
                 PROVE  LET total == get_total_ticks(moved)
                        IN  /\ cpu_metrics'[l].total = (100 * (moved.user + moved.system)) \div total
                            /\ cpu_metrics'[l].user = (100 * moved.user) \div total
                            /\ moved.iowait >= 0 => cpu_metrics'[l].iowait = (100 * moved.iowait) \div total
      BY DEF KeptLines
    <2>1. l \in Lines /\ Parsed(l) = stat[l] /\ prev_lines[l] = statThen[l]
      BY DEF KeptLines, Parsed, Lines, CpuInv, CpuTypes
    <2>2. cpu_metrics'[l] = calculate_metrics(calculate_delta(statThen[l], stat[l]))
      BY <2>1 DEF CpuSampled
    <2>3. /\ statThen[l] \in [CpuFields -> Nat] /\ stat[l] \in [CpuFields -> Nat]
          /\ get_total_ticks(stat[l]) <= MaxCpuTicks
          /\ \A f \in CpuFields \ {"iowait"} : statThen[l][f] <= stat[l][f]
      BY <2>1 DEF CpuInv, CpuTypes
    <2> QED BY <2>2, <2>3, LineShares
  <1> HIDE DEF Truthful
  <1>4. SystemSpec => [][Truthful]_cpuVars
    <2>1. CpuInv /\ [SystemNext]_systemVars => [Truthful]_cpuVars
      BY <1>3
    <2> QED BY <1>1, <1>2, <2>1, PTL DEF SystemSpec
  <1> QED BY <1>4, PTL DEF Truthful, SharesTruthful

----------------------------------------------------------------------------
(* GpuMonitor *)

GpuTypes ==
    /\ gclock \in Nat /\ asleep \in Nat /\ rc6_ms \in Nat
    /\ card \in BOOLEAN /\ counts \in BOOLEAN /\ gpc \in {"idle", "read"}
    /\ prev_gpu \in [rc6 : Nat, time : Nat]
    /\ gpu_first \in BOOLEAN /\ gpu \in [available : BOOLEAN, activity : 0..100]
    /\ base \in [read : Nat, fresh : BOOLEAN, time : Nat, asleep : Nat, lag : Nat, steady : BOOLEAN]

\* What the counter shows is no more than the card slept, and falls short of
\* it by less than a millisecond and the time since it was read.
Shows(ms, slept, late) == ms * TicksPerMs <= slept /\ slept < ms * TicksPerMs + TicksPerMs + late

GpuInv ==
    /\ GpuTypes
    /\ base.time = prev_gpu.time /\ base.time <= gclock /\ base.read <= gclock
    /\ base.fresh => card /\ counts /\ Shows(rc6_ms, asleep, gclock - base.read)
    /\ base.steady =>
         /\ card /\ counts /\ Shows(prev_gpu.rc6, base.asleep, base.lag)
         /\ base.asleep <= asleep /\ asleep - base.asleep <= gclock - base.time
         /\ gpc = "read" => base.fresh /\ prev_gpu.rc6 <= rc6_ms


\* What clamp (gpu.cpp) returns.
LEMMA ClampRangeGpu == ASSUME NEW n \in Int PROVE clamp(n, 0, 100) \in 0..100
  BY DEF clamp

\* Before the first sample nothing is remembered.
LEMMA GpuInitial == GpuInit => GpuInv
  <1> SUFFICES ASSUME GpuInit PROVE GpuInv
    OBVIOUS
  <1>1. counts \in BOOLEAN
    BY GpuAssumption DEF GpuInit
  <1>2. gclock = 0 /\ asleep = 0 /\ rc6_ms = 0 /\ gpc = "idle" /\ prev_gpu = [rc6 |-> 0, time |-> 0]
    BY DEF GpuInit
  <1>3. card /\ gpu_first /\ card \in BOOLEAN /\ gpu_first \in BOOLEAN
    BY DEF GpuInit
  <1>4. gpu \in [available : BOOLEAN, activity : 0..100]
    BY DEF GpuInit
  <1>5. base = [read |-> 0, fresh |-> FALSE, time |-> 0, asleep |-> 0, lag |-> 0, steady |-> FALSE]
    BY DEF GpuInit
  <1>6. base \in [read : Nat, fresh : BOOLEAN, time : Nat, asleep : Nat, lag : Nat, steady : BOOLEAN]
    BY <1>5
  <1>7. GpuTypes
    BY <1>1, <1>2, <1>3, <1>4, <1>6 DEF GpuTypes
  <1>8. ~base.fresh /\ ~base.steady
    BY <1>5
  <1>9. base.time = 0 /\ base.read = 0
    BY <1>5
  <1> QED BY <1>2, <1>7, <1>8, <1>9 DEF GpuInv

\* The clock, and the counter with it.
LEMMA GpuTimeKeeps ==
    ASSUME GpuInv, NEW sleeps \in BOOLEAN, GpuTime(sleeps)
    PROVE  GpuInv'
  <1>1. gclock \in Nat /\ asleep \in Nat /\ gclock' = gclock + 1 /\ (asleep' = asleep \/ asleep' = asleep + 1)
    BY DEF GpuInv, GpuTypes, GpuTime
  <1>2. UNCHANGED <<card, counts, gpc, rc6_ms, prev_gpu, gpu_first, gpu, base>>
    BY DEF GpuTime
  <1>3. GpuTypes'
    <2>1. gclock' \in Nat /\ asleep' \in Nat
      BY <1>1
    <2> QED BY <1>2, <2>1 DEF GpuInv, GpuTypes
  <1>4. /\ base.read \in Nat /\ base.time \in Nat /\ base.asleep \in Nat /\ base.lag \in Nat
        /\ prev_gpu.rc6 \in Nat /\ rc6_ms \in Nat /\ TicksPerMs \in Nat
    BY GpuAssumption DEF GpuInv, GpuTypes
  <1>5. base.time = prev_gpu.time /\ base.time <= gclock /\ base.read <= gclock
    BY DEF GpuInv
  <1>6. base.time <= gclock' /\ base.read <= gclock'
    BY <1>1, <1>4, <1>5
  <1>7. ASSUME base.fresh PROVE Shows(rc6_ms, asleep', gclock' - base.read)
    <2> DEFINE shown == rc6_ms * TicksPerMs
    <2>1. shown \in Nat
      BY <1>4
    <2>2. shown <= asleep /\ asleep < shown + TicksPerMs + (gclock - base.read)
      BY <1>7 DEF GpuInv, Shows
    <2> HIDE DEF shown
    <2>3. shown <= asleep' /\ asleep' < shown + TicksPerMs + (gclock' - base.read)
      BY <1>1, <1>4, <1>5, <2>1, <2>2
    <2> QED BY <2>3 DEF Shows, shown
  <1>8. ASSUME base.steady PROVE base.asleep <= asleep' /\ asleep' - base.asleep <= gclock' - base.time
    <2>1. base.asleep <= asleep /\ asleep - base.asleep <= gclock - base.time
      BY <1>8 DEF GpuInv
    <2> QED BY <1>1, <1>4, <1>5, <2>1
  <1> QED BY <1>2, <1>3, <1>5, <1>6, <1>7, <1>8 DEF GpuInv

\* With the card or its counter gone, what was read is fresh no longer.
LEMMA CardChangesKeeps == ASSUME GpuInv, CardChanges PROVE GpuInv'
  <1>1. base' = [base EXCEPT !.steady = FALSE, !.fresh = FALSE]
    BY DEF CardChanges
  <1>2. UNCHANGED <<gclock, counts, gpc, rc6_ms, prev_gpu, gpu_first, gpu>> /\ asleep' = 0
    BY DEF CardChanges
  <1>3. card' \in BOOLEAN
    BY DEF CardChanges
  <1>4. base \in [read : Nat, fresh : BOOLEAN, time : Nat, asleep : Nat, lag : Nat, steady : BOOLEAN]
    BY DEF GpuInv, GpuTypes
  <1>5. base' \in [read : Nat, fresh : BOOLEAN, time : Nat, asleep : Nat, lag : Nat, steady : BOOLEAN]
    BY <1>1, <1>4
  <1>6. ~base'.steady /\ ~base'.fresh
    BY <1>1, <1>4
  <1>7. base'.time = base.time /\ base'.read = base.read
    BY <1>1, <1>4
  <1>8. GpuTypes'
    BY <1>2, <1>3, <1>5 DEF GpuInv, GpuTypes
  <1> QED BY <1>2, <1>6, <1>7, <1>8 DEF GpuInv

\* initialize finds the card and reads no counter.
LEMMA GpuInitializeKeeps == ASSUME GpuInv, GpuInitialize PROVE GpuInv'
  <1>1. gpu' \in [available : BOOLEAN, activity : 0..100] /\ gpu_first' \in BOOLEAN
    BY DEF GpuInv, GpuTypes, GpuInitialize, initialize
  <1>2. UNCHANGED <<gclock, asleep, card, counts, gpc, rc6_ms, prev_gpu, base>>
    BY DEF GpuInitialize
  <1>3. GpuTypes'
    BY <1>1, <1>2 DEF GpuInv, GpuTypes
  <1> QED BY <1>2, <1>3 DEF GpuInv

\* A counter just read shows what the card slept, in whole milliseconds.
LEMMA JustRead ==
    ASSUME NEW slept \in Nat
    PROVE  slept \div TicksPerMs \in Nat /\ Shows(slept \div TicksPerMs, slept, 0)
  BY GpuAssumption DEF Shows

\* One millisecond more on the counter is that much more of sleep.
LEMMA NextMillisecond ==
    ASSUME NEW m \in Nat, NEW n \in Nat, m < n, NEW k \in Nat
    PROVE  m * k + k <= n * k /\ m * k \in Nat /\ n * k \in Nat
  <1> DEFINE e == n - m - 1
  <1>1. e \in Nat /\ n = m + 1 + e
    OBVIOUS
  <1> HIDE DEF e
  <1>2. n * k = m * k + k + e * k /\ e * k \in Nat /\ m * k \in Nat
    BY <1>1
  <1> QED BY <1>2

\* The counter is read: what it shows is fresh if the card is there.
LEMMA GpuReadKeeps == ASSUME GpuInv, GpuRead PROVE GpuInv'
  <1>1. UNCHANGED <<gclock, asleep, card, counts, prev_gpu>> /\ gpc = "idle"
    BY DEF GpuRead
  <1>2. gpu' \in [available : BOOLEAN, activity : 0..100]
    BY DEF GpuRead, GpuInv, GpuTypes, initialize
  <1>3. gpu_first' \in BOOLEAN
    BY DEF GpuRead, GpuInv, GpuTypes, initialize
  <1>4. CASE UNCHANGED <<gpc, rc6_ms, base>>
    <2>1. GpuTypes'
      BY <1>1, <1>2, <1>3, <1>4 DEF GpuInv, GpuTypes
    <2> QED BY <1>1, <1>4, <2>1 DEF GpuInv
  <1>5. CASE /\ gpc' = "read" /\ rc6_ms' = read_sysfs_u64
             /\ base' = [base EXCEPT !.read = gclock, !.fresh = card /\ counts]
    <2>1. /\ base \in [read : Nat, fresh : BOOLEAN, time : Nat, asleep : Nat, lag : Nat, steady : BOOLEAN]
          /\ gclock \in Nat /\ asleep \in Nat
      BY DEF GpuInv, GpuTypes
    <2>2. (card /\ counts) \in BOOLEAN
      OBVIOUS
    <2>3. base' \in [read : Nat, fresh : BOOLEAN, time : Nat, asleep : Nat, lag : Nat, steady : BOOLEAN]
      BY <1>5, <2>1, <2>2
    <2>4. base'.fresh <=> card /\ counts
      BY <1>5, <2>1
    <2>5. base'.steady <=> base.steady
      BY <1>5, <2>1
    <2>6. base'.read = gclock /\ base'.time = base.time /\ base'.asleep = base.asleep /\ base'.lag = base.lag
      BY <1>5, <2>1
    <2>7. card /\ counts => rc6_ms' = asleep \div TicksPerMs
      BY <1>5 DEF read_sysfs_u64
    <2>8. rc6_ms' \in Nat
      BY <1>5, <2>1, JustRead DEF read_sysfs_u64
    <2>9. GpuTypes'
      BY <1>1, <1>2, <1>3, <1>5, <2>3, <2>8 DEF GpuInv, GpuTypes
    <2>10. card /\ counts => Shows(rc6_ms', asleep', gclock' - base'.read)
      BY <1>1, <2>1, <2>6, <2>7, JustRead
    <2>11. base.steady => prev_gpu.rc6 <= rc6_ms'
      <3> SUFFICES ASSUME base.steady PROVE prev_gpu.rc6 <= rc6_ms'
        OBVIOUS
      <3>1. /\ card /\ counts /\ Shows(prev_gpu.rc6, base.asleep, base.lag) /\ base.asleep <= asleep
        BY DEF GpuInv
      <3>2. prev_gpu.rc6 \in Nat /\ base.asleep \in Nat /\ TicksPerMs \in Nat /\ TicksPerMs > 0
        BY <2>1, GpuAssumption DEF GpuInv, GpuTypes
      <3> DEFINE p == prev_gpu.rc6
                 r == asleep \div TicksPerMs
      <3>3. p * TicksPerMs <= asleep
        BY <2>1, <3>1, <3>2 DEF Shows
      <3>4. asleep < r * TicksPerMs + TicksPerMs /\ r \in Nat
        BY <2>1, JustRead, GpuAssumption DEF Shows
      <3>5. p \in Nat /\ r = rc6_ms'
        BY <2>7, <3>1, <3>2
      <3> HIDE DEF p, r
      <3>6. ASSUME r < p PROVE FALSE
        <4>1. r * TicksPerMs + TicksPerMs <= p * TicksPerMs /\ r * TicksPerMs \in Nat /\ p * TicksPerMs \in Nat
          BY <3>2, <3>4, <3>5, <3>6, NextMillisecond
        <4> QED BY <2>1, <3>2, <3>3, <3>4, <4>1
      <3>7. p <= r
        BY <3>4, <3>5, <3>6
      <3> QED BY <3>5, <3>7 DEF p
    <2> QED BY <1>1, <2>1, <2>4, <2>5, <2>6, <2>9, <2>10, <2>11 DEF GpuInv, GpuTypes
  <1> QED BY <1>4, <1>5 DEF GpuRead

\* A new baseline.
LEMMA RenewKeeps ==
    ASSUME GpuInv, gpc = "read", Renew, gpc' = "idle", gpu_first' \in BOOLEAN,
           gpu' \in [available : BOOLEAN, activity : 0..100],
           UNCHANGED <<gclock, asleep, card, counts, rc6_ms>>
    PROVE  GpuInv'
  <1>1. /\ base \in [read : Nat, fresh : BOOLEAN, time : Nat, asleep : Nat, lag : Nat, steady : BOOLEAN]
        /\ gclock \in Nat /\ asleep \in Nat /\ rc6_ms \in Nat /\ base.read <= gclock
    BY DEF GpuInv, GpuTypes
  <1>2. /\ prev_gpu' = [rc6 |-> rc6_ms, time |-> gclock]
        /\ base' = [base EXCEPT !.time = gclock, !.asleep = asleep, !.lag = gclock - base.read,
                                !.steady = base.fresh]
    BY DEF Renew
  <1>3. gclock - base.read \in Nat /\ base.fresh \in BOOLEAN
    BY <1>1
  <1>4. base' \in [read : Nat, fresh : BOOLEAN, time : Nat, asleep : Nat, lag : Nat, steady : BOOLEAN]
    BY <1>1, <1>2, <1>3
  <1>5. (base'.fresh <=> base.fresh) /\ (base'.steady <=> base.fresh)
    BY <1>1, <1>2
  <1>6. base'.read = base.read /\ base'.time = gclock /\ base'.asleep = asleep /\ base'.lag = gclock - base.read
    BY <1>1, <1>2
  <1>7. prev_gpu' \in [rc6 : Nat, time : Nat] /\ prev_gpu'.time = gclock /\ prev_gpu'.rc6 = rc6_ms
    BY <1>1, <1>2
  <1>8. GpuTypes'
    BY <1>4, <1>7 DEF GpuInv, GpuTypes
  <1>9. base.fresh => card /\ counts /\ Shows(rc6_ms, asleep, gclock - base.read)
    BY DEF GpuInv
  <1> QED BY <1>1, <1>5, <1>6, <1>7, <1>8, <1>9 DEF GpuInv

\* What was read becomes the base of the next sample.
LEMMA GpuReckonedKeeps == ASSUME GpuInv, GpuReckoned PROVE GpuInv'
  <1>1. /\ gpc = "read" /\ gpc' = "idle" /\ gpu_first' \in BOOLEAN
        /\ UNCHANGED <<gclock, asleep, card, counts, rc6_ms>>
    BY DEF GpuReckoned
  <1>2. gpu \in [available : BOOLEAN, activity : 0..100]
    BY DEF GpuInv, GpuTypes
  <1>3. CASE gpu' = [gpu EXCEPT !.activity = 0] /\ Renew
    <2>1. gpu' \in [available : BOOLEAN, activity : 0..100]
      BY <1>2, <1>3
    <2> QED BY <1>1, <1>3, <2>1, RenewKeeps
  <1>4. CASE GpuTooSoon
    <2>1. UNCHANGED <<gpu, prev_gpu, base>>
      BY <1>4 DEF GpuTooSoon
    <2>2. GpuTypes'
      BY <1>1, <2>1 DEF GpuInv, GpuTypes
    <2> QED BY <1>1, <2>1, <2>2 DEF GpuInv
  <1>5. CASE GpuMeasured
    <2> DEFINE dt     == gclock - prev_gpu.time
               slept  == (rc6_ms - prev_gpu.rc6) * TicksPerMs
               active == IF slept < 0 THEN 0 ELSE dt - slept
    <2>1. dt \in Int /\ slept \in Int /\ active \in Int
      BY GpuAssumption DEF GpuInv, GpuTypes
    <2>2. Renew /\ dt > TicksPerMs /\ gpu' = [gpu EXCEPT !.activity = clamp((100 * active) \div dt, 0, 100)]
      BY <1>5 DEF GpuMeasured
    <2> HIDE DEF dt, slept, active
    <2>3. (100 * active) \div dt \in Int
      BY <2>1, <2>2, GpuAssumption
    <2>4. gpu' \in [available : BOOLEAN, activity : 0..100]
      BY <1>2, <2>2, <2>3, ClampRangeGpu
    <2> QED BY <1>1, <2>2, <2>4, RenewKeeps
  <1> QED BY <1>3, <1>4, <1>5 DEF GpuReckoned

\* The invariant of GpuMonitor is inductive.
LEMMA GpuStep == GpuInv /\ [GpuNext]_gpuVars => GpuInv'
  <1> SUFFICES ASSUME GpuInv, [GpuNext]_gpuVars PROVE GpuInv'
    OBVIOUS
  <1>1. ASSUME NEW sleeps \in BOOLEAN, GpuTime(sleeps) PROVE GpuInv'
    BY <1>1, GpuTimeKeeps
  <1>2. CASE CardChanges
    BY <1>2, CardChangesKeeps
  <1>3. CASE GpuInitialize
    BY <1>3, GpuInitializeKeeps
  <1>4. CASE GpuRead
    BY <1>4, GpuReadKeeps
  <1>5. CASE GpuReckoned
    BY <1>5, GpuReckonedKeeps
  <1>6. CASE UNCHANGED gpuVars
    BY <1>6 DEF gpuVars, GpuInv, GpuTypes
  <1> QED BY <1>1, <1>2, <1>3, <1>4, <1>5, <1>6 DEF GpuNext

\* A percentage of a time that is not longer than the whole, rounded down.
LEMMA PercentBounds ==
    ASSUME NEW active \in Int, NEW dt \in Nat, dt > 0, active <= dt, NEW low \in Int, NEW high \in Nat,
           low <= active, active <= high
    PROVE  LET pct == clamp((100 * active) \div dt, 0, 100)
           IN  pct * dt <= 100 * high /\ (pct + 1) * dt > 100 * low
  <1> DEFINE q == (100 * active) \div dt
  <1>1. q \in Int /\ q * dt <= 100 * active /\ 100 * active < q * dt + dt
    OBVIOUS
  <1> HIDE DEF q
  <1>2. q <= 100
    <2>1. ASSUME q > 100 PROVE FALSE
      <3>1. q * dt >= 101 * dt
        BY <1>1, <2>1
      <3> QED BY <1>1, <3>1
    <2> QED BY <1>1, <2>1
  <1>3. (q + 1) * dt = q * dt + dt /\ q * dt \in Int
    BY <1>1
  <1>4. CASE q < 0
    <2>1. (q + 1) * dt <= 0
      BY <1>1, <1>4
    <2>2. clamp(q, 0, 100) = 0
      BY <1>4 DEF clamp
    <2> QED BY <1>1, <1>3, <2>1, <2>2 DEF q
  <1>5. CASE q >= 0
    <2>1. clamp(q, 0, 100) = q
      BY <1>1, <1>2, <1>5 DEF clamp
    <2> QED BY <1>1, <1>3, <2>1 DEF q
  <1> QED BY <1>1, <1>4, <1>5

\* The activity reported is the time awake, but for the gaps between counter
\* and clock and what the counter rounds.
THEOREM ActivityTheorem == SystemSpec => ActivityTruthful
  <1> DEFINE Truthful ==
        GpuReckoned /\ ~gpu_first /\ base.steady /\ gclock - prev_gpu.time > TicksPerMs =>
          LET dt    == gclock - base.time
              awake == dt - (asleep - base.asleep)
              lag   == gclock - base.read
              error == (IF lag > base.lag THEN lag ELSE base.lag) + TicksPerMs - 1
          IN  /\ gpu'.activity * dt <= 100 * (awake + error)
              /\ (gpu'.activity + 1) * dt > 100 * (awake - error)
  <1>1. SystemInit => GpuInv
    BY GpuInitial DEF SystemInit
  <1>2. GpuInv /\ [SystemNext]_systemVars => GpuInv'
    <2>1. [SystemNext]_systemVars => [GpuNext]_gpuVars
      BY DEF SystemNext, systemVars
    <2> QED BY <2>1, GpuStep
  <1>3. GpuInv => Truthful
    <2> SUFFICES ASSUME GpuInv, GpuReckoned, ~gpu_first, base.steady, gclock - prev_gpu.time > TicksPerMs
                 PROVE  LET dt    == gclock - base.time
                            awake == dt - (asleep - base.asleep)
                            lag   == gclock - base.read
                            error == (IF lag > base.lag THEN lag ELSE base.lag) + TicksPerMs - 1
                        IN  /\ gpu'.activity * dt <= 100 * (awake + error)
                            /\ (gpu'.activity + 1) * dt > 100 * (awake - error)
      OBVIOUS
    <2> DEFINE dt     == gclock - base.time
               awake  == dt - (asleep - base.asleep)
               lag    == gclock - base.read
               error  == (IF lag > base.lag THEN lag ELSE base.lag) + TicksPerMs - 1
               now    == rc6_ms * TicksPerMs
               then   == prev_gpu.rc6 * TicksPerMs
               slept  == (rc6_ms - prev_gpu.rc6) * TicksPerMs
               active == IF slept < 0 THEN 0 ELSE dt - slept
    <2>1. /\ gclock \in Nat /\ asleep \in Nat /\ base.read \in Nat /\ base.time \in Nat /\ base.asleep \in Nat
          /\ base.lag \in Nat /\ rc6_ms \in Nat /\ prev_gpu.rc6 \in Nat /\ TicksPerMs \in Nat /\ TicksPerMs > 0
      BY GpuAssumption DEF GpuInv, GpuTypes
    <2>2. gpc = "read" /\ base.time = prev_gpu.time /\ base.read <= gclock
      BY DEF GpuReckoned, GpuInv
    <2>3. base.fresh /\ prev_gpu.rc6 <= rc6_ms
      BY <2>2 DEF GpuInv
    <2>4. now \in Nat /\ then \in Nat /\ slept = now - then /\ slept >= 0
      BY <2>1, <2>3
    <2>5. now <= asleep /\ asleep < now + TicksPerMs + lag
      BY <2>3 DEF GpuInv, Shows
    <2>6. then <= base.asleep /\ base.asleep < then + TicksPerMs + base.lag
      BY DEF GpuInv, Shows
    <2>7. base.asleep <= asleep /\ asleep - base.asleep <= dt
      BY DEF GpuInv
    <2>8. gpu' = [gpu EXCEPT !.activity = clamp((100 * active) \div dt, 0, 100)]
      BY <2>1, <2>2 DEF GpuReckoned, GpuTooSoon, GpuMeasured
    <2>9. dt > TicksPerMs /\ dt \in Nat /\ lag \in Nat
      BY <2>1, <2>2
    <2>10. error \in Nat /\ error >= lag + TicksPerMs - 1 /\ error >= base.lag + TicksPerMs - 1
      BY <2>1, <2>9
    <2> HIDE DEF dt, lag, error, now, then, slept
    <2>11. awake \in Nat /\ active \in Int /\ active <= dt
      BY <2>1, <2>4, <2>7, <2>9
    <2>12. awake - error <= active /\ active <= awake + error
      BY <2>1, <2>4, <2>5, <2>6, <2>9, <2>10
    <2> HIDE DEF awake, active
    <2>13. gpu'.activity = clamp((100 * active) \div dt, 0, 100)
      BY <2>8 DEF GpuInv, GpuTypes
    <2>14. gpu'.activity * dt <= 100 * (awake + error) /\ (gpu'.activity + 1) * dt > 100 * (awake - error)
      <3>1. dt > 0 /\ awake - error \in Int /\ awake + error \in Nat
        BY <2>1, <2>9, <2>10, <2>11
      <3> QED BY <2>9, <2>11, <2>12, <2>13, <3>1, PercentBounds
    <2> QED BY <2>14 DEF dt, awake, lag, error
  <1> HIDE DEF Truthful
  <1>4. SystemSpec => [][Truthful]_gpuVars
    <2>1. GpuInv /\ [SystemNext]_systemVars => [Truthful]_gpuVars
      BY <1>3
    <2> QED BY <1>1, <1>2, <2>1, PTL DEF SystemSpec
  <1> QED BY <1>4, PTL DEF Truthful, ActivityTruthful

----------------------------------------------------------------------------
(* GpuMonitor, the processes *)

DrmTypes ==
    /\ fdinfo \in [DrmPids -> [DrmFds -> DrmClients \cup {NoClient}]]
    /\ used \in [DrmClients -> Nat] /\ dclock \in Nat
    /\ scan \in [pid : SUBSET DrmPids, left : SUBSET DrmFds, clients : {scan.clients},
                 calm : BOOLEAN, begin : Nat]
    /\ scan.pid # {} => \A c \in DOMAIN scan.clients : c \in DrmClients /\ scan.clients[c] \in Nat
    /\ process_states \in [DrmPids -> [prev : Nat, time : Nat \cup {-1}]]
    /\ window \in [DrmPids -> [begin : Nat, end : Nat, calm : BOOLEAN]]

\* What a client's place in the scan shows, or will show at least.
Low == [c \in DrmClients |-> IF c \in DOMAIN scan.clients THEN scan.clients[c] ELSE used[c]]

\* As long as nothing was closed since the scan began: it holds clients of the
\* process only, none at more than it used; and the clients that were there
\* when it began have been read or will be, and come to no less than they
\* had used then.
Covers(p, B) ==
    /\ scan.begin <= SumOf(Low, B)
    /\ \A c \in B : c \in DOMAIN scan.clients \/ \E f \in scan.left : fdinfo[p][f] = c

CalmScan(p) ==
    scan.pid = {p} /\ scan.calm =>
      /\ \A c \in DOMAIN scan.clients : c \in Held(p) /\ scan.clients[c] <= used[c]
      /\ \E B \in SUBSET Held(p) : Covers(p, B)

\* As long as nothing was closed since the last call that counted began: its
\* total lies between what had been used at its beginning and at its end, and
\* since then the process has not used less, nor more than the time gone by.
CalmWindow(p) ==
    window[p].calm =>
      LET since == dclock - process_states[p].time
      IN  /\ process_states[p].time \in 0..dclock
          /\ window[p].begin <= process_states[p].prev /\ process_states[p].prev <= window[p].end
          /\ window[p].end <= Used(p) /\ Used(p) - window[p].end <= since
          /\ scan.pid = {p} =>
               scan.calm /\ window[p].end <= scan.begin /\ scan.begin - window[p].end <= since

DrmInv == DrmTypes /\ \A p \in DrmPids : CalmScan(p) /\ CalmWindow(p)

\* The clients of a process are finitely many, and so are sums over them.
LEMMA HeldFinite ==
    ASSUME DrmTypes, NEW p \in DrmPids
    PROVE  Held(p) \in SUBSET DrmClients /\ IsFiniteSet(Held(p))
  <1>1. Held(p) \in SUBSET DrmClients
    BY DEF DrmTypes, Held
  <1> QED BY <1>1, DrmAssumption, FS_Subset

\* What a process has used is a number,
LEMMA UsedType == ASSUME DrmTypes, NEW p \in DrmPids PROVE Used(p) \in Nat
  <1>1. \A c \in Held(p) : used[c] \in Nat
    BY HeldFinite DEF DrmTypes
  <1> QED BY <1>1, HeldFinite, SumType DEF Used

\* and so is the least a scan has to count for a client,
LEMMA LowType == ASSUME DrmTypes, scan.pid # {}, NEW c \in DrmClients PROVE Low[c] \in Nat
  BY DEF DrmTypes, Low

\* and what a scan has added up.
LEMMA TotalType ==
    ASSUME DrmTypes, scan.pid # {}
    PROVE  Total \in Nat /\ IsFiniteSet(DOMAIN scan.clients)
  <1>1. DOMAIN scan.clients \in SUBSET DrmClients /\ \A c \in DOMAIN scan.clients : scan.clients[c] \in Nat
    BY DEF DrmTypes
  <1>2. IsFiniteSet(DOMAIN scan.clients)
    BY <1>1, DrmAssumption, FS_Subset
  <1> QED BY <1>1, <1>2, SumType DEF Total

\* No scan is under way and none was made.
LEMMA DrmInitial == DrmInit => DrmInv
  <1> SUFFICES ASSUME DrmInit PROVE DrmInv
    OBVIOUS
  <1>1. scan = [pid |-> {}, left |-> {}, clients |-> <<>>, calm |-> FALSE, begin |-> 0]
    BY DEF DrmInit, NoScan
  <1>2. fdinfo \in [DrmPids -> [DrmFds -> DrmClients \cup {NoClient}]]
    BY DEF DrmInit
  <1>3. used \in [DrmClients -> Nat] /\ dclock \in Nat
    BY DEF DrmInit
  <1>4. process_states \in [DrmPids -> [prev : Nat, time : Nat \cup {-1}]]
    BY DEF DrmInit
  <1>5. window \in [DrmPids -> [begin : Nat, end : Nat, calm : BOOLEAN]] /\ \A p \in DrmPids : ~window[p].calm
    BY DEF DrmInit
  <1>6. scan.pid = {} /\ scan.left = {} /\ scan.begin = 0 /\ ~scan.calm
    BY <1>1
  <1>7. scan \in [pid : SUBSET DrmPids, left : SUBSET DrmFds, clients : {scan.clients}, calm : BOOLEAN, begin : Nat]
    BY <1>1
  <1>8. DrmTypes
    BY <1>2, <1>3, <1>4, <1>5, <1>6, <1>7 DEF DrmTypes
  <1>9. \A p \in DrmPids : CalmScan(p) /\ CalmWindow(p)
    BY <1>5, <1>6 DEF CalmScan, CalmWindow
  <1> QED BY <1>8, <1>9 DEF DrmInv

\* A new client has used nothing, and one that is there already is no new one.
LEMMA DrmOpenKeeps ==
    ASSUME DrmInv, NEW p \in DrmPids, NEW f \in DrmFds, NEW c \in DrmClients, DrmOpen(p, f, c)
    PROVE  DrmInv'
  <1>1. /\ fdinfo[p][f] = NoClient /\ fdinfo' = [fdinfo EXCEPT ![p][f] = c]
        /\ c \in Held(p) \/ used[c] = 0
        /\ UNCHANGED <<used, dclock, scan, process_states, window>>
    BY DEF DrmOpen
  <1>2. DrmTypes
    BY DEF DrmInv
  <1>3. DrmTypes'
    <2>1. fdinfo' \in [DrmPids -> [DrmFds -> DrmClients \cup {NoClient}]]
      BY <1>1, <1>2 DEF DrmTypes
    <2> QED BY <1>1, <1>2, <2>1 DEF DrmTypes
  <1>4. \A q \in DrmPids : Held(q)' = IF q = p THEN Held(p) \cup {c} ELSE Held(q)
    <2>1. c # NoClient
      BY DrmAssumption
    <2>2. \A q \in DrmPids : q # p => fdinfo'[q] = fdinfo[q]
      BY <1>1, <1>2 DEF DrmTypes
    <2>3. \A g \in DrmFds : fdinfo'[p][g] = IF g = f THEN c ELSE fdinfo[p][g]
      BY <1>1, <1>2 DEF DrmTypes
    <2>4. \A q \in DrmPids : q # p => Held(q)' = Held(q)
      BY <2>2 DEF Held
    <2>5. Held(p)' = Held(p) \cup {c}
      BY <1>1, <2>1, <2>3 DEF Held
    <2> QED BY <2>4, <2>5
  <1>5. \A q \in DrmPids : Used(q)' = Used(q)
    <2> SUFFICES ASSUME NEW q \in DrmPids PROVE Used(q)' = Used(q)
      OBVIOUS
    <2>1. Used(q)' = SumOf(used, Held(q)')
      BY <1>1 DEF Used
    <2>2. CASE q # p \/ c \in Held(p)
      <3>1. Held(q)' = Held(q)
        BY <1>4, <2>2
      <3> QED BY <2>1, <3>1 DEF Used
    <2>3. CASE q = p /\ c \notin Held(p)
      <3>1. Held(p)' = Held(p) \cup {c} /\ used[c] = 0
        BY <1>1, <1>4, <2>3
      <3>2. IsFiniteSet(Held(p) \cup {c}) /\ \A d \in Held(p) \cup {c} : used[d] \in Nat
        BY <1>2, HeldFinite, FS_AddElement DEF DrmTypes
      <3>3. SumOf(used, Held(p) \cup {c}) = used[c] + SumOf(used, (Held(p) \cup {c}) \ {c})
        BY <3>2, SumTakeOut
      <3>4. (Held(p) \cup {c}) \ {c} = Held(p)
        BY <2>3
      <3>5. SumOf(used, Held(p)) \in Nat
        BY <1>2, UsedType DEF Used
      <3> QED BY <2>1, <2>3, <3>1, <3>3, <3>4, <3>5 DEF Used
    <2> QED BY <2>2, <2>3
  <1>6. ASSUME NEW q \in DrmPids PROVE CalmScan(q)'
    <2> SUFFICES ASSUME scan.pid = {q}, scan.calm
                 PROVE  /\ \A d \in DOMAIN scan.clients : d \in Held(q)' /\ scan.clients[d] <= used[d]
                        /\ \E B \in SUBSET (Held(q)') : Covers(q, B)'
      BY <1>1 DEF CalmScan
    <2>1. \A d \in DOMAIN scan.clients : d \in Held(q) /\ scan.clients[d] <= used[d]
      BY DEF DrmInv, CalmScan
    <2>2. PICK B \in SUBSET Held(q) : Covers(q, B)
      BY DEF DrmInv, CalmScan
    <2>3. \A g \in DrmFds, d \in B : fdinfo[q][g] = d => fdinfo'[q][g] = d
      <3>1. \A d \in B : d # NoClient
        BY DEF Held
      <3> QED BY <1>1, <1>2, <3>1 DEF DrmTypes
    <2>4. scan.left \subseteq DrmFds
      BY <1>2 DEF DrmTypes
    <2>5. Low' = Low
      BY <1>1 DEF Low
    <2>6. Covers(q, B)'
      BY <1>1, <2>2, <2>3, <2>4, <2>5 DEF Covers
    <2>7. Held(q) \subseteq Held(q)'
      BY <1>4
    <2> QED BY <2>1, <2>6, <2>7
  <1>7. ASSUME NEW q \in DrmPids PROVE CalmWindow(q)'
    <2>1. Used(q)' = Used(q)
      BY <1>5
    <2>2. CalmWindow(q)
      BY DEF DrmInv
    <2> QED BY <1>1, <2>1, <2>2 DEF CalmWindow
  <1> QED BY <1>3, <1>6, <1>7 DEF DrmInv

\* A close ends the calm of the process's scan and window.
LEMMA DrmCloseKeeps ==
    ASSUME DrmInv, NEW p \in DrmPids, NEW f \in DrmFds, DrmClose(p, f)
    PROVE  DrmInv'
  <1>1. /\ fdinfo' = [fdinfo EXCEPT ![p][f] = NoClient]
        /\ scan' = IF scan.pid = {p} THEN [scan EXCEPT !.calm = FALSE] ELSE scan
        /\ window' = [window EXCEPT ![p].calm = FALSE]
        /\ UNCHANGED <<used, dclock, process_states>>
    BY DEF DrmClose
  <1>2. DrmTypes
    BY DEF DrmInv
  <1>3. /\ scan'.pid = scan.pid /\ scan'.left = scan.left /\ scan'.clients = scan.clients
        /\ scan'.begin = scan.begin
        /\ scan'.calm <=> scan.calm /\ scan.pid # {p}
        /\ scan' \in [pid : SUBSET DrmPids, left : SUBSET DrmFds, clients : {scan'.clients}, calm : BOOLEAN, begin : Nat]
    <2>1. scan \in [pid : SUBSET DrmPids, left : SUBSET DrmFds, clients : {scan.clients}, calm : BOOLEAN, begin : Nat]
      BY <1>2 DEF DrmTypes
    <2>2. CASE scan.pid = {p}
      <3>1. scan' = [scan EXCEPT !.calm = FALSE]
        BY <1>1, <2>2
      <3>2. ~scan'.calm
        BY <2>1, <3>1
      <3>3. /\ scan'.pid = scan.pid /\ scan'.left = scan.left /\ scan'.clients = scan.clients
            /\ scan'.begin = scan.begin
        BY <2>1, <3>1
      <3>4. scan' \in [pid : SUBSET DrmPids, left : SUBSET DrmFds, clients : {scan.clients}, calm : BOOLEAN, begin : Nat]
        BY <2>1, <3>1
      <3> QED BY <2>2, <3>2, <3>3, <3>4
    <2>3. CASE scan.pid # {p}
      <3>1. scan' = scan
        BY <1>1, <2>3
      <3> QED BY <2>1, <2>3, <3>1
    <2> QED BY <2>2, <2>3
  <1>4. /\ window' \in [DrmPids -> [begin : Nat, end : Nat, calm : BOOLEAN]]
        /\ ~window'[p].calm /\ \A q \in DrmPids : q # p => window'[q] = window[q]
    BY <1>1, <1>2 DEF DrmTypes
  <1>5. DrmTypes'
    <2>1. fdinfo' \in [DrmPids -> [DrmFds -> DrmClients \cup {NoClient}]]
      BY <1>1, <1>2 DEF DrmTypes
    <2>2. scan'.pid # {} => \A c \in DOMAIN scan'.clients : c \in DrmClients /\ scan'.clients[c] \in Nat
      BY <1>2, <1>3 DEF DrmTypes
    <2> QED BY <1>1, <1>2, <1>3, <1>4, <2>1, <2>2 DEF DrmTypes
  <1>6. ASSUME NEW q \in DrmPids, q # p PROVE fdinfo'[q] = fdinfo[q] /\ Held(q)' = Held(q) /\ Used(q)' = Used(q)
    <2>1. fdinfo'[q] = fdinfo[q]
      BY <1>1, <1>2, <1>6 DEF DrmTypes
    <2>2. Held(q)' = Held(q)
      BY <2>1 DEF Held
    <2> QED BY <1>1, <2>1, <2>2 DEF Used
  <1>7. ASSUME NEW q \in DrmPids PROVE CalmScan(q)'
    <2>1. CASE q = p
      BY <1>3, <2>1 DEF CalmScan
    <2>2. CASE q # p
      <3>1. Low' = Low
        BY <1>1, <1>3 DEF Low
      <3>2. \A B : Covers(q, B)' <=> Covers(q, B)
        BY <1>3, <1>6, <2>2, <3>1 DEF Covers
      <3>3. scan'.pid = {q} /\ scan'.calm => scan.pid = {q} /\ scan.calm
        BY <1>3
      <3>4. Held(q)' = Held(q) /\ CalmScan(q)
        BY <1>6, <2>2 DEF DrmInv
      <3> QED BY <1>1, <1>3, <3>2, <3>3, <3>4 DEF CalmScan
    <2> QED BY <2>1, <2>2
  <1>8. ASSUME NEW q \in DrmPids PROVE CalmWindow(q)'
    <2>1. CASE q = p
      BY <1>4, <2>1 DEF CalmWindow
    <2>2. CASE q # p
      <3>1. window'[q] = window[q] /\ Used(q)' = Used(q) /\ CalmWindow(q)
        BY <1>4, <1>6, <2>2 DEF DrmInv
      <3>2. scan.pid = {q} => scan.pid # {p}
        BY <2>2
      <3> QED BY <1>1, <1>3, <3>1, <3>2 DEF CalmWindow
    <2> QED BY <2>1, <2>2
  <1> QED BY <1>5, <1>7, <1>8 DEF DrmInv

\* The engine works for one client at most: no process uses more than the time.
LEMMA DrmTimeKeeps ==
    ASSUME DrmInv, NEW worker \in {{}} \cup {{c} : c \in DrmClients}, DrmTime(worker)
    PROVE  DrmInv'
  <1>1. /\ dclock' = dclock + 1
        /\ used' = [c \in DrmClients |-> IF c \in worker THEN used[c] + 1 ELSE used[c]]
        /\ UNCHANGED <<fdinfo, scan, process_states, window>>
    BY DEF DrmTime
  <1>2. DrmTypes /\ dclock \in Nat /\ used \in [DrmClients -> Nat]
    BY DEF DrmInv, DrmTypes
  <1>3. \A c \in DrmClients : used'[c] \in Nat /\ used[c] \in Nat /\ used[c] <= used'[c]
                               /\ used'[c] <= used[c] + 1 /\ (c \notin worker => used'[c] = used[c])
    BY <1>1, <1>2
  <1>4. DrmTypes'
    <2>1. used' \in [DrmClients -> Nat] /\ dclock' \in Nat
      BY <1>1, <1>2
    <2> QED BY <1>1, <1>2, <2>1 DEF DrmTypes
  <1>5. ASSUME NEW p \in DrmPids
        PROVE  Used(p)' \in Nat /\ Used(p) <= Used(p)' /\ Used(p)' <= Used(p) + 1
    <2>1. Used(p) = SumOf(used, Held(p)) /\ Used(p)' = SumOf(used', Held(p)) /\ Held(p)' = Held(p)
      BY <1>1 DEF Used, Held
    <2>2. IsFiniteSet(Held(p)) /\ Held(p) \in SUBSET DrmClients
      BY <1>2, HeldFinite
    <2>3. SumOf(used, Held(p)) <= SumOf(used', Held(p))
      BY <1>3, <2>2, SumMonotone
    <2>4. SumOf(used', Held(p)) <= SumOf(used, Held(p)) + 1
      <3>1. PICK w : \A c \in worker : c = w
        OBVIOUS
      <3>2. \A c \in Held(p) : /\ used[c] \in Nat /\ used'[c] \in Nat /\ (c # w => used'[c] = used[c])
                               /\ used'[c] <= used[c] + 1
        BY <1>3, <2>2, <3>1
      <3> QED BY <2>2, <3>2, SumOneMore
    <2>5. SumOf(used', Held(p)) \in Nat
      BY <1>3, <2>2, SumType
    <2> QED BY <2>1, <2>3, <2>4, <2>5
  <1>6. ASSUME NEW p \in DrmPids PROVE CalmScan(p)'
    <2> SUFFICES ASSUME scan.pid = {p}, scan.calm
                 PROVE  /\ \A c \in DOMAIN scan.clients : c \in Held(p) /\ scan.clients[c] <= used'[c]
                        /\ \E B \in SUBSET Held(p) : Covers(p, B)'
      BY <1>1 DEF CalmScan, Held
    <2>1. \A c \in DOMAIN scan.clients : c \in DrmClients /\ scan.clients[c] \in Nat
      BY <1>2 DEF DrmTypes
    <2>2. \A c \in DOMAIN scan.clients : c \in Held(p) /\ scan.clients[c] <= used[c]
      BY DEF DrmInv, CalmScan
    <2>3. \A c \in DOMAIN scan.clients : c \in Held(p) /\ scan.clients[c] <= used'[c]
      BY <1>3, <2>1, <2>2
    <2>4. PICK B \in SUBSET Held(p) : Covers(p, B)
      BY DEF DrmInv, CalmScan
    <2>5. \A c \in DrmClients : Low[c] \in Nat /\ Low'[c] \in Nat /\ Low[c] <= Low'[c]
      BY <1>1, <1>3, <2>1 DEF Low
    <2>6. B \in SUBSET DrmClients /\ IsFiniteSet(B)
      BY <1>2, HeldFinite, FS_Subset
    <2>7. SumOf(Low, B) <= SumOf(Low', B)
      BY <2>5, <2>6, SumMonotone
    <2>8. SumOf(Low, B) \in Nat /\ SumOf(Low', B) \in Nat /\ scan.begin \in Nat
      BY <1>2, <2>5, <2>6, SumType DEF DrmTypes
    <2>9. Covers(p, B)'
      BY <1>1, <2>4, <2>7, <2>8 DEF Covers
    <2> QED BY <2>3, <2>9
  <1>7. ASSUME NEW p \in DrmPids PROVE CalmWindow(p)'
    <2> SUFFICES ASSUME window[p].calm PROVE CalmWindow(p)'
      BY <1>1 DEF CalmWindow
    <2> DEFINE t == process_states[p].time
               since == dclock - t
    <2>1. /\ t \in 0..dclock
          /\ window[p].begin <= process_states[p].prev /\ process_states[p].prev <= window[p].end
          /\ window[p].end <= Used(p) /\ Used(p) - window[p].end <= since
          /\ scan.pid = {p} =>
               scan.calm /\ window[p].end <= scan.begin /\ scan.begin - window[p].end <= since
      BY DEF DrmInv, CalmWindow
    <2>2. /\ window[p].end \in Nat /\ Used(p) \in Nat /\ Used(p)' \in Nat /\ scan.begin \in Nat
      BY <1>2, <1>5, UsedType DEF DrmTypes
    <2> HIDE DEF t
    <2>3. /\ t \in 0..dclock' /\ window[p].end <= Used(p)' /\ Used(p)' - window[p].end <= dclock' - t
          /\ scan.pid = {p} => scan.calm /\ window[p].end <= scan.begin /\ scan.begin - window[p].end <= dclock' - t
      BY <1>1, <1>2, <1>5, <2>1, <2>2
    <2> QED BY <1>1, <2>1, <2>3 DEF CalmWindow, t
  <1> QED BY <1>4, <1>6, <1>7 DEF DrmInv

\* A scan begins with every entry to be read: each client of the process is covered.
LEMMA ScanBeginKeeps ==
    ASSUME DrmInv, NEW p \in DrmPids, ScanBegin(p)
    PROVE  DrmInv'
  <1>1. /\ scan' = [pid |-> {p}, left |-> DrmFds, clients |-> [c \in {} |-> 0],
                    calm |-> TRUE, begin |-> Used(p)]
        /\ UNCHANGED <<fdinfo, used, dclock, process_states, window>>
    BY DEF ScanBegin
  <1>2. DrmTypes /\ Used(p) \in Nat
    BY UsedType DEF DrmInv
  <1>3. /\ scan'.pid = {p} /\ scan'.left = DrmFds /\ scan'.clients = [c \in {} |-> 0]
        /\ scan'.begin = Used(p) /\ DOMAIN scan'.clients = {}
    BY <1>1
  <1>4. scan'.calm
    BY <1>1
  <1>5. DrmTypes'
    <2>1. scan' \in [pid : SUBSET DrmPids, left : SUBSET DrmFds, clients : {scan'.clients}, calm : BOOLEAN, begin : Nat]
      BY <1>1, <1>2, <1>3
    <2> QED BY <1>1, <1>2, <1>3, <2>1 DEF DrmTypes
  <1>6. \A q \in DrmPids : Held(q)' = Held(q) /\ Used(q)' = Used(q)
    BY <1>1 DEF Held, Used
  <1>7. ASSUME NEW q \in DrmPids PROVE CalmScan(q)'
    <2> SUFFICES ASSUME q = p PROVE CalmScan(q)'
      BY <1>3 DEF CalmScan
    <2>1. SumOf(Low', Held(p)) = SumOf(used, Held(p))
      <3>1. \A c \in DrmClients : Low'[c] = used[c] /\ used[c] \in Nat
        BY <1>1, <1>2, <1>3 DEF Low, DrmTypes
      <3> QED BY <1>2, <3>1, HeldFinite, SumSame
    <2>2. \A c \in Held(p) : \E f \in DrmFds : fdinfo[p][f] = c
      BY DEF Held
    <2>3. Covers(p, Held(p))'
      BY <1>1, <1>2, <1>3, <1>6, <2>1, <2>2 DEF Covers, Used
    <2> QED BY <1>3, <1>6, <2>3 DEF CalmScan
  <1>8. ASSUME NEW q \in DrmPids PROVE CalmWindow(q)'
    <2>1. CalmWindow(q)
      BY DEF DrmInv
    <2> QED BY <1>1, <1>3, <1>4, <1>6, <2>1 DEF CalmWindow
  <1> QED BY <1>5, <1>7, <1>8 DEF DrmInv

\* A client whose entry has been read stays covered.
LEMMA ScanReadKeeps ==
    ASSUME DrmInv, NEW p \in DrmPids, NEW f \in DrmFds, ScanRead(p, f)
    PROVE  DrmInv'
  <1> DEFINE c == fdinfo[p][f]
  <1>1. /\ scan.pid = {p} /\ f \in scan.left
        /\ scan' = [scan EXCEPT !.left = @ \ {f},
                                !.clients = IF c = NoClient THEN @ ELSE Slot(@, c, used[c])]
        /\ UNCHANGED <<fdinfo, used, dclock, process_states, window>>
    BY DEF ScanRead
  <1>2. /\ DrmTypes /\ c \in DrmClients \cup {NoClient}
        /\ scan \in [pid : SUBSET DrmPids, left : SUBSET DrmFds, clients : {scan.clients}, calm : BOOLEAN, begin : Nat]
        /\ \A d \in DOMAIN scan.clients : d \in DrmClients /\ scan.clients[d] \in Nat
        /\ used \in [DrmClients -> Nat]
    BY <1>1 DEF DrmInv, DrmTypes
  <1>3. c # NoClient => c \in Held(p)
    BY DEF Held
  <1> HIDE DEF c
  <1>4. /\ scan'.pid = scan.pid /\ scan'.left = scan.left \ {f} /\ scan'.begin = scan.begin
        /\ scan'.clients = IF c = NoClient THEN scan.clients ELSE Slot(scan.clients, c, used[c])
    BY <1>1, <1>2
  <1>5. scan'.calm <=> scan.calm
    BY <1>1, <1>2
  <1>6. /\ DOMAIN scan'.clients = DOMAIN scan.clients \cup ({c} \ {NoClient})
        /\ \A d \in DOMAIN scan'.clients : scan'.clients[d] =
              IF d = c /\ (c \in DOMAIN scan.clients => scan.clients[c] < used[c]) THEN used[c] ELSE scan.clients[d]
    <2>1. CASE c = NoClient
      <3>1. NoClient \notin DOMAIN scan.clients
        BY <1>2, DrmAssumption
      <3> QED BY <1>4, <2>1, <3>1
    <2>2. CASE c # NoClient
      BY <1>4, <2>2 DEF Slot
    <2> QED BY <2>1, <2>2
  <1>7. DrmTypes'
    <2>1. \A d \in DOMAIN scan'.clients : d \in DrmClients /\ scan'.clients[d] \in Nat
      BY <1>2, <1>6
    <2>2. scan' \in [pid : SUBSET DrmPids, left : SUBSET DrmFds, clients : {scan'.clients}, calm : BOOLEAN, begin : Nat]
      BY <1>1, <1>2, <1>4
    <2> QED BY <1>1, <1>2, <2>1, <2>2 DEF DrmTypes
  <1>8. \A q \in DrmPids : Held(q)' = Held(q) /\ Used(q)' = Used(q)
    BY <1>1 DEF Held, Used
  <1>9. ASSUME NEW q \in DrmPids PROVE CalmScan(q)'
    <2> SUFFICES ASSUME q = p, scan.calm PROVE CalmScan(q)'
      BY <1>1, <1>4, <1>5 DEF CalmScan
    <2>1. \A d \in DOMAIN scan.clients : d \in Held(p) /\ scan.clients[d] <= used[d]
      BY <1>1 DEF DrmInv, CalmScan
    <2>2. \A d \in DOMAIN scan'.clients : d \in Held(p) /\ scan'.clients[d] <= used[d]
      BY <1>2, <1>3, <1>6, <2>1
    <2>3. PICK B \in SUBSET Held(p) : Covers(p, B)
      BY <1>1 DEF DrmInv, CalmScan
    <2>4. \A d \in DrmClients : Low[d] \in Nat /\ Low'[d] \in Nat /\ Low[d] <= Low'[d]
      BY <1>1, <1>2, <1>6, <2>1 DEF Low
    <2>5. B \in SUBSET DrmClients /\ IsFiniteSet(B)
      BY <1>2, HeldFinite, FS_Subset
    <2>6. SumOf(Low, B) <= SumOf(Low', B)
      BY <2>4, <2>5, SumMonotone
    <2>7. SumOf(Low, B) \in Nat /\ SumOf(Low', B) \in Nat /\ scan.begin \in Nat
      BY <1>2, <2>4, <2>5, SumType
    <2>8. \A d \in B : d \in DOMAIN scan'.clients \/ \E g \in scan'.left : fdinfo[p][g] = d
      <3> SUFFICES ASSUME NEW d \in B, d \notin DOMAIN scan'.clients PROVE \E g \in scan'.left : fdinfo[p][g] = d
        OBVIOUS
      <3>1. d # NoClient /\ d \notin DOMAIN scan.clients /\ d # c
        BY <1>6 DEF Held
      <3>2. PICK g \in scan.left : fdinfo[p][g] = d
        BY <2>3, <3>1 DEF Covers
      <3>3. g # f
        BY <3>1, <3>2 DEF c
      <3> QED BY <1>4, <3>2, <3>3
    <2>9. Covers(p, B)'
      BY <1>1, <1>4, <2>3, <2>6, <2>7, <2>8 DEF Covers
    <2> QED BY <1>1, <1>8, <2>2, <2>9 DEF CalmScan
  <1>10. ASSUME NEW q \in DrmPids PROVE CalmWindow(q)'
    <2>1. CalmWindow(q)
      BY DEF DrmInv
    <2> QED BY <1>1, <1>4, <1>5, <1>8, <2>1 DEF CalmWindow
  <1> QED BY <1>7, <1>9, <1>10 DEF DrmInv

\* The total of a scan during which nothing was closed.
LEMMA TotalBetween ==
    ASSUME DrmInv, NEW p \in DrmPids, scan.pid = {p}, scan.left = {}, scan.calm
    PROVE  scan.begin <= Total /\ Total <= Used(p)
  <1> DEFINE D == DOMAIN scan.clients
  <1>1. /\ DrmTypes /\ used \in [DrmClients -> Nat] /\ scan.begin \in Nat
        /\ \A c \in D : c \in DrmClients /\ scan.clients[c] \in Nat
    BY DEF DrmInv, DrmTypes
  <1>2. \A c \in D : c \in Held(p) /\ scan.clients[c] <= used[c]
    BY DEF DrmInv, CalmScan
  <1>3. PICK B \in SUBSET Held(p) : Covers(p, B)
    BY DEF DrmInv, CalmScan
  <1>4. D \in SUBSET Held(p) /\ D \in SUBSET DrmClients /\ IsFiniteSet(D) /\ IsFiniteSet(Held(p))
    BY <1>1, <1>2, HeldFinite, FS_Subset
  <1>5. B \in SUBSET D /\ scan.begin <= SumOf(Low, B)
    BY <1>3 DEF Covers
  <1> HIDE DEF D
  <1>6. SumOf(Low, B) = SumOf(scan.clients, B)
    <2>1. IsFiniteSet(B)
      BY <1>4, <1>5, FS_Subset
    <2>2. \A c \in B : Low[c] = scan.clients[c] /\ Low[c] \in Nat
      BY <1>1, <1>5 DEF Low, D
    <2> QED BY <2>1, <2>2, SumSame
  <1>7. SumOf(scan.clients, B) <= SumOf(scan.clients, D)
    BY <1>1, <1>4, <1>5, SumSubset
  <1>8. SumOf(scan.clients, D) <= SumOf(used, D)
    BY <1>1, <1>2, <1>4, SumMonotone
  <1>9. SumOf(used, D) <= SumOf(used, Held(p))
    <2>1. \A c \in Held(p) : used[c] \in Nat
      BY <1>1, HeldFinite
    <2> QED BY <1>4, <2>1, SumSubset
  <1>10. /\ SumOf(scan.clients, B) \in Nat /\ SumOf(scan.clients, D) \in Nat
         /\ SumOf(used, D) \in Nat /\ SumOf(used, Held(p)) \in Nat
    <2>1. \A c \in Held(p) : used[c] \in Nat
      BY <1>1, HeldFinite
    <2>2. IsFiniteSet(B) /\ \A c \in B : scan.clients[c] \in Nat
      BY <1>1, <1>4, <1>5, FS_Subset
    <2>3. \A c \in D : used[c] \in Nat
      BY <1>4, <2>1
    <2> QED BY <1>1, <1>4, <2>1, <2>2, <2>3, SumType
  <1>11. Total = SumOf(scan.clients, D) /\ Used(p) = SumOf(used, Held(p))
    BY DEF Total, Used, D
  <1> QED BY <1>1, <1>5, <1>6, <1>7, <1>8, <1>9, <1>10, <1>11

\* The end of a scan makes its figures the base of the next.
LEMMA ScanEndKeeps ==
    ASSUME DrmInv, NEW p \in DrmPids, ScanEnd(p)
    PROVE  DrmInv'
  <1>1. /\ scan.pid = {p} /\ scan.left = {} /\ scan' = NoScan
        /\ UNCHANGED <<fdinfo, used, dclock>>
        /\ UNCHANGED <<process_states, window>> \/ Baseline(p)
    BY DEF ScanEnd
  <1>2. DrmTypes
    BY DEF DrmInv
  <1>3. /\ scan'.pid = {}
        /\ scan' \in [pid : SUBSET DrmPids, left : SUBSET DrmFds, clients : {scan'.clients}, calm : BOOLEAN, begin : Nat]
    BY <1>1 DEF NoScan
  <1>4. \A q \in DrmPids : Held(q)' = Held(q) /\ Used(q)' = Used(q)
    BY <1>1 DEF Held, Used
  <1>5. \A q \in DrmPids : CalmScan(q)'
    BY <1>3 DEF CalmScan
  <1>6. ASSUME NEW q \in DrmPids, process_states'[q] = process_states[q], window'[q] = window[q]
        PROVE  CalmWindow(q)'
    <2>1. CalmWindow(q)
      BY DEF DrmInv
    <2> QED BY <1>1, <1>3, <1>4, <1>6, <2>1 DEF CalmWindow
  <1>7. CASE UNCHANGED <<process_states, window>>
    <2>1. DrmTypes'
      BY <1>1, <1>2, <1>3, <1>7 DEF DrmTypes
    <2> QED BY <1>5, <1>6, <1>7, <2>1 DEF DrmInv
  <1>8. CASE Baseline(p)
    <2>1. Total \in Nat /\ Used(p) \in Nat /\ dclock \in Nat
      BY <1>1, <1>2, TotalType, UsedType DEF DrmTypes
    <2>2. /\ process_states' = [process_states EXCEPT ![p] = [prev |-> Total, time |-> dclock]]
          /\ window' = [window EXCEPT ![p] = [begin |-> scan.begin, end |-> Used(p), calm |-> scan.calm]]
      BY <1>8 DEF Baseline
    <2>3. process_states' \in [DrmPids -> [prev : Nat, time : Nat \cup {-1}]]
      <3>1. [prev |-> Total, time |-> dclock] \in [prev : Nat, time : Nat \cup {-1}]
        BY <2>1
      <3> QED BY <1>2, <2>2, <3>1 DEF DrmTypes
    <2>4. window' \in [DrmPids -> [begin : Nat, end : Nat, calm : BOOLEAN]]
      <3>1. [begin |-> scan.begin, end |-> Used(p), calm |-> scan.calm] \in [begin : Nat, end : Nat, calm : BOOLEAN]
        BY <1>2, <2>1 DEF DrmTypes
      <3> QED BY <1>2, <2>2, <3>1 DEF DrmTypes
    <2>5. DrmTypes'
      BY <1>1, <1>2, <1>3, <2>3, <2>4 DEF DrmTypes
    <2>6. \A q \in DrmPids : q # p => process_states'[q] = process_states[q] /\ window'[q] = window[q]
      BY <1>2, <2>2 DEF DrmTypes
    <2>7. CalmWindow(p)'
      <3>1. process_states'[p] = [prev |-> Total, time |-> dclock]
        BY <1>2, <2>2 DEF DrmTypes
      <3>2. window'[p] = [begin |-> scan.begin, end |-> Used(p), calm |-> scan.calm]
        BY <1>2, <2>2 DEF DrmTypes
      <3>3. window'[p].calm <=> scan.calm
        BY <3>2
      <3>4. window'[p].begin = scan.begin /\ window'[p].end = Used(p)
        BY <3>2
      <3>5. scan.calm => scan.begin <= Total /\ Total <= Used(p)
        BY <1>1, TotalBetween
      <3>6. process_states'[p].prev = Total /\ process_states'[p].time = dclock /\ dclock' = dclock
        BY <1>1, <3>1
      <3> QED BY <1>3, <1>4, <2>1, <3>3, <3>4, <3>5, <3>6 DEF CalmWindow
    <2> QED BY <1>5, <1>6, <2>5, <2>6, <2>7 DEF DrmInv
  <1> QED BY <1>1, <1>7, <1>8

\* The invariant of GpuProcesses is inductive.
LEMMA DrmStep == DrmInv /\ [DrmNext]_drmVars => DrmInv'
  <1> SUFFICES ASSUME DrmInv, [DrmNext]_drmVars PROVE DrmInv'
    OBVIOUS
  <1>1. ASSUME NEW p \in DrmPids, NEW f \in DrmFds, DrmClose(p, f) PROVE DrmInv'
    BY <1>1, DrmCloseKeeps
  <1>2. ASSUME NEW p \in DrmPids, NEW f \in DrmFds, ScanRead(p, f) PROVE DrmInv'
    BY <1>2, ScanReadKeeps
  <1>3. ASSUME NEW p \in DrmPids, NEW f \in DrmFds, NEW c \in DrmClients, DrmOpen(p, f, c) PROVE DrmInv'
    BY <1>3, DrmOpenKeeps
  <1>4. ASSUME NEW worker \in {{}} \cup {{c} : c \in DrmClients}, DrmTime(worker) PROVE DrmInv'
    BY <1>4, DrmTimeKeeps
  <1>5. ASSUME NEW p \in DrmPids, ScanBegin(p) PROVE DrmInv'
    BY <1>5, ScanBeginKeeps
  <1>6. ASSUME NEW p \in DrmPids, ScanEnd(p) PROVE DrmInv'
    BY <1>6, ScanEndKeeps
  <1>7. CASE UNCHANGED drmVars
    <2>1. UNCHANGED <<fdinfo, used, dclock, scan, process_states, window>>
      BY <1>7 DEF drmVars
    <2>2. DrmTypes'
      BY <2>1 DEF DrmInv, DrmTypes
    <2>3. \A p \in DrmPids : CalmScan(p)'
      BY <2>1 DEF DrmInv, CalmScan, Covers, Held, Low
    <2>4. \A p \in DrmPids : CalmWindow(p)'
      BY <2>1 DEF DrmInv, CalmWindow, Used, Held
    <2> QED BY <2>2, <2>3, <2>4 DEF DrmInv
  <1> QED BY <1>1, <1>2, <1>3, <1>4, <1>5, <1>6, <1>7 DEF DrmNext

\* What is reported of a process that closes no descriptor lies between what it
\* used between the two calls and what it used from the beginning of the first
\* to the end of the second.
THEOREM UseTheorem == SystemSpec => UseBracketed
  <1> DEFINE Bracketed ==
        \A p \in DrmPids :
          ScanEnd(p) /\ process_states[p].time # -1 /\ window[p].calm
            /\ DOMAIN scan.clients # {} /\ ~TooSoonAfter(p) =>
              LET dt == dclock - process_states[p].time
              IN  /\ out_render_pct(p) * dt <= 100 * (Used(p) - window[p].begin)
                  /\ (out_render_pct(p) + 1) * dt > 100 * (scan.begin - window[p].end)
  <1>1. SystemInit => DrmInv
    BY DrmInitial DEF SystemInit
  <1>2. DrmInv /\ [SystemNext]_systemVars => DrmInv'
    <2>1. [SystemNext]_systemVars => [DrmNext]_drmVars
      BY DEF SystemNext, systemVars
    <2> QED BY <2>1, DrmStep
  <1>3. DrmInv => Bracketed
    <2> SUFFICES ASSUME DrmInv, NEW p \in DrmPids, ScanEnd(p), process_states[p].time # -1, window[p].calm,
                        DOMAIN scan.clients # {}, ~TooSoonAfter(p)
                 PROVE  LET dt == dclock - process_states[p].time
                        IN  /\ out_render_pct(p) * dt <= 100 * (Used(p) - window[p].begin)
                            /\ (out_render_pct(p) + 1) * dt > 100 * (scan.begin - window[p].end)
      OBVIOUS
    <2> DEFINE dt == dclock - process_states[p].time
               d  == Total - process_states[p].prev
    <2>1. scan.pid = {p} /\ scan.left = {}
      BY DEF ScanEnd
    <2>2. /\ process_states[p].time \in 0..dclock
          /\ window[p].begin <= process_states[p].prev /\ process_states[p].prev <= window[p].end
          /\ scan.calm /\ window[p].end <= scan.begin /\ scan.begin - window[p].end <= dt
      BY <2>1 DEF DrmInv, CalmWindow
    <2>3. scan.begin <= Total /\ Total <= Used(p)
      BY <2>1, <2>2, TotalBetween
    <2>4. /\ Total \in Nat /\ Used(p) \in Nat /\ dclock \in Nat /\ scan.begin \in Nat
          /\ window[p].begin \in Nat /\ window[p].end \in Nat /\ process_states[p].prev \in Nat
      BY <2>1, TotalType, UsedType DEF DrmInv, DrmTypes
    <2>5. dt \in Nat /\ dt > 1
      BY <2>2, <2>4 DEF TooSoonAfter
    <2>6. out_render_pct(p) = IF d < 0 \/ d > dt THEN 100 ELSE (100 * d) \div dt
      BY DEF out_render_pct, Percent
    <2>7. d \in Nat /\ d <= Used(p) - window[p].begin /\ d >= scan.begin - window[p].end
      BY <2>2, <2>3, <2>4
    <2> HIDE DEF dt, d
    <2>8. CASE d > dt
      <3>1. out_render_pct(p) = 100
        BY <2>6, <2>8
      <3>2. 100 * dt <= 100 * (Used(p) - window[p].begin)
        BY <2>4, <2>5, <2>7, <2>8
      <3>3. (100 + 1) * dt > 100 * (scan.begin - window[p].end)
        BY <2>2, <2>4, <2>5
      <3> QED BY <3>1, <3>2, <3>3 DEF dt
    <2>9. CASE ~(d > dt)
      <3> DEFINE pct == (100 * d) \div dt
      <3>1. out_render_pct(p) = pct
        BY <2>5, <2>6, <2>7, <2>9
      <3>2. pct \in Int /\ pct * dt <= 100 * d /\ 100 * d < pct * dt + dt
        BY <2>5, <2>7
      <3> HIDE DEF pct
      <3>3. (pct + 1) * dt = pct * dt + dt /\ pct * dt \in Int
        BY <2>5, <3>2
      <3> QED BY <2>4, <2>5, <2>7, <3>1, <3>2, <3>3 DEF dt
    <2> QED BY <2>8, <2>9 DEF dt
  <1> HIDE DEF Bracketed
  <1>4. SystemSpec => [][Bracketed]_drmVars
    <2>1. DrmInv /\ [SystemNext]_systemVars => [Bracketed]_drmVars
      BY <1>3
    <2> QED BY <1>1, <1>2, <2>1, PTL DEF SystemSpec
  <1> QED BY <1>4, PTL DEF Bracketed, UseBracketed

----------------------------------------------------------------------------
(* TemperatureMonitor *)

Temps == Readings \cup {NoReading}
Sensors == [type : {"CpuCore", "CpuPackage", "Gpu", "Ambient"}, temp : Temps \cup {0}]

\* Paths and temperatures are numbers; after a sample the temperatures kept are
\* those it read.
TempInv ==
    /\ DOMAIN hwmon \subseteq TempPaths /\ \A p \in DOMAIN hwmon : hwmon[p] \in Devices
    /\ DOMAIN sensors \subseteq TempPaths /\ \A p \in DOMAIN sensors : sensors[p] \in Sensors
    /\ sampled => \A p \in DOMAIN sensors : sensors[p].temp \in Temps /\ sensors[p].temp = read[p]

\* The constructor knows no sensors.
LEMMA TempInitial == TempInit => TempInv
  BY DEF TempInit, TempInv, NoPaths

\* What drivers and sensors do changes nothing the monitor keeps:
LEMMA DriverComesKeeps ==
    ASSUME TempInv, NEW p \in TempPaths, NEW device \in Devices, DriverComes(p, device)
    PROVE  TempInv'
  BY DEF DriverComes, TempInv

\* neither a driver that goes
LEMMA DriverGoesKeeps == ASSUME TempInv, NEW p \in TempPaths, DriverGoes(p) PROVE TempInv'
  BY DEF DriverGoes, TempInv

\* nor a temperature that changes.
LEMMA WarmsKeeps ==
    ASSUME TempInv, NEW p \in TempPaths, NEW temp \in Temps, Warms(p, temp)
    PROVE  TempInv'
  <1>1. /\ p \in DOMAIN hwmon /\ hwmon' = [hwmon EXCEPT ![p].temp = temp]
        /\ UNCHANGED <<sensors, sampled, read>>
    BY DEF Warms
  <1>2. [hwmon[p] EXCEPT !.temp = temp] \in Devices
    BY <1>1 DEF TempInv, Devices, Temps
  <1>3. DOMAIN hwmon' = DOMAIN hwmon /\ \A q \in DOMAIN hwmon : hwmon'[q] \in Devices
    BY <1>1, <1>2 DEF TempInv
  <1> QED BY <1>1, <1>3 DEF TempInv

\* Discovery finds a sensor of a known kind at every path.
LEMMA DiscoveredType ==
    ASSUME TempInv
    PROVE  DOMAIN discover_sensors = DOMAIN hwmon /\ \A p \in DOMAIN hwmon : discover_sensors[p] \in Sensors
  <1>1. \A driver, label : classify(driver, label) \in {"CpuCore", "CpuPackage", "Gpu", "Ambient"}
    BY DEF classify
  <1> QED BY <1>1 DEF discover_sensors, Sensors

\* A sample leaves with every sensor what it read of it, or no reading.
LEMMA TempSampledKeeps == ASSUME TempInv, TempSampled PROVE TempInv'
  <1> DEFINE found == IF sensors = NoPaths THEN discover_sensors ELSE sensors
  <1>1. /\ sensors' = [p \in DOMAIN found |-> Refreshed(p, found[p])]
        /\ read' = [p \in DOMAIN found |-> Reading(p)]
        /\ hwmon' = hwmon
    BY DEF TempSampled
  <1>2. DOMAIN found \subseteq TempPaths
    BY DEF TempInv, discover_sensors
  <1>3. \A p \in DOMAIN found : found[p] \in Sensors
    BY DiscoveredType DEF TempInv
  <1>4. \A p \in TempPaths : Reading(p) \in Temps
    BY DEF Reading, TempInv, Devices, Temps
  <1>5. \A p \in DOMAIN found : Refreshed(p, found[p]) \in Sensors /\ Refreshed(p, found[p]).temp = Reading(p)
    BY <1>2, <1>3, <1>4 DEF Refreshed, Sensors
  <1> HIDE DEF found
  <1> QED BY <1>1, <1>2, <1>4, <1>5 DEF TempInv

\* The invariant of TemperatureMonitor is inductive.
LEMMA TempStep == TempInv /\ [TempNext]_tempVars => TempInv'
  <1> SUFFICES ASSUME TempInv, [TempNext]_tempVars PROVE TempInv'
    OBVIOUS
  <1>1. ASSUME NEW p \in TempPaths, DriverGoes(p) PROVE TempInv'
    BY <1>1, DriverGoesKeeps
  <1>2. ASSUME NEW p \in TempPaths, NEW device \in Devices, DriverComes(p, device) PROVE TempInv'
    BY <1>2, DriverComesKeeps
  <1>3. ASSUME NEW p \in TempPaths, NEW temp \in Temps, Warms(p, temp) PROVE TempInv'
    BY <1>3, WarmsKeeps
  <1>4. CASE TempDiscovered
    BY <1>4, DiscoveredType DEF TempDiscovered, TempInv
  <1>5. CASE TempSampled
    BY <1>5, TempSampledKeeps
  <1>6. CASE UNCHANGED tempVars
    BY <1>6 DEF tempVars, TempInv
  <1> QED BY <1>1, <1>2, <1>3, <1>4, <1>5, <1>6 DEF TempNext, Temps

\* The temperature of the package is one of its sensors', or of a core's, or
\* none; and the GPU's alike.
LEMMA TempInvSays == TempInv => NoStaleReading
  <1> SUFFICES ASSUME TempInv, sampled PROVE NoStaleReading
    BY DEF NoStaleReading
  <1>1. \A p \in DOMAIN sensors : p \in Nat /\ sensors[p].temp \in Temps /\ sensors[p].temp = read[p]
    BY TemperatureAssumption DEF TempInv
  <1>2. \A type : OfType(type) \subseteq DOMAIN sensors /\ Above0(type) \subseteq OfType(type)
    BY DEF OfType, Above0
  <1>3. ASSUME NEW type, Above0(type) # {} PROVE First(Above0(type)) \in {read[p] : p \in OfType(type)}
    <2>1. Above0(type) \in SUBSET Nat
      BY <1>1, <1>2
    <2>2. Min(Above0(type)) \in Above0(type)
      BY <1>3, <2>1, MinIn
    <2> QED BY <1>1, <1>2, <2>2 DEF First
  <1>4. Max({NoReading} \cup {sensors[p].temp : p \in OfType("CpuCore")})
          \in {NoReading} \cup {read[p] : p \in OfType("CpuCore")}
    <2> DEFINE S == {sensors[p].temp : p \in OfType("CpuCore")}
    <2>1. IsFiniteSet(S)
      <3>1. IsFiniteSet(OfType("CpuCore"))
        BY <1>2, TemperatureAssumption, FS_Subset DEF TempInv
      <3> DEFINE f == [p \in OfType("CpuCore") |-> sensors[p].temp]
      <3>2. f \in Surjection(OfType("CpuCore"), S)
        BY DEF Surjection
      <3> HIDE DEF f, S
      <3> QED BY <3>1, <3>2, FS_Surjection
    <2>2. {NoReading} \cup S \in SUBSET Int
      <3>1. \A temp \in Temps : temp \in Int
        BY TemperatureAssumption DEF Temps, NoReading
      <3>2. \A temp \in S : temp \in Temps
        BY <1>1, <1>2
      <3> HIDE DEF S
      <3> QED BY <3>1, <3>2 DEF NoReading
    <2>3. IsFiniteSet({NoReading} \cup S)
      BY <2>1, FS_AddElement
    <2>4. S = {read[p] : p \in OfType("CpuCore")}
      BY <1>1, <1>2
    <2> HIDE DEF S
    <2>5. Max({NoReading} \cup S) \in {NoReading} \cup S
      BY <2>2, <2>3, MaxIn
    <2> QED BY <2>4, <2>5 DEF S
  <1>5. get_cpu_package_temp \in {NoReading} \cup {read[p] : p \in OfType("CpuPackage") \cup OfType("CpuCore")}
    BY <1>3, <1>4 DEF get_cpu_package_temp
  <1>6. get_gpu_temp \in {NoReading} \cup {read[p] : p \in OfType("Gpu")}
    BY <1>3 DEF get_gpu_temp
  <1> QED BY <1>5, <1>6 DEF NoStaleReading

\* Once a sample has been taken, no temperature is given out that the last one
\* did not read.
THEOREM TemperatureTheorem == SystemSpec => []NoStaleReading
  <1>1. SystemInit => TempInv
    BY TempInitial DEF SystemInit
  <1>2. TempInv /\ [SystemNext]_systemVars => TempInv'
    <2>1. [SystemNext]_systemVars => [TempNext]_tempVars
      BY DEF SystemNext, systemVars
    <2> QED BY <2>1, TempStep
  <1> QED BY <1>1, <1>2, TempInvSays, PTL DEF SystemSpec

----------------------------------------------------------------------------
(* MemoryMonitor *)

\* A difference of what was capped does not wrap.
LEMMA CappedDifference ==
    ASSUME NEW m \in 0..MaxKib, NEW n \in 0..MaxKib
    PROVE  /\ Capped(m, n) \in 0..n
           /\ Minus(n, Capped(m, n)) = n - Capped(m, n)
  <1>1. Capped(m, n) \in 0..n
    BY DEF Capped
  <1> DEFINE d == n - Capped(m, n)
  <1>2. d \in Int /\ 0 <= d /\ d < KibMod /\ KibMod \in Nat /\ KibMod > 0
    BY <1>1, MemoryAssumption
  <1> HIDE DEF d
  <1>3. d % KibMod = d
    BY <1>2
  <1> QED BY <1>1, <1>3 DEF Minus, d

\* A part in percent of the whole.
LEMMA PercentOfWhole ==
    ASSUME NEW n \in Nat, NEW whole \in Nat, whole > 0, n <= whole
    PROVE  (100 * n) \div whole \in 0..100
  <1> DEFINE q == (100 * n) \div whole
  <1>1. q \in Nat /\ whole * q <= 100 * n
    OBVIOUS
  <1>2. ASSUME q > 100 PROVE FALSE
    <2>1. whole * q >= whole * 101
      BY <1>1, <1>2
    <2> QED BY <1>1, <2>1
  <1> QED BY <1>1, <1>2

\* Whatever the file says.
LEMMA MemoryStep == MemoryFiguresAgree /\ [MemoryNext]_memory => MemoryFiguresAgree'
  <1> SUFFICES ASSUME MemoryFiguresAgree, [MemoryNext]_memory PROVE MemoryFiguresAgree'
    OBVIOUS
  <1>1. ASSUME NEW data \in [MemoryFields -> 0..MaxKib], MemorySampled(data) PROVE MemoryFiguresAgree'
    <2> DEFINE T == data.total
               S == data.swap_total
               A == Capped(data.available, T)
               F == IF S > 0 THEN Capped(data.swap_free, S) ELSE data.swap_free
    <2>1. T \in 0..MaxKib /\ S \in 0..MaxKib /\ data.available \in 0..MaxKib /\ data.swap_free \in 0..MaxKib
      BY DEF MemoryFields
    <2>2. /\ A \in 0..T /\ Minus(T, A) = T - A
          /\ F \in Nat /\ (S > 0 => F \in 0..S /\ Minus(S, F) = S - F)
      BY <2>1, CappedDifference
    <2>3. /\ T # 0
          /\ memory' = [total |-> T, available |-> A, swap_total |-> S, swap_free |-> F,
                        ram_used_percent |-> (100 * Minus(T, A)) \div T,
                        swap_used_percent |-> IF S = 0 THEN 0 ELSE (100 * Minus(S, F)) \div S]
      BY <1>1 DEF MemorySampled
    <2> HIDE DEF T, S, A, F
    <2>4. /\ memory'.total = T /\ memory'.available = A /\ memory'.swap_total = S /\ memory'.swap_free = F
          /\ memory'.ram_used_percent = (100 * (T - A)) \div T
          /\ memory'.swap_used_percent = IF S = 0 THEN 0 ELSE (100 * (S - F)) \div S
      <3>1. S # 0 => Minus(S, F) = S - F
        BY <2>1, <2>2
      <3> QED BY <2>2, <2>3, <3>1
    <2>5. get_used_ram_kib' = T - A /\ (S > 0 => get_used_swap_kib' = S - F)
      BY <2>1, <2>2, <2>4 DEF get_used_ram_kib, get_used_swap_kib
    <2>6. memory'.ram_used_percent \in 0..100
      <3>1. T - A \in Nat /\ T \in Nat /\ T > 0 /\ T - A <= T
        BY <2>1, <2>2, <2>3
      <3> QED BY <2>4, <3>1, PercentOfWhole
    <2>7. memory'.swap_used_percent \in 0..100
      <3>1. CASE S = 0
        BY <2>4, <3>1
      <3>2. CASE S # 0
        <4>1. S - F \in Nat /\ S \in Nat /\ S > 0 /\ S - F <= S
          BY <2>1, <2>2, <3>2
        <4> QED BY <2>4, <3>2, <4>1, PercentOfWhole
      <3> QED BY <3>1, <3>2
    <2>8. memory'.swap_total > 0 => memory'.swap_used_percent = (100 * (S - F)) \div S
      BY <2>1, <2>4
    <2> QED BY <2>4, <2>5, <2>6, <2>7, <2>8 DEF MemoryFiguresAgree
  <1>2. CASE UNCHANGED memory
    BY <1>2 DEF MemoryFiguresAgree, get_used_ram_kib, get_used_swap_kib
  <1> QED BY <1>1, <1>2 DEF MemoryNext

\* Percentages and amounts say the same, and no share is above 100, whatever
\* /proc/meminfo says.
THEOREM MemoryTheorem == SystemSpec => []MemoryFiguresAgree
  <1>1. SystemInit => MemoryFiguresAgree
    BY DEF SystemInit, MemoryInit, MemoryFiguresAgree
  <1>2. MemoryFiguresAgree /\ [SystemNext]_systemVars => MemoryFiguresAgree'
    <2>1. [SystemNext]_systemVars => [MemoryNext]_memory
      BY DEF SystemNext, systemVars
    <2> QED BY <2>1, MemoryStep
  <1> QED BY <1>1, <1>2, PTL DEF SystemSpec
============================================================================
