----------------------------- MODULE CpuMonitor -----------------------------
(***************************************************************************)
(* CpuMonitor: the differences of /proc/stat between two samples, for the  *)
(* line of all cores and for each core, while cores go off and on line and *)
(* the kernel's iowait counter goes back, as it may.  Of the eight fields  *)
(* of a line "system" stands for all that are busy but not the user's.     *)
(***************************************************************************)
EXTENDS Integers, FiniteSets

CONSTANTS
    Cores,        \* the cores the kernel knows
    MaxCpuTicks,  \* bound: ticks of a line
    CpuTickMod    \* 2^w for the w bits of a counter

ASSUME CpuAssumption ==
    /\ Cores \subseteq Nat /\ IsFiniteSet(Cores) /\ Cores # {}
    /\ MaxCpuTicks \in Nat /\ CpuTickMod \in Nat
    /\ MaxCpuTicks < CpuTickMod

VARIABLES
    stat,         \* what the kernel has counted: for each core, on line or not, and
                  \* for all cores together
    online,       \* the cores that are on line
    core_count,   \* prev_cores_.size()
    prev_lines,   \* prev_aggregate_ and prev_cores_
    cpu_metrics,  \* curr_aggregate_ and curr_cores_
    cpu_first,    \* first_sample_
    statThen,     \* stat at the last sample,
    steady        \* and the cores on line ever since

cpuVars == <<stat, online, core_count, prev_lines, cpu_metrics, cpu_first, statThen, steady>>

CpuFields == {"user", "system", "idle", "iowait"}
Aggregate == -1
Lines == {Aggregate} \cup Cores

NoTicks == [f \in CpuFields |-> 0]
NoCpuMetrics == [total |-> 0, user |-> 0, iowait |-> 0]

get_total_ticks(s) == s.user + s.system + s.idle + s.iowait

CpuInit ==
    /\ stat = [l \in Lines |-> NoTicks] /\ statThen = stat
    /\ online \in SUBSET Cores \ {{}} /\ core_count = Cardinality(online)
    /\ prev_lines = [l \in Lines |-> NoTicks] /\ cpu_metrics = [l \in Lines |-> NoCpuMetrics]
    /\ cpu_first = TRUE /\ steady = {}

----------------------------------------------------------------------------
(* The kernel *)

CpuTick(c, f) ==
    /\ c \in online /\ \A l \in {c, Aggregate} : get_total_ticks(stat[l]) < MaxCpuTicks
    /\ stat' = [stat EXCEPT ![c][f] = @ + 1, ![Aggregate][f] = @ + 1]
    /\ UNCHANGED <<online, core_count, prev_lines, cpu_metrics, cpu_first, statThen, steady>>

\* proc(5): "this value will decrease in certain conditions".
IowaitFalls(c) ==
    /\ \A l \in {c, Aggregate} : stat[l].iowait > 0
    /\ stat' = [stat EXCEPT ![c].iowait = @ - 1, ![Aggregate].iowait = @ - 1]
    /\ UNCHANGED <<online, core_count, prev_lines, cpu_metrics, cpu_first, statThen, steady>>

Hotplug(c) ==
    /\ online' = IF c \in online THEN online \ {c} ELSE online \cup {c}
    /\ online' # {}
    /\ steady' = steady \ {c}
    /\ UNCHANGED <<stat, core_count, prev_lines, cpu_metrics, cpu_first, statThen>>

----------------------------------------------------------------------------
(* The monitor *)

\* What sample parses: a core beyond the vector has no place in it, a core
\* that is off line has no line.
Parsed(l) ==
    IF l = Aggregate \/ (l \in online /\ l < core_count) THEN stat[l] ELSE NoTicks

\* Mutant: a counter that went back counts as one that stood still.
calculate_delta_saturating(prev, curr) ==
    [f \in CpuFields |-> IF curr[f] >= prev[f] THEN curr[f] - prev[f] ELSE 0]

calculate_delta(prev, curr) == [f \in CpuFields |-> (curr[f] - prev[f]) % CpuTickMod]

clamp_pct(v) == IF v < 0 THEN 0 ELSE IF v > 100 THEN 100 ELSE v

\* The sums are of unsigned numbers; a percentage is rounded down.
calculate_metrics(delta) ==
    LET total == get_total_ticks(delta) % CpuTickMod
        idle  == (delta.idle + delta.iowait) % CpuTickMod
    IN  IF total = 0 THEN NoCpuMetrics
        ELSE [total  |-> clamp_pct((100 * (total - idle)) \div total),
              user   |-> clamp_pct((100 * delta.user) \div total),
              iowait |-> clamp_pct((100 * delta.iowait) \div total)]

\* A sample that finds no /proc/stat, or no first line in it, changes nothing.
CpuSampled ==
    /\ prev_lines' = [l \in Lines |-> Parsed(l)]
    /\ cpu_metrics' = [l \in Lines |->
                         IF cpu_first THEN NoCpuMetrics
                         ELSE calculate_metrics(calculate_delta(prev_lines[l], Parsed(l)))]
    /\ cpu_first' = FALSE
    /\ statThen' = stat /\ steady' = online
    /\ UNCHANGED <<stat, online, core_count>>

CpuNext ==
    \/ \E c \in Cores : Hotplug(c) \/ IowaitFalls(c) \/ \E f \in CpuFields : CpuTick(c, f)
    \/ CpuSampled

CpuSpec == CpuInit /\ [][CpuNext]_cpuVars

----------------------------------------------------------------------------
\* The shares reported for all cores, and for each core that stayed on line,
\* are those of the ticks counted since the last sample, in signed numbers:
\* an iowait that went back by no more than idle went on is made good by the
\* wrap-around of the sums.
SharesTruthful ==
    [][CpuSampled /\ ~cpu_first =>
        \A l \in {Aggregate} \cup {c \in steady : c < core_count} :
            LET moved == [f \in CpuFields |-> stat[l][f] - statThen[l][f]]
                idle  == moved.idle + moved.iowait
                total == get_total_ticks(moved)
                share(n) == (100 * n) \div total
            IN  total > 0 /\ idle >= 0 =>
                  /\ cpu_metrics'[l].total = share(moved.user + moved.system)
                  /\ cpu_metrics'[l].user = share(moved.user)
                  /\ moved.iowait >= 0 => cpu_metrics'[l].iowait = share(moved.iowait)]_cpuVars

\* "An iowait share": it never jumps to the whole because the counter fell.
IowaitTruthful ==
    [][CpuSampled /\ ~cpu_first /\ stat[Aggregate].iowait < statThen[Aggregate].iowait
         => cpu_metrics'[Aggregate].iowait = 0]_cpuVars

\* Every core that is on line has its line in the vector.
EveryCoreSampled == \A c \in online : c < core_count
=============================================================================
