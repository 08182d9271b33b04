---------------------------- MODULE FrameMetrics ----------------------------
(***************************************************************************)
(* FrameMetrics: frame times from monotonic time stamps, kept in a         *)
(* RingBuffer, and the statistics over the newest of them.  Times are      *)
(* whole numbers; a mean is kept as the sum and the number of samples.     *)
(***************************************************************************)
EXTENDS RingBuffer, Sums

CONSTANTS
    WindowSize,      \* the constructor's argument
    MaxFrametimes,   \* what SetMaxFrametimeMs is given
    Timestamps       \* what RecordTimestamp is given

kMaxWindow == Capacity

ASSUME MetricsAssumption ==
    /\ WindowSize \in Nat /\ Values \subseteq Nat /\ Zero = 0
    /\ MaxFrametimes \subseteq Nat \ {0} /\ MaxFrametimes # {}
    /\ \A ms \in MaxFrametimes : 1..ms \subseteq Values
    /\ Timestamps \subseteq Nat /\ IsFiniteSet(Timestamps)

VARIABLES lastTimestamp, haveLast, maxFrametime  \* and the ring, frametimes_ms_

vars == <<ring, lastTimestamp, haveLast, maxFrametime>>

\* window_
Window == IF WindowSize = 0 THEN 1 ELSE IF WindowSize < kMaxWindow THEN WindowSize ELSE kMaxWindow

Init == RingInit /\ lastTimestamp = 0 /\ haveLast = FALSE /\ maxFrametime \in MaxFrametimes

RecordTimestamp(time) ==
    /\ \/ ~haveLast /\ haveLast' = TRUE /\ lastTimestamp' = time /\ UNCHANGED ring
       \/ /\ haveLast /\ time > lastTimestamp
          /\ lastTimestamp' = time
          /\ LET delta == time - lastTimestamp
             IN  Push(IF delta > maxFrametime THEN maxFrametime ELSE delta)
          /\ UNCHANGED haveLast
    /\ UNCHANGED maxFrametime

SetMaxFrametimeMs(ms) == maxFrametime' = ms /\ UNCHANGED <<ring, lastTimestamp, haveLast>>

Reset == Clear /\ lastTimestamp' = 0 /\ haveLast' = FALSE /\ UNCHANGED maxFrametime

Next ==
    \/ \E time \in Timestamps : RecordTimestamp(time)
    \/ \E ms \in MaxFrametimes : SetMaxFrametimeMs(ms)
    \/ Reset

Spec == Init /\ [][Next]_vars

----------------------------------------------------------------------------
(* ComputeStats *)

\* The newest samples, as many as the window holds.
Samples ==
    LET n == IF count < Window THEN count ELSE Window
    IN  [i \in 1..n |-> At(count - n + i - 1)]

Sum(s) == SumOf(s, DOMAIN s)

\* std::sort: the samples in an order in which none is above the next.
Sorted(s) ==
    LET order == CHOOSE p \in Bijection(DOMAIN s, DOMAIN s) :
                     \A i, j \in DOMAIN s : i < j => s[p[i]] <= s[p[j]]
    IN  [i \in DOMAIN s |-> s[order[i]]]

\* Mutant: the index is rounded down.
PercentileFloor(sorted, permille) == sorted[1 + ((permille * (Len(sorted) - 1)) \div 1000)]

\* percentile(permille / 1000): index ceil(p * n), at most n - 1, from 0.
Percentile(sorted, permille) ==
    LET n == Len(sorted)
        index == (permille * n + 999) \div 1000
    IN  sorted[1 + (IF index >= n THEN n - 1 ELSE index)]

ComputeStats ==
    LET s == Samples
        n == Len(s)
        sorted == Sorted(s)
    IN  [total    |-> n,
         sum      |-> Sum(s),
         min      |-> Min(Range(s)),
         max      |-> Max(Range(s)),
         p99      |-> Percentile(sorted, 990),
         p999     |-> Percentile(sorted, 999),
         stutters |-> Cardinality({i \in 1..n : s[i] * n > 2 * Sum(s)})]

----------------------------------------------------------------------------
\* Every variable keeps its type.
TypeOK ==
    /\ RingTypeOK
    /\ lastTimestamp \in Timestamps \cup {0} /\ haveLast \in BOOLEAN
    /\ maxFrametime \in MaxFrametimes

\* The statistics agree with each other and with a definition that does not
\* sort: at least 99% (99.9%) of the window is not above the percentile, the
\* mean lies between the extremes, and not half of the frames stutter.
StatsConsistent ==
    count > 0 =>
        LET st == ComputeStats
            s  == Samples
            NotAbove(v) == Cardinality({i \in 1..st.total : s[i] <= v})
        IN  /\ st.min <= st.p99 /\ st.p99 <= st.p999 /\ st.p999 <= st.max
            /\ 1000 * NotAbove(st.p99) >= 990 * st.total
            /\ 1000 * NotAbove(st.p999) >= 999 * st.total
            /\ st.min * st.total <= st.sum /\ st.sum <= st.max * st.total
            /\ 2 * st.stutters < st.total \/ st.stutters = 0
            /\ st.total <= Window

=============================================================================
