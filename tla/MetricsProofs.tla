--------------------------- MODULE MetricsProofs ---------------------------
(***************************************************************************)
(* For every capacity and every set of values, the ring buffer implements  *)
(* the bounded history of the last Capacity values; FrameMetrics, for any  *)
(* window, limits and time stamps, uses it as such, and its statistics     *)
(* agree with each other and with definitions that do not sort.            *)
(***************************************************************************)
EXTENDS FrameMetrics, SumLemmas, TLAPS

----------------------------------------------------------------------------
(* RingBuffer *)

\* As long as the buffer is not full, writing has not wrapped around.
RingInv == RingTypeOK /\ (count < Capacity => head = count)

\* Wrapping an index that is less than two capacities.
LEMMA Wrap ==
    \A i \in Nat : i < 2 * Capacity =>
        (i % Capacity) = (IF i < Capacity THEN i ELSE i - Capacity)
  <1> SUFFICES ASSUME NEW i \in Nat, i < 2 * Capacity
               PROVE  (i % Capacity) = (IF i < Capacity THEN i ELSE i - Capacity)
    OBVIOUS
  <1> USE RingAssumption
  <1> DEFINE q == i \div Capacity
  <1>1. q \in Int /\ i = q * Capacity + (i % Capacity) /\ (i % Capacity) \in 0..Capacity-1
    OBVIOUS
  <1>2. CASE i < Capacity
    <2>1. q = 0
      BY <1>1, <1>2
    <2> QED BY <1>1, <1>2, <2>1
  <1>3. CASE ~(i < Capacity)
    <2>1. q = 1
      BY <1>1, <1>3
    <2> QED BY <1>1, <1>3, <2>1
  <1> QED BY <1>2, <1>3

\* The place after head.
LEMMA NextPlace ==
    ASSUME RingInv
    PROVE  ((head + 1) % Capacity) = (IF head + 1 < Capacity THEN head + 1 ELSE 0)
  <1> USE RingAssumption DEF RingInv, RingTypeOK
  <1>1. head + 1 \in Nat /\ head + 1 < 2 * Capacity /\ head < Capacity
    OBVIOUS
  <1>2. ((head + 1) % Capacity) = (IF head + 1 < Capacity THEN head + 1 ELSE (head + 1) - Capacity)
    BY <1>1, Wrap
  <1> QED BY <1>1, <1>2, RingAssumption

\* What the buffer holds is a sequence of count values.
LEMMA ContentsIsSeq == RingInv => Contents \in Seq(Values) /\ Len(Contents) = count
  <1> SUFFICES ASSUME RingInv PROVE Contents \in Seq(Values) /\ Len(Contents) = count
    OBVIOUS
  <1> USE RingAssumption DEF RingInv, RingTypeOK
  <1>1. \A i \in 1..count : At(i - 1) \in Values
    <2> SUFFICES ASSUME NEW i \in 1..count PROVE At(i - 1) \in Values
      OBVIOUS
    <2>1. CASE count < Capacity
      BY <2>1 DEF At
    <2>2. CASE ~(count < Capacity)
      <3>1. (head + (i - 1)) % Capacity \in 0..Capacity-1
        OBVIOUS
      <3> QED BY <2>2, <3>1 DEF At
    <2> QED BY <2>1, <2>2
  <1>2. count \in Nat
    OBVIOUS
  <1> QED BY <1>1, <1>2 DEF Contents

\* The invariant is inductive.
LEMMA RingStep == RingInv /\ [RingNext]_ring => RingInv'
  <1> SUFFICES ASSUME RingInv, [RingNext]_ring PROVE RingInv'
    OBVIOUS
  <1> USE RingAssumption DEF RingInv, RingTypeOK
  <1>1. ASSUME NEW value \in Values, Push(value) PROVE RingInv'
    <2>1. head' = IF head + 1 < Capacity THEN head + 1 ELSE 0
      BY <1>1, NextPlace DEF Push
    <2> QED BY <1>1, <2>1 DEF Push
  <1>2. CASE Clear
    BY <1>2 DEF Clear
  <1>3. CASE UNCHANGED ring
    BY <1>3 DEF ring
  <1> QED BY <1>1, <1>2, <1>3 DEF RingNext

\* One Push is one Push of the history.
LEMMA PushRefines ==
    ASSUME RingInv, NEW value \in Values, Push(value)
    PROVE  History!Push(value)
  <1> USE RingAssumption DEF RingInv, RingTypeOK
  <1> DEFINE kept == IF Len(Contents) < Capacity THEN Contents ELSE Tail(Contents)
             next == Append(kept, value)
  <1>1. RingInv'
    BY RingStep DEF RingNext
  <1>2. Contents \in Seq(Values) /\ Len(Contents) = count
    BY ContentsIsSeq
  <1>3. (Contents \in Seq(Values) /\ Len(Contents) = count)'
    BY <1>1, ContentsIsSeq, PTL
  <1>4. head' = IF head + 1 < Capacity THEN head + 1 ELSE 0
    BY NextPlace DEF Push
  <1>5. CASE count < Capacity
    <2>1. head = count /\ count' = count + 1 /\ data' = [data EXCEPT ![count] = value]
      BY <1>5 DEF Push
    <2>2. next \in Seq(Values) /\ Len(next) = count + 1
      BY <1>2, <1>5
    <2>3. ASSUME NEW i \in 1..count+1 PROVE Contents'[i] = next[i]
      <3>1. Contents'[i] = data'[i - 1]
        <4>1. CASE count + 1 < Capacity
          BY <2>1, <4>1 DEF Contents, At
        <4>2. CASE count + 1 = Capacity
          <5>1. (i - 1) % Capacity = i - 1
            BY <4>2, Wrap
          <5>2. head' = 0 /\ ~(count' < Capacity)
            BY <2>1, <1>4, <4>2
          <5>3. At(i - 1)' = data'[(head' + (i - 1)) % Capacity]
            BY <5>2 DEF At
          <5>4. Contents'[i] = At(i - 1)'
            BY <2>1 DEF Contents
          <5>5. head' + (i - 1) = i - 1
            BY <5>2
          <5> QED BY <5>1, <5>3, <5>4, <5>5
        <4> QED BY <1>5, <4>1, <4>2
      <3>2. next[i] = IF i = count + 1 THEN value ELSE data[i - 1]
        BY <1>2, <1>5 DEF Contents, At
      <3>3. data'[i - 1] = IF i = count + 1 THEN value ELSE data[i - 1]
        BY <2>1, <1>5
      <3> HIDE DEF next
      <3> QED BY <3>1, <3>2, <3>3
    <2>4. Contents' = next
      BY <1>3, <2>1, <2>2, <2>3
    <2> QED BY <2>4 DEF History!Push
  <1>6. CASE ~(count < Capacity)
    <2>1. count = Capacity /\ count' = Capacity
      BY <1>6 DEF Push
    <2>2. kept = Tail(Contents) /\ Len(kept) = Capacity - 1 /\ kept \in Seq(Values)
      BY <1>2, <2>1
    <2>3. next \in Seq(Values) /\ Len(next) = Capacity
      BY <2>2
    <2>4. ASSUME NEW i \in 1..Capacity PROVE Contents'[i] = next[i]
      <3>1. PICK j \in Nat : j = head' + (i - 1) /\ j < 2 * Capacity
        BY <1>4
      <3>2. (j % Capacity) = (IF j < Capacity THEN j ELSE j - Capacity)
        BY <3>1, Wrap
      <3>3. Contents'[i] = data'[j % Capacity]
        BY <2>1, <3>1 DEF Contents, At
      <3>4. CASE i = Capacity
        <4>1. (j % Capacity) = head
          BY <3>1, <3>2, <3>4, <1>4
        <4>2. next[i] = value
          BY <2>2, <3>4
        <4> QED BY <3>3, <4>1, <4>2 DEF Push
      <3>5. CASE i # Capacity
        <4>1. next[i] = Contents[i + 1]
          BY <1>2, <2>1, <2>2, <3>5
        <4>2. Contents[i + 1] = data[(head + i) % Capacity]
          BY <2>1, <3>5 DEF Contents, At
        <4>3. ((head + i) % Capacity) = (IF head + i < Capacity THEN head + i ELSE head + i - Capacity)
          <5> DEFINE k == head + i
          <5>1. k \in Nat /\ k < 2 * Capacity
            BY <3>5
          <5>2. (k % Capacity) = (IF k < Capacity THEN k ELSE k - Capacity)
            <6> HIDE DEF k
            <6> QED BY <5>1, Wrap
          <5> QED BY <5>2
        <4>4. (j % Capacity) = ((head + i) % Capacity) /\ ((head + i) % Capacity) # head
          BY <1>4, <3>1, <3>2, <3>5, <4>3
        <4>5. (head + i) % Capacity \in 0..Capacity-1
          BY <4>3
        <4> QED BY <3>3, <4>1, <4>2, <4>4, <4>5 DEF Push
      <3> QED BY <3>4, <3>5
    <2>5. Contents' = next
      BY <1>3, <2>1, <2>3, <2>4
    <2> QED BY <2>5 DEF History!Push
  <1> QED BY <1>5, <1>6

\* RingBuffer keeps exactly the last Capacity values since Clear, in order.
THEOREM RingRefinesHistory == RingSpec => KeepsLastSamples
  <1>1. RingInit => RingInv /\ History!Init
    BY RingAssumption DEF RingInit, RingInv, RingTypeOK, History!Init, Contents
  <1>2. RingInv /\ [RingNext]_ring => [History!Next]_Contents
    <2> SUFFICES ASSUME RingInv, [RingNext]_ring PROVE [History!Next]_Contents
      OBVIOUS
    <2>1. ASSUME NEW value \in Values, Push(value) PROVE History!Next
      BY <2>1, PushRefines DEF History!Next
    <2>2. CASE Clear
      BY <2>2 DEF Clear, History!Next, History!Clear, Contents
    <2>3. CASE UNCHANGED ring
      BY <2>3 DEF ring, Contents, At
    <2> QED BY <2>1, <2>2, <2>3 DEF RingNext
  <1> QED BY <1>1, <1>2, RingStep, PTL DEF RingSpec, KeepsLastSamples, History!Spec

----------------------------------------------------------------------------
(* FrameMetrics *)

\* The types, and what the ring's own invariant adds.
MetricsInv == TypeOK /\ RingInv

\* The constructor sets up the types and the ring.
LEMMA MetricsInitial == Init => MetricsInv
  <1> SUFFICES ASSUME Init PROVE MetricsInv
    OBVIOUS
  <1>1. RingTypeOK /\ RingInv
    BY RingAssumption DEF Init, RingInit, RingTypeOK, RingInv
  <1>2. haveLast \in BOOLEAN
    BY DEF Init
  <1> QED BY <1>1, <1>2 DEF Init, MetricsInv, TypeOK

\* What is pushed is a value of the ring: a difference that is positive and not
\* above the limit.
LEMMA MetricsRing == ASSUME TypeOK, [Next]_vars PROVE [RingNext]_ring
  <1>1. ASSUME NEW time \in Timestamps, RecordTimestamp(time) PROVE [RingNext]_ring
    <2>1. CASE ~haveLast
      BY <1>1, <2>1 DEF RecordTimestamp
    <2>2. CASE haveLast
      <3> DEFINE delta == time - lastTimestamp
                 value == IF delta > maxFrametime THEN maxFrametime ELSE delta
      <3>1. time \in Nat /\ lastTimestamp \in Nat /\ time > lastTimestamp /\ maxFrametime \in Nat \ {0}
        BY <1>1, <2>2, MetricsAssumption DEF RecordTimestamp, TypeOK
      <3>2. value \in 1..maxFrametime
        BY <3>1
      <3>3. value \in Values
        BY <3>2, MetricsAssumption DEF TypeOK
      <3>4. Push(value)
        BY <1>1, <2>2 DEF RecordTimestamp
      <3> HIDE DEF value
      <3> QED BY <3>3, <3>4 DEF RingNext
    <2> QED BY <2>1, <2>2
  <1>2. CASE \E ms \in MaxFrametimes : SetMaxFrametimeMs(ms)
    BY <1>2 DEF SetMaxFrametimeMs
  <1>3. CASE Reset
    BY <1>3 DEF Reset, RingNext
  <1>4. CASE UNCHANGED vars
    BY <1>4 DEF vars
  <1> QED BY <1>1, <1>2, <1>3, <1>4 DEF Next

\* They are kept by every step,
LEMMA MetricsStep == MetricsInv /\ [Next]_vars => MetricsInv'
  <1> SUFFICES ASSUME MetricsInv, [Next]_vars PROVE MetricsInv'
    OBVIOUS
  <1>1. RingInv'
    BY MetricsRing, RingStep DEF MetricsInv
  <1>2. (lastTimestamp \in Timestamps \cup {0} /\ haveLast \in BOOLEAN /\ maxFrametime \in MaxFrametimes)'
    BY DEF MetricsInv, TypeOK, Next, vars, RecordTimestamp, SetMaxFrametimeMs, Reset
  <1> QED BY <1>1, <1>2 DEF MetricsInv, TypeOK, RingInv

\* and hold in every reachable state.
LEMMA MetricsInvariance == Spec => []MetricsInv
  BY MetricsInitial, MetricsStep, PTL DEF Spec

\* Every variable of FrameMetrics keeps its type.
THEOREM MetricsTyping == Spec => []TypeOK
  <1>1. MetricsInv => TypeOK
    BY DEF MetricsInv
  <1> QED BY <1>1, MetricsInvariance, PTL

\* FrameMetrics uses its ring as RingBuffer lets it be used.
THEOREM ImplementsRing == Spec => RingSpec
  <1>1. Init => RingInit
    BY DEF Init
  <1>2. MetricsInv /\ [Next]_vars => [RingNext]_ring
    BY MetricsRing DEF MetricsInv
  <1> QED BY <1>1, <1>2, MetricsInvariance, PTL DEF Spec, RingSpec

\* The ring under FrameMetrics holds exactly the last Capacity frame times
\* since Reset, in order.
THEOREM HistoryTheorem == Spec => KeepsLastSamples
  BY ImplementsRing, RingRefinesHistory, PTL

----------------------------------------------------------------------------
(* ComputeStats *)

\* The newest samples are natural numbers, as many as there are up to the window.
LEMMA SamplesType ==
    ASSUME TypeOK, count > 0
    PROVE  \E n \in Nat \ {0} : n <= Window /\ Samples \in [1..n -> Nat]
  <1> DEFINE n == IF count < Window THEN count ELSE Window
  <1>1. count \in Nat /\ count <= Capacity /\ head \in Nat /\ Capacity \in Nat \ {0}
    BY RingAssumption DEF TypeOK, RingTypeOK
  <1>2. Window \in Nat \ {0}
    BY <1>1, MetricsAssumption DEF Window, kMaxWindow
  <1>3. n \in Nat \ {0} /\ n <= Window /\ n <= count
    BY <1>1, <1>2
  <1>4. ASSUME NEW i \in 1..n PROVE At(count - n + i - 1) \in Nat
    <2> DEFINE k == count - n + i - 1
    <2>1. k \in 0..count-1
      BY <1>1, <1>3
    <2>2. (head + k) % Capacity \in 0..Capacity-1
      <3> HIDE DEF k
      <3> QED BY <1>1, <2>1
    <2>3. \A j \in 0..Capacity-1 : data[j] \in Nat
      BY MetricsAssumption DEF TypeOK, RingTypeOK
    <2> HIDE DEF k
    <2>4. At(k) \in Nat
      BY <1>1, <2>1, <2>2, <2>3 DEF At
    <2> QED BY <2>4 DEF k
  <1>5. Samples = [i \in 1..n |-> At(count - n + i - 1)]
    BY DEF Samples
  <1>6. Samples \in [1..n -> Nat]
    BY <1>4, <1>5
  <1> HIDE DEF n
  <1> QED BY <1>3, <1>6

\* A finite set can be put in an order in which a given weight does not fall:
\* the heaviest element last, the others before it.
LEMMA OrderExists ==
    ASSUME NEW U, IsFiniteSet(U), NEW w \in [U -> Int]
    PROVE  \E p \in Surjection(1..Cardinality(U), U) :
              \A i, j \in 1..Cardinality(U) : i < j => w[p[i]] <= w[p[j]]
  <1> DEFINE Ordered(p, T) == /\ p \in Surjection(1..Cardinality(T), T)
                              /\ \A i, j \in 1..Cardinality(T) : i < j => w[p[i]] <= w[p[j]]
             bad == {T \in SUBSET U : ~\E p : Ordered(p, T)}
  <1>1. SUFFICES ASSUME bad # {} PROVE FALSE
    OBVIOUS
  <1>2. PICK T \in bad : \A t \in SUBSET T : t # T => t \notin bad
    <2>1. bad \in SUBSET SUBSET U
      OBVIOUS
    <2> HIDE DEF bad
    <2> QED BY <1>1, <2>1, LeastSubset
  <1>3. T \in SUBSET U /\ IsFiniteSet(T) /\ ~\E p : Ordered(p, T)
    BY FS_Subset
  <1>4. T # {}
    <2> SUFFICES ASSUME T = {} PROVE Ordered(<<>>, T)
      BY <1>3
    <2>1. Cardinality(T) = 0
      BY FS_EmptySet
    <2>2. 1..Cardinality(T) = {}
      BY <2>1
    <2> QED BY <2>2 DEF Surjection
  <1>5. PICK x \in T : \A y \in T : w[x] >= w[y]
    <2> DEFINE weights == {w[y] : y \in T}
    <2>1. IsFiniteSet(weights)
      <3> DEFINE f == [y \in T |-> w[y]]
      <3>1. f \in Surjection(T, weights)
        BY DEF Surjection
      <3> HIDE DEF f, weights
      <3> QED BY <1>3, <3>1, FS_Surjection
    <2>2. weights \in SUBSET Int /\ weights # {}
      BY <1>3, <1>4
    <2>3. PICK m \in weights : \A k \in weights : m >= k
      <3> HIDE DEF weights
      <3> QED BY <2>1, <2>2, GreatestElement
    <2> QED BY <2>3
  <1> DEFINE R == T \ {x}
             n == Cardinality(R)
  <1>6. R \in SUBSET T /\ R # T /\ R \in SUBSET U
    BY <1>3
  <1>7. PICK p : Ordered(p, R)
    <2> HIDE DEF Ordered
    <2> QED BY <1>2, <1>6
  <1>8. Cardinality(T) = n + 1 /\ n \in Nat
    <2>1. IsFiniteSet(R) /\ Cardinality(R) = Cardinality(T) - 1
      BY <1>3, FS_RemoveElement
    <2>2. Cardinality(T) \in Nat /\ Cardinality(R) \in Nat
      BY <1>3, <2>1, FS_CardinalityType
    <2> QED BY <2>1, <2>2
  <1>9. /\ p \in [1..n -> R] /\ \A y \in R : \E i \in 1..n : p[i] = y
        /\ \A i, j \in 1..n : i < j => w[p[i]] <= w[p[j]]
    BY <1>7 DEF Surjection
  <1> DEFINE q == [i \in 1..n+1 |-> IF i = n + 1 THEN x ELSE p[i]]
  <1> HIDE DEF n, R, bad, Ordered
  <1>10. \A i \in 1..n : q[i] = p[i] /\ p[i] \in R
    BY <1>8, <1>9
  <1>11. q[n + 1] = x
    BY <1>8
  <1>12. q \in [1..n+1 -> T]
    BY <1>6, <1>8, <1>9
  <1> HIDE DEF q
  <1>13. \A y \in T : \E i \in 1..n+1 : q[i] = y
    <2> SUFFICES ASSUME NEW y \in T PROVE \E i \in 1..n+1 : q[i] = y
      OBVIOUS
    <2>1. CASE y = x
      BY <1>8, <1>11, <2>1
    <2>2. CASE y # x
      <3>1. y \in R
        BY <2>2 DEF R
      <3>2. PICK i \in 1..n : p[i] = y
        BY <1>9, <3>1
      <3>3. i \in 1..n+1 /\ q[i] = y
        BY <1>8, <1>10, <3>2
      <3> QED BY <3>3
    <2> QED BY <2>1, <2>2
  <1>14. ASSUME NEW i \in 1..n+1, NEW j \in 1..n+1, i < j PROVE w[q[i]] <= w[q[j]]
    <2>1. i \in 1..n
      BY <1>8, <1>14
    <2>2. CASE j = n + 1
      BY <1>5, <1>6, <1>10, <1>11, <2>1, <2>2
    <2>3. CASE j # n + 1
      <3>1. j \in 1..n
        BY <1>8, <2>3
      <3> QED BY <1>9, <1>10, <1>14, <2>1, <3>1
    <2> QED BY <2>2, <2>3
  <1>15. Ordered(q, T)
    BY <1>8, <1>12, <1>13, <1>14 DEF Ordered, Surjection
  <1> QED BY <1>3, <1>15

\* Sorting gives the samples in an order in which they do not fall.
LEMMA SortedOrders ==
    ASSUME NEW n \in Nat, NEW s \in [1..n -> Int]
    PROVE  \E p \in Bijection(1..n, 1..n) :
              /\ Sorted(s) = [i \in 1..n |-> s[p[i]]]
              /\ \A i, j \in 1..n : i < j => s[p[i]] <= s[p[j]]
  <1>1. IsFiniteSet(1..n) /\ Cardinality(1..n) = n
    BY FS_Interval
  <1>2. PICK p \in Surjection(1..n, 1..n) : \A i, j \in 1..n : i < j => s[p[i]] <= s[p[j]]
    BY <1>1, OrderExists
  <1>3. p \in Bijection(1..n, 1..n)
    BY <1>1, <1>2, FS_Surjection DEF Bijection
  <1> DEFINE order == CHOOSE o \in Bijection(1..n, 1..n) :
                         \A i, j \in 1..n : i < j => s[o[i]] <= s[o[j]]
  <1>4. order \in Bijection(1..n, 1..n) /\ \A i, j \in 1..n : i < j => s[order[i]] <= s[order[j]]
    BY <1>2, <1>3
  <1>5. Sorted(s) = [i \in 1..n |-> s[order[i]]]
    BY DEF Sorted
  <1> HIDE DEF order
  <1> QED BY <1>4, <1>5

\* Where a percentile is read: a place of the window that leaves at least so
\* many per mille of it at or below, and not before that of a lower one.
Place(n, permille) ==
    LET index == (permille * n + 999) \div 1000
    IN  1 + (IF index >= n THEN n - 1 ELSE index)

\* The place is inside the window, and far enough up.
LEMMA PlaceBounds ==
    ASSUME NEW n \in Nat \ {0}, NEW permille \in 0..1000
    PROVE  Place(n, permille) \in 1..n /\ 1000 * Place(n, permille) >= permille * n
  <1> DEFINE m     == permille * n
             index == (m + 999) \div 1000
  <1>1. m \in Nat /\ m <= 1000 * n
    <2>1. permille \in Nat /\ 1000 - permille \in Nat
      OBVIOUS
    <2>2. permille * n \in Nat /\ (1000 - permille) * n \in Nat
      BY <2>1
    <2>3. (1000 - permille) * n = 1000 * n - permille * n
      OBVIOUS
    <2> QED BY <2>2, <2>3
  <1>2. index \in Nat /\ 1000 * index >= m
    <2> HIDE DEF m
    <2> QED BY <1>1
  <1> HIDE DEF m, index
  <1>3. Place(n, permille) = 1 + (IF index >= n THEN n - 1 ELSE index)
    BY DEF Place, index, m
  <1>4. CASE index >= n
    BY <1>1, <1>2, <1>3, <1>4 DEF m
  <1>5. CASE ~(index >= n)
    BY <1>1, <1>2, <1>3, <1>5 DEF m
  <1> QED BY <1>4, <1>5

\* p99 is not placed above p99.9.
LEMMA PlaceMonotone ==
    ASSUME NEW n \in Nat \ {0}
    PROVE  Place(n, 990) <= Place(n, 999)
  BY DEF Place

\* A value at place k of the order has at least k samples that are not above it.
LEMMA NotAboveAtLeast ==
    ASSUME NEW n \in Nat \ {0}, NEW s \in [1..n -> Int], NEW p \in Bijection(1..n, 1..n),
           \A i, j \in 1..n : i < j => s[p[i]] <= s[p[j]],
           NEW k \in 1..n
    PROVE  Cardinality({i \in 1..n : s[i] <= s[p[k]]}) >= k
  <1> DEFINE low == {i \in 1..n : s[i] <= s[p[k]]}
             f   == [i \in 1..k |-> p[i]]
  <1>1. IsFiniteSet(low)
    BY FS_Interval, FS_Subset
  <1>2. ASSUME NEW i \in 1..k PROVE i \in 1..n /\ p[i] \in low
    <2>1. i \in 1..n /\ p[i] \in 1..n
      <3>1. p \in [1..n -> 1..n]
        BY DEF Bijection, Surjection
      <3>2. i \in 1..n
        OBVIOUS
      <3> QED BY <3>1, <3>2
    <2>2. CASE i = k
      BY <2>1, <2>2
    <2>3. CASE i # k
      BY <2>1, <2>3
    <2> QED BY <2>1, <2>2, <2>3
  <1>3. f \in Injection(1..k, low)
    <2>1. f \in [1..k -> low]
      BY <1>2
    <2>2. \A i, j \in 1..k : f[i] = f[j] => i = j
      BY <1>2 DEF Bijection, Injection, IsInjective
    <2> HIDE DEF f, low
    <2> QED BY <2>1, <2>2 DEF Injection, IsInjective
  <1>4. IsFiniteSet(1..k) /\ Cardinality(1..k) = k
    BY FS_Interval
  <1> HIDE DEF f, low
  <1>5. Cardinality(1..k) <= Cardinality(low)
    BY <1>1, <1>3, <1>4, FS_Injection
  <1> QED BY <1>4, <1>5 DEF low

\* Half of the samples cannot each be above twice the mean.
LEMMA FewStutter ==
    ASSUME NEW n \in Nat \ {0}, NEW s \in [1..n -> Nat]
    PROVE  LET stutters == Cardinality({i \in 1..n : s[i] * n > 2 * Sum(s)})
           IN  2 * stutters < n \/ stutters = 0
  <1> DEFINE high     == {i \in 1..n : s[i] * n > 2 * Sum(s)}
             stutters == Cardinality(high)
             part     == SumOf(s, high)
             whole    == SumOf(s, 1..n)
             b        == 2 * whole + 1
  <1>1. Sum(s) = whole
    BY DEF Sum
  <1>2. IsFiniteSet(1..n) /\ high \in SUBSET (1..n) /\ IsFiniteSet(high)
    <2>1. IsFiniteSet(1..n)
      BY FS_Interval
    <2>2. high \in SUBSET (1..n)
      OBVIOUS
    <2> HIDE DEF high
    <2> QED BY <2>1, <2>2, FS_Subset
  <1>3. whole \in Nat /\ part \in Nat /\ part <= whole /\ stutters \in Nat
    <2> HIDE DEF high
    <2> QED BY <1>2, SumType, SumSubset, FS_CardinalityType
  <1>4. b \in Nat /\ \A i \in high : s[i] \in Nat /\ n * s[i] >= b
    <2> HIDE DEF whole
    <2>1. \A i \in high : s[i] \in Nat /\ s[i] * n = n * s[i] /\ s[i] * n > 2 * whole
      BY <1>1
    <2> QED BY <1>3, <2>1
  <1>5. n * part >= b * stutters
    <2> HIDE DEF high, b
    <2> QED BY <1>2, <1>4, SumAtLeast
  <1> HIDE DEF high, stutters, part, whole
  <1>6. SUFFICES ASSUME stutters > 0 PROVE 2 * stutters < n
    BY <1>3 DEF stutters, high
  <1>7. n * whole >= n * part
    <2>1. whole - part \in Nat
      BY <1>3
    <2>2. n * (whole - part) \in Nat /\ n * (whole - part) = n * whole - n * part
      BY <1>3, <2>1
    <2> QED BY <1>3, <2>2
  <1>8. b * stutters = whole * (2 * stutters) + stutters
    BY <1>3
  <1>9. n * whole > whole * (2 * stutters)
    <2>1. n * whole \in Int /\ n * part \in Int /\ whole * (2 * stutters) \in Int /\ b * stutters \in Int
      BY <1>3
    <2> HIDE DEF b
    <2> QED BY <1>3, <1>5, <1>6, <1>7, <1>8, <2>1
  <1>10. ASSUME 2 * stutters >= n PROVE FALSE
    <2>1. 2 * stutters - n \in Nat
      BY <1>3, <1>10
    <2>2. whole * (2 * stutters - n) \in Nat
      BY <1>3, <2>1
    <2>3. whole * (2 * stutters - n) = whole * (2 * stutters) - n * whole
      BY <1>3
    <2> QED BY <1>3, <1>9, <2>2, <2>3
  <1> QED BY <1>3, <1>10

\* The figures of a state with samples, in terms of their order.
LEMMA StatsInv == ASSUME TypeOK PROVE StatsConsistent
  <1> SUFFICES ASSUME count > 0 PROVE StatsConsistent
    BY DEF StatsConsistent
  <1> DEFINE s == Samples
             st == ComputeStats
             NotAbove(v) == Cardinality({i \in 1..st.total : s[i] <= v})
  <1>1. PICK n \in Nat \ {0} : n <= Window /\ s \in [1..n -> Nat]
    BY SamplesType
  <1>2. PICK p \in Bijection(1..n, 1..n) :
           /\ Sorted(s) = [i \in 1..n |-> s[p[i]]]
           /\ \A i, j \in 1..n : i < j => s[p[i]] <= s[p[j]]
    <2>1. s \in [1..n -> Int]
      BY <1>1
    <2> HIDE DEF s
    <2> QED BY <2>1, SortedOrders
  <1> DEFINE k == Place(n, 990)
             l == Place(n, 999)
             values == Range(s)
  <1> HIDE DEF s
  <1>3. k \in 1..n /\ l \in 1..n /\ k <= l /\ 1000 * k >= 990 * n /\ 1000 * l >= 999 * n
    BY PlaceBounds, PlaceMonotone
  <1>4. Len(s) = n /\ Len(Sorted(s)) = n /\ \A i \in 1..n : p[i] \in 1..n
    <2>1. \A i \in 1..n : p[i] \in 1..n
      BY DEF Bijection, Surjection
    <2>2. s \in Seq(Nat) /\ Sorted(s) \in Seq(Nat)
      BY <1>1, <1>2, <2>1
    <2> QED BY <1>1, <1>2, <2>1, <2>2
  <1> HIDE DEF k, l
  <1>5. /\ Percentile(Sorted(s), 990) = s[p[k]]
        /\ Percentile(Sorted(s), 999) = s[p[l]]
    <2>1. /\ Percentile(Sorted(s), 990) = Sorted(s)[k]
          /\ Percentile(Sorted(s), 999) = Sorted(s)[l]
      BY <1>4 DEF Percentile, Place, k, l
    <2> QED BY <1>2, <1>3, <2>1
  <1>6. /\ st.total = n /\ st.sum = Sum(s) /\ st.min = Min(values) /\ st.max = Max(values)
        /\ st.p99 = s[p[k]] /\ st.p999 = s[p[l]]
        /\ st.stutters = Cardinality({i \in 1..n : s[i] * n > 2 * Sum(s)})
    BY <1>4, <1>5 DEF ComputeStats, s
  <1> HIDE DEF st
  <1>7. /\ IsFiniteSet(values) /\ values \in SUBSET Nat /\ values # {}
        /\ \A i \in 1..n : s[i] \in values
    <2>1. values = {s[i] : i \in 1..n}
      BY <1>1 DEF Range
    <2>2. s \in Surjection(1..n, values)
      BY <1>1, <2>1 DEF Surjection
    <2>3. IsFiniteSet(1..n)
      BY FS_Interval
    <2>4. IsFiniteSet(values)
      <3> HIDE DEF values
      <3> QED BY <2>2, <2>3, FS_Surjection
    <2>5. values \in SUBSET Nat /\ \A i \in 1..n : s[i] \in values
      BY <1>1, <2>1
    <2>6. 1 \in 1..n
      OBVIOUS
    <2> HIDE DEF values
    <2> QED BY <2>4, <2>5, <2>6
  <1> HIDE DEF values
  <1>8. /\ Min(values) \in Nat /\ Max(values) \in Nat
        /\ \A i \in 1..n : Min(values) <= s[i] /\ s[i] <= Max(values)
    <2>1. values \in SUBSET Int
      BY <1>7
    <2> QED BY <1>7, <2>1, MinIn, MaxIn
  <1>9. st.min <= st.p99 /\ st.p99 <= st.p999 /\ st.p999 <= st.max
    <2>1. p[k] \in 1..n /\ p[l] \in 1..n
      BY <1>3, <1>4
    <2>2. s[p[k]] <= s[p[l]]
      <3>1. CASE k = l
        BY <1>1, <2>1, <3>1
      <3>2. CASE k # l
        BY <1>2, <1>3, <3>2
      <3> QED BY <3>1, <3>2
    <2> QED BY <1>6, <1>8, <2>1, <2>2
  <1>10. 1000 * NotAbove(st.p99) >= 990 * st.total /\ 1000 * NotAbove(st.p999) >= 999 * st.total
    <2> DEFINE below99  == Cardinality({i \in 1..n : s[i] <= s[p[k]]})
               below999 == Cardinality({i \in 1..n : s[i] <= s[p[l]]})
    <2>1. s \in [1..n -> Int]
      BY <1>1
    <2>2. below99 >= k /\ below999 >= l
      <3>1. \A m \in 1..n : Cardinality({i \in 1..n : s[i] <= s[p[m]]}) >= m
        BY <1>2, <2>1, NotAboveAtLeast
      <3> QED BY <1>3, <3>1
    <2>3. below99 \in Nat /\ below999 \in Nat
      <3>1. IsFiniteSet(1..n)
        BY FS_Interval
      <3>2. \A v : IsFiniteSet({i \in 1..n : s[i] <= v})
        BY <3>1, FS_Subset
      <3> QED BY <3>2, FS_CardinalityType
    <2>4. NotAbove(st.p99) = below99 /\ NotAbove(st.p999) = below999
      BY <1>6
    <2> HIDE DEF below99, below999, NotAbove
    <2> QED BY <1>3, <1>6, <2>2, <2>3, <2>4
  <1>11. st.min * st.total <= st.sum /\ st.sum <= st.max * st.total
    <2>1. IsFiniteSet(1..n) /\ Cardinality(1..n) = n
      BY FS_Interval
    <2>2. Sum(s) = SumOf(s, 1..n)
      BY <1>1 DEF Sum
    <2>3. SumOf(s, 1..n) \in Nat
      BY <1>1, <2>1, SumType
    <2>4. \A i \in 1..n : s[i] \in Nat /\ 1 * s[i] >= Min(values)
      BY <1>1, <1>8
    <2>5. 1 * SumOf(s, 1..n) >= Min(values) * Cardinality(1..n)
      BY <1>8, <2>1, <2>4, SumAtLeast
    <2>6. SumOf(s, 1..n) <= Max(values) * Cardinality(1..n)
      BY <1>1, <1>8, <2>1, SumAtMost
    <2> QED BY <1>6, <2>1, <2>2, <2>3, <2>5, <2>6
  <1>12. 2 * st.stutters < st.total \/ st.stutters = 0
    BY <1>1, <1>6, FewStutter
  <1>13. st.total <= Window
    BY <1>1, <1>6
  <1> QED BY <1>9, <1>10, <1>11, <1>12, <1>13 DEF StatsConsistent, st, s

\* In every reachable state the statistics agree with each other and with
\* definitions that do not sort: percentiles, mean, extremes and stutters.
THEOREM StatsTheorem == Spec => []StatsConsistent
  BY MetricsTyping, StatsInv, PTL
============================================================================
