----------------------------- MODULE RingBuffer -----------------------------
(***************************************************************************)
(* RingBuffer<T, Capacity>: an array, the place of the next write and the  *)
(* number of samples kept.  FrameMetrics, its user, extends this module.   *)
(***************************************************************************)
EXTENDS Integers, Sequences

CONSTANTS Capacity, Values,
          Zero \* what data_{} holds before a write

ASSUME RingAssumption == Capacity \in Nat \ {0} /\ Zero \in Values

VARIABLES data, head, count

ring == <<data, head, count>>

RingInit == data = [i \in 0..Capacity-1 |-> Zero] /\ head = 0 /\ count = 0

Push(value) ==
    /\ data'  = [data EXCEPT ![head] = value]
    /\ head'  = (head + 1) % Capacity
    /\ count' = IF count < Capacity THEN count + 1 ELSE count

\* Mutant: Clear leaves the place of the next write.
ClearCountOnly == count' = 0 /\ UNCHANGED <<data, head>>

\* Clear leaves the old samples in the array.
Clear == head' = 0 /\ count' = 0 /\ UNCHANGED data

RingNext == Clear \/ \E value \in Values : Push(value)

RingSpec == RingInit /\ [][RingNext]_ring

\* operator[]: 0 is the oldest sample.
At(i) == IF count < Capacity THEN data[i] ELSE data[(head + i) % Capacity]

\* CopyTo: all samples, oldest first.
Contents == [i \in 1..count |-> At(i - 1)]

----------------------------------------------------------------------------
\* Every variable keeps its type.
RingTypeOK ==
    /\ data \in [0..Capacity-1 -> Values]
    /\ head \in 0..Capacity-1
    /\ count \in 0..Capacity

History == INSTANCE BoundedHistory WITH samples <- Contents

\* "[0] = oldest retained sample, [Size()-1] = newest", and once full the
\* oldest is overwritten: through wrap-around and Clear, Contents is the last
\* Capacity values.
KeepsLastSamples == History!Spec
=============================================================================
