--------------------------- MODULE BoundedHistory ---------------------------
(***************************************************************************)
(* What a RingBuffer promises: the last Capacity values pushed since the   *)
(* last Clear, oldest first.                                               *)
(***************************************************************************)
EXTENDS Naturals, Sequences

CONSTANTS Capacity, Values

VARIABLE samples

Init == samples = <<>>

Push(value) ==
    samples' = Append(IF Len(samples) < Capacity THEN samples ELSE Tail(samples), value)

Clear == samples' = <<>>

Next == Clear \/ \E value \in Values : Push(value)

Spec == Init /\ [][Next]_samples
=============================================================================
