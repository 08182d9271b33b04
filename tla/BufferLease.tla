---------------------------- MODULE BufferLease ----------------------------
(***************************************************************************)
(* What the capture pipeline promises about one pool of buffers: while the *)
(* pool is open every buffer is either free or leased to one frame, a      *)
(* lease ends by exactly one return, and closing the pool ends every lease *)
(* at once, a return after it meaning nothing.                             *)
(***************************************************************************)
CONSTANT Buffers

VARIABLES open, free, leased

vars == <<open, free, leased>>

Init == open = FALSE /\ free = {} /\ leased = {}

Open ==
    /\ ~open
    /\ open' = TRUE /\ free' = Buffers /\ leased' = {}

TakeOut(b) ==
    /\ open /\ b \in free \ leased
    /\ free' = free \ {b} /\ leased' = leased \cup {b}
    /\ UNCHANGED open

Return(b) ==
    /\ open /\ b \in leased \ free
    /\ leased' = leased \ {b} /\ free' = free \cup {b}
    /\ UNCHANGED open

Close ==
    /\ open
    /\ open' = FALSE /\ free' = {} /\ leased' = {}

Next == Open \/ Close \/ \E b \in Buffers : TakeOut(b) \/ Return(b)

Spec == Init /\ [][Next]_vars
=============================================================================
