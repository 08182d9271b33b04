-------------------------- MODULE SchedulerProofs --------------------------
(***************************************************************************)
(* For any threads, nice values and policies: the types, that a renice     *)
(* passes over no thread that lives through it, and what the average says. *)
(***************************************************************************)
EXTENDS ProcessScheduler, TLAPS

\* The kernel's range, whatever the caller asks for.
LEMMA ClampRange ==
    ASSUME NEW value \in Int
    PROVE  ClampNice(value) \in -20..19
  BY DEF ClampNice

\* The beginning of a call keeps the types.
LEMMA OpenTypes ==
    ASSUME TypeOK, NEW called \in {"renice", "average", "restore"}, NEW value \in -20..19,
           NEW none, Open(called, value, none)
    PROVE  TypeOK'
  <1> USE SchedulerAssumption DEF Open, TypeOK, kernel, locals
  <1>1. CASE alive = {}
    BY <1>1
  <1>2. CASE alive # {}
    <2>1. {nice[t] : t \in alive} \subseteq -20..19
      OBVIOUS
    <2>2. /\ op' = called /\ phase' = "scan" /\ arg' = value /\ tids' = {} /\ sum' = 0 /\ count' = 0
          /\ since' = alive /\ denied' = {} /\ before' \subseteq -20..19
      BY <1>2, <2>1
    <2>3. any_ok' \in BOOLEAN
      BY <1>2
    <2>4. UNCHANGED <<kernel, privileged>>
      OBVIOUS
    <2> HIDE DEF Open
    <2> QED BY <2>2, <2>3, <2>4
  <1> QED BY <1>1, <1>2

\* The end of a call leaves locals of their types.
LEMMA ReturnTypes ==
    ASSUME TypeOK, Return, alive' = alive, nice' = nice, clones' = clones, privileged' = privileged,
           policy' \in [Tids -> {"OTHER", "BATCH", "FIFO", "RR"}],
           \A t \in Tids : policy'[t] \in RealTime => privileged /\ Cores > 2
    PROVE  TypeOK'
  <1>1. /\ op' = "none" /\ phase' = "scan" /\ arg' \in -20..19 /\ tids' = {} /\ sum' \in Int
        /\ count' \in Nat /\ since' = {} /\ denied' = {} /\ before' = {}
    BY DEF Return
  <1>2. any_ok' \in BOOLEAN
    BY DEF Return
  <1> QED BY <1>1, <1>2 DEF TypeOK

\* A new thread has its parent's values, which are of their types.
LEMMA CloneTypes == ASSUME TypeOK, Clone PROVE TypeOK'
  <1> USE SchedulerAssumption DEF TypeOK, locals, RealTime
  <1>1. PICK t \in alive, child \in Tids \ alive :
          /\ child # Pid /\ alive' = alive \cup {child}
          /\ nice' = [nice EXCEPT ![child] = nice[t]]
          /\ policy' = [policy EXCEPT ![child] = policy[t]]
    BY DEF Clone
  <1>2. nice' \in [Tids -> -20..19] /\ policy' \in [Tids -> {"OTHER", "BATCH", "FIFO", "RR"}]
    BY <1>1
  <1>3. \A u \in Tids : policy'[u] \in RealTime => privileged /\ Cores > 2
    BY <1>1
  <1>4. clones' \in 0..MaxClones
    BY DEF Clone
  <1> QED BY <1>1, <1>2, <1>3, <1>4 DEF Clone

\* Threads that are gone have the values of a thread that was never changed.
LEMMA ExitTypes ==
    ASSUME TypeOK, NEW gone \in SUBSET alive, Pid \in gone => gone = alive, Exit(gone)
    PROVE  TypeOK'
  <1> USE SchedulerAssumption DEF TypeOK, Exit, RealTime
  <1>1. nice' \in [Tids -> -20..19] /\ policy' \in [Tids -> {"OTHER", "BATCH", "FIFO", "RR"}]
    OBVIOUS
  <1>2. \A u \in Tids : policy'[u] \in RealTime => privileged /\ Cores > 2
    OBVIOUS
  <1>3. alive' \subseteq Tids /\ (alive' # {} => Pid \in alive') /\ since' \subseteq alive'
    OBVIOUS
  <1> QED BY <1>1, <1>2, <1>3

\* A policy is set on the main thread only if that is allowed.
LEMMA SchedulerTypes ==
    ASSUME TypeOK, NEW wanted \in {"OTHER", "BATCH", "FIFO", "RR"}, SetScheduler(wanted)
    PROVE  /\ alive' = alive /\ nice' = nice /\ clones' = clones /\ privileged' = privileged
           /\ policy' \in [Tids -> {"OTHER", "BATCH", "FIFO", "RR"}]
           /\ \A t \in Tids : policy'[t] \in RealTime => privileged /\ Cores > 2
  <1> USE SchedulerAssumption DEF TypeOK, SetScheduler
  <1>1. CASE Settable(wanted)
    BY <1>1 DEF Settable, RealTime
  <1>2. CASE ~Settable(wanted)
    BY <1>2
  <1> QED BY <1>1, <1>2

\* TypeOK is inductive.
LEMMA TypeStep == TypeOK /\ [Next]_vars => TypeOK'
  <1> SUFFICES ASSUME TypeOK, [Next]_vars PROVE TypeOK'
    OBVIOUS
  <1> USE SchedulerAssumption DEF kernel, locals
  <1>1. CASE Clone
    BY <1>1, CloneTypes
  <1>2. CASE ThreadExits
    BY <1>2, ExitTypes DEF ThreadExits
  <1>3. CASE ProcessExits
    BY <1>3, ExitTypes DEF ProcessExits
  <1>4. ASSUME NEW value \in NiceArgs, ReniceProcessThreads(value) PROVE TypeOK'
    BY <1>4, ClampRange, OpenTypes DEF ReniceProcessThreads
  <1>5. CASE GetAverageNice
    BY <1>5, OpenTypes DEF GetAverageNice
  <1>6. CASE RestoreDefaultScheduling
    <2>1. 0 \in -20..19
      OBVIOUS
    <2> QED BY <1>6, <2>1, OpenTypes DEF RestoreDefaultScheduling
  <1>7. ASSUME NEW wanted \in Policies, ApplySchedulingPolicy(wanted) PROVE TypeOK'
    BY <1>7, SchedulerTypes DEF ApplySchedulingPolicy, TypeOK
  <1>8. CASE ReadEntry
    BY <1>8 DEF ReadEntry, TypeOK
  <1>9. CASE EndOfDirectory
    BY <1>9 DEF EndOfDirectory, TypeOK
  <1>10. CASE SetPriority
    BY <1>10 DEF SetPriority, May, TypeOK
  <1>11. CASE GetPriority
    BY <1>11 DEF GetPriority, TypeOK
  <1>12. CASE ReniceReturns
    <2>1. Return /\ UNCHANGED <<kernel, privileged>>
      BY <1>12 DEF ReniceReturns
    <2> QED BY <2>1, ReturnTypes DEF TypeOK
  <1>13. CASE AverageReturns
    <2>1. Return /\ UNCHANGED <<kernel, privileged>>
      BY <1>13 DEF AverageReturns
    <2> QED BY <2>1, ReturnTypes DEF TypeOK
  <1>14. CASE RestoreReturns
    BY <1>14, SchedulerTypes, ReturnTypes DEF RestoreReturns
  <1>15. CASE UNCHANGED vars
    BY <1>15 DEF vars, TypeOK
  <1> QED BY <1>1, <1>2, <1>3, <1>4, <1>5, <1>6, <1>7, <1>8, <1>9, <1>10, <1>11, <1>12,
             <1>13, <1>14, <1>15 DEF Next

\* Every variable keeps its type; no thread is real time without privilege,
\* and none on a CPU of two cores or fewer.
THEOREM Typing == Spec => []TypeOK
  <1>1. Init => TypeOK
    <2> SUFFICES ASSUME Init PROVE TypeOK
      OBVIOUS
    <2>1. /\ nice \in [Tids -> -20..19] /\ policy \in [Tids -> {"OTHER", "BATCH", "FIFO", "RR"}]
          /\ \A t \in Tids : policy[t] \notin RealTime
          /\ alive \subseteq Tids /\ Pid \in alive /\ clones \in 0..MaxClones
      BY SchedulerAssumption DEF Init, RealTime
    <2>2. /\ op = "none" /\ phase = "scan" /\ arg \in -20..19 /\ tids = {} /\ sum \in Int
          /\ count \in Nat /\ since = {} /\ denied = {} /\ before = {}
      BY DEF Init
    <2>3. any_ok \in BOOLEAN /\ privileged \in BOOLEAN
      BY DEF Init
    <2> QED BY <2>1, <2>2, <2>3 DEF TypeOK
  <1> QED BY <1>1, TypeStep, PTL DEF Spec

\* EveryThreadReniced is kept by each step.
LEMMA ReniceStep == TypeOK /\ EveryThreadReniced /\ [Next]_vars => EveryThreadReniced'
  <1> SUFFICES ASSUME TypeOK, EveryThreadReniced, [Next]_vars PROVE EveryThreadReniced'
    OBVIOUS
  <1> USE DEF kernel, locals, EveryThreadReniced
  <1>1. CASE Clone
    BY <1>1 DEF Clone, TypeOK
  <1>2. ASSUME NEW gone, Exit(gone) PROVE EveryThreadReniced'
    BY <1>2 DEF Exit, TypeOK
  <1>3. ASSUME NEW called, NEW value, NEW none, Open(called, value, none) PROVE EveryThreadReniced'
    BY <1>3 DEF Open
  <1>4. ASSUME NEW wanted, ApplySchedulingPolicy(wanted) PROVE EveryThreadReniced'
    BY <1>4 DEF ApplySchedulingPolicy, SetScheduler
  <1>5. CASE ReadEntry
    BY <1>5 DEF ReadEntry
  <1>6. CASE EndOfDirectory
    BY <1>6 DEF EndOfDirectory
  <1>7. CASE SetPriority
    <2>1. PICK t \in tids :
            /\ tids' = tids \ {t}
            /\ nice' = IF May(t) THEN [nice EXCEPT ![t] = arg] ELSE nice
            /\ denied' = IF t \in alive /\ ~May(t) THEN denied \cup {t} ELSE denied
      BY <1>7 DEF SetPriority
    <2>2. op' = op /\ phase' = phase /\ arg' = arg /\ since' = since /\ op \in {"renice", "restore"}
          /\ phase = "each"
      BY <1>7 DEF SetPriority
    <2>3. \A u \in since \ (tids' \cup denied') : nice'[u] = arg
      BY <2>1, <2>2 DEF May, TypeOK
    <2> QED BY <2>2, <2>3
  <1>8. CASE GetPriority
    BY <1>8 DEF GetPriority
  <1>9. CASE ReniceReturns \/ AverageReturns \/ RestoreReturns
    BY <1>9 DEF ReniceReturns, AverageReturns, RestoreReturns, Return
  <1>10. CASE UNCHANGED vars
    BY <1>10 DEF vars
  <1> QED BY <1>1, <1>2, <1>3, <1>4, <1>5, <1>6, <1>7, <1>8, <1>9, <1>10
          DEF Next, ThreadExits, ProcessExits, ReniceProcessThreads, GetAverageNice,
              RestoreDefaultScheduling

\* A renice or restore passes over no thread that lives through it.
THEOREM ReniceTheorem == Spec => []EveryThreadReniced
  <1>1. Init => EveryThreadReniced
    BY DEF Init, EveryThreadReniced
  <1> QED BY <1>1, ReniceStep, Typing, PTL DEF Spec

----------------------------------------------------------------------------
\* The average.  While it is taken no living thread has a nice value that was
\* not there when the directory was opened, and what has been added lies
\* between count times a value that was there and count times another; as long
\* as nothing has been added, no thread visited has lived through the call.
Bracketed(total, n) ==
    /\ \E v \in before : v * n <= total
    /\ \E v \in before : total <= v * n

AverageInv ==
    op = "average" =>
      /\ \A t \in alive : nice[t] \in before
      /\ phase = "scan" => count = 0
      /\ count = 0 => sum = 0 /\ (phase = "each" => since \subseteq tids)
      /\ count > 0 => Bracketed(sum, count)

\* One more value between the bounds.
LEMMA AddLow ==
    ASSUME NEW v \in -20..19, NEW n \in -20..19, NEW c \in Nat, NEW s \in Int, v * c <= s
    PROVE  v * (c + 1) <= s + n \/ n * (c + 1) <= s + n
  <1>1. v * (c + 1) = v * c + v /\ n * (c + 1) = n * c + n
    OBVIOUS
  <1>2. v * c \in Int /\ n * c \in Int
    OBVIOUS
  <1>3. CASE v <= n
    BY <1>1, <1>2, <1>3
  <1>4. CASE n < v
    <2>1. n * c <= v * c
      BY <1>4
    <2> QED BY <1>1, <1>2, <2>1
  <1> QED BY <1>3, <1>4

\* The same for the upper bound.
LEMMA AddHigh ==
    ASSUME NEW v \in -20..19, NEW n \in -20..19, NEW c \in Nat, NEW s \in Int, s <= v * c
    PROVE  s + n <= v * (c + 1) \/ s + n <= n * (c + 1)
  <1>1. v * (c + 1) = v * c + v /\ n * (c + 1) = n * c + n
    OBVIOUS
  <1>2. v * c \in Int /\ n * c \in Int
    OBVIOUS
  <1>3. CASE n <= v
    BY <1>1, <1>2, <1>3
  <1>4. CASE v < n
    <2>1. v * c <= n * c
      BY <1>4
    <2> QED BY <1>1, <1>2, <2>1
  <1> QED BY <1>3, <1>4

\* Division that truncates stays between the bounds.
LEMMA QuotientBounds ==
    ASSUME NEW s \in Int, NEW c \in Nat, c > 0, NEW v \in Int
    PROVE  /\ Quotient(s, c) \in Int
           /\ v * c <= s => v <= Quotient(s, c)
           /\ s <= v * c => Quotient(s, c) <= v
  <1>1. \A n \in Nat : LET q == n \div c IN q \in Nat /\ q * c <= n /\ n < q * c + c
    OBVIOUS
  <1>2. \A a, b \in Int : a * c < b * c + c => a <= b
    OBVIOUS
  <1>3. CASE s >= 0
    <2> DEFINE q == s \div c
    <2>1. q \in Nat /\ q * c <= s /\ s < q * c + c
      BY <1>1, <1>3
    <2>2. Quotient(s, c) = q
      BY <1>3 DEF Quotient
    <2> HIDE DEF q
    <2>3. v * c \in Int /\ q * c \in Int
      BY <2>1
    <2>4. v * c <= s => v * c < q * c + c
      BY <2>1, <2>3
    <2>5. s <= v * c => q * c < v * c + c
      BY <2>1, <2>3
    <2> QED BY <1>2, <2>1, <2>2, <2>4, <2>5
  <1>4. CASE s < 0
    <2> DEFINE q == (-s) \div c
    <2>1. q \in Nat /\ q * c <= -s /\ -s < q * c + c
      BY <1>1, <1>4
    <2>2. Quotient(s, c) = -q
      BY <1>4 DEF Quotient
    <2> HIDE DEF q
    <2>3. v * c \in Int /\ q * c \in Int /\ (-q) * c = -(q * c) /\ -q \in Int
      BY <2>1
    <2>4. v * c <= s => v * c < (-q) * c + c
      BY <2>1, <2>3
    <2>5. s <= v * c => (-q) * c < v * c + c
      BY <2>1, <2>3
    <2> QED BY <1>2, <2>1, <2>2, <2>3, <2>4, <2>5
  <1> QED BY <1>3, <1>4

\* The average's invariant is inductive over the types.
LEMMA AverageStep == TypeOK /\ AverageInv /\ [Next]_vars => AverageInv'
  <1> SUFFICES ASSUME TypeOK, AverageInv, [Next]_vars PROVE AverageInv'
    OBVIOUS
  <1> USE DEF kernel, locals, AverageInv, Bracketed
  <1>1. CASE Clone
    BY <1>1 DEF Clone, TypeOK
  <1>2. ASSUME NEW gone, Exit(gone) PROVE AverageInv'
    BY <1>2 DEF Exit, TypeOK
  <1>3. ASSUME NEW called, NEW value, NEW none, Open(called, value, none) PROVE AverageInv'
    BY <1>3 DEF Open
  <1>4. ASSUME NEW wanted, ApplySchedulingPolicy(wanted) PROVE AverageInv'
    BY <1>4 DEF ApplySchedulingPolicy, SetScheduler
  <1>5. CASE ReadEntry
    BY <1>5 DEF ReadEntry
  <1>6. CASE EndOfDirectory
    BY <1>6 DEF EndOfDirectory
  <1>7. CASE SetPriority
    BY <1>7 DEF SetPriority
  <1>8. CASE GetPriority
    <2>1. PICK t \in tids :
            /\ tids' = tids \ {t}
            /\ IF t \in alive THEN sum' = sum + nice[t] /\ count' = count + 1
                              ELSE UNCHANGED <<sum, count>>
      BY <1>8 DEF GetPriority
    <2>2. /\ op = "average" /\ phase = "each"
          /\ UNCHANGED <<kernel, op, phase, since, before>>
      BY <1>8 DEF GetPriority
    <2>3. CASE t \notin alive
      BY <2>1, <2>2, <2>3 DEF TypeOK
    <2>4. CASE t \in alive
      <3> DEFINE n == nice[t]
      <3>1. n \in before /\ n \in -20..19 /\ before \subseteq -20..19 /\ sum \in Int /\ count \in Nat
        BY <2>2, <2>4 DEF TypeOK
      <3>2. sum' = sum + n /\ count' = count + 1
        BY <2>1, <2>4
      <3> HIDE DEF n
      <3>3. CASE count = 0
        <4>1. n * (count + 1) = sum + n
          BY <2>2, <3>1, <3>3
        <4>2. Bracketed(sum + n, count + 1)
          BY <3>1, <4>1
        <4> QED BY <2>2, <3>1, <3>2, <4>2
      <3>4. CASE count > 0
        <4>1. PICK v \in before : v * count <= sum
          BY <2>2, <3>4
        <4>2. PICK w \in before : sum <= w * count
          BY <2>2, <3>4
        <4>3. v * (count + 1) <= sum + n \/ n * (count + 1) <= sum + n
          BY <3>1, <4>1, AddLow
        <4>4. sum + n <= w * (count + 1) \/ sum + n <= n * (count + 1)
          BY <3>1, <4>2, AddHigh
        <4>5. Bracketed(sum + n, count + 1)
          BY <3>1, <4>3, <4>4
        <4> QED BY <2>2, <3>1, <3>2, <4>5
      <3> QED BY <3>1, <3>3, <3>4
    <2> QED BY <2>3, <2>4
  <1>9. CASE ReniceReturns \/ AverageReturns \/ RestoreReturns
    BY <1>9 DEF ReniceReturns, AverageReturns, RestoreReturns, Return
  <1>10. CASE UNCHANGED vars
    BY <1>10 DEF vars
  <1> QED BY <1>1, <1>2, <1>3, <1>4, <1>5, <1>6, <1>7, <1>8, <1>9, <1>10
          DEF Next, ThreadExits, ProcessExits, ReniceProcessThreads, GetAverageNice,
              RestoreDefaultScheduling

\* Only AverageReturns ends the call.
LEMMA AverageEnds ==
    ASSUME TypeOK, [Next]_vars, op = "average", op' = "none"
    PROVE  AverageReturns
  BY DEF Next, vars, kernel, locals, Clone, ThreadExits, ProcessExits, Exit, ReniceProcessThreads,
         GetAverageNice, RestoreDefaultScheduling, Open, ApplySchedulingPolicy, ReadEntry,
         EndOfDirectory, SetPriority, GetPriority, ReniceReturns, RestoreReturns, Finished

\* -128 says that no thread lived through the call; any other average lies
\* between two nice values the threads had when the directory was opened.
THEOREM AverageTheorem == Spec => AverageTruthful
  <1>1. Init => AverageInv
    BY DEF Init, AverageInv
  <1> DEFINE Truthful ==
        op = "average" /\ op' = "none" =>
          IF result' = NoThreads
            THEN since = {}
            ELSE (\E v \in before : v <= result') /\ (\E v \in before : result' <= v)
  <1>2. TypeOK /\ AverageInv /\ [Next]_vars => Truthful
    <2> SUFFICES ASSUME TypeOK, AverageInv, [Next]_vars, op = "average", op' = "none"
                 PROVE  Truthful
      OBVIOUS
    <2>1. AverageReturns
      BY AverageEnds
    <2>2. /\ phase = "each" /\ tids = {}
          /\ result' = IF count = 0 THEN NoThreads ELSE Quotient(sum, count)
      BY <2>1 DEF AverageReturns, Finished
    <2>3. CASE count = 0
      BY <2>2, <2>3 DEF AverageInv
    <2>4. CASE count > 0
      <3>1. PICK v \in before : v * count <= sum
        BY <2>4 DEF AverageInv, Bracketed
      <3>2. PICK w \in before : sum <= w * count
        BY <2>4 DEF AverageInv, Bracketed
      <3>3. v \in -20..19 /\ w \in -20..19 /\ sum \in Int /\ count \in Nat
        BY DEF TypeOK
      <3>4. result' \in Int /\ v <= result' /\ result' <= w
        BY <2>2, <2>4, <3>1, <3>2, <3>3, QuotientBounds
      <3>5. result' # NoThreads
        BY <3>3, <3>4 DEF NoThreads
      <3> QED BY <3>4, <3>5
    <2> QED BY <2>3, <2>4 DEF TypeOK
  <1>3. TypeOK /\ AverageInv /\ [Next]_vars => AverageInv'
    BY AverageStep
  <1> QED BY <1>1, <1>2, <1>3, Typing, PTL DEF Spec, AverageTruthful
=============================================================================
