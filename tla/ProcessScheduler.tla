-------------------------- MODULE ProcessScheduler --------------------------
(***************************************************************************)
(* ProcessScheduler against a process whose threads start and exit while   *)
(* it reads /proc/<pid>/task and goes over the ids it read.  The caller is *)
(* one thread; each readdir and each system call is a step.                *)
(***************************************************************************)
EXTENDS Integers, FiniteSets

CONSTANTS
    Tids,        \* thread ids the process's threads may have
    Pid,         \* its main thread's
    NiceArgs,    \* values ReniceProcessThreads is given
    Policies,    \* policies ApplySchedulingPolicy is given
    Cores,       \* GetLogicalCpuCount
    MaxClones    \* bound: threads started

ASSUME SchedulerAssumption ==
    /\ IsFiniteSet(Tids) /\ Pid \in Tids /\ NiceArgs \subseteq Int
    /\ Policies \subseteq {"OTHER", "BATCH", "FIFO", "RR"}
    /\ Cores \in Nat /\ MaxClones \in Nat

VARIABLES
    alive, nice, policy, \* the kernel's: living threads, and what each has
    clones,
    privileged,     \* CAP_SYS_NICE: may lower a nice value, use real time
    op, phase,      \* the call in progress: "scan" of the directory, then "each"
    arg,            \* the nice value it sets
    tids,           \* ids read, then those still to be visited
    any_ok, sum, count, result,
    since,          \* threads that have lived since the directory was opened
    denied,         \* threads the kernel refused to change
    before          \* nice values found when the directory was opened

kernel == <<alive, nice, policy, clones>>
locals == <<op, phase, arg, tids, any_ok, sum, count, since, denied, before>>
vars == <<kernel, privileged, locals, result>>

RealTime == {"FIFO", "RR"}
NoThreads == -128   \* GetAverageNice's error

Init ==
    /\ alive = {Pid}
    /\ nice = [t \in Tids |-> 0] /\ policy = [t \in Tids |-> "OTHER"]
    /\ clones = 0 /\ privileged \in BOOLEAN
    /\ op = "none" /\ phase = "scan" /\ arg = 0 /\ tids = {}
    /\ any_ok = FALSE /\ sum = 0 /\ count = 0 /\ result = 0
    /\ since = {} /\ denied = {} /\ before = {}

----------------------------------------------------------------------------
\* The kernel.  A new thread inherits nice value and policy.
Clone ==
    /\ clones < MaxClones /\ clones' = clones + 1
    /\ \E t \in alive, child \in Tids \ alive :
         /\ child # Pid
         /\ alive' = alive \cup {child}
         /\ nice' = [nice EXCEPT ![child] = nice[t]]
         /\ policy' = [policy EXCEPT ![child] = policy[t]]
    /\ UNCHANGED <<privileged, locals, result>>

Exit(gone) ==
    /\ alive' = alive \ gone /\ since' = since \ gone
    /\ nice' = [t \in Tids |-> IF t \in gone THEN 0 ELSE nice[t]]
    /\ policy' = [t \in Tids |-> IF t \in gone THEN "OTHER" ELSE policy[t]]
    /\ UNCHANGED <<clones, privileged, op, phase, arg, tids, any_ok, sum, count,
                   result, denied, before>>

ThreadExits == \E t \in alive \ {Pid} : Exit({t})
ProcessExits == alive # {} /\ Exit(alive)

----------------------------------------------------------------------------
\* opendir of the process's task directory, at the start of each call; `none`
\* is what the call returns without threads.
Open(called, value, none) ==
    /\ op = "none"
    /\ IF alive = {}
         THEN result' = none /\ UNCHANGED locals
         ELSE /\ op' = called /\ phase' = "scan" /\ arg' = value
              /\ tids' = {} /\ any_ok' = FALSE /\ sum' = 0 /\ count' = 0
              /\ since' = alive /\ denied' = {} /\ before' = {nice[t] : t \in alive}
              /\ UNCHANGED result
    /\ UNCHANGED <<kernel, privileged>>

\* Mutant: only values above the range are clamped.
ClampNiceAbove(value) == IF value > 19 THEN 19 ELSE value

ClampNice(value) == IF value < -20 THEN -20 ELSE IF value > 19 THEN 19 ELSE value

ReniceProcessThreads(value) == Open("renice", ClampNice(value), FALSE)
GetAverageNice == Open("average", 0, NoThreads)

\* readdir, in GetProcessThreads.
ReadEntry ==
    /\ op # "none" /\ phase = "scan"
    /\ \E t \in alive \ tids : tids' = tids \cup {t}
    /\ UNCHANGED <<kernel, privileged, op, phase, arg, any_ok, sum, count, result, since, denied, before>>

\* The end of the directory: what was there all the time has been read, what
\* came or went meanwhile may have been.
EndOfDirectory ==
    /\ op # "none" /\ phase = "scan" /\ since \subseteq tids
    /\ phase' = "each"
    /\ UNCHANGED <<kernel, privileged, op, arg, tids, any_ok, sum, count, result, since, denied, before>>

May(t) == t \in alive /\ (privileged \/ arg >= nice[t])

\* Mutant: the iteration ends at the first thread that is gone.
SetPriorityUntilFailure ==
    /\ op \in {"renice", "restore"} /\ phase = "each"
    /\ \E t \in tids :
         /\ tids' = IF t \in alive THEN tids \ {t} ELSE {}
         /\ nice' = IF May(t) THEN [nice EXCEPT ![t] = arg] ELSE nice
         /\ any_ok' = (any_ok \/ May(t))
         /\ denied' = IF t \in alive /\ ~May(t) THEN denied \cup {t} ELSE denied
    /\ UNCHANGED <<alive, policy, clones, privileged, op, phase, arg, sum, count, result, since, before>>

\* setpriority on one of the threads: ESRCH and EPERM are passed over.
SetPriority ==
    /\ op \in {"renice", "restore"} /\ phase = "each"
    /\ \E t \in tids :
         /\ tids' = tids \ {t}
         /\ nice' = IF May(t) THEN [nice EXCEPT ![t] = arg] ELSE nice
         /\ any_ok' = (any_ok \/ May(t))
         /\ denied' = IF t \in alive /\ ~May(t) THEN denied \cup {t} ELSE denied
    /\ UNCHANGED <<alive, policy, clones, privileged, op, phase, arg, sum, count, result, since, before>>

\* Mutant: -1, a nice value like any other, is taken for an error.
GetPriorityMinusOne ==
    /\ op = "average" /\ phase = "each"
    /\ \E t \in tids :
         /\ tids' = tids \ {t}
         /\ IF t \in alive /\ nice[t] # -1
              THEN sum' = sum + nice[t] /\ count' = count + 1
              ELSE UNCHANGED <<sum, count>>
    /\ UNCHANGED <<kernel, privileged, op, phase, arg, any_ok, result, since, denied, before>>

\* getpriority on one of the threads: an error shows in errno only.
GetPriority ==
    /\ op = "average" /\ phase = "each"
    /\ \E t \in tids :
         /\ tids' = tids \ {t}
         /\ IF t \in alive
              THEN sum' = sum + nice[t] /\ count' = count + 1
              ELSE UNCHANGED <<sum, count>>
    /\ UNCHANGED <<kernel, privileged, op, phase, arg, any_ok, result, since, denied, before>>

Finished(called) == op = called /\ phase = "each" /\ tids = {}

\* The locals of a call that has returned are no state: they are reset.
Return ==
    /\ op' = "none" /\ phase' = "scan" /\ arg' = 0 /\ tids' = {}
    /\ any_ok' = FALSE /\ sum' = 0 /\ count' = 0
    /\ since' = {} /\ denied' = {} /\ before' = {}

ReniceReturns ==
    /\ Finished("renice") /\ Return /\ result' = any_ok
    /\ UNCHANGED <<kernel, privileged>>

\* C++ integer division, which truncates.
Quotient(n, d) == IF n >= 0 THEN n \div d ELSE -((-n) \div d)

AverageReturns ==
    /\ Finished("average") /\ Return
    /\ result' = IF count = 0 THEN NoThreads ELSE Quotient(sum, count)
    /\ UNCHANGED <<kernel, privileged>>

\* sched_setscheduler(pid, ...) is for the one thread with that id.
Settable(wanted) ==
    /\ ~(Cores <= 2 /\ wanted \in RealTime)
    /\ Pid \in alive /\ (wanted \in RealTime => privileged)

SetScheduler(wanted) ==
    /\ result' = Settable(wanted)
    /\ policy' = IF Settable(wanted) THEN [policy EXCEPT ![Pid] = wanted] ELSE policy
    /\ UNCHANGED <<alive, nice, clones, privileged>>

ApplySchedulingPolicy(wanted) == op = "none" /\ SetScheduler(wanted) /\ UNCHANGED locals

\* Without threads no nice value is set, and sched_setscheduler fails.
RestoreDefaultScheduling == Open("restore", 0, FALSE)
RestoreReturns == Finished("restore") /\ Return /\ SetScheduler("OTHER")

Next ==
    \/ Clone \/ ThreadExits \/ ProcessExits
    \/ \E value \in NiceArgs : ReniceProcessThreads(value)
    \/ GetAverageNice \/ RestoreDefaultScheduling
    \/ \E wanted \in Policies : ApplySchedulingPolicy(wanted)
    \/ ReadEntry \/ EndOfDirectory \/ SetPriority \/ GetPriority
    \/ ReniceReturns \/ AverageReturns \/ RestoreReturns

Spec == Init /\ [][Next]_vars

----------------------------------------------------------------------------
\* Types; nice values are the kernel's; without privilege no thread is real
\* time, and on a small CPU none is in any case.
TypeOK ==
    /\ alive \subseteq Tids /\ (alive # {} => Pid \in alive)
    /\ nice \in [Tids -> -20..19] /\ policy \in [Tids -> {"OTHER", "BATCH", "FIFO", "RR"}]
    /\ \A t \in Tids : policy[t] \in RealTime => privileged /\ Cores > 2
    /\ clones \in 0..MaxClones /\ privileged \in BOOLEAN
    /\ op \in {"none", "renice", "average", "restore"} /\ phase \in {"scan", "each"}
    /\ arg \in -20..19 /\ tids \subseteq Tids
    /\ any_ok \in BOOLEAN /\ sum \in Int /\ count \in Nat
    /\ since \subseteq alive /\ denied \subseteq Tids /\ before \subseteq -20..19

\* "Apply nice value (-20..19) to every thread of the target process",
\* "skips ESRCH silently": whichever threads start and exit during the call,
\* one that lives all through it has the value once it has been visited,
\* unless the kernel refused.
EveryThreadReniced ==
    op \in {"renice", "restore"} /\ phase = "each" =>
        \A t \in since \ (tids \cup denied) : nice[t] = arg

\* "Query average nice value across all threads", "returns -128 on error": the
\* error means that no thread lived through the call, anything else lies
\* between the values the threads had.
AverageTruthful ==
    [][op = "average" /\ op' = "none" =>
         IF result' = NoThreads
           THEN since = {}
           ELSE (\E v \in before : v <= result') /\ (\E v \in before : result' <= v)]_vars

\* "Back to SCHED_OTHER with nice 0 on all threads".
RestoredMeansDefault ==
    [][op = "restore" /\ op' = "none" /\ result' =>
         \A t \in since : nice[t] = 0 /\ policy'[t] = "OTHER"]_vars

\* A renice that nobody refused has reached every thread of the process.
NoThreadMissed ==
    [][op = "renice" /\ op' = "none" /\ denied = {} => \A t \in alive : nice[t] = arg]_vars
=============================================================================
