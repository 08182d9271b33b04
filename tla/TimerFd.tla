------------------------------ MODULE TimerFd ------------------------------
(***************************************************************************)
(* TimerFd: a one-shot CLOCK_MONOTONIC timerfd and a non-blocking pipe.    *)
(* One thread arms the timer and waits; another may call Disarm at any     *)
(* time.  Wait is a step per system call, Disarm one for timerfd_settime   *)
(* and one for write, so that everything between them is explored.  The    *)
(* kernel's side (the clock, the timer, poll's readiness) is modelled from *)
(* how the code uses it.  Errors other than those of the constructor and   *)
(* EAGAIN do not happen.                                                   *)
(***************************************************************************)
EXTENDS Naturals

CONSTANTS
    Deadlines,     \* what ArmAbsolute is given
    StartTime,     \* CLOCK_MONOTONIC when the object is made
    MaxTime,       \* bound: the clock stops there
    PipeCapacity,  \* bytes the pipe holds
    MaxArms,       \* bound: calls of ArmAbsolute
    MaxDisarms,    \* bound: calls of Disarm
    PipeMayFail    \* may pipe2 fail in the constructor?

ASSUME TimerAssumption ==
    /\ Deadlines \subseteq Nat \ {0}
    /\ MaxTime \in Nat /\ StartTime \in 0..MaxTime /\ PipeCapacity \in Nat \ {0}
    /\ MaxArms \in Nat /\ MaxDisarms \in Nat
    /\ PipeMayFail \in BOOLEAN

VARIABLES
    now,         \* CLOCK_MONOTONIC
    fd,          \* m_fd: "open", "failed" or "closed"
    pipe,        \* m_shutdownPipe: "open", "failed" or "closed"
    deadline,    \* it_value of the timer, 0: disarmed
    expirations, \* what a read of the timerfd would return, 0: EAGAIN
    nudges,      \* bytes in the pipe
    wait,        \* where the waiting thread is: "out", "poll", "drain", "read"
    result,      \* what Wait last returned
    disarm,      \* where the other thread is: "out", "nudge"
    nudged,      \* did Disarm write its byte since Wait was called?
    arms, disarms

kernel == <<deadline, expirations>>
other  == <<disarm, disarms>>
timerVars   == <<now, fd, pipe, kernel, nudges, wait, result, other, nudged, arms>>

\* The constructor tolerates the failure of either system call.
TimerInit ==
    /\ now = StartTime
    /\ \/ fd = "open" /\ pipe = "open"
       \/ fd = "failed" /\ pipe = "failed"
       \/ fd = "open" /\ pipe = "failed" /\ PipeMayFail
    /\ deadline = 0 /\ expirations = 0 /\ nudges = 0
    /\ wait = "out" /\ result = FALSE /\ disarm = "out" /\ nudged = FALSE
    /\ arms = 0 /\ disarms = 0

\* timerfd_settime forgets what has expired.
SetTime(time) == deadline' = time /\ expirations' = 0

ArmAbsolute(time) ==
    /\ wait = "out" /\ fd = "open" /\ arms < MaxArms
    /\ SetTime(time)
    /\ arms' = arms + 1
    /\ UNCHANGED <<now, fd, pipe, nudges, wait, result, other, nudged>>

WaitCalled ==
    /\ wait = "out" /\ fd = "open"
    /\ wait' = "poll" /\ nudged' = FALSE
    /\ UNCHANGED <<now, fd, pipe, kernel, nudges, result, other, arms>>

\* Mutants: only the timer is polled; only the pipe is.
PollTimerOnly ==
    /\ wait = "poll" /\ expirations > 0 /\ wait' = "read"
    /\ UNCHANGED <<now, fd, pipe, kernel, nudges, result, other, nudged, arms>>

PollPipeOnly ==
    /\ wait = "poll" /\ nudges > 0 /\ wait' = "drain"
    /\ UNCHANGED <<now, fd, pipe, kernel, nudges, result, other, nudged, arms>>

\* poll returns when something is ready.  The pipe is looked at first, as it
\* was when poll returned; without a pipe only the timer is polled.
Poll ==
    /\ wait = "poll"
    /\ \/ pipe = "open" /\ nudges > 0 /\ wait' = "drain"
       \/ nudges = 0 /\ expirations > 0 /\ wait' = "read"
    /\ UNCHANGED <<now, fd, pipe, kernel, nudges, result, other, nudged, arms>>

\* The drain loop: one byte at a time, until the pipe is empty.
Drain ==
    /\ wait = "drain"
    /\ IF nudges > 0
         THEN nudges' = nudges - 1 /\ UNCHANGED <<wait, result>>
         ELSE wait' = "out" /\ result' = FALSE /\ UNCHANGED nudges
    /\ UNCHANGED <<now, fd, pipe, kernel, other, nudged, arms>>

\* Mutant: the result of read is not looked at.
ReadUnchecked ==
    /\ wait = "read" /\ wait' = "out" /\ result' = TRUE /\ expirations' = 0 /\ deadline' = 0
    /\ UNCHANGED <<now, fd, pipe, nudges, other, nudged, arms>>

Read ==
    /\ wait = "read"
    /\ IF expirations > 0
         THEN wait' = "out" /\ result' = TRUE /\ expirations' = 0 /\ deadline' = 0
         ELSE wait' = "poll" /\ UNCHANGED <<result, kernel>>
    /\ UNCHANGED <<now, fd, pipe, nudges, other, nudged, arms>>

\* Disarm: settime, then the nudge, which a full pipe drops.
DisarmTimer ==
    /\ disarm = "out" /\ fd # "closed" /\ disarms < MaxDisarms
    /\ IF fd = "open" THEN SetTime(0) ELSE UNCHANGED kernel
    /\ disarm' = "nudge" /\ disarms' = disarms + 1
    /\ UNCHANGED <<now, fd, pipe, nudges, wait, result, nudged, arms>>

\* Mutant: Disarm only stops the timer.
DisarmNudgeForgotten ==
    /\ disarm = "nudge" /\ disarm' = "out" /\ nudged' = TRUE
    /\ UNCHANGED <<now, fd, pipe, kernel, nudges, wait, result, disarms, arms>>

DisarmNudge ==
    /\ disarm = "nudge"
    /\ nudges' = IF pipe = "open" /\ nudges < PipeCapacity THEN nudges + 1 ELSE nudges
    /\ nudged' = TRUE
    /\ disarm' = "out"
    /\ UNCHANGED <<now, fd, pipe, kernel, wait, result, disarms, arms>>

\* The destructor, called when no other call is running.
Destroy ==
    /\ wait = "out" /\ disarm = "out" /\ fd # "closed"
    /\ fd' = "closed" /\ pipe' = "closed" /\ SetTime(0) /\ nudges' = 0
    /\ UNCHANGED <<now, wait, result, other, nudged, arms>>

\* The clock; a timer whose time has come expires with it.
Expired(time) == deadline # 0 /\ deadline <= time

Tick ==
    /\ now < MaxTime
    /\ now' = now + 1
    /\ UNCHANGED <<fd, pipe, kernel, nudges, wait, result, other, nudged, arms>>

Expire ==
    /\ Expired(now) /\ expirations = 0
    /\ expirations' = 1
    /\ UNCHANGED <<now, fd, pipe, deadline, nudges, wait, result, other, nudged, arms>>

TimerNext ==
    \/ \E time \in Deadlines : ArmAbsolute(time)
    \/ WaitCalled \/ Poll \/ Drain \/ Read
    \/ DisarmTimer \/ DisarmNudge \/ Destroy
    \/ Tick \/ Expire

TimerSpec == TimerInit /\ [][TimerNext]_timerVars

\* A thread in a call that is not blocked goes on, and time passes.
TimerFairSpec ==
    /\ TimerSpec
    /\ WF_timerVars(Poll) /\ WF_timerVars(Drain) /\ WF_timerVars(Read) /\ WF_timerVars(DisarmNudge)
    /\ WF_timerVars(Tick) /\ WF_timerVars(Expire)

----------------------------------------------------------------------------
\* Every variable keeps its type.
TimerTypeOK ==
    /\ now \in StartTime..MaxTime
    /\ fd \in {"open", "failed", "closed"} /\ pipe \in {"open", "failed", "closed"}
    /\ deadline \in Deadlines \cup {0}
    /\ expirations \in {0, 1}
    /\ nudges \in 0..PipeCapacity
    /\ wait \in {"out", "poll", "drain", "read"} /\ disarm \in {"out", "nudge"}
    /\ result \in BOOLEAN /\ nudged \in BOOLEAN
    /\ arms \in 0..MaxArms /\ disarms \in 0..MaxDisarms

\* "Disarms the timer (it will not fire until re-armed)": Wait returns true
\* only for a timer that is armed when it returns and whose time has come,
\* whenever Disarm ran between poll and read.
FiresOnlyWhenDue ==
    [][wait = "read" /\ wait' = "out" => Expired(now)]_timerVars

\* "False ... if Disarm()/shutdown caused an early, non-fired return": false
\* is returned only when a Disarm's nudge came while the thread was in Wait.
FalseMeansDisarmed ==
    [][wait = "drain" /\ wait' = "out" => nudged]_timerVars

\* "If a thread is currently blocked in Wait(), wakes it up".
DisarmWakes == (nudged /\ wait # "out") ~> (wait = "out")

\* Wait returns once the timer has expired, unless Disarm takes that back.
ExpiryWakes == (wait # "out" /\ expirations > 0) ~> (wait = "out" \/ deadline = 0)

\* "Pipe full is fine, it just means a wakeup is already pending": after a
\* Disarm during a Wait that has not seen it, the pipe holds a byte.
NudgeNotLost == nudged /\ wait \in {"poll", "read"} /\ pipe = "open" => nudges > 0
=============================================================================
