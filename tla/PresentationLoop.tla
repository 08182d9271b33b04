-------------------------- MODULE PresentationLoop --------------------------
(***************************************************************************)
(* The loop that drives the pacer (tests/test_pacer.cpp, its only user):   *)
(* a PresentationPacer, a TimerFd and a HighResTimer on one thread.  The   *)
(* pacer is fed the time since the HighResTimer was made, the timerfd      *)
(* compares its deadline with CLOCK_MONOTONIC itself.  Time passes while   *)
(* the thread waits or works, the calls in between take none.              *)
(***************************************************************************)
EXTENDS PresentationPacer, TimerFd

CONSTANTS
    MaxLate,    \* bound: how late the thread may wake
    MaxFrames   \* frames of the loop

\* The loop never sets a red zone: the constructor's is shorter than an interval.
ASSUME LoopAssumption ==
    /\ \A hz \in Rates : kDefaultRedZoneNs < RefreshHzToIntervalNs(hz)
    /\ MaxLate \in Nat /\ MaxFrames \in Nat

VARIABLES
    pc,        \* "anchor", "calc", "walk", "arm", "wait", "work", "mark" or "done"
    frame,     \* frames finished
    workStart

loopVars == <<pc, frame, workStart>>
vars     == <<pacerVars, timerVars, loopVars>>

\* The HighResTimer is made where the loop starts.
ElapsedNs == now - StartTime

Init ==
    /\ PacerInit
    /\ TimerInit /\ fd = "open"
    /\ pc = "anchor" /\ frame = 0 /\ workStart = 0

Anchor ==
    /\ pc = "anchor" /\ pc' = "calc"
    /\ MarkVBlank(ElapsedNs)
    /\ UNCHANGED <<timerVars, frame, workStart>>

Calculate ==
    /\ pc = "calc" /\ frame < MaxFrames /\ pc' = "walk"
    /\ CalculateNextWakeup(ElapsedNs)
    /\ UNCHANGED <<timerVars, frame, workStart>>

Calculating ==
    /\ pc = "walk"
    /\ \/ Walk /\ UNCHANGED pc
       \/ Return /\ pc' = "arm"
    /\ UNCHANGED <<timerVars, frame, workStart>>

Arm ==
    /\ pc = "arm" /\ pc' = "wait"
    /\ ArmAbsolute(wakeup)
    /\ UNCHANGED <<pacerVars, frame, workStart>>

Wait ==
    /\ pc = "wait"
    /\ \/ WaitCalled /\ UNCHANGED <<pc, workStart>>
       \/ Poll /\ UNCHANGED <<pc, workStart>>
       \/ /\ Read
          /\ IF wait' = "out" THEN pc' = "work" /\ workStart' = ElapsedNs
                              ELSE UNCHANGED <<pc, workStart>>
    /\ UNCHANGED <<pacerVars, frame>>

Work(drawTime) ==
    /\ pc = "work" /\ ElapsedNs = workStart + drawTime /\ pc' = "mark"
    /\ UpdateLastDrawDuration(ElapsedNs - workStart)
    /\ UNCHANGED <<timerVars, frame, workStart>>

\* Mutant: the frames are not counted.
MarkUncounted ==
    /\ pc = "mark" /\ pc' = "calc"
    /\ MarkVBlank(wakeup)
    /\ UNCHANGED <<timerVars, frame, workStart>>

Mark ==
    /\ pc = "mark" /\ frame' = frame + 1
    /\ pc' = IF frame' = MaxFrames THEN "done" ELSE "calc"
    /\ MarkVBlank(wakeup)
    /\ UNCHANGED <<timerVars, workStart>>

\* Time passes; a thread whose timer has expired wakes at most MaxLate late,
\* and work does not outlast the longest of DrawTimes.
Pass ==
    /\ \/ pc = "wait" /\ ~(deadline # 0 /\ now >= deadline + MaxLate)
       \/ pc = "work" /\ \E drawTime \in DrawTimes : ElapsedNs < workStart + drawTime
    /\ Tick
    /\ UNCHANGED <<pacerVars, loopVars>>

TimeComes == Expire /\ UNCHANGED <<pacerVars, loopVars>>

Next ==
    \/ Anchor \/ Calculate \/ Calculating \/ Arm \/ Wait
    \/ \E drawTime \in DrawTimes : Work(drawTime)
    \/ Mark \/ Pass \/ TimeComes

Spec == Init /\ [][Next]_vars

\* The thread goes on when it can, and time passes.
FairSpec ==
    /\ Spec
    /\ WF_vars(Anchor \/ Calculate \/ Calculating \/ Arm \/ Wait \/ Mark)
    /\ SF_vars(\E drawTime \in DrawTimes : Work(drawTime)) /\ WF_vars(Pass) /\ WF_vars(TimeComes)

----------------------------------------------------------------------------
\* A frame's deadline is never before the one of the frame before: with the
\* estimate clamped to the interval less the red zone, anchoring at a wakeup
\* instead of a vblank cannot move the schedule back.
WakeupsNeverGoBack == [][call = "walk" /\ call' = "none" => wakeup' >= wakeup]_vars

\* Every frame of the loop is finished.
LoopEnds == <>(pc = "done")

\* "Arm timerfd and sleep until deadline": measured on the loop's own clock,
\* the thread does not wake before the deadline it computed.
SleepsUntilDeadline == [][pc = "wait" /\ pc' = "work" => ElapsedNs >= wakeup]_vars

\* "The next wakeup is scheduled one refresh interval on from where we
\* actually woke up".
OneIntervalOn ==
    [][call = "walk" /\ call' = "none" /\ frame > 0 => wakeup' >= wakeup + refreshInterval]_vars
=============================================================================
