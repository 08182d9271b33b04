--------------------------- MODULE ProcessMonitor ---------------------------
(***************************************************************************)
(* ProcessMonitor::sample against processes that start, work, exit and are *)
(* reaped between any two reads of /proc.  The monitor keeps the pid it    *)
(* found, and the ticks of the last sample to measure the next one from.   *)
(***************************************************************************)
EXTENDS Integers

CONSTANTS
    MaxPid,     \* pids are 1..MaxPid
    MaxTicks,   \* bound: ticks a process uses
    TickMod,    \* 2^w for the w bits of a tick counter
    PidReuse    \* the pid of a process that is gone is given out again

ASSUME MonitorAssumption ==
    /\ MaxPid \in Nat /\ MaxTicks \in Nat /\ PidReuse \in BOOLEAN
    /\ TickMod \in Nat /\ MaxTicks < TickMod

VARIABLES
    proc,                       \* the process table
    cached_pid, prev_ticks, first_sample,
    pc, at,                     \* inside sample: where, and the directory's position
    ticks,                      \* its local variable
    out_metrics,
    firstTicks, reported        \* ticks at the first sample of this pid; reported since

monitor == <<cached_pid, prev_ticks, first_sample>>
vars == <<proc, monitor, pc, at, ticks, out_metrics, firstTicks, reported>>

Pids == 1..MaxPid
NoPid == -1
NotRunning == [is_running |-> FALSE, pid |-> NoPid, cpu |-> 0]

\* What of a process shows the target's name.
Names == {"comm", "cmdline", "no"}

Init ==
    /\ proc = [p \in Pids |-> [state |-> "none", name |-> "no", ticks |-> 0, used |-> FALSE]]
    /\ cached_pid = NoPid /\ prev_ticks = 0 /\ first_sample = TRUE
    /\ pc = "idle" /\ at = 1 /\ ticks = 0 /\ out_metrics = NotRunning
    /\ firstTicks = 0 /\ reported = 0

----------------------------------------------------------------------------
\* Processes.
Starts(p) ==
    /\ proc[p].state = "none" /\ (PidReuse \/ ~proc[p].used)
    /\ \E name \in Names :
         proc' = [proc EXCEPT ![p] = [state |-> "running", name |-> name, ticks |-> 0, used |-> TRUE]]
    /\ UNCHANGED <<monitor, pc, at, ticks, out_metrics, firstTicks, reported>>

Works(p) ==
    /\ proc[p].state = "running" /\ proc[p].ticks < MaxTicks
    /\ proc' = [proc EXCEPT ![p].ticks = @ + 1]
    /\ UNCHANGED <<monitor, pc, at, ticks, out_metrics, firstTicks, reported>>

Exits(p) ==
    /\ proc[p].state = "running"
    /\ proc' = [proc EXCEPT ![p].state = "zombie"]
    /\ UNCHANGED <<monitor, pc, at, ticks, out_metrics, firstTicks, reported>>

Reaped(p) ==
    /\ proc[p].state = "zombie"
    /\ proc' = [proc EXCEPT ![p] = [state |-> "none", name |-> "no", ticks |-> 0, used |-> TRUE]]
    /\ UNCHANGED <<monitor, pc, at, ticks, out_metrics, firstTicks, reported>>

----------------------------------------------------------------------------
\* A process that has exited and is not reaped keeps its comm, its stat too,
\* and has an empty cmdline.
Matches(p) ==
    \/ proc[p].state # "none" /\ proc[p].name = "comm"
    \/ proc[p].state = "running" /\ proc[p].name = "cmdline"

SampleCalled ==
    /\ pc = "idle"
    /\ pc' = IF cached_pid <= 0 THEN "scan" ELSE "stat"
    /\ at' = 1
    /\ UNCHANGED <<proc, monitor, ticks, out_metrics, firstTicks, reported>>

\* find_target_process looks at one entry of /proc.
ScanEntry ==
    /\ pc = "scan" /\ at \in Pids
    /\ IF Matches(at)
         THEN /\ cached_pid' = at /\ first_sample' = TRUE
              /\ pc' = "stat" /\ UNCHANGED at
         ELSE at' = at + 1 /\ UNCHANGED <<cached_pid, first_sample, pc>>
    /\ UNCHANGED <<proc, prev_ticks, ticks, out_metrics, firstTicks, reported>>

\* sample returns false.
Fails == pc' = "idle" /\ at' = 1 /\ ticks' = 0 /\ out_metrics' = NotRunning

NotFound ==
    /\ pc = "scan" /\ at \notin Pids
    /\ Fails
    /\ UNCHANGED <<proc, monitor, firstTicks, reported>>

Reset ==
    /\ cached_pid' = NoPid /\ prev_ticks' = 0 /\ first_sample' = TRUE
    /\ firstTicks' = 0 /\ reported' = 0

\* Mutants: the monitor keeps the pid, or what it measured from.
StatFailsKeepsPid ==
    /\ pc = "stat" /\ proc[cached_pid].state = "none"
    /\ Fails
    /\ UNCHANGED <<proc, monitor, firstTicks, reported>>

StatFailsKeepsTicks ==
    /\ pc = "stat" /\ proc[cached_pid].state = "none"
    /\ Fails /\ cached_pid' = NoPid
    /\ UNCHANGED <<proc, prev_ticks, first_sample, firstTicks, reported>>

\* The target is gone: what is known of it is forgotten.
StatFails ==
    /\ pc = "stat" /\ proc[cached_pid].state = "none"
    /\ Fails /\ Reset
    /\ UNCHANGED proc

ReadStat ==
    /\ pc = "stat" /\ proc[cached_pid].state # "none"
    /\ pc' = "rest" /\ ticks' = proc[cached_pid].ticks
    /\ UNCHANGED <<proc, monitor, at, out_metrics, firstTicks, reported>>

Succeeds(cpu) ==
    /\ out_metrics' = [is_running |-> TRUE, pid |-> cached_pid, cpu |-> cpu]
    /\ pc' = "idle" /\ at' = 1 /\ ticks' = 0
    /\ reported' = reported + cpu
    /\ UNCHANGED <<proc, cached_pid>>

\* What the process used since the last sample, in unsigned numbers.
dticks == (ticks - prev_ticks) % TickMod

FirstSample ==
    /\ pc = "rest" /\ first_sample
    /\ Succeeds(0)
    /\ prev_ticks' = ticks /\ first_sample' = FALSE /\ firstTicks' = ticks

Measured ==
    /\ pc = "rest" /\ ~first_sample
    /\ Succeeds(dticks)
    /\ prev_ticks' = ticks /\ UNCHANGED <<first_sample, firstTicks>>

\* Mutant: a sample that comes too soon moves the counter on all the same.
TooSoonMovesOn ==
    /\ pc = "rest" /\ ~first_sample
    /\ Succeeds(0)
    /\ prev_ticks' = ticks /\ UNCHANGED <<first_sample, firstTicks>>

\* Less than a millisecond after the last one nothing is measured.
TooSoon ==
    /\ pc = "rest" /\ ~first_sample
    /\ Succeeds(0)
    /\ UNCHANGED <<prev_ticks, first_sample, firstTicks>>

\* The caller's reset().
ResetCalled == pc = "idle" /\ Reset /\ UNCHANGED <<proc, pc, at, ticks, out_metrics>>

Sample == ScanEntry \/ NotFound \/ StatFails \/ ReadStat \/ FirstSample \/ Measured \/ TooSoon

Next ==
    \/ \E p \in Pids : Starts(p) \/ Works(p) \/ Exits(p) \/ Reaped(p)
    \/ SampleCalled \/ Sample \/ ResetCalled

Spec == Init /\ [][Next]_vars

\* sample is called again and again, and is not stopped in the middle.
FairSpec == Spec /\ WF_vars(SampleCalled) /\ WF_vars(Sample)

----------------------------------------------------------------------------
\* Types; without a cached pid nothing is remembered of an earlier one.
TypeOK ==
    /\ proc \in [Pids -> [state : {"none", "running", "zombie"}, name : Names,
                          ticks : 0..MaxTicks, used : BOOLEAN]]
    /\ cached_pid \in Pids \cup {NoPid} /\ prev_ticks \in 0..MaxTicks
    /\ first_sample \in BOOLEAN
    /\ cached_pid = NoPid => first_sample /\ prev_ticks = 0
    /\ pc \in {"idle", "scan", "stat", "rest"} /\ at \in 1..(MaxPid + 1)
    /\ pc \in {"stat", "rest"} => cached_pid # NoPid
    /\ ticks \in 0..MaxTicks
    /\ firstTicks \in 0..MaxTicks /\ reported \in Nat

\* Over any number of samples of a process, at any distance, with processes
\* found and lost in between, every tick it used since the first one is
\* reported once: none twice, none lost, none of another process.
TicksCountedOnce ==
    ~first_sample => firstTicks + reported = prev_ticks

\* A target that exits is found again when it is started again: while some
\* process with its name runs for ever, samples succeed again and again.
Rediscovers ==
    \A p \in Pids :
        <>[](proc[p].state = "running" /\ proc[p].name # "no")
            => []<>(pc = "idle" /\ out_metrics.is_running)

\* "Returns false if target is not running": a sample that goes on found the
\* target running when it read its stat.
ReportsRunning ==
    [][pc = "stat" /\ pc' = "rest" =>
         proc[cached_pid].state = "running" /\ proc[cached_pid].name # "no"]_vars
=============================================================================
