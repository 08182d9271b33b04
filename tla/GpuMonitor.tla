----------------------------- MODULE GpuMonitor -----------------------------
(***************************************************************************)
(* GpuMonitor: how busy the GPU is, as the time between two samples that   *)
(* was not spent in RC6 sleep.  The counter and the clock are read one     *)
(* after the other, and the thread may lose the processor in between; the  *)
(* driver may go away and come back, with its counter at zero.  Time is    *)
(* counted in parts of a millisecond, of which the counter shows whole     *)
(* ones; a percentage is rounded down.  Frequencies are left out.          *)
(***************************************************************************)
EXTENDS Integers

CONSTANTS
    MaxGpuTime,   \* bound: the clock
    TicksPerMs,   \* steps of the clock in a millisecond
    CounterFiles  \* has the card rc6_residency_ms?  a subset of BOOLEAN

ASSUME GpuAssumption ==
    MaxGpuTime \in Nat /\ TicksPerMs \in Nat \ {0} /\ CounterFiles \subseteq BOOLEAN

VARIABLES
    gclock,    \* steady_clock
    asleep,    \* the time the driver has counted in RC6
    card,      \* is the card there?
    counts,    \* has it the counter's file?
    gpc,       \* "idle", or "read": the counter was read, the clock was not
    rc6_ms,    \* what was read
    prev_gpu,  \* prev_rc6_ms_ and prev_time_
    gpu_first, \* first_sample_
    gpu,       \* metrics_: is_available and activity_percent
    base       \* history: when the counter was last read, and whether it has been
               \* there since; the clock and the counter itself at the time of
               \* prev_gpu, how long after the read that was, and whether the
               \* counter has been there since that read

gpuVars == <<gclock, asleep, card, counts, gpc, rc6_ms, prev_gpu, gpu_first, gpu, base>>

GpuInit ==
    /\ gclock = 0 /\ asleep = 0 /\ card = TRUE /\ counts \in CounterFiles
    /\ gpc = "idle" /\ rc6_ms = 0
    /\ prev_gpu = [rc6 |-> 0, time |-> 0] /\ gpu_first = TRUE
    /\ gpu = [available |-> FALSE, activity |-> 0]
    /\ base = [read |-> 0, fresh |-> FALSE, time |-> 0, asleep |-> 0, lag |-> 0, steady |-> FALSE]

----------------------------------------------------------------------------
(* The card *)

GpuTime(sleeps) ==
    /\ gclock < MaxGpuTime /\ gclock' = gclock + 1
    /\ asleep' = IF sleeps /\ card THEN asleep + 1 ELSE asleep
    /\ UNCHANGED <<card, counts, gpc, rc6_ms, prev_gpu, gpu_first, gpu, base>>

CardChanges ==
    /\ card' = ~card /\ asleep' = 0
    /\ base' = [base EXCEPT !.steady = FALSE, !.fresh = FALSE]
    /\ UNCHANGED <<gclock, counts, gpc, rc6_ms, prev_gpu, gpu_first, gpu>>

----------------------------------------------------------------------------
(* The monitor *)

\* A file that cannot be read counts as zero.
read_sysfs_u64 == IF card /\ counts THEN asleep \div TicksPerMs ELSE 0

initialize ==
    /\ gpu' = [available |-> card, activity |-> 0]
    /\ gpu_first' = TRUE

GpuInitialize ==
    /\ gpc = "idle" /\ initialize
    /\ UNCHANGED <<gclock, asleep, card, counts, gpc, rc6_ms, prev_gpu, base>>

\* sample, up to the read of the counter: a card once found is not looked for
\* again.
GpuRead ==
    /\ gpc = "idle"
    /\ IF gpu.available THEN UNCHANGED <<gpu, gpu_first>> ELSE initialize
    /\ IF gpu.available \/ card
         THEN gpc' = "read" /\ rc6_ms' = read_sysfs_u64
              /\ base' = [base EXCEPT !.read = gclock, !.fresh = card /\ counts]
         ELSE UNCHANGED <<gpc, rc6_ms, base>>
    /\ UNCHANGED <<gclock, asleep, card, counts, prev_gpu>>

clamp(n, low, high) == IF n < low THEN low ELSE IF n > high THEN high ELSE n

\* The new baseline, and what the properties compare it with.
Renew ==
    /\ prev_gpu' = [rc6 |-> rc6_ms, time |-> gclock]
    /\ base' = [base EXCEPT !.time = gclock, !.asleep = asleep, !.lag = gclock - base.read,
                            !.steady = base.fresh]

\* Mutant: the clock's baseline moves on when the sample came too soon.
GpuTooSoonMovesOn ==
    /\ gclock - prev_gpu.time <= TicksPerMs
    /\ prev_gpu' = [prev_gpu EXCEPT !.time = gclock]
    /\ UNCHANGED <<gpu, base>>

GpuTooSoon ==
    /\ gclock - prev_gpu.time <= TicksPerMs
    /\ UNCHANGED <<gpu, prev_gpu, base>>

\* The difference is unsigned: below zero it is a number far above dt, and
\* active_ms far below zero.
GpuMeasured ==
    LET dt     == gclock - prev_gpu.time
        slept  == (rc6_ms - prev_gpu.rc6) * TicksPerMs
        active == IF slept < 0 THEN 0 ELSE dt - slept
    IN  /\ dt > TicksPerMs
        /\ gpu' = [gpu EXCEPT !.activity = clamp((100 * active) \div dt, 0, 100)]
        /\ Renew

GpuReckoned ==
    /\ gpc = "read" /\ gpc' = "idle"
    /\ IF gpu_first
         THEN gpu' = [gpu EXCEPT !.activity = 0] /\ Renew
         ELSE GpuTooSoon \/ GpuMeasured
    /\ gpu_first' = FALSE
    /\ UNCHANGED <<gclock, asleep, card, counts, rc6_ms>>

GpuNext ==
    \/ \E sleeps \in BOOLEAN : GpuTime(sleeps)
    \/ CardChanges \/ GpuInitialize \/ GpuRead \/ GpuReckoned

GpuSpec == GpuInit /\ [][GpuNext]_gpuVars

----------------------------------------------------------------------------
\* The activity is the time awake since the last sample that counted, in
\* percent, as long as the counter was there: wrong by no more than the
\* longer of the two gaps between counter and clock, and the milliseconds
\* that were rounded, however many samples came too soon in between.
ActivityTruthful ==
    [][GpuReckoned /\ ~gpu_first /\ base.steady /\ gclock - prev_gpu.time > TicksPerMs =>
        LET dt    == gclock - base.time
            awake == dt - (asleep - base.asleep)
            lag   == gclock - base.read
            error == (IF lag > base.lag THEN lag ELSE base.lag) + TicksPerMs - 1
        IN  /\ gpu'.activity * dt <= 100 * (awake + error)
            /\ (gpu'.activity + 1) * dt > 100 * (awake - error)]_gpuVars

\* "Reads ... RC6 residency" (gpu.hpp): without the file, or with the card gone,
\* a GPU that does nothing is not reported as busy.
IdleNotBusy ==
    [][GpuReckoned /\ ~gpu_first /\ ~(card /\ counts) => gpu'.activity # 100]_gpuVars
=============================================================================
