------------------------- MODULE PresentationPacer -------------------------
(***************************************************************************)
(* PresentationPacer: the rolling estimate of the draw time and the        *)
(* deadline computed from it.  The object is driven by one thread;         *)
(* CalculateNextWakeup's loop is a step per iteration, so that whether it  *)
(* ends is a question for the model.  Times are in a unit of which a       *)
(* second has NsPerSecond; the decay keeps the source's 980/1000.          *)
(***************************************************************************)
EXTENDS Integers

CONSTANTS
    NsPerSecond,
    Rates,               \* refresh rates, in Hz, the setters are given
    RedZones,            \* red zones SetRedZoneNs is given
    DrawTimes,           \* measured draw times
    Times,               \* values of the monotonic clock
    kDefaultRedZoneNs,
    kStartingDrawTimeNs

kDecayAlpha == 980
kDecayMax   == 1000

\* A rate above NsPerSecond would give an interval of 0.
ASSUME PacerAssumption ==
    /\ NsPerSecond \in Nat /\ NsPerSecond >= 60
    /\ Rates \subseteq Int /\ \A hz \in Rates : hz <= NsPerSecond
    /\ RedZones \subseteq Nat /\ DrawTimes \subseteq Nat /\ Times \subseteq Nat
    /\ kDefaultRedZoneNs \in Nat /\ kStartingDrawTimeNs \in Nat

VARIABLES
    refreshInterval, lastVBlank, rollingMaxDrawTime, redZone,
    call,     \* "none", or "walk" inside CalculateNextWakeup
    current,  \* its argument
    target,   \* its targetVBlank
    wakeup    \* what it last returned

settings == <<refreshInterval, redZone>>
pacerVars == <<settings, lastVBlank, rollingMaxDrawTime, call, current, target, wakeup>>

\* Mutant: an unknown rate has no interval.
NoDefaultRate(hz) == IF hz <= 0 THEN 0 ELSE NsPerSecond \div hz

RefreshHzToIntervalNs(hz) == NsPerSecond \div (IF hz <= 0 THEN 60 ELSE hz)

LesserOf(a, b) == IF a < b THEN a ELSE b

\* The constructor.
InitPacer(hz) ==
    /\ refreshInterval = RefreshHzToIntervalNs(hz)
    /\ lastVBlank = 0
    /\ rollingMaxDrawTime = kStartingDrawTimeNs
    /\ redZone = kDefaultRedZoneNs
    /\ call = "none" /\ current = 0 /\ target = 0 /\ wakeup = 0

PacerInit == \E hz \in Rates : InitPacer(hz)

SetRefreshRateHz(hz) ==
    /\ call = "none"
    /\ refreshInterval' = RefreshHzToIntervalNs(hz)
    /\ UNCHANGED <<redZone, lastVBlank, rollingMaxDrawTime, call, current, target, wakeup>>

SetRedZoneNs(ns) ==
    /\ call = "none"
    /\ redZone' = ns
    /\ UNCHANGED <<refreshInterval, lastVBlank, rollingMaxDrawTime, call, current, target, wakeup>>

\* Mutant: the filter only averages.
AverageOnly(estimate, drawTime) ==
    (kDecayAlpha * estimate + (kDecayMax - kDecayAlpha) * drawTime) \div kDecayMax

\* The estimate before it is clamped: up at once, down by 2% of the distance.
Sawtooth(estimate, drawTime) ==
    IF drawTime > estimate
      THEN drawTime
      ELSE (kDecayAlpha * estimate + (kDecayMax - kDecayAlpha) * drawTime) \div kDecayMax

\* Mutant: the estimate is not clamped.
Unclamped(estimate) == estimate

Clamp(estimate) ==
    IF redZone < refreshInterval THEN LesserOf(estimate, refreshInterval - redZone) ELSE 0

UpdateLastDrawDuration(drawTime) ==
    /\ call = "none"
    /\ rollingMaxDrawTime' = Clamp(Sawtooth(rollingMaxDrawTime, drawTime))
    /\ UNCHANGED <<settings, lastVBlank, call, current, target, wakeup>>

MarkVBlank(time) ==
    /\ call = "none"
    /\ lastVBlank' = time
    /\ UNCHANGED <<settings, rollingMaxDrawTime, call, current, target, wakeup>>

Offset == rollingMaxDrawTime + redZone

CalculateNextWakeup(time) ==
    /\ call = "none"
    /\ call' = "walk" /\ current' = time /\ target' = lastVBlank + refreshInterval
    /\ UNCHANGED <<settings, lastVBlank, rollingMaxDrawTime, wakeup>>

\* Mutant: a vblank that can just be made is skipped.
TooSoonByOne == target <= current + Offset

TooSoon == target < current + Offset

\* Mutant: the walk restarts at the time of the call, off the display's beat.
WalkFromNow ==
    /\ call = "walk" /\ TooSoon
    /\ target' = current + refreshInterval
    /\ UNCHANGED <<settings, lastVBlank, rollingMaxDrawTime, call, current, wakeup>>

Walk ==
    /\ call = "walk" /\ TooSoon
    /\ target' = target + refreshInterval
    /\ UNCHANGED <<settings, lastVBlank, rollingMaxDrawTime, call, current, wakeup>>

Return ==
    /\ call = "walk" /\ ~TooSoon
    /\ call' = "none" /\ wakeup' = target - Offset
    /\ UNCHANGED <<settings, lastVBlank, rollingMaxDrawTime, current, target>>

PacerNext ==
    \/ \E hz \in Rates : SetRefreshRateHz(hz)
    \/ \E ns \in RedZones : SetRedZoneNs(ns)
    \/ \E drawTime \in DrawTimes : UpdateLastDrawDuration(drawTime)
    \/ \E time \in Times : MarkVBlank(time) \/ CalculateNextWakeup(time)
    \/ Walk \/ Return

PacerSpec == PacerInit /\ [][PacerNext]_pacerVars

\* A call in progress goes on: the loop has nothing to wait for.
PacerFairSpec == PacerSpec /\ WF_pacerVars(Walk \/ Return)

----------------------------------------------------------------------------
\* Every variable keeps its type, and the interval is never 0.
PacerTypeOK ==
    /\ refreshInterval \in Nat \ {0}
    /\ lastVBlank \in Nat /\ rollingMaxDrawTime \in Nat /\ redZone \in Nat
    /\ call \in {"none", "walk"}
    /\ current \in Nat /\ target \in Nat /\ wakeup \in Nat

\* The vblanks to come are a whole number of intervals after the last one.
VBlank(i) == lastVBlank + i * refreshInterval

\* However rate, red zone, estimate and anchor were changed since the last
\* frame, the call returns the deadline of the first vblank on the display's
\* beat that can still be made: a wakeup that is not in the past and leaves
\* the estimate and the red zone before the vblank, while the same wakeup for
\* every earlier one has gone by.
DeadlineIsFirstToMeet ==
    [][call = "walk" /\ call' = "none" =>
         \E k \in 1..(wakeup' + Offset) :
            /\ wakeup' = VBlank(k) - Offset
            /\ wakeup' >= current
            /\ \A i \in 1..(k - 1) : VBlank(i) - Offset < current]_pacerVars

\* No vblank that could be made is skipped: the one before the target was too
\* soon, unless the target is the first after the last vblank.
NoVBlankSkipped ==
    call = "walk" =>
        \/ target = lastVBlank + refreshInterval
        \/ target - refreshInterval < current + Offset

\* "Jump straight up to spikes so we don't miss the very frame that caused
\* them", and decay "back down during stable rendering": after an update the
\* estimate covers the measured time, up to what the interval leaves, and it
\* is not above the larger of the two times it was made from.
EstimateBracketsDraw ==
    [][\A drawTime \in DrawTimes : UpdateLastDrawDuration(drawTime) =>
         /\ rollingMaxDrawTime' >= Clamp(drawTime)
         /\ rollingMaxDrawTime' <= drawTime \/ rollingMaxDrawTime' <= rollingMaxDrawTime]_pacerVars

\* "Never let the estimate eat more than the interval minus redzone,
\* otherwise we'd have nowhere to schedule a wakeup."
EstimateFits == rollingMaxDrawTime + redZone <= refreshInterval \/ rollingMaxDrawTime = 0

\* CalculateNextWakeup returns: walking forward ends.
CallReturns == (call = "walk") ~> (call = "none")
=============================================================================
