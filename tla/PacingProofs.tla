---------------------------- MODULE PacingProofs ----------------------------
(***************************************************************************)
(* For every set of rates, red zones, draw times, deadlines and clock      *)
(* values: the pacer's deadline is that of the first vblank it can make,   *)
(* and its estimate brackets the measured draw time; the timer reports     *)
(* only what is due and loses no Disarm; and the loop that drives both is  *)
(* a user of the pacer whose deadlines never go back.                      *)
(***************************************************************************)
EXTENDS PresentationLoop, TLAPS

----------------------------------------------------------------------------
(* PresentationPacer *)

\* A positive number that is at most n goes into n at least once.
LEMMA QuotientPositive ==
    ASSUME NEW n \in Nat, NEW d \in Nat \ {0}, d <= n
    PROVE  n \div d \in Nat \ {0}
  <1> DEFINE q == n \div d
  <1>1. q \in Int /\ d * q <= n /\ n < d * (q + 1)
    OBVIOUS
  <1>2. q + 1 > 1
    BY <1>1
  <1> QED BY <1>1, <1>2

\* Every rate the setters are given has an interval of at least one unit.
LEMMA IntervalPositive ==
    ASSUME NEW hz \in Rates
    PROVE  RefreshHzToIntervalNs(hz) \in Nat \ {0}
  <1>1. hz \in Int /\ hz <= NsPerSecond /\ NsPerSecond \in Nat /\ 60 <= NsPerSecond
    BY PacerAssumption
  <1>2. CASE hz <= 0
    BY <1>1, <1>2, QuotientPositive DEF RefreshHzToIntervalNs
  <1>3. CASE hz > 0
    BY <1>1, <1>3, QuotientPositive DEF RefreshHzToIntervalNs
  <1> QED BY <1>1, <1>2, <1>3

\* The filter's result lies between the measured time and the old estimate.
LEMMA SawtoothBetween ==
    ASSUME NEW estimate \in Nat, NEW drawTime \in Nat
    PROVE  /\ Sawtooth(estimate, drawTime) \in Nat
           /\ Sawtooth(estimate, drawTime) >= drawTime
           /\ Sawtooth(estimate, drawTime) <= drawTime \/ Sawtooth(estimate, drawTime) <= estimate
  <1>1. CASE drawTime > estimate
    BY <1>1 DEF Sawtooth
  <1>2. CASE drawTime <= estimate
    <2>1. Sawtooth(estimate, drawTime) = (980 * estimate + 20 * drawTime) \div 1000
      BY <1>2 DEF Sawtooth, kDecayAlpha, kDecayMax
    <2>2. 1000 * drawTime <= 980 * estimate + 20 * drawTime
          /\ 980 * estimate + 20 * drawTime <= 1000 * estimate
      BY <1>2
    <2> QED BY <2>1, <2>2
  <1> QED BY <1>1, <1>2

\* Clamping is monotonic and never raises an estimate.
LEMMA ClampBounds ==
    ASSUME PacerTypeOK, NEW a \in Nat, NEW b \in Nat, a <= b
    PROVE  Clamp(b) \in Nat /\ Clamp(a) <= Clamp(b) /\ Clamp(b) <= b
  BY DEF PacerTypeOK, Clamp, LesserOf

\* PacerTypeOK is inductive.
LEMMA TypeStep == PacerTypeOK /\ [PacerNext]_pacerVars => PacerTypeOK'
  <1> SUFFICES ASSUME PacerTypeOK, [PacerNext]_pacerVars PROVE PacerTypeOK'
    OBVIOUS
  <1> USE DEF settings
  <1>1. ASSUME NEW hz \in Rates, SetRefreshRateHz(hz) PROVE PacerTypeOK'
    BY <1>1, IntervalPositive DEF SetRefreshRateHz, PacerTypeOK
  <1>2. ASSUME NEW ns \in RedZones, SetRedZoneNs(ns) PROVE PacerTypeOK'
    BY <1>2, PacerAssumption DEF SetRedZoneNs, PacerTypeOK
  <1>3. ASSUME NEW drawTime \in DrawTimes, UpdateLastDrawDuration(drawTime) PROVE PacerTypeOK'
    <2>1. drawTime \in Nat /\ rollingMaxDrawTime \in Nat
      BY PacerAssumption DEF PacerTypeOK
    <2>2. Sawtooth(rollingMaxDrawTime, drawTime) \in Nat
      BY <2>1, SawtoothBetween
    <2>3. Clamp(Sawtooth(rollingMaxDrawTime, drawTime)) \in Nat
      BY <2>2, ClampBounds
    <2> QED BY <1>3, <2>3 DEF UpdateLastDrawDuration, PacerTypeOK
  <1>4. ASSUME NEW time \in Times, MarkVBlank(time) \/ CalculateNextWakeup(time) PROVE PacerTypeOK'
    BY <1>4, PacerAssumption DEF MarkVBlank, CalculateNextWakeup, PacerTypeOK
  <1>5. CASE Walk
    BY <1>5 DEF Walk, PacerTypeOK
  <1>6. CASE Return
    BY <1>6 DEF Return, TooSoon, Offset, PacerTypeOK
  <1>7. CASE UNCHANGED pacerVars
    BY <1>7 DEF pacerVars, PacerTypeOK
  <1> QED BY <1>1, <1>2, <1>3, <1>4, <1>5, <1>6, <1>7 DEF PacerNext

\* Every variable keeps its type, and the interval is never 0.
THEOREM PacerTyping == PacerSpec => []PacerTypeOK
  <1>1. PacerInit => PacerTypeOK
    BY IntervalPositive, PacerAssumption DEF PacerInit, InitPacer, PacerTypeOK
  <1> QED BY <1>1, TypeStep, PTL DEF PacerSpec

\* While the loop walks, the target is on the display's beat, and unless it is
\* the first vblank the one before it was too soon.
OnBeat ==
    call = "walk" =>
        \E k \in Nat \ {0} : target = VBlank(k) /\ (k > 1 => VBlank(k - 1) < current + Offset)

\* The beat: one more vblank is one more interval, a later vblank is no
\* earlier, and the k-th is at least k units away.
LEMMA Beat ==
    ASSUME NEW v \in Nat, NEW r \in Nat \ {0}, NEW k \in Nat \ {0}
    PROVE  /\ v + (k + 1) * r = v + k * r + r
           /\ v + k * r \in Nat /\ v + k * r >= k
           /\ \A i \in 1..(k - 1) : v + i * r <= v + (k - 1) * r
  <1>1. k * r \in Nat /\ (k + 1) * r = k * r + r
    OBVIOUS
  <1>2. k * r >= k
    <2>1. k * (r - 1) \in Nat /\ k * r = k * (r - 1) + k
      OBVIOUS
    <2> QED BY <1>1, <2>1
  <1>3. ASSUME NEW i \in 1..(k - 1) PROVE v + i * r <= v + (k - 1) * r
    <2>1. k - 1 - i \in Nat /\ r \in Nat
      OBVIOUS
    <2>2. (k - 1 - i) * r \in Nat
      BY <2>1
    <2>3. (k - 1) * r = i * r + (k - 1 - i) * r /\ i * r \in Int /\ (k - 1) * r \in Int
      OBVIOUS
    <2> QED BY <2>2, <2>3
  <1> QED BY <1>1, <1>2, <1>3

\* Walking keeps to the beat.
LEMMA OnBeatStep == PacerTypeOK /\ OnBeat /\ [PacerNext]_pacerVars => OnBeat'
  <1> SUFFICES ASSUME PacerTypeOK, OnBeat, [PacerNext]_pacerVars, (call = "walk")'
               PROVE  (\E k \in Nat \ {0} : target = VBlank(k) /\ (k > 1 => VBlank(k - 1) < current + Offset))'
    BY DEF OnBeat
  <1> USE DEF settings
  <1>1. CASE Walk
    <2>1. UNCHANGED <<lastVBlank, refreshInterval, current, rollingMaxDrawTime, redZone>>
          /\ target' = target + refreshInterval /\ target < current + Offset /\ call = "walk"
      BY <1>1 DEF Walk, TooSoon
    <2>2. PICK k \in Nat \ {0} : target = VBlank(k)
      BY <2>1 DEF OnBeat
    <2>3. lastVBlank + (k + 1) * refreshInterval = lastVBlank + k * refreshInterval + refreshInterval
      BY Beat DEF PacerTypeOK
    <2>4. (k + 1) \in Nat \ {0} /\ (k + 1) - 1 = k
      OBVIOUS
    <2>5. target' = VBlank(k + 1)' /\ (VBlank(k) < current + Offset)'
      BY <2>1, <2>2, <2>3 DEF VBlank, Offset
    <2> QED BY <2>4, <2>5
  <1>2. CASE \E time \in Times : CalculateNextWakeup(time)
    <2>1. target' = lastVBlank' + refreshInterval'
      BY <1>2 DEF CalculateNextWakeup
    <2>2. refreshInterval' \in Nat
      BY <1>2 DEF CalculateNextWakeup, PacerTypeOK
    <2>3. target' = VBlank(1)'
      BY <2>1, <2>2 DEF VBlank
    <2> QED BY <2>3
  <1>3. CASE UNCHANGED pacerVars
    BY <1>3 DEF pacerVars, OnBeat, VBlank, Offset
  <1> QED BY <1>1, <1>2, <1>3 DEF PacerNext, SetRefreshRateHz, SetRedZoneNs,
             UpdateLastDrawDuration, MarkVBlank, Return

\* CalculateNextWakeup returns the deadline of the first vblank on the
\* display's beat that can still be made, whatever the setters, the estimate
\* and the anchor were before.
THEOREM DeadlineTheorem == PacerSpec => DeadlineIsFirstToMeet
  <1>1. PacerInit => OnBeat
    BY DEF PacerInit, InitPacer, OnBeat
  <1>2. PacerTypeOK /\ OnBeat /\ [PacerNext]_pacerVars =>
          [call = "walk" /\ call' = "none" =>
             \E k \in 1..(wakeup' + Offset) :
                /\ wakeup' = VBlank(k) - Offset
                /\ wakeup' >= current
                /\ \A i \in 1..(k - 1) : VBlank(i) - Offset < current]_pacerVars
    <2> SUFFICES ASSUME PacerTypeOK, OnBeat, PacerNext, call = "walk", call' = "none"
                 PROVE  \E k \in 1..(wakeup' + Offset) :
                           /\ wakeup' = VBlank(k) - Offset
                           /\ wakeup' >= current
                           /\ \A i \in 1..(k - 1) : VBlank(i) - Offset < current
      BY DEF pacerVars, settings
    <2>1. wakeup' = target - Offset /\ target >= current + Offset
      <3>1. Return
        BY DEF PacerNext, SetRefreshRateHz, SetRedZoneNs, UpdateLastDrawDuration, MarkVBlank,
               CalculateNextWakeup, Walk
      <3> QED BY <3>1 DEF Return, TooSoon, Offset, PacerTypeOK, settings
    <2>2. PICK k \in Nat \ {0} : target = VBlank(k) /\ (k > 1 => VBlank(k - 1) < current + Offset)
      BY DEF OnBeat
    <2>3. current \in Nat /\ Offset \in Nat /\ target \in Nat
          /\ lastVBlank \in Nat /\ refreshInterval \in Nat \ {0}
      BY DEF PacerTypeOK, Offset
    <2>4. wakeup' = VBlank(k) - Offset /\ wakeup' >= current /\ wakeup' + Offset = target
      BY <2>1, <2>2, <2>3
    <2>5. k \in 1..(wakeup' + Offset)
      BY <2>2, <2>3, <2>4, Beat DEF VBlank
    <2>6. ASSUME NEW i \in 1..(k - 1) PROVE VBlank(i) - Offset < current
      <3>1. VBlank(i) <= VBlank(k - 1) /\ k > 1
        BY <2>3, Beat DEF VBlank
      <3>2. VBlank(i) \in Int /\ VBlank(k - 1) \in Int
        BY <2>3 DEF VBlank
      <3> QED BY <2>2, <2>3, <3>1, <3>2
    <2> QED BY <2>4, <2>5, <2>6
  <1> QED BY <1>1, <1>2, OnBeatStep, PacerTyping, PTL DEF PacerSpec, DeadlineIsFirstToMeet

\* The vblank before the target was too soon, or the target is the first one.
THEOREM NoVBlankSkippedTheorem == PacerSpec => []NoVBlankSkipped
  <1>1. PacerInit => NoVBlankSkipped
    BY DEF PacerInit, InitPacer, NoVBlankSkipped
  <1>2. PacerTypeOK /\ NoVBlankSkipped /\ [PacerNext]_pacerVars => NoVBlankSkipped'
    <2> SUFFICES ASSUME PacerTypeOK, NoVBlankSkipped, [PacerNext]_pacerVars, (call = "walk")'
                 PROVE  \/ (target = lastVBlank + refreshInterval)'
                        \/ (target - refreshInterval < current + Offset)'
      BY DEF NoVBlankSkipped
    <2> USE DEF settings
    <2>1. CASE Walk
      BY <2>1 DEF Walk, TooSoon, Offset, PacerTypeOK
    <2>2. CASE \E time \in Times : CalculateNextWakeup(time)
      BY <2>2 DEF CalculateNextWakeup
    <2>3. CASE UNCHANGED pacerVars
      BY <2>3 DEF pacerVars, NoVBlankSkipped, Offset
    <2> QED BY <2>1, <2>2, <2>3 DEF PacerNext, SetRefreshRateHz, SetRedZoneNs,
               UpdateLastDrawDuration, MarkVBlank, Return
  <1> QED BY <1>1, <1>2, PacerTyping, PTL DEF PacerSpec

\* After every update the estimate covers the measured draw time as far as
\* the interval leaves room, and is not above what it was made from.
THEOREM EstimateTheorem == PacerSpec => EstimateBracketsDraw
  <1>1. PacerTypeOK /\ [PacerNext]_pacerVars =>
          [\A drawTime \in DrawTimes : UpdateLastDrawDuration(drawTime) =>
             /\ rollingMaxDrawTime' >= Clamp(drawTime)
             /\ rollingMaxDrawTime' <= drawTime \/ rollingMaxDrawTime' <= rollingMaxDrawTime]_pacerVars
    <2> SUFFICES ASSUME PacerTypeOK, NEW drawTime \in DrawTimes, UpdateLastDrawDuration(drawTime)
                 PROVE  /\ rollingMaxDrawTime' >= Clamp(drawTime)
                        /\ rollingMaxDrawTime' <= drawTime \/ rollingMaxDrawTime' <= rollingMaxDrawTime
      OBVIOUS
    <2> DEFINE s == Sawtooth(rollingMaxDrawTime, drawTime)
    <2>1. drawTime \in Nat /\ rollingMaxDrawTime \in Nat
      BY PacerAssumption DEF PacerTypeOK
    <2>2. s \in Nat /\ s >= drawTime /\ (s <= drawTime \/ s <= rollingMaxDrawTime)
      BY <2>1, SawtoothBetween
    <2>3. rollingMaxDrawTime' = Clamp(s)
      BY DEF UpdateLastDrawDuration
    <2>4. Clamp(drawTime) \in Nat /\ Clamp(s) \in Nat /\ Clamp(drawTime) <= Clamp(s) /\ Clamp(s) <= s
      BY <2>1, <2>2, ClampBounds
    <2>5. Clamp(s) <= drawTime \/ Clamp(s) <= rollingMaxDrawTime
      <3> HIDE DEF s
      <3> QED BY <2>1, <2>2, <2>4
    <2> QED BY <2>3, <2>4, <2>5
  <1> QED BY <1>1, PacerTyping, PTL DEF PacerSpec, EstimateBracketsDraw

----------------------------------------------------------------------------
(* TimerFd *)

\* An expiration that can be read is of the time now set, which has come; a
\* pipe that is closed or was never made holds no byte.
ExpiryInv ==
    /\ expirations > 0 => Expired(now)
    /\ pipe # "open" => nudges = 0

TimerInv == TimerTypeOK /\ ExpiryInv /\ NudgeNotLost

\* The initial state satisfies the inductive invariant.
LEMMA TimerInitial == TimerInit => TimerInv
  <1> SUFFICES ASSUME TimerInit PROVE TimerInv
    OBVIOUS
  <1>1. result \in BOOLEAN /\ nudged \in BOOLEAN
    BY DEF TimerInit
  <1> QED BY <1>1, TimerAssumption DEF TimerInit, TimerInv, TimerTypeOK, ExpiryInv, NudgeNotLost

\* A step of the waiting thread preserves it: Drain ends the Wait, so that a
\* byte it takes is one this Wait was woken by.
LEMMA WaiterStep ==
    ASSUME TimerInv, (\E time \in Deadlines : ArmAbsolute(time)) \/ WaitCalled \/ Poll \/ Drain \/ Read
    PROVE  TimerInv'
  <1> USE TimerAssumption DEF TimerInv, TimerTypeOK, ExpiryInv, NudgeNotLost, Expired, kernel, other, SetTime
  <1>1. ASSUME NEW time \in Deadlines, ArmAbsolute(time)
        PROVE  TimerInv'
    BY <1>1 DEF ArmAbsolute
  <1>2. CASE WaitCalled
    BY <1>2 DEF WaitCalled
  <1>3. CASE Poll
    BY <1>3 DEF Poll
  <1>4. CASE Drain
    <2>1. result' \in BOOLEAN
      BY <1>4 DEF Drain
    <2> QED BY <1>4, <2>1 DEF Drain
  <1>5. CASE Read
    <2>1. result' \in BOOLEAN
      BY <1>5 DEF Read
    <2> QED BY <1>5, <2>1 DEF Read
  <1> QED BY <1>1, <1>2, <1>3, <1>4, <1>5

\* A step of the thread that disarms, of the owner, or of the kernel preserves it.
LEMMA OtherStep ==
    ASSUME TimerInv, DisarmTimer \/ DisarmNudge \/ Destroy \/ Tick \/ Expire
    PROVE  TimerInv'
  <1> USE TimerAssumption DEF TimerInv, TimerTypeOK, ExpiryInv, NudgeNotLost, Expired, kernel, other, SetTime
  <1>1. CASE DisarmTimer
    BY <1>1 DEF DisarmTimer
  <1>2. CASE DisarmNudge
    BY <1>2 DEF DisarmNudge
  <1>3. CASE Destroy
    BY <1>3 DEF Destroy
  <1>4. CASE Tick
    BY <1>4 DEF Tick
  <1>5. CASE Expire
    BY <1>5 DEF Expire
  <1> QED BY <1>1, <1>2, <1>3, <1>4, <1>5

\* The inductive invariant holds in every reachable state.
THEOREM TimerInvariance == TimerSpec => []TimerInv
  <1>1. TimerInv /\ [TimerNext]_timerVars => TimerInv'
    <2> SUFFICES ASSUME TimerInv, [TimerNext]_timerVars PROVE TimerInv'
      OBVIOUS
    <2>1. CASE TimerNext
      BY <2>1, WaiterStep, OtherStep DEF TimerNext
    <2>2. CASE UNCHANGED timerVars
      BY <2>2 DEF timerVars, kernel, other, TimerInv, TimerTypeOK, ExpiryInv, Expired, NudgeNotLost
    <2> QED BY <2>1, <2>2
  <1> QED BY <1>1, TimerInitial, PTL DEF TimerSpec

\* Every variable of TimerFd keeps its type.
THEOREM TimerTyping == TimerSpec => []TimerTypeOK
  <1>1. TimerInv => TimerTypeOK
    BY DEF TimerInv
  <1> QED BY <1>1, TimerInvariance, PTL

\* A Disarm during a Wait leaves a byte in the pipe until that Wait has seen
\* it, also when the pipe was full.
THEOREM NudgeTheorem == TimerSpec => []NudgeNotLost
  <1>1. TimerInv => NudgeNotLost
    BY DEF TimerInv
  <1> QED BY <1>1, TimerInvariance, PTL

\* Wait returns true only for a timer that is armed and whose time has come.
THEOREM DueTheorem == TimerSpec => FiresOnlyWhenDue
  <1>1. TimerInv /\ [TimerNext]_timerVars => [wait = "read" /\ wait' = "out" => Expired(now)]_timerVars
    <2> SUFFICES ASSUME TimerInv, TimerNext, wait = "read", wait' = "out" PROVE Expired(now)
      OBVIOUS
    <2>1. Read
      BY DEF TimerNext, ArmAbsolute, WaitCalled, Poll, Drain, DisarmTimer, DisarmNudge, Destroy,
             Tick, Expire
    <2> QED BY <2>1 DEF Read, TimerInv, ExpiryInv
  <1> QED BY <1>1, TimerInvariance, PTL DEF TimerSpec, FiresOnlyWhenDue

----------------------------------------------------------------------------
(* The loop *)

\* What the thread knows of pacer and clock: where it is, its pacer is between
\* calls or walking; the settings are those of the constructor, whose red zone
\* leaves room in the interval; once a frame is finished the schedule is
\* anchored at the last deadline and the estimate fits into an interval.
LoopInv ==
    /\ PacerTypeOK
    /\ now \in Nat /\ now >= StartTime /\ workStart \in Nat
    /\ frame \in Nat
    /\ pc = "anchor" => frame = 0
    /\ (call = "walk") <=> (pc = "walk")
    /\ redZone < refreshInterval
    /\ frame = 0 /\ pc \in {"anchor", "calc", "walk"} => wakeup = 0
    /\ frame > 0 \/ pc \in {"mark", "done"} => Offset <= refreshInterval
    /\ frame > 0 /\ pc \in {"calc", "walk"} => lastVBlank = wakeup
    /\ pc = "walk" => target >= lastVBlank + refreshInterval

\* A pacer with its settings and a clock that has just started.
LEMMA LoopInitial == Init => LoopInv
  <1> SUFFICES ASSUME Init PROVE LoopInv
    OBVIOUS
  <1>1. PICK hz \in Rates : InitPacer(hz)
    BY DEF Init, PacerInit
  <1>2. PacerTypeOK
    BY <1>1, IntervalPositive, PacerAssumption DEF InitPacer, PacerTypeOK
  <1>3. now \in Nat /\ now = StartTime
    BY TimerAssumption DEF Init, TimerInit
  <1>4. redZone < refreshInterval
    BY <1>1, LoopAssumption DEF InitPacer
  <1> QED BY <1>1, <1>2, <1>3, <1>4 DEF Init, InitPacer, LoopInv

\* What the loop calls, as far as the pacer can see it.
PacerCalled ==
    \/ MarkVBlank(ElapsedNs) \/ MarkVBlank(wakeup) \/ CalculateNextWakeup(ElapsedNs)
    \/ \E drawTime \in DrawTimes : UpdateLastDrawDuration(drawTime)
    \/ Walk \/ Return

\* Every step of the loop is one of the pacer's or leaves it alone.
LEMMA LoopCalls == ASSUME LoopInv, [Next]_vars PROVE PacerCalled \/ UNCHANGED pacerVars
  <1>1. CASE \E drawTime \in DrawTimes : Work(drawTime)
    <2>1. PICK drawTime \in DrawTimes : Work(drawTime)
      BY <1>1
    <2>2. drawTime \in Nat
      BY PacerAssumption
    <2>3. ElapsedNs - workStart = drawTime
      BY <2>1, <2>2, TimerAssumption DEF Work, LoopInv, ElapsedNs
    <2>4. UpdateLastDrawDuration(ElapsedNs - workStart)
      BY <2>1 DEF Work
    <2> QED BY <2>3, <2>4 DEF PacerCalled
  <1> QED BY <1>1 DEF Next, vars, Anchor, Calculate, Calculating, Arm, Wait, Mark, Pass, TimeComes,
             PacerCalled

\* The types of the pacer's variables outlive every call of the loop.
LEMMA CallTypes == ASSUME LoopInv, PacerCalled \/ UNCHANGED pacerVars PROVE PacerTypeOK'
  <1> USE DEF LoopInv, settings
  <1>1. ASSUME NEW drawTime \in DrawTimes, UpdateLastDrawDuration(drawTime) PROVE PacerTypeOK'
    <2>1. drawTime \in Nat /\ rollingMaxDrawTime \in Nat
      BY PacerAssumption DEF PacerTypeOK
    <2>2. Sawtooth(rollingMaxDrawTime, drawTime) \in Nat
      BY <2>1, SawtoothBetween
    <2>3. Clamp(Sawtooth(rollingMaxDrawTime, drawTime)) \in Nat
      BY <2>2, ClampBounds
    <2> QED BY <1>1, <2>3 DEF UpdateLastDrawDuration, PacerTypeOK
  <1>2. ElapsedNs \in Nat
    BY TimerAssumption DEF ElapsedNs
  <1>3. CASE MarkVBlank(ElapsedNs) \/ MarkVBlank(wakeup) \/ CalculateNextWakeup(ElapsedNs)
    BY <1>2, <1>3 DEF MarkVBlank, CalculateNextWakeup, PacerTypeOK
  <1>4. CASE Walk
    BY <1>4 DEF Walk, PacerTypeOK
  <1>5. CASE Return
    BY <1>5 DEF Return, TooSoon, Offset, PacerTypeOK
  <1>6. CASE UNCHANGED pacerVars
    BY <1>6 DEF pacerVars, PacerTypeOK
  <1> QED BY <1>1, <1>3, <1>4, <1>5, <1>6 DEF PacerCalled

\* The clock does not go back, and work starts after the clock was made.
LEMMA LoopClock ==
    ASSUME LoopInv, [Next]_vars
    PROVE  (now \in Nat /\ now >= StartTime /\ workStart \in Nat /\ frame \in Nat)'
  <1>1. (now' = now \/ now' = now + 1) /\ (frame' = frame \/ frame' = frame + 1)
    BY DEF LoopInv, Next, vars, timerVars, loopVars, Anchor, Calculate, Calculating, Arm, ArmAbsolute, Wait, WaitCalled,
           Poll, Read, Work, Mark, Pass, Tick, TimeComes, Expire
  <1>2. workStart' = workStart \/ workStart' = now - StartTime
    BY DEF Next, vars, loopVars, Anchor, Calculate, Calculating, Arm, Wait, Work, Mark, Pass,
           TimeComes, ElapsedNs
  <1> QED BY <1>1, <1>2, TimerAssumption DEF LoopInv

\* After an update the estimate and the red zone fit into an interval.
LEMMA UpdateFits ==
    ASSUME LoopInv, NEW drawTime \in DrawTimes, UpdateLastDrawDuration(drawTime)
    PROVE  (Offset <= refreshInterval)'
  <1>1. drawTime \in Nat /\ rollingMaxDrawTime \in Nat
    BY PacerAssumption DEF LoopInv, PacerTypeOK
  <1>2. Sawtooth(rollingMaxDrawTime, drawTime) \in Nat
    BY <1>1, SawtoothBetween
  <1>3. Clamp(Sawtooth(rollingMaxDrawTime, drawTime)) <= refreshInterval - redZone
    BY <1>2 DEF Clamp, LesserOf, LoopInv, PacerTypeOK
  <1>4. Clamp(Sawtooth(rollingMaxDrawTime, drawTime)) \in Nat
    BY <1>2, ClampBounds DEF LoopInv
  <1>5. /\ rollingMaxDrawTime' = Clamp(Sawtooth(rollingMaxDrawTime, drawTime))
        /\ redZone' = redZone /\ refreshInterval' = refreshInterval
    BY DEF UpdateLastDrawDuration, settings
  <1>6. rollingMaxDrawTime' + redZone' <= refreshInterval'
    <2> DEFINE e == Clamp(Sawtooth(rollingMaxDrawTime, drawTime))
    <2>1. e \in Nat /\ e <= refreshInterval - redZone
      BY <1>3, <1>4
    <2>2. rollingMaxDrawTime' = e
      BY <1>5
    <2> HIDE DEF e
    <2> QED BY <2>1, <2>2, <1>5 DEF LoopInv, PacerTypeOK
  <1> QED BY <1>6 DEF Offset

\* LoopInv is inductive.
LEMMA LoopStep == LoopInv /\ [Next]_vars => LoopInv'
  <1> SUFFICES ASSUME LoopInv, [Next]_vars PROVE LoopInv'
    OBVIOUS
  <1>1. PacerTypeOK'
    BY LoopCalls, CallTypes
  <1>2. (now \in Nat /\ now >= StartTime /\ workStart \in Nat /\ frame \in Nat)'
    BY LoopClock
  <1> USE <1>1, <1>2 DEF LoopInv, settings, Offset
  <1>3. CASE Anchor
    BY <1>3 DEF Anchor, MarkVBlank
  <1>4. CASE Calculate
    BY <1>4 DEF Calculate, CalculateNextWakeup, PacerTypeOK
  <1>5. CASE Calculating
    <2>1. CASE Walk
      BY <1>5, <2>1 DEF Calculating, Walk, Return, PacerTypeOK
    <2>2. CASE Return
      <3>1. call' = "none" /\ call = "walk" /\ pc = "walk" /\ pc' = "arm" /\ frame' = frame
        BY <1>5, <2>2 DEF Calculating, Walk, Return
      <3>2. /\ redZone' = redZone /\ refreshInterval' = refreshInterval
            /\ rollingMaxDrawTime' = rollingMaxDrawTime
        BY <2>2 DEF Return
      <3> QED BY <3>1, <3>2
    <2> QED BY <1>5, <2>1, <2>2 DEF Calculating
  <1>6. CASE Arm \/ Wait \/ Pass \/ TimeComes
    BY <1>6 DEF Arm, Wait, Pass, TimeComes, pacerVars, loopVars
  <1>7. CASE \E drawTime \in DrawTimes : Work(drawTime)
    <2>1. PICK drawTime \in DrawTimes : Work(drawTime)
      BY <1>7
    <2>2. drawTime \in Nat
      BY PacerAssumption
    <2>3. ElapsedNs - workStart = drawTime
      BY <2>1, <2>2, TimerAssumption DEF Work, ElapsedNs
    <2>4. UpdateLastDrawDuration(drawTime)
      BY <2>1, <2>3 DEF Work
    <2>5. (Offset <= refreshInterval)'
      BY <2>4, UpdateFits
    <2>6. call' = call /\ redZone' = redZone /\ refreshInterval' = refreshInterval /\ frame' = frame
      BY <2>1, <2>4 DEF Work, UpdateLastDrawDuration
    <2>7. pc = "work" /\ pc' = "mark"
      BY <2>1 DEF Work
    <2> HIDE DEF Offset
    <2> QED BY <2>5, <2>6, <2>7
  <1>8. CASE Mark
    <2>1. /\ call' = call /\ call = "none" /\ redZone' = redZone /\ refreshInterval' = refreshInterval
          /\ rollingMaxDrawTime' = rollingMaxDrawTime /\ wakeup' = wakeup /\ lastVBlank' = wakeup
      BY <1>8 DEF Mark, MarkVBlank
    <2>2. pc = "mark" /\ pc' \in {"done", "calc"} /\ frame' = frame + 1
      BY <1>8 DEF Mark
    <2>3. Offset' = Offset /\ Offset <= refreshInterval
      BY <2>1, <2>2
    <2> HIDE DEF Offset
    <2> QED BY <2>1, <2>2, <2>3
  <1>9. CASE UNCHANGED vars
    BY <1>9 DEF vars, pacerVars, timerVars, loopVars
  <1> QED BY <1>3, <1>4, <1>5, <1>6, <1>7, <1>8, <1>9 DEF Next

\* The invariant holds in every state of the loop.
LEMMA LoopInvariance == Spec => []LoopInv
  BY LoopInitial, LoopStep, PTL DEF Spec

\* A frame's deadline is never before the one of the frame before.
THEOREM WakeupTheorem == Spec => WakeupsNeverGoBack
  <1>1. LoopInv /\ [Next]_vars => [call = "walk" /\ call' = "none" => wakeup' >= wakeup]_vars
    <2> SUFFICES ASSUME LoopInv, [Next]_vars, call = "walk", call' = "none"
                 PROVE  wakeup' >= wakeup
      OBVIOUS
    <2>1. Return /\ pc = "walk"
      BY LoopCalls DEF PacerCalled, pacerVars, MarkVBlank, CalculateNextWakeup, Walk, LoopInv,
             UpdateLastDrawDuration
    <2>2. wakeup' = target - Offset /\ target >= current + Offset
      BY <2>1 DEF Return, TooSoon, LoopInv, PacerTypeOK, Offset
    <2>3. CASE frame = 0
      BY <2>1, <2>2, <2>3 DEF LoopInv, PacerTypeOK, Offset
    <2>4. CASE frame > 0
      BY <2>1, <2>2, <2>4 DEF LoopInv, PacerTypeOK, Offset
    <2> QED BY <2>3, <2>4 DEF LoopInv
  <1> QED BY <1>1, LoopInvariance, PTL DEF Spec, WakeupsNeverGoBack

\* The loop uses the pacer as PresentationPacer lets it be used, if its clock
\* may show any time: what is proved of the pacer holds of it in the loop.
THEOREM ImplementsPacer == ASSUME Times = Nat PROVE Spec => PacerSpec
  <1>1. Init => PacerInit
    BY DEF Init
  <1>2. LoopInv /\ [Next]_vars => [PacerNext]_pacerVars
    <2> SUFFICES ASSUME LoopInv, [Next]_vars PROVE [PacerNext]_pacerVars
      OBVIOUS
    <2>1. ElapsedNs \in Times /\ wakeup \in Times
      BY TimerAssumption DEF ElapsedNs, LoopInv, PacerTypeOK
    <2> QED BY <2>1, LoopCalls DEF PacerCalled, PacerNext
  <1> QED BY <1>1, <1>2, LoopInvariance, PTL DEF Spec, PacerSpec

\* In the loop, too, every deadline is that of the first vblank on the beat of
\* its anchor that can still be made.
THEOREM LoopDeadlineTheorem == ASSUME Times = Nat PROVE Spec => DeadlineIsFirstToMeet
  BY ImplementsPacer, DeadlineTheorem, PTL
=============================================================================
