-------------------------- MODULE CaptureAppProofs --------------------------
(***************************************************************************)
(* The application composed of portal and capture is each of them to a     *)
(* reader of that part alone, and keeps what it promises for any number of *)
(* calls, formats and buffers and any failure of either.  First, what it   *)
(* rests on: what a successful RequestScreenCast leaves behind is of one   *)
(* call.                                                                   *)
(***************************************************************************)
EXTENDS CaptureApp, TLAPS

----------------------------------------------------------------------------
(* The portal's session *)

\* The caller is subscribed only while it waits, to the request it made last,
\* which is of its call and stage; an answer it gets to see is to that request,
\* and the only one, whatever requests were given up before and are answered now.
BusInv ==
    /\ requests \in Nat /\ calls \in Nat
    /\ calls = 0 => pc \in {"idle", "destroyed"} /\ outcome = "none"
    /\ subscribed = IF pc = "await" THEN requests ELSE 0
    /\ pc \in {"subscribe", "await"} => requests # 0
    /\ \A p \in pending : p.request \in 1..requests
    /\ pc \in {"subscribe", "await"} =>
         \A p \in pending : p.request = requests => p.stage = stage /\ p.call = calls
    /\ \A answer \in {signal, promise} : answer.request # 0 =>
         /\ pc = "await" /\ answer.request = requests /\ answer.call = calls
         /\ \A p \in pending : p.request # requests
    /\ \A p, q \in pending : p.request = q.request => p = q
    /\ signal.request = 0 \/ promise.request = 0

\* An answer that grants a session was given with the session open.
GrantInv ==
    pc = "await" /\ stage = "CreateSession" =>
        \A answer \in {signal, promise} :
            answer.request # 0 /\ answer.code = 0 => calls \in sessions

\* What the call has so far.
StageInv ==
    /\ pc \in {"call", "subscribe", "await", "open"} /\ stage # "CreateSession" =>
         session = calls /\ calls \in sessions
    /\ pc = "open" => stage = "Start" /\ node = calls

PInv == BusInv /\ GrantInv /\ StageInv /\ SuccessIsComplete

\* The initial state satisfies the inductive invariant.
LEMMA PInvInit == Init => PInv
  BY DEF Init, NoAnswer, PInv, BusInv, GrantInv, StageInv, SuccessIsComplete

\* A step of the caller that is not out of its wait.
LEMMA CallerStep ==
    ASSUME PInv, RequestScreenCast \/ CallThrows \/ ProxyThrows \/ CallMethod \/ Subscribe
                 \/ OpenThrows \/ DupFails \/ OpenRemote \/ Destroy
    PROVE  PInv'
  <1> USE DEF PInv, BusInv, GrantInv, StageInv, SuccessIsComplete, bus, owned, Returns
  <1>1. CASE RequestScreenCast
    BY <1>1 DEF RequestScreenCast
  <1>2. CASE CallThrows \/ ProxyThrows
    BY <1>2 DEF CallThrows, ProxyThrows
  <1>3. CASE CallMethod
    BY <1>3 DEF CallMethod
  <1>4. CASE Subscribe
    BY <1>4 DEF Subscribe, NoAnswer
  <1>5. CASE OpenThrows
    BY <1>5 DEF OpenThrows
  <1>6. CASE DupFails
    BY <1>6 DEF DupFails
  <1>7. CASE OpenRemote
    BY <1>7 DEF OpenRemote
  <1>8. CASE Destroy
    BY <1>8 DEF Destroy
  <1> QED BY <1>1, <1>2, <1>3, <1>4, <1>5, <1>6, <1>7, <1>8

\* A step of the portal or of the event loop.
LEMMA BusStep ==
    ASSUME PInv, Bus
    PROVE  PInv'
  <1> USE DEF PInv, BusInv, GrantInv, StageInv, SuccessIsComplete, place, owned
  <1>1. ASSUME NEW p \in pending, NEW code \in Codes, NEW content \in Contents,
               Respond(p, code, content)
        PROVE  PInv'
    <2> USE <1>1 DEF Respond, Path
    <2>1. pending' \subseteq pending /\ sessions \subseteq sessions'
      OBVIOUS
    <2>2. CASE p.request = subscribed /\ subscribed # 0
      <3>1. /\ pc = "await" /\ p.request = requests /\ p.call = calls /\ p.stage = stage
            /\ signal.request = 0 /\ promise.request = 0
            /\ \A q \in pending' : q.request # requests
        BY <2>2
      <3>2. signal'.request = requests /\ signal'.call = calls /\ signal'.code = code
        BY <2>2, <3>1
      <3>3. BusInv'
        BY <2>1, <3>1, <3>2
      <3>4. GrantInv'
        BY <2>1, <3>1, <3>2
      <3> QED BY <2>1, <3>3, <3>4
    <2>3. CASE ~(p.request = subscribed /\ subscribed # 0)
      BY <2>1, <2>3
    <2> QED BY <2>2, <2>3
  <1>2. CASE Deliver
    BY <1>2 DEF Deliver, NoAnswer
  <1> QED BY <1>1, <1>2 DEF Bus

\* get() returns: the answer is refused, cannot be read, or taken.
LEMMA AnswerStep ==
    ASSUME PInv, Refused \/ GetThrows \/ Granted
    PROVE  PInv'
  <1> USE DEF owned, Answered, Returns
  <1>1. /\ pc = "await" /\ signal.request = 0 /\ promise.request # 0 /\ promise.call = calls
        /\ \A p \in pending : p.request \in 1..requests /\ p.request # requests
        /\ \A p, q \in pending : p.request = q.request => p = q
        /\ requests \in Nat /\ calls \in Nat /\ calls # 0
    BY DEF PInv, BusInv, Refused, GetThrows, Granted
  <1>2. /\ promise'.request = 0 /\ signal' = signal /\ subscribed' = 0
        /\ UNCHANGED <<requests, calls, pending, sessions>>
    BY DEF Refused, GetThrows, Granted, NoAnswer
  <1>3. pc' # "await" /\ pc' # "subscribe"
    BY DEF Refused, GetThrows, Granted
  <1>4. BusInv' /\ GrantInv'
    BY <1>1, <1>2, <1>3 DEF BusInv, GrantInv
  <1>5. CASE Refused \/ GetThrows
    BY <1>4, <1>5 DEF Refused, GetThrows, PInv, StageInv, SuccessIsComplete
  <1>6. CASE Granted
    <2>1. stage = "CreateSession" => calls \in sessions
      BY <1>1, <1>6 DEF Granted, PInv, GrantInv
    <2>2. StageInv' /\ SuccessIsComplete'
      BY <1>1, <1>6, <2>1 DEF Granted, PInv, StageInv, SuccessIsComplete
    <2> QED BY <1>4, <2>2 DEF PInv
  <1> QED BY <1>5, <1>6

\* The inductive invariant holds in every reachable state.
THEOREM PortalInvariance == Spec => []PInv
  <1>1. PInv /\ [Next]_vars => PInv'
    <2> SUFFICES ASSUME PInv, [Next]_vars PROVE PInv'
      OBVIOUS
    <2>1. CASE Next
      BY <2>1, CallerStep, BusStep, AnswerStep DEF Next, Caller
    <2>2. CASE UNCHANGED vars
      BY <2>2 DEF vars, place, bus, owned, PInv, BusInv, GrantInv, StageInv, SuccessIsComplete
    <2> QED BY <2>1, <2>2
  <1> QED BY <1>1, PInvInit, PTL DEF Spec

\* The session is open at the portal, and handle, node and descriptor are
\* those of the call that succeeded, whatever calls before it failed or threw
\* half-way and however late the portal answered them.
THEOREM SuccessTheorem == Spec => []SuccessIsComplete
  <1>1. PInv => SuccessIsComplete
    BY DEF PInv
  <1> QED BY <1>1, PortalInvariance, PTL

----------------------------------------------------------------------------
(* What the composition implements *)

\* A step of the application is a step of the portal's session or none.
LEMMA PortalStep == [AppNext]_appVars => [Next]_vars
  <1> SUFFICES ASSUME [AppNext]_appVars PROVE [Next]_vars
    OBVIOUS
  <1>1. CASE Asks \/ BusGoesOn
    BY <1>1 DEF Asks, BusGoesOn, Next
  <1>2. CASE DestroyPortal
    BY <1>2 DEF DestroyPortal, Next
  <1>3. CASE MakeCapture \/ Streams \/ CallsStop \/ Stops \/ LocalsGo \/ DestroyCapture
    BY <1>3 DEF MakeCapture, Streams, CallsStop, Stops, LocalsGo, DestroyCapture
  <1>4. ASSUME NEW failing \in {"loop", "ctx", "dup", "core", "stream", "connect", "none"},
               StartCapture(failing)
        PROVE  [Next]_vars
    BY <1>4 DEF StartCapture
  <1>5. CASE UNCHANGED appVars
    BY <1>5 DEF appVars
  <1> QED BY <1>1, <1>2, <1>3, <1>4, <1>5 DEF AppNext

\* Whatever is done with the capture, the portal's session is used as its
\* specification says.
THEOREM ImplementsPortal == AppSpec => Spec
  <1>1. AppInit => Init
    BY DEF AppInit
  <1> QED BY <1>1, PortalStep, PTL DEF AppSpec, Spec

\* A step of the application is a step of the capture or none.
LEMMA CaptureStep == [AppNext]_appVars => [C!Next]_(C!vars)
  <1> SUFFICES ASSUME [AppNext]_appVars PROVE [C!Next]_(C!vars)
    OBVIOUS
  <1> USE DEF captureVars, C!vars, C!owner, C!pw, C!pool, C!notes
  <1>1. CASE Asks \/ BusGoesOn \/ MakeCapture \/ LocalsGo \/ DestroyPortal
    BY <1>1 DEF Asks, BusGoesOn, MakeCapture, LocalsGo, DestroyPortal
  <1>2. CASE Streams
    BY <1>2 DEF Streams
  <1>3. CASE CallsStop
    BY <1>3 DEF CallsStop, C!Next
  <1>4. CASE DestroyCapture
    BY <1>4 DEF DestroyCapture, C!Next
  <1>5. CASE Stops
    BY <1>5 DEF Stops, C!Next
  <1>6. ASSUME NEW failing \in {"loop", "ctx", "dup", "core", "stream", "connect", "none"},
               StartCapture(failing)
        PROVE  C!Next
    BY <1>6 DEF StartCapture, C!Next
  <1>7. CASE UNCHANGED appVars
    BY <1>7 DEF appVars
  <1> QED BY <1>1, <1>2, <1>3, <1>4, <1>5, <1>6, <1>7 DEF AppNext

\* The capture is used as its specification says, so what is proved of it
\* holds in the application.
THEOREM ImplementsCapture == AppSpec => C!Spec
  <1>1. AppInit => C!Init
    BY DEF AppInit
  <1> QED BY <1>1, CaptureStep, PTL DEF AppSpec, C!Spec

----------------------------------------------------------------------------
(* What keeps the loop thread and the objects inside their scopes *)

\* Where Stop is tells what it has torn down.
StopInv ==
    /\ impl \subseteq C!Handles
    /\ app \in {"core", "ctx", "loop", "closed"} => "stream" \notin impl
    /\ app \in {"ctx", "loop", "closed"} => "core" \notin impl
    /\ app \in {"loop", "closed"} => "ctx" \notin impl
    /\ app = "closed" => "loop" \notin impl
    /\ ending \in {"idle", "closed"}
    /\ dups # {} <=> "core" \in impl

\* main's place, the capture's and the loop thread's.
MainInv ==
    /\ starts \in Nat
    /\ main \in {"portal", "capture"} => app = "idle" /\ worker = "none" /\ impl = {}
    /\ main = "started" => app = "idle"
    /\ main = "stopped" /\ worker # "none" => app \in {"invalidate", "deactivate", "quit", "join"}
    /\ main \in {"leaving", "ended"} => worker = "none"
    /\ main = "ended" => impl = {} /\ app \in {"idle", "closed"}
    /\ main \in {"portal", "capture", "started", "stopped", "leaving", "ended"}

\* The portal's session is there as long as the capture may use it, and of its
\* descriptors there is one at most.
PortalInv ==
    /\ main \in {"capture", "started", "stopped", "leaving"} => pc = "idle" /\ outcome = "ok"
    /\ main = "portal" => pc # "destroyed"
    /\ CallAgain = FALSE =>
         /\ openFds # {} => openFds = {pwFd} /\ outcome = "ok" /\ pc = "idle"
         /\ main = "ended" => openFds = {}

AppInv == StopInv /\ MainInv /\ PortalInv

\* The initial state satisfies the inductive invariant.
LEMMA AppInvInit == AppInit => AppInv
  BY DEF AppInit, Init, C!Init, AppInv, StopInv, MainInv, PortalInv

\* Of the capture's steps, those that leave app, impl and starts alone are the
\* loop thread's, the consumers' and the server's: they start no thread.
LEMMA StreamsStartNothing ==
    ASSUME Streams, starts \in Nat, worker = "none", ending \in {"idle", "closed"}
    PROVE  worker' = "none"
  <1> USE DEF Streams, C!owner, C!pw, C!pool, C!notes
  <1>1. ASSUME NEW failing \in {"loop", "ctx", "dup", "core", "stream", "connect", "none"}, C!Start(failing)
        PROVE  FALSE
    BY <1>1 DEF C!Start
  <1>2. ASSUME NEW end \in {"idle", "closed"}, C!StopCalled(end)
        PROVE  FALSE
    BY <1>2 DEF C!StopCalled
  <1>3. CASE C!Stop
    BY <1>3 DEF C!Stop, C!StopInvalidate, C!StopDeactivate, C!StopQuit, C!StopJoin,
                C!StopStream, C!StopHandle, C!StopLoop
  <1>4. CASE C!LoopRun \/ C!LoopInvoked \/ C!LoopExit
             \/ (\E newType \in [Buffers -> DataTypes] : C!OnParamChanged(newType))
             \/ (\E new \in {"paused", "streaming", "error", "unconnected"} : C!OnStateChanged(new))
             \/ (\E b \in Buffers : C!HandleProcess(b))
             \/ C!QueueDirect \/ C!CallbackKeeps \/ C!CallbackDrops \/ C!LoopRecycles
    BY <1>4 DEF C!LoopRun, C!LoopInvoked, C!LoopExit, C!OnParamChanged, C!OnStateChanged,
                C!HandleProcess, C!QueueDirect, C!CallbackKeeps, C!CallbackDrops, C!LoopRecycles
  <1>5. ASSUME NEW f \in held, C!ConsumerRecycles(f) \/ \E g \in held : C!MoveAssign(f, g)
        PROVE  worker' = "none"
    BY <1>5 DEF C!ConsumerRecycles, C!MoveAssign
  <1>6. ASSUME NEW n \in C!Sessions, C!RecycleQueues(n)
        PROVE  worker' = "none"
    BY <1>6 DEF C!RecycleQueues
  <1>7. ASSUME NEW b \in Buffers, C!Fill(b)
        PROVE  worker' = "none"
    BY <1>7 DEF C!Fill
  <1> QED BY <1>1, <1>2, <1>3, <1>4, <1>5, <1>6, <1>7 DEF C!Next

\* A step of main with the portal preserves the invariant.
LEMMA MainStep ==
    ASSUME AppInv, Asks \/ BusGoesOn \/ MakeCapture \/ LocalsGo \/ DestroyPortal
    PROVE  AppInv'
  <1> USE DEF AppInv, StopInv, MainInv, PortalInv, captureVars
  <1>1. CASE Asks
    <2>1. StopInv' /\ MainInv'
      BY <1>1 DEF Asks
    <2>2. PortalInv'
      BY <1>1 DEF Asks, Caller, bus, owned, Returns, RequestScreenCast, CallThrows,
                  ProxyThrows, CallMethod, Subscribe, Refused, GetThrows, Granted, Answered,
                  OpenThrows, DupFails, OpenRemote
    <2> QED BY <2>1, <2>2
  <1>5. CASE BusGoesOn
    BY <1>5 DEF BusGoesOn, Bus, Respond, Deliver, place, owned
  <1>2. CASE MakeCapture
    BY <1>2 DEF MakeCapture, vars, place, bus, owned
  <1>3. CASE LocalsGo
    BY <1>3 DEF LocalsGo, vars, place, bus, owned
  <1>4. CASE DestroyPortal
    <2> USE <1>4 DEF DestroyPortal
    <2>1. impl = {} /\ worker = "none" /\ app \in {"idle", "closed"}
      BY DEF C!Handles
    <2>2. StopInv' /\ MainInv'
      BY <2>1
    <2>3. PortalInv'
      BY DEF Destroy
    <2> QED BY <2>2, <2>3
  <1> QED BY <1>1, <1>2, <1>3, <1>4, <1>5

\* A step of the capture preserves it.
LEMMA CaptureKeeps ==
    ASSUME AppInv,
           Streams \/ CallsStop \/ Stops \/ DestroyCapture
           \/ \E failing \in {"loop", "ctx", "dup", "core", "stream", "connect", "none"} :
                 StartCapture(failing)
    PROVE  AppInv'
  <1> USE DEF AppInv, StopInv, MainInv, PortalInv, vars, place, bus, owned
  <1>1. CASE Streams
    <2>1. UNCHANGED <<app, starts, impl, vars, main, dups>>
      BY <1>1 DEF Streams
    <2>2. ending' = ending
      <3>1. ~ \E end \in {"idle", "closed"} : C!StopCalled(end)
        BY <2>1 DEF C!StopCalled
      <3> QED BY <1>1, <3>1 DEF Streams, C!Next, C!owner, C!Start, C!Stop, C!StopInvalidate,
             C!StopDeactivate, C!StopQuit, C!StopJoin, C!StopStream, C!StopHandle, C!StopLoop,
             C!LoopRun, C!LoopInvoked, C!LoopExit, C!OnParamChanged, C!OnStateChanged,
             C!HandleProcess, C!QueueDirect, C!CallbackKeeps, C!CallbackDrops, C!LoopRecycles,
             C!ConsumerRecycles, C!MoveAssign, C!RecycleQueues, C!Fill
    <2>3. worker = "none" => worker' = "none"
      BY <1>1, StreamsStartNothing
    <2> QED BY <2>1, <2>2, <2>3
  <1>2. CASE CallsStop
    BY <1>2 DEF CallsStop, C!StopCalled, C!pw, C!pool, C!notes
  <1>3. CASE DestroyCapture
    BY <1>3 DEF DestroyCapture, C!StopCalled, C!pw, C!pool, C!notes
  <1>4. CASE Stops
    <2>1. UNCHANGED <<vars, main, starts, ending>>
      BY <1>4 DEF Stops, C!Stop, C!StopInvalidate, C!StopDeactivate, C!StopQuit, C!StopJoin,
                  C!StopStream, C!StopHandle, C!StopLoop
    <2>2. app \in {"invalidate", "deactivate", "quit", "join", "stream", "core", "ctx", "loop"}
      BY <1>4 DEF Stops, C!Stop, C!StopInvalidate, C!StopDeactivate, C!StopQuit, C!StopJoin,
                  C!StopStream, C!StopHandle, C!StopLoop
    <2>3. StopInv'
      BY <1>4, <2>1 DEF Stops, C!Stop, C!StopInvalidate, C!StopDeactivate, C!StopQuit, C!StopJoin,
                  C!StopStream, C!StopHandle, C!StopLoop, C!Handles
    <2>4. worker' \in {worker, "none"}
      BY <1>4 DEF Stops, C!Stop, C!StopInvalidate, C!StopDeactivate, C!StopQuit, C!StopJoin,
                  C!StopStream, C!StopHandle, C!StopLoop
    <2>5. worker' = "none" \/ app' \in {"invalidate", "deactivate", "quit", "join"}
      BY <1>4, <2>2 DEF Stops, C!Stop, C!StopInvalidate, C!StopDeactivate, C!StopQuit, C!StopJoin,
                  C!StopStream, C!StopHandle, C!StopLoop
    <2>6. main \in {"stopped", "leaving"}
      BY <2>2
    <2> QED BY <2>1, <2>3, <2>4, <2>5, <2>6
  <1>5. ASSUME NEW failing \in {"loop", "ctx", "dup", "core", "stream", "connect", "none"},
               StartCapture(failing)
        PROVE  AppInv'
    <2> USE <1>5 DEF StartCapture, C!Start
    <2>1. /\ impl' = C!Created(failing) /\ starts' = starts + 1
          /\ UNCHANGED <<app, ending, vars>>
          /\ failing # "none" => worker' = worker
          /\ dups' = IF failing \in {"loop", "ctx", "dup", "core"} THEN {} ELSE {pwFd}
      BY DEF Close
    <2>2. StopInv'
      BY <2>1 DEF C!Created, C!Handles
    <2>3. MainInv' /\ PortalInv'
      BY <2>1
    <2> QED BY <2>2, <2>3
  <1> QED BY <1>1, <1>2, <1>3, <1>4, <1>5

\* The inductive invariant holds in every reachable state.
THEOREM AppInvariance == AppSpec => []AppInv
  <1>1. AppInv /\ [AppNext]_appVars => AppInv'
    <2> SUFFICES ASSUME AppInv, [AppNext]_appVars PROVE AppInv'
      OBVIOUS
    <2>1. CASE AppNext
      BY <2>1, MainStep, CaptureKeeps DEF AppNext
    <2>2. CASE UNCHANGED appVars
      BY <2>2 DEF appVars, vars, place, bus, owned, captureVars, AppInv, StopInv, MainInv, PortalInv
    <2> QED BY <2>1, <2>2
  <1> QED BY <1>1, AppInvInit, PTL DEF AppSpec

\* main's locals outlive the callbacks that refer to them, whichever stage of
\* Start failed and however Stop interleaves with the loop thread.
THEOREM LocalsTheorem == AppSpec => []LocalsOutliveCallbacks
  <1>1. AppInv => LocalsOutliveCallbacks
    BY DEF AppInv, MainInv, LocalsOutliveCallbacks
  <1> QED BY <1>1, AppInvariance, PTL

\* As long as there is a stream, the session the portal made for it is open.
THEOREM SessionTheorem == AppSpec => []SessionOutlivesStream
  <1>1. AppInv /\ PInv => SessionOutlivesStream
    BY DEF AppInv, StopInv, MainInv, PortalInv, PInv, BusInv, SuccessIsComplete,
           SessionOutlivesStream
  <1> QED BY <1>1, AppInvariance, ImplementsPortal, PortalInvariance, PTL

\* If RequestScreenCast is not called again after it succeeded, no descriptor
\* leaks or is closed under its owner, and none is left when main ends: whatever
\* the library leaves open when it refuses the connection.
THEOREM DescriptorTheorem ==
    ASSUME CallAgain = FALSE
    PROVE  AppSpec => []NoDescriptorLeaks
  <1>1. AppInv => NoDescriptorLeaks
    BY DEF AppInv, StopInv, MainInv, PortalInv, NoDescriptorLeaks
  <1> QED BY <1>1, AppInvariance, PTL
=============================================================================
