--------------------------- MODULE CaptureProofs ---------------------------
(***************************************************************************)
(* For any number of sessions, formats and buffers, any registered         *)
(* callbacks and any data types: the types of Capture's variables, and the *)
(* two promises its comments make about tearing down while frames and      *)
(* callbacks are still around.                                             *)
(***************************************************************************)
EXTENDS Capture, TLAPS

\* A recycler with a stream is the one of the last Start, and Stop has not
\* invalidated it; only such a recycler's mutex is held by a recycle().
RecyclerInv ==
    /\ \A n \in Sessions : recyclerStream[n] # 0 =>
         /\ recyclerStream[n] = n /\ recycler = n /\ session = n
         /\ impl = Handles /\ app \in {"idle", "invalidate"}
    /\ \A n \in Sessions : lock[n] # NoFrame => recyclerStream[n] # 0

\* What the loop thread has in hand, and why a frame it makes is one of Frames.
HandInv ==
    /\ worker # "none" => session # 0
    /\ strm = "streaming" => format # 0
    /\ worker \in {"callback", "bypass", "requeue", "drop", "recycle"} => hand \in Frames

IInv == TypeOK /\ WorkerNeedsObjects /\ RecyclerInv /\ HandInv

\* The initial state satisfies the inductive invariant.
LEMMA InitInv == Init => IInv
  <1> SUFFICES ASSUME Init PROVE IInv
    OBVIOUS
  <1> USE CaptureAssumption DEF Init, Sessions
  <1>1. <<>> \in Seq({"deactivate", "quit"}) /\ 0 \in 0..MaxSessions /\ 0 \in 0..MaxFormats
    OBVIOUS
  <1>2. recyclerStream \in [Sessions -> 0..MaxSessions]
    BY <1>1
  <1>3. lock \in [Sessions -> Frames \cup {NoFrame}]
    OBVIOUS
  <1>4. type \in [Buffers -> DataTypes \cup {"none"}]
    BY DEF Untyped
  <1>5. TypeOK
    BY <1>1, <1>2, <1>3, <1>4 DEF TypeOK, Handles
  <1>6. WorkerNeedsObjects /\ RecyclerInv /\ HandInv
    BY DEF WorkerNeedsObjects, RecyclerInv, HandInv
  <1> QED BY <1>5, <1>6 DEF IInv

\* pw_loop_invoke keeps the types of what it may change.
LEMMA InvokeTyped ==
    ASSUME TypeOK, NEW f \in {"deactivate", "quit"}, Invoke(f)
    PROVE  active' \in BOOLEAN /\ running' \in BOOLEAN /\ invoked' \in Seq({"deactivate", "quit"})
  <1>1. CASE InLoop
    BY <1>1 DEF Invoke, TypeOK
  <1>2. CASE ~InLoop
    BY <1>2 DEF Invoke, TypeOK
  <1> QED BY <1>1, <1>2

\* A step of the application thread preserves it.
LEMMA AppStep ==
    ASSUME IInv, (\E stage \in {"loop", "ctx", "dup", "core", "stream", "connect", "none"} : Start(stage))
                 \/ (\E end \in {"idle", "closed"} : StopCalled(end)) \/ Stop
    PROVE  IInv'
  <1> USE CaptureAssumption DEF IInv, Sessions, owner, pw, pool, notes, Handles
  <1>1. ASSUME NEW stage \in {"loop", "ctx", "dup", "core", "stream", "connect", "none"}, Start(stage)
        PROVE  IInv'
    <2> USE <1>1 DEF Start
    <2>1. \A n \in Sessions : recyclerStream[n] = 0 /\ lock[n] = NoFrame
      BY DEF RecyclerInv
    <2>2. session' \in Sessions /\ session' = session + 1 /\ session \in Nat
      BY DEF TypeOK
    <2>3. TypeOK'
      <3>1. invoked' \in Seq({"deactivate", "quit"})
        OBVIOUS
      <3>2. /\ recyclerStream' \in [Sessions -> 0..MaxSessions] /\ recycler' \in 0..MaxSessions
            /\ worker' \in {worker, "spawned"}
        <4>1. CASE stage = "none"
          <5>1. recyclerStream' = [recyclerStream EXCEPT ![session'] = session']
            BY <4>1
          <5>2. session' \in 0..MaxSessions
            BY <2>2
          <5>3. recyclerStream \in [Sessions -> 0..MaxSessions]
            BY DEF TypeOK
          <5>4. recyclerStream' \in [Sessions -> 0..MaxSessions]
            BY ONLY <5>1, <5>2, <5>3
          <5> QED BY <4>1, <5>2, <5>4
        <4>2. CASE stage # "none"
          BY <4>2 DEF TypeOK
        <4> QED BY <4>1, <4>2
      <3>3. impl' \subseteq Handles
        BY DEF Created
      <3>4. lock' = lock /\ held' = held /\ hand' = hand /\ told' = told
            /\ streaming' = streaming /\ app' = app /\ ending' = ending
        OBVIOUS
      <3>5. session' \in 0..MaxSessions /\ format' \in 0..MaxFormats
        BY <2>2
      <3>6. queued' = {} /\ filled' = {} /\ strm' \in {"connecting", "unconnected"}
        OBVIOUS
      <3>7. running' \in BOOLEAN /\ active' \in BOOLEAN
        OBVIOUS
      <3>8. type' \in [Buffers -> DataTypes \cup {"none"}]
        BY DEF Untyped
      <3> QED BY <3>1, <3>2, <3>3, <3>4, <3>5, <3>6, <3>7, <3>8 DEF TypeOK
    <2>4. WorkerNeedsObjects'
      BY DEF WorkerNeedsObjects, Created
    <2>5. RecyclerInv'
      BY <2>1, <2>2 DEF RecyclerInv, TypeOK, Created
    <2>6. HandInv'
      BY <2>2 DEF HandInv
    <2> QED BY <2>3, <2>4, <2>5, <2>6
  <1>2. ASSUME NEW end \in {"idle", "closed"}, StopCalled(end)
        PROVE  IInv'
    BY <1>2 DEF StopCalled, TypeOK, WorkerNeedsObjects, RecyclerInv, HandInv
  <1>3. CASE StopInvalidate
    <2> USE <1>3 DEF StopInvalidate
    <2>1. recyclerStream' \in [Sessions -> 0..MaxSessions]
      <3>1. recyclerStream \in [Sessions -> 0..MaxSessions] /\ 0 \in 0..MaxSessions
        BY DEF TypeOK
      <3>2. \/ recyclerStream' = recyclerStream
            \/ recyclerStream' = [recyclerStream EXCEPT ![recycler] = 0]
        OBVIOUS
      <3> QED BY ONLY <3>1, <3>2
    <2>2. TypeOK' /\ WorkerNeedsObjects' /\ HandInv'
      BY <2>1 DEF TypeOK, WorkerNeedsObjects, HandInv
    <2>3. RecyclerInv'
      <3>1. CASE recycler = 0
        BY <3>1 DEF RecyclerInv
      <3>2. CASE recycler # 0
        <4>1. recycler \in Sessions
          BY <3>2 DEF TypeOK
        <4>2. \A n \in Sessions : recyclerStream'[n] = 0 /\ lock'[n] = NoFrame
          BY <3>2, <4>1 DEF RecyclerInv, TypeOK
        <4> QED BY <4>2 DEF RecyclerInv
      <3> QED BY <3>1, <3>2
    <2> QED BY <2>2, <2>3
  <1>4. CASE StopDeactivate
    <2>1. active' \in BOOLEAN /\ running' \in BOOLEAN /\ invoked' \in Seq({"deactivate", "quit"})
      BY <1>4, InvokeTyped DEF StopDeactivate, TypeOK
    <2> QED BY <1>4, <2>1 DEF StopDeactivate, TypeOK, WorkerNeedsObjects, RecyclerInv, HandInv
  <1>5. CASE StopQuit
    <2>1. active' \in BOOLEAN /\ running' \in BOOLEAN /\ invoked' \in Seq({"deactivate", "quit"})
      BY <1>5, InvokeTyped DEF StopQuit, TypeOK
    <2> QED BY <1>5, <2>1 DEF StopQuit, TypeOK, WorkerNeedsObjects, RecyclerInv, HandInv
  <1>6. CASE StopJoin
    BY <1>6 DEF StopJoin, TypeOK, WorkerNeedsObjects, RecyclerInv, HandInv
  <1>7. CASE StopStream
    BY <1>7 DEF StopStream, TypeOK, WorkerNeedsObjects, RecyclerInv, HandInv
  <1>8. CASE StopHandle("core", "ctx")
    BY <1>8 DEF StopHandle, TypeOK, WorkerNeedsObjects, RecyclerInv, HandInv
  <1>9. CASE StopHandle("ctx", "loop")
    BY <1>9 DEF StopHandle, TypeOK, WorkerNeedsObjects, RecyclerInv, HandInv
  <1>10. CASE StopLoop
    BY <1>10 DEF StopLoop, TypeOK, WorkerNeedsObjects, RecyclerInv, HandInv
  <1> QED BY <1>1, <1>2, <1>3, <1>4, <1>5, <1>6, <1>7, <1>8, <1>9, <1>10 DEF Stop

\* A step of the loop thread preserves it.
LEMMA LoopStep ==
    ASSUME IInv, LoopRun \/ LoopInvoked \/ LoopExit
                 \/ (\E newType \in [Buffers -> DataTypes] : OnParamChanged(newType))
                 \/ (\E new \in {"paused", "streaming", "error", "unconnected"} : OnStateChanged(new))
                 \/ (\E b \in Buffers : HandleProcess(b))
                 \/ QueueDirect \/ CallbackKeeps \/ CallbackDrops \/ LoopRecycles
    PROVE  IInv'
  <1> USE CaptureAssumption DEF IInv, Sessions, owner, pw, pool, notes
  <1>1. CASE LoopRun
    BY <1>1 DEF LoopRun, TypeOK, WorkerNeedsObjects, RecyclerInv, HandInv
  <1>2. CASE LoopInvoked
    BY <1>2 DEF LoopInvoked, TypeOK, WorkerNeedsObjects, RecyclerInv, HandInv
  <1>3. CASE LoopExit
    BY <1>3 DEF LoopExit, TypeOK, WorkerNeedsObjects, RecyclerInv, HandInv
  <1>4. ASSUME NEW newType \in [Buffers -> DataTypes], OnParamChanged(newType)
        PROVE  IInv'
    BY <1>4 DEF OnParamChanged, TypeOK, WorkerNeedsObjects, RecyclerInv, HandInv
  <1>5. ASSUME NEW new \in {"paused", "streaming", "error", "unconnected"}, OnStateChanged(new)
        PROVE  IInv'
    <2> USE <1>5 DEF OnStateChanged
    <2>1. TypeOK'
      BY DEF TypeOK
    <2>2. WorkerNeedsObjects' /\ RecyclerInv'
      BY DEF WorkerNeedsObjects, RecyclerInv
    <2>3. HandInv'
      BY DEF Successors, HandInv
    <2> QED BY <2>1, <2>2, <2>3
  <1>6. ASSUME NEW b \in Buffers, HandleProcess(b)
        PROVE  IInv'
    <2>1. session \in Sessions /\ format \in 1..MaxFormats
      BY <1>6 DEF HandleProcess, TypeOK, HandInv
    <2>2. hand' \in Frames
      BY <1>6, <2>1 DEF HandleProcess, Frames
    <2>3. filled' \subseteq Buffers
      BY <1>6 DEF HandleProcess, TypeOK
    <2>4. TypeOK'
      <3>1. worker' \in {"requeue", "callback", "bypass"}
        BY <1>6 DEF HandleProcess
      <3> QED BY <1>6, <2>2, <2>3, <3>1 DEF HandleProcess, TypeOK
    <2>5. WorkerNeedsObjects' /\ HandInv'
      BY <1>6, <2>1, <2>2 DEF HandleProcess, WorkerNeedsObjects, HandInv
    <2>6. RecyclerInv'
      BY <1>6 DEF HandleProcess, RecyclerInv
    <2> QED BY <2>4, <2>5, <2>6
  <1>7. CASE QueueDirect
    <2> USE <1>7 DEF QueueDirect
    <2>1. hand \in Frames /\ hand.buf \in Buffers
      BY DEF HandInv, Frames
    <2>2. TypeOK'
      BY <2>1 DEF TypeOK
    <2>3. WorkerNeedsObjects' /\ HandInv' /\ RecyclerInv'
      BY <2>1 DEF WorkerNeedsObjects, HandInv, RecyclerInv
    <2> QED BY <2>2, <2>3
  <1>8. CASE CallbackKeeps
    BY <1>8 DEF CallbackKeeps, TypeOK, WorkerNeedsObjects, RecyclerInv, HandInv
  <1>9. CASE CallbackDrops
    BY <1>9 DEF CallbackDrops, TypeOK, WorkerNeedsObjects, RecyclerInv, HandInv
  <1>10. CASE LoopRecycles
    <2> USE <1>10 DEF LoopRecycles
    <2>1. hand \in Frames /\ hand.sess \in Sessions
      BY DEF HandInv, Frames
    <2>2. lock' \in [Sessions -> Frames \cup {NoFrame}]
      BY <2>1 DEF Recycle, TypeOK
    <2>3. TypeOK'
      BY <2>1, <2>2 DEF TypeOK
    <2>4. WorkerNeedsObjects' /\ HandInv'
      BY <2>1 DEF WorkerNeedsObjects, HandInv
    <2>5. RecyclerInv'
      BY <2>1 DEF Recycle, RecyclerInv, TypeOK
    <2> QED BY <2>3, <2>4, <2>5
  <1> QED BY <1>1, <1>2, <1>3, <1>4, <1>5, <1>6, <1>7, <1>8, <1>9, <1>10

\* A step of a consumer, of the server, or out of the recycler preserves it.
LEMMA FrameStep ==
    ASSUME IInv, (\E f \in held : ConsumerRecycles(f) \/ \E g \in held : MoveAssign(f, g))
                 \/ (\E n \in Sessions : RecycleQueues(n)) \/ (\E b \in Buffers : Fill(b))
    PROVE  IInv'
  <1> USE CaptureAssumption DEF IInv, Sessions, owner, pw, pool, notes
  <1>1. ASSUME NEW f \in held, ConsumerRecycles(f)
        PROVE  IInv'
    <2> USE <1>1 DEF ConsumerRecycles
    <2>1. f \in Frames /\ f.sess \in Sessions
      BY DEF TypeOK, Frames
    <2>2. lock' \in [Sessions -> Frames \cup {NoFrame}]
      BY <2>1 DEF Recycle, TypeOK
    <2>3. TypeOK'
      BY <2>2 DEF TypeOK
    <2>4. WorkerNeedsObjects' /\ HandInv'
      BY DEF WorkerNeedsObjects, HandInv
    <2>5. RecyclerInv'
      BY <2>1 DEF Recycle, RecyclerInv, TypeOK
    <2> QED BY <2>3, <2>4, <2>5
  <1>2. ASSUME NEW n \in Sessions, RecycleQueues(n)
        PROVE  IInv'
    <2> USE <1>2 DEF RecycleQueues
    <2>1. lock[n] \in Frames /\ lock[n].buf \in Buffers
      BY DEF TypeOK, Frames
    <2>2. worker' \in {worker, "looping"} /\ hand' \in {hand, NoFrame}
      OBVIOUS
    <2>3. lock' \in [Sessions -> Frames \cup {NoFrame}]
      BY DEF TypeOK
    <2>4. TypeOK'
      BY <2>1, <2>2, <2>3 DEF TypeOK
    <2>5. WorkerNeedsObjects' /\ HandInv'
      BY DEF WorkerNeedsObjects, HandInv
    <2>6. RecyclerInv'
      BY DEF RecyclerInv, TypeOK
    <2> QED BY <2>4, <2>5, <2>6
  <1>3. ASSUME NEW f \in held, NEW g \in held, MoveAssign(f, g)
        PROVE  IInv'
    BY <1>3 DEF MoveAssign, TypeOK, WorkerNeedsObjects, RecyclerInv, HandInv
  <1>4. ASSUME NEW b \in Buffers, Fill(b)
        PROVE  IInv'
    BY <1>4 DEF Fill, TypeOK, WorkerNeedsObjects, RecyclerInv, HandInv
  <1> QED BY <1>1, <1>2, <1>3, <1>4

\* The inductive invariant holds in every reachable state.
THEOREM Invariance == Spec => []IInv
  <1>1. IInv /\ [Next]_vars => IInv'
    <2> SUFFICES ASSUME IInv, [Next]_vars PROVE IInv'
      OBVIOUS
    <2>1. CASE Next
      BY <2>1, AppStep, LoopStep, FrameStep DEF Next
    <2>2. CASE UNCHANGED vars
      BY <2>2 DEF vars, owner, pw, pool, notes, IInv, TypeOK, WorkerNeedsObjects,
                  RecyclerInv, HandInv
    <2> QED BY <2>1, <2>2
  <1> QED BY <1>1, InitInv, PTL DEF Spec

\* Every variable of Capture keeps its type.
THEOREM Typing == Spec => []TypeOK
  <1>1. IInv => TypeOK
    BY DEF IInv
  <1> QED BY <1>1, Invariance, PTL

\* Whatever frames outlive and whenever they are destroyed, recycle() queues
\* only into the stream of its own session, and only while that stream exists.
THEOREM RecycleSafety == Spec => []RecycleIntoLiveStream
  <1>1. IInv => RecycleIntoLiveStream
    BY DEF IInv, RecyclerInv, RecycleIntoLiveStream, Handles
  <1> QED BY <1>1, Invariance, PTL

\* No callback runs on an object Stop has destroyed or is destroying.
THEOREM CallbackSafety == Spec => []WorkerNeedsObjects
  <1>1. IInv => WorkerNeedsObjects
    BY DEF IInv
  <1> QED BY <1>1, Invariance, PTL

----------------------------------------------------------------------------
(* The pool, where every type of buffer that makes a frame has a callback  *)
(* and a stream negotiates one format.                                      *)

Ordinary == MaxFormats = 1 /\ DataTypes \subseteq Callbacks \cup {"other"}

\* Where the frames of the present session may be.
Mine(f) == f # NoFrame /\ f.sess = session

Out == {f \in held \cup {hand} \cup {lock[n] : n \in Sessions} : Mine(f)}

\* A frame is in one place, and its buffer is not with the stream.
PlaceInv ==
    /\ queued \cap filled = {}
    /\ \A f \in held : f.sess <= session
    /\ \A f \in Out : f.buf \notin queued \cup filled
    /\ format = 0 => Out = {}
    /\ hand \notin held
    /\ \A n \in Sessions : lock[n] # NoFrame => lock[n].sess = n /\ lock[n] \notin held
    /\ \A n \in Sessions : hand # NoFrame /\ lock[n] = hand => worker = "recycle"

\* What the loop thread has in hand is of the present session, and it never
\* keeps a frame for itself: the buffers without a callback make none.
WayInv ==
    /\ worker \in {"none", "spawned", "looping", "exited"} => hand = NoFrame
    /\ hand # NoFrame => hand.sess = session
    /\ worker = "recycle" => lock[session] = hand
    /\ format # 0 => type \in [Buffers -> DataTypes]
    /\ worker # "bypass"

PoolInv == PlaceInv /\ WayInv

\* With one format a frame is its session and its buffer.
LEMMA SameFrame ==
    ASSUME Ordinary, NEW f \in Frames, NEW g \in Frames, f.sess = g.sess, f.buf = g.buf
    PROVE  f = g
  BY CaptureAssumption DEF Ordinary, Frames

\* There is no pool before the first session.
LEMMA PoolInit == Init => PoolInv
  BY CaptureAssumption DEF Init, PoolInv, PlaceInv, WayInv, Out, Mine, Sessions

\* A step of the application thread preserves it: between two sessions no
\* frame is the loop thread's, and invalidate() waits for the mutex.
LEMMA PoolAppStep ==
    ASSUME Ordinary, IInv, PoolInv,
           (\E stage \in {"loop", "ctx", "dup", "core", "stream", "connect", "none"} : Start(stage))
           \/ (\E end \in {"idle", "closed"} : StopCalled(end)) \/ Stop
    PROVE  PoolInv'
  <1> USE CaptureAssumption DEF IInv, PoolInv, Sessions, owner, pw, pool, notes
  <1>1. ASSUME NEW stage \in {"loop", "ctx", "dup", "core", "stream", "connect", "none"}, Start(stage)
        PROVE  PoolInv'
    <2> USE <1>1 DEF Start
    <2>1. \A n \in Sessions : lock[n] = NoFrame
      BY DEF RecyclerInv, Handles
    <2>2. hand = NoFrame /\ hand' = NoFrame /\ session' = session + 1 /\ session \in Nat
          /\ lock' = lock /\ held' = held /\ worker' \in {"none", "spawned"}
      BY DEF WayInv, TypeOK
    <2>3. \A f \in held : f.sess \in Nat /\ f.sess <= session
      BY DEF PlaceInv, TypeOK, Frames
    <2>4. Out' = {}
      BY <2>1, <2>2, <2>3 DEF Out, Mine
    <2>5. PlaceInv'
      BY <2>1, <2>2, <2>3, <2>4 DEF PlaceInv, TypeOK
    <2>6. WayInv'
      BY <2>2, <2>4 DEF WayInv
    <2> QED BY <2>5, <2>6
  <1>2. ASSUME NEW end \in {"idle", "closed"}, StopCalled(end)
        PROVE  PoolInv'
    BY <1>2 DEF StopCalled, PlaceInv, WayInv, Out, Mine
  <1>3. CASE StopInvalidate \/ StopDeactivate \/ StopQuit \/ StopHandle("core", "ctx")
             \/ StopHandle("ctx", "loop") \/ StopLoop
    BY <1>3 DEF StopInvalidate, StopDeactivate, StopQuit, StopHandle, StopLoop,
                PlaceInv, WayInv, Out, Mine
  <1>4. CASE StopJoin
    BY <1>4 DEF StopJoin, PlaceInv, WayInv, Out, Mine
  <1>5. CASE StopStream
    BY <1>5 DEF StopStream, PlaceInv, WayInv, Out, Mine
  <1> QED BY <1>1, <1>2, <1>3, <1>4, <1>5 DEF Stop

\* A step of the loop thread preserves it.
LEMMA PoolLoopStep ==
    ASSUME Ordinary, IInv, PoolInv,
           LoopRun \/ LoopInvoked \/ LoopExit
           \/ (\E newType \in [Buffers -> DataTypes] : OnParamChanged(newType))
           \/ (\E new \in {"paused", "streaming", "error", "unconnected"} : OnStateChanged(new))
           \/ (\E b \in Buffers : HandleProcess(b))
           \/ QueueDirect \/ CallbackKeeps \/ CallbackDrops \/ LoopRecycles
    PROVE  PoolInv'
  <1> USE CaptureAssumption DEF IInv, PoolInv, Sessions, owner, pw, pool, notes
  <1>1. CASE LoopRun \/ LoopInvoked \/ LoopExit
    BY <1>1 DEF LoopRun, LoopInvoked, LoopExit, PlaceInv, WayInv, Out, Mine
  <1>2. ASSUME NEW newType \in [Buffers -> DataTypes], OnParamChanged(newType)
        PROVE  PoolInv'
    <2>1. format = 0 /\ Out' = {} /\ Out = {}
      BY <1>2 DEF OnParamChanged, Ordinary, PlaceInv, Out, Mine, TypeOK
    <2> QED BY <1>2, <2>1 DEF OnParamChanged, PlaceInv, WayInv, TypeOK
  <1>3. ASSUME NEW new \in {"paused", "streaming", "error", "unconnected"}, OnStateChanged(new)
        PROVE  PoolInv'
    BY <1>3 DEF OnStateChanged, PlaceInv, WayInv, Out, Mine
  <1>4. ASSUME NEW b \in Buffers, HandleProcess(b)
        PROVE  PoolInv'
    <2>1. /\ hand' = [sess |-> session, gen |-> format, buf |-> b] /\ hand' \in Frames
          /\ hand = NoFrame /\ format # 0
          /\ UNCHANGED <<session, lock, held, format, type, queued>>
          /\ filled' = filled \ {b} /\ b \in filled
      BY <1>4 DEF HandleProcess, WayInv, HandInv, TypeOK, Frames
    <2>2. \A f \in Out : f.buf # b
      BY <2>1 DEF PlaceInv
    <2>3. worker' \in {"callback", "requeue"}
      BY <1>4, <2>1 DEF HandleProcess, WayInv, Ordinary
    <2>4. Out' = Out \cup {hand'}
      BY <2>1 DEF Out, Mine
    <2>5. hand' \notin held /\ \A n \in Sessions : lock[n] # hand'
      BY <2>1, <2>2 DEF Out, Mine
    <2>6. PlaceInv'
      BY <2>1, <2>2, <2>4, <2>5 DEF PlaceInv
    <2>7. WayInv'
      BY <2>1, <2>3, <2>4 DEF WayInv, Out, Mine
    <2> QED BY <2>6, <2>7
  <1>5. CASE QueueDirect
    <2>1. worker = "requeue" /\ hand \in Frames /\ hand # NoFrame /\ hand \in Out
      BY <1>5 DEF QueueDirect, WayInv, HandInv, Out, Mine
    <2>2. hand.buf \notin filled /\ \A f \in Out : f \in Frames /\ f.sess = hand.sess
      BY <2>1 DEF PlaceInv, Out, Mine, TypeOK
    <2>3. /\ hand' = NoFrame /\ worker' = "looping" /\ queued' = queued \cup {hand.buf}
          /\ UNCHANGED <<session, lock, held, format, type, filled>>
      BY <1>5, <2>1 DEF QueueDirect
    <2>4. Out' \subseteq Out \ {hand}
      BY <2>1, <2>3 DEF Out, Mine, PlaceInv
    <2>5. \A f \in Out' : f.buf # hand.buf
      BY <2>1, <2>2, <2>4, SameFrame
    <2>6. PlaceInv'
      BY <2>1, <2>2, <2>3, <2>4, <2>5 DEF PlaceInv, TypeOK
    <2> QED BY <2>3, <2>6 DEF WayInv
  <1>6. CASE CallbackKeeps
    <2>1. hand \in Frames /\ hand # NoFrame /\ hand.sess = session
      BY <1>6 DEF CallbackKeeps, WayInv, HandInv
    <2>2. /\ hand' = NoFrame /\ worker' = "looping" /\ held' = held \cup {hand}
          /\ UNCHANGED <<session, lock, format, type, queued, filled>>
      BY <1>6 DEF CallbackKeeps
    <2>3. Out' \subseteq Out
      BY <2>1, <2>2 DEF Out, Mine
    <2>4. PlaceInv'
      BY <1>6, <2>1, <2>2, <2>3 DEF PlaceInv, CallbackKeeps, TypeOK
    <2> QED BY <2>1, <2>2, <2>3, <2>4 DEF WayInv
  <1>7. CASE CallbackDrops
    BY <1>7 DEF CallbackDrops, PlaceInv, WayInv, Out, Mine
  <1>8. CASE LoopRecycles
    <2>1. hand \in Frames /\ hand # NoFrame /\ hand.sess = session /\ session \in Sessions
          /\ lock[session] = NoFrame
      BY <1>8 DEF LoopRecycles, Recycle, WayInv, HandInv, Frames
    <2>2. UNCHANGED <<session, held, format, type, queued, filled>>
      BY <1>8 DEF LoopRecycles
    <2>3. CASE recyclerStream[session] = 0
      <3>1. lock' = lock /\ hand' = NoFrame /\ worker' = "looping"
        BY <1>8, <2>1, <2>3 DEF LoopRecycles, Recycle
      <3> QED BY <2>1, <2>2, <3>1 DEF PlaceInv, WayInv, Out, Mine, TypeOK
    <2>4. CASE recyclerStream[session] # 0
      <3>1. lock' = [lock EXCEPT ![session] = hand] /\ hand' = hand /\ worker' = "recycle"
        BY <1>8, <2>1, <2>4 DEF LoopRecycles, Recycle
      <3>2. \A n \in Sessions : lock'[n] = IF n = session THEN hand ELSE lock[n]
        BY <2>1, <3>1 DEF TypeOK
      <3>3. Out' = Out
        BY <2>1, <2>2, <3>1, <3>2 DEF Out, Mine
      <3> QED BY <2>1, <2>2, <3>1, <3>2, <3>3 DEF PlaceInv, WayInv
    <2> QED BY <2>3, <2>4
  <1> QED BY <1>1, <1>2, <1>3, <1>4, <1>5, <1>6, <1>7, <1>8

\* A step of a consumer, of the server, or out of the recycler preserves it.
LEMMA PoolFrameStep ==
    ASSUME Ordinary, IInv, PoolInv,
           (\E f \in held : ConsumerRecycles(f) \/ \E g \in held : MoveAssign(f, g))
           \/ (\E n \in Sessions : RecycleQueues(n)) \/ (\E b \in Buffers : Fill(b))
    PROVE  PoolInv'
  <1> USE CaptureAssumption DEF IInv, PoolInv, Sessions, owner, pw, pool, notes
  <1>1. ASSUME NEW f \in held, ConsumerRecycles(f)
        PROVE  PoolInv'
    <2>1. /\ f \in Frames /\ f # NoFrame /\ f.sess \in Sessions /\ lock[f.sess] = NoFrame
          /\ f # hand
      BY <1>1 DEF ConsumerRecycles, Recycle, TypeOK, Frames, PlaceInv
    <2>2. held' = held \ {f} /\ UNCHANGED <<session, hand, worker, format, type, queued, filled>>
      BY <1>1 DEF ConsumerRecycles
    <2>3. CASE recyclerStream[f.sess] = 0
      <3>1. lock' = lock
        BY <1>1, <2>3 DEF ConsumerRecycles, Recycle
      <3> QED BY <2>1, <2>2, <3>1 DEF PlaceInv, WayInv, Out, Mine
    <2>4. CASE recyclerStream[f.sess] # 0
      <3>1. f.sess = session
        BY <2>1, <2>4 DEF RecyclerInv
      <3>2. lock' = [lock EXCEPT ![session] = f]
        BY <1>1, <2>4, <3>1 DEF ConsumerRecycles, Recycle
      <3>3. \A n \in Sessions : lock'[n] = IF n = session THEN f ELSE lock[n]
        BY <3>2 DEF TypeOK
      <3>4. Out' = Out /\ f \in Out
        BY <2>1, <2>2, <3>1, <3>3 DEF Out, Mine
      <3>5. worker # "recycle"
        BY <2>1, <3>1 DEF WayInv, HandInv
      <3>6. PlaceInv'
        BY <2>1, <2>2, <3>1, <3>3, <3>4 DEF PlaceInv
      <3> QED BY <2>2, <3>5, <3>6 DEF WayInv
    <2> QED BY <2>3, <2>4
  <1>2. ASSUME NEW n \in Sessions, RecycleQueues(n)
        PROVE  PoolInv'
    <2>1. /\ lock[n] \in Frames /\ lock[n] # NoFrame /\ lock[n].sess = n /\ session = n
          /\ lock[n] \in Out /\ lock[n] \notin held
      BY <1>2 DEF RecycleQueues, TypeOK, RecyclerInv, PlaceInv, Out, Mine
    <2>2. /\ lock' = [lock EXCEPT ![n] = NoFrame] /\ queued' = queued \cup {lock[n].buf}
          /\ UNCHANGED <<session, held, format, type, filled>>
      BY <1>2 DEF RecycleQueues
    <2>3. \A m \in Sessions : lock'[m] = IF m = n THEN NoFrame ELSE lock[m]
      BY <2>2 DEF TypeOK
    <2>4. \/ worker = "recycle" /\ hand = lock[n] /\ worker' = "looping" /\ hand' = NoFrame
          \/ worker # "recycle" /\ hand # lock[n] /\ UNCHANGED <<worker, hand>>
      BY <1>2, <2>1 DEF RecycleQueues, WayInv, PlaceInv, HandInv
    <2>5. Out' = Out \ {lock[n]}
      BY <2>1, <2>2, <2>3, <2>4 DEF Out, Mine, PlaceInv
    <2>6. \A f \in Out : f \in Frames /\ f.sess = session
      BY DEF Out, Mine, TypeOK, HandInv, WayInv
    <2>7. \A f \in Out' : f.buf # lock[n].buf
      BY <2>1, <2>5, <2>6, SameFrame
    <2>8. PlaceInv'
      BY <2>1, <2>2, <2>3, <2>4, <2>5, <2>7 DEF PlaceInv, TypeOK
    <2>9. WayInv'
      BY <2>1, <2>2, <2>3, <2>4, <2>5 DEF WayInv
    <2> QED BY <2>8, <2>9
  <1>3. ASSUME NEW f \in held, NEW g \in held, MoveAssign(f, g)
        PROVE  PoolInv'
    BY <1>3 DEF MoveAssign, PlaceInv, WayInv, Out, Mine
  <1>4. ASSUME NEW b \in Buffers, Fill(b)
        PROVE  PoolInv'
    BY <1>4 DEF Fill, PlaceInv, WayInv, Out, Mine
  <1> QED BY <1>1, <1>2, <1>3, <1>4

\* The pool's invariant holds in every reachable state.
THEOREM PoolInvariance ==
    ASSUME Ordinary
    PROVE  Spec => []PoolInv
  <1>1. IInv /\ PoolInv /\ [Next]_vars => PoolInv'
    <2> SUFFICES ASSUME IInv, PoolInv, [Next]_vars PROVE PoolInv'
      OBVIOUS
    <2>1. CASE Next
      BY <2>1, PoolAppStep, PoolLoopStep, PoolFrameStep DEF Next
    <2>2. CASE UNCHANGED vars
      BY <2>2 DEF vars, owner, pw, pool, notes, PoolInv, PlaceInv, WayInv, Out, Mine
    <2> QED BY <2>1, <2>2
  <1> QED BY <1>1, PoolInit, Invariance, PTL DEF Spec

\* With a callback for every type that makes a frame, and one format to a
\* stream, a buffer is with the stream or with one frame.
THEOREM ExclusionTheorem ==
    ASSUME Ordinary
    PROVE  Spec => []BufferExclusive
  <1>1. PoolInv => BufferExclusive
    BY DEF PoolInv, PlaceInv, BufferExclusive, Leased, Current, Out, Mine
  <1> QED BY <1>1, PoolInvariance, PTL

----------------------------------------------------------------------------
(* The lease service *)

\* The buffers that are out, and what is left of them when one comes back.
Bufs == {f.buf : f \in Out}

\* While the pool is open, the session's frames are frames of the pool.
LEMMA LeasedIsOut ==
    ASSUME Ordinary, IInv, PoolInv, IInv', PoolInv'
    PROVE  (open => Leased = Bufs) /\ (open => Leased = Bufs)'
  <1> USE CaptureAssumption DEF IInv, PoolInv, Ordinary, Sessions
  <1>1. ASSUME open PROVE Leased = Bufs
    <2>1. "stream" \in impl /\ format = 1
      BY <1>1 DEF open, TypeOK, RecyclerInv, Handles
    <2>2. \A f \in Out : f \in Frames /\ f.gen = 1
      BY DEF Out, Mine, TypeOK, HandInv, WayInv, Frames
    <2> QED BY <2>1, <2>2 DEF Leased, Current, Bufs, Out, Mine
  <1>2. ASSUME open' PROVE Leased' = Bufs'
    <2>1. "stream" \in impl' /\ format' = 1
      BY <1>2 DEF open, TypeOK, RecyclerInv, Handles
    <2>2. \A f \in Out' : f \in Frames /\ f.gen = 1
      BY DEF Out, Mine, TypeOK, HandInv, WayInv, Frames
    <2> QED BY <2>1, <2>2 DEF Leased, Current, Bufs, Out, Mine
  <1> QED BY <1>1, <1>2

\* A step that opens and closes nothing and leaves buffers and frames what
\* they were is none of the service's.
LEMMA LeaseStutters ==
    ASSUME Ordinary, IInv, PoolInv, IInv', PoolInv', open' = open,
           open => Out' = Out /\ queued' \cup filled' = queued \cup filled
    PROVE  UNCHANGED Lease!vars
  BY LeasedIsOut DEF Lease!vars, Bufs

\* A frame that is no longer out returns its buffer.
LEMMA LeaseReturns ==
    ASSUME Ordinary, IInv, PoolInv, IInv', PoolInv', NEW f \in Out,
           open' = open, Out' = Out \ {f},
           queued' = queued \cup {f.buf}, filled' = filled
    PROVE  [Lease!Next]_(Lease!vars)
  <1>1. CASE ~open
    BY <1>1, LeaseStutters
  <1>2. CASE open
    <2>1. \A g \in Out : g \in Frames /\ g.sess = session
      BY DEF IInv, PoolInv, Out, Mine, TypeOK, HandInv, WayInv
    <2>2. \A g \in Out' : g.buf # f.buf
      BY <2>1, SameFrame
    <2>3. f.buf \in Bufs /\ Bufs' = Bufs \ {f.buf}
      BY <2>2 DEF Bufs
    <2>4. f.buf \in Buffers /\ f.buf \notin queued \cup filled
      BY <2>1 DEF PoolInv, PlaceInv, Frames
    <2>5. Lease!Return(f.buf)
      BY <1>2, <2>3, <2>4, LeasedIsOut DEF Lease!Return
    <2> QED BY <2>4, <2>5 DEF Lease!Next
  <1> QED BY <1>1, <1>2

\* The application thread's steps: invalidate() closes the pool.
LEMMA LeaseAppStep ==
    ASSUME Ordinary, IInv, PoolInv, IInv', PoolInv',
           (\E stage \in {"loop", "ctx", "dup", "core", "stream", "connect", "none"} : Start(stage))
           \/ (\E end \in {"idle", "closed"} : StopCalled(end)) \/ Stop
    PROVE  [Lease!Next]_(Lease!vars)
  <1> USE CaptureAssumption DEF Sessions, owner, pw, pool, notes
  <1>1. ASSUME NEW stage \in {"loop", "ctx", "dup", "core", "stream", "connect", "none"}, Start(stage)
        PROVE  UNCHANGED Lease!vars
    <2>1. ~open /\ ~open'
      BY <1>1 DEF Start, open, IInv, RecyclerInv, TypeOK, Handles
    <2> QED BY <2>1, LeaseStutters DEF open
  <1>2. ASSUME NEW end \in {"idle", "closed"}, StopCalled(end)
        PROVE  UNCHANGED Lease!vars
    <2>1. open' = open /\ Out' = Out /\ queued' \cup filled' = queued \cup filled
      BY <1>2 DEF StopCalled, open, Out, Mine
    <2> QED BY <2>1, LeaseStutters
  <1>3. CASE StopInvalidate
    <2>1. CASE ~open
      <3>1. ~open'
        BY <1>3, <2>1 DEF StopInvalidate, open, IInv, TypeOK
      <3> QED BY <2>1, <3>1, LeaseStutters DEF open
    <2>2. CASE open
      <3>1. recycler = session /\ recycler \in Sessions
        BY <2>2 DEF open, IInv, RecyclerInv, TypeOK
      <3>2. ~open'
        BY <1>3, <3>1 DEF StopInvalidate, open, IInv, TypeOK
      <3>3. Lease!Close
        BY <2>2, <3>2 DEF Lease!Close
      <3> QED BY <3>3 DEF Lease!Next
    <2> QED BY <2>1, <2>2
  <1>4. CASE StopDeactivate \/ StopQuit \/ StopJoin
    <2>1. open' = open /\ Out' = Out /\ queued' \cup filled' = queued \cup filled
      BY <1>4 DEF StopDeactivate, StopQuit, StopJoin, open, Out, Mine
    <2> QED BY <2>1, LeaseStutters
  <1>5. CASE StopStream \/ StopHandle("core", "ctx") \/ StopHandle("ctx", "loop") \/ StopLoop
    <2>1. ~open
      BY <1>5 DEF StopStream, StopHandle, StopLoop, open, IInv, RecyclerInv, TypeOK
    <2>2. open' = open
      BY <1>5 DEF StopStream, StopHandle, StopLoop, open
    <2> QED BY <2>1, <2>2, LeaseStutters
  <1> QED BY <1>1, <1>2, <1>3, <1>4, <1>5 DEF Stop

\* The loop thread's steps: a format opens the pool, a dequeued buffer is
\* taken out, HandleProcess's own queueing returns one.
LEMMA LeaseLoopStep ==
    ASSUME Ordinary, IInv, PoolInv, IInv', PoolInv',
           LoopRun \/ LoopInvoked \/ LoopExit
           \/ (\E newType \in [Buffers -> DataTypes] : OnParamChanged(newType))
           \/ (\E new \in {"paused", "streaming", "error", "unconnected"} : OnStateChanged(new))
           \/ (\E b \in Buffers : HandleProcess(b))
           \/ QueueDirect \/ CallbackKeeps \/ CallbackDrops \/ LoopRecycles
    PROVE  [Lease!Next]_(Lease!vars)
  <1> USE CaptureAssumption DEF Sessions, owner, pw, pool, notes
  <1>1. CASE LoopRun \/ LoopInvoked \/ LoopExit \/ CallbackDrops
             \/ (\E new \in {"paused", "streaming", "error", "unconnected"} : OnStateChanged(new))
    <2>1. open' = open /\ Out' = Out /\ queued' \cup filled' = queued \cup filled
      BY <1>1 DEF LoopRun, LoopInvoked, LoopExit, CallbackDrops, OnStateChanged, open, Out, Mine
    <2> QED BY <2>1, LeaseStutters
  <1>2. ASSUME NEW newType \in [Buffers -> DataTypes], OnParamChanged(newType)
        PROVE  [Lease!Next]_(Lease!vars)
    <2>1. ~open /\ Out' = {}
      BY <1>2 DEF OnParamChanged, Ordinary, open, IInv, TypeOK, PoolInv, PlaceInv, Out, Mine
    <2>2. CASE ~open'
      BY <2>1, <2>2, LeaseStutters DEF open
    <2>3. CASE open'
      <3>1. Lease!Open
        BY <1>2, <2>1, <2>3, LeasedIsOut DEF OnParamChanged, Lease!Open, Bufs
      <3> QED BY <3>1 DEF Lease!Next
    <2> QED BY <2>2, <2>3
  <1>3. ASSUME NEW b \in Buffers, HandleProcess(b)
        PROVE  [Lease!Next]_(Lease!vars)
    <2>1. open' = open
      BY <1>3 DEF HandleProcess, open
    <2>2. CASE ~open
      BY <2>1, <2>2, LeaseStutters
    <2>3. CASE open
      <3>1. hand = NoFrame /\ Out' = Out \cup {hand'} /\ hand'.buf = b
        BY <1>3 DEF HandleProcess, PoolInv, WayInv, Out, Mine, IInv, TypeOK, HandInv, Frames
      <3>2. Bufs' = Bufs \cup {b} /\ b \notin Bufs
        BY <1>3, <3>1 DEF HandleProcess, Bufs, PoolInv, PlaceInv
      <3>3. queued' \cup filled' = (queued \cup filled) \ {b} /\ b \in queued \cup filled
        BY <1>3 DEF HandleProcess, PoolInv, PlaceInv
      <3>4. Lease!TakeOut(b)
        BY <2>1, <2>3, <3>2, <3>3, LeasedIsOut DEF Lease!TakeOut
      <3> QED BY <3>4 DEF Lease!Next
    <2> QED BY <2>2, <2>3
  <1>4. CASE QueueDirect
    <2>1. hand \in Out /\ Out' = Out \ {hand} /\ open' = open
      BY <1>4 DEF QueueDirect, PoolInv, WayInv, PlaceInv, HandInv, IInv, Out, Mine, open
    <2> QED BY <1>4, <2>1, LeaseReturns DEF QueueDirect
  <1>5. CASE CallbackKeeps
    <2>1. open' = open /\ Out' = Out /\ queued' \cup filled' = queued \cup filled
      BY <1>5 DEF CallbackKeeps, open, Out, Mine
    <2> QED BY <2>1, LeaseStutters
  <1>6. CASE LoopRecycles
    <2>1. open' = open /\ queued' \cup filled' = queued \cup filled
      BY <1>6 DEF LoopRecycles, open
    <2>2. ASSUME open PROVE Out' = Out
      <3>1. hand.sess = session /\ session \in Sessions /\ lock[session] = NoFrame
            /\ recyclerStream[session] # 0
        BY <1>6, <2>2 DEF LoopRecycles, Recycle, PoolInv, WayInv, IInv, HandInv, TypeOK, Frames, open
      <3>2. \A n \in Sessions : lock'[n] = IF n = session THEN hand ELSE lock[n]
        BY <1>6, <3>1 DEF LoopRecycles, Recycle, IInv, TypeOK
      <3> QED BY <1>6, <3>1, <3>2 DEF LoopRecycles, Out, Mine
    <2> QED BY <2>1, <2>2, LeaseStutters
  <1> QED BY <1>1, <1>2, <1>3, <1>4, <1>5, <1>6

\* The other steps: what recycle() queues comes back.
LEMMA LeaseFrameStep ==
    ASSUME Ordinary, MoveAssigns = FALSE, IInv, PoolInv, IInv', PoolInv',
           (\E f \in held : ConsumerRecycles(f) \/ \E g \in held : MoveAssign(f, g))
           \/ (\E n \in Sessions : RecycleQueues(n)) \/ (\E b \in Buffers : Fill(b))
    PROVE  [Lease!Next]_(Lease!vars)
  <1> USE CaptureAssumption DEF Sessions, owner, pw, pool, notes
  <1>1. ASSUME NEW f \in held, ConsumerRecycles(f)
        PROVE  [Lease!Next]_(Lease!vars)
    <2>1. /\ open' = open /\ queued' \cup filled' = queued \cup filled
          /\ held' = held \ {f} /\ hand' = hand /\ session' = session
          /\ f \in Frames /\ f # NoFrame /\ f.sess \in Sessions /\ lock[f.sess] = NoFrame
      BY <1>1 DEF ConsumerRecycles, Recycle, open, IInv, TypeOK, Frames
    <2>2. ASSUME open PROVE Out' = Out
      <3>1. CASE f.sess = session
        <4>1. recyclerStream[session] # 0
          BY <2>2 DEF open
        <4>2. \A n \in Sessions : lock'[n] = IF n = session THEN f ELSE lock[n]
          BY <1>1, <3>1, <4>1 DEF ConsumerRecycles, Recycle, IInv, TypeOK
        <4> QED BY <2>1, <3>1, <4>2 DEF Out, Mine
      <3>2. CASE f.sess # session
        <4>1. lock' = lock
          BY <1>1, <2>1, <3>2 DEF ConsumerRecycles, Recycle, IInv, RecyclerInv
        <4> QED BY <2>1, <3>2, <4>1 DEF Out, Mine
      <3> QED BY <3>1, <3>2
    <2> QED BY <2>1, <2>2, LeaseStutters
  <1>2. ASSUME NEW n \in Sessions, RecycleQueues(n)
        PROVE  [Lease!Next]_(Lease!vars)
    <2>1. /\ lock[n] # NoFrame /\ lock[n].sess = n /\ session = n
          /\ lock[n] \in Out /\ lock[n] \notin held
      BY <1>2 DEF RecycleQueues, IInv, RecyclerInv, PoolInv, PlaceInv, Out, Mine
    <2>2. \A m \in Sessions : lock'[m] = IF m = n THEN NoFrame ELSE lock[m]
      BY <1>2 DEF RecycleQueues, IInv, TypeOK
    <2>3. hand' = NoFrame \/ (hand' = hand /\ hand # lock[n])
      BY <1>2, <2>1 DEF RecycleQueues, IInv, HandInv, PoolInv, WayInv, PlaceInv
    <2>4. hand' = NoFrame => hand \in {NoFrame, lock[n]}
      BY <1>2, <2>1, <2>3 DEF RecycleQueues, PoolInv, WayInv
    <2>5. Out' = Out \ {lock[n]}
      BY <1>2, <2>1, <2>2, <2>3, <2>4 DEF RecycleQueues, Out, Mine, IInv, TypeOK, PoolInv, PlaceInv
    <2>6. open' = open
      BY <1>2 DEF RecycleQueues, open
    <2> QED BY <1>2, <2>1, <2>5, <2>6, LeaseReturns DEF RecycleQueues
  <1>3. ASSUME NEW f \in held, NEW g \in held, MoveAssign(f, g)
        PROVE  FALSE
    BY <1>3 DEF MoveAssign
  <1>4. ASSUME NEW b \in Buffers, Fill(b)
        PROVE  UNCHANGED Lease!vars
    <2>1. open' = open /\ Out' = Out /\ queued' \cup filled' = queued \cup filled
      BY <1>4 DEF Fill, open, Out, Mine
    <2> QED BY <2>1, LeaseStutters
  <1> QED BY <1>1, <1>2, <1>3, <1>4

\* Where no frame is assigned over, the capture implements the lease service.
THEOREM LeaseTheorem ==
    ASSUME Ordinary, MoveAssigns = FALSE
    PROVE  Spec => ImplementsLease
  <1>1. Init => Lease!Init
    BY DEF Init, Lease!Init, open
  <1>2. IInv /\ PoolInv /\ IInv' /\ PoolInv' /\ [Next]_vars => [Lease!Next]_(Lease!vars)
    <2> SUFFICES ASSUME IInv, PoolInv, IInv', PoolInv', [Next]_vars
                 PROVE  [Lease!Next]_(Lease!vars)
      OBVIOUS
    <2>1. CASE Next
      BY <2>1, LeaseAppStep, LeaseLoopStep, LeaseFrameStep DEF Next
    <2>2. CASE UNCHANGED vars
      <3>1. open' = open /\ Out' = Out /\ queued' \cup filled' = queued \cup filled
        BY <2>2 DEF vars, owner, pw, pool, notes, open, Out, Mine
      <3> QED BY <3>1, LeaseStutters
    <2> QED BY <2>1, <2>2
  <1> QED BY <1>1, <1>2, Invariance, PoolInvariance, PTL DEF Spec, ImplementsLease, Lease!Spec

\* Every buffer of the pool is with the stream or with a frame that will
\* return it: the lease service loses none, so neither does the capture.
THEOREM NeverLostTheorem ==
    ASSUME Ordinary, MoveAssigns = FALSE
    PROVE  Spec => []BufferNeverLost
  <1> DEFINE free == IF open THEN queued \cup filled ELSE {}
             leased == IF open THEN Leased ELSE {}
             Kept == open => Buffers \subseteq free \cup leased
  <1>1. Lease!Init => Kept
    BY DEF Lease!Init
  <1>2. Kept /\ [Lease!Next]_(Lease!vars) => Kept'
    BY DEF Lease!Next, Lease!Open, Lease!Close, Lease!TakeOut, Lease!Return, Lease!vars
  <1>3. Kept => BufferNeverLost
    BY DEF BufferNeverLost, open
  <1> QED BY <1>1, <1>2, <1>3, LeaseTheorem, PTL DEF ImplementsLease, Lease!Spec
=============================================================================
