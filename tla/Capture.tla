------------------------------ MODULE Capture ------------------------------
(***************************************************************************)
(* smoothdemon::PipeWireCapture: the application thread that calls Start,  *)
(* Stop and the destructor, the PipeWire loop thread that runs the stream  *)
(* callbacks, the server that fills buffers, and the consumers that keep   *)
(* frames and destroy them on threads of their own, at any time, even      *)
(* after the capture object is gone.                                       *)
(*                                                                         *)
(* A frame is named by the Start that made its stream (sess), the format   *)
(* negotiation that made its pool (gen) and its buffer: destroying it runs *)
(* on_frame_done, whose closure holds the recycler of session sess and the *)
(* pw_buffer.  Pixel data, geometry and time stamps are left out.          *)
(***************************************************************************)
EXTENDS Naturals, Sequences, FiniteSets

CONSTANTS
    Buffers,      \* the pw_buffers of one pool
    MaxSessions,  \* bound: calls of Start
    MaxFormats,   \* bound: formats negotiated by one stream
    DataTypes,    \* what d.type may be for a buffer of a pool
    Callbacks,    \* the data types whose frame callback is registered
    MoveAssigns,  \* may a consumer move-assign one frame to another?
    NoFrame

Sessions == 1..MaxSessions
Frames   == [sess : Sessions, gen : 1..MaxFormats, buf : Buffers]
Handles  == {"loop", "ctx", "core", "stream"}

ASSUME CaptureAssumption ==
    /\ MaxSessions \in Nat \ {0}
    /\ MaxFormats \in Nat \ {0}
    /\ DataTypes \subseteq {"dma", "mem", "other"}
    /\ Callbacks \subseteq {"dma", "mem"}
    /\ MoveAssigns \in BOOLEAN
    /\ NoFrame \notin Frames

VARIABLES
    app,            \* where the application thread is
    ending,         \* where the Stop it runs ends: "idle", or "closed" in the destructor
    session,        \* how many times Start was called
    impl,           \* the handles of Impl that are not null
    recycler,       \* the session whose BufferRecycler impl.recycler holds, 0: null
    recyclerStream, \* BufferRecycler::stream of each session, 0: null
    lock,           \* the frame whose recycle() holds BufferRecycler::mtx
    worker,         \* where the loop thread is
    hand,           \* the frame a callback of the loop thread owns
    running,        \* pw_main_loop's running flag
    invoked,        \* functions queued with pw_loop_invoke
    active,         \* pw_stream_set_active
    strm,           \* pw_stream_get_state
    format,         \* formats negotiated by this stream
    type,           \* d.type of each buffer of the pool
    queued,         \* buffers the server may fill
    filled,         \* buffers with data, to be dequeued
    held,           \* frames kept by consumers
    streaming,      \* streaming_
    told            \* the last value state_cb_ was called with

owner == <<app, ending, session, impl, recycler>>
pw    == <<running, invoked, active>>
pool  == <<queued, filled, format, type>>
notes == <<streaming, told>>
vars  == <<owner, recyclerStream, lock, worker, hand, pw, strm, pool, held, notes>>

InLoop == worker \in {"looping", "callback", "bypass", "requeue", "drop", "recycle"}

\* There is no pool yet.
Untyped == [b \in Buffers |-> "none"]

Init ==
    /\ app = "idle" /\ ending = "idle" /\ session = 0
    /\ impl = {} /\ recycler = 0
    /\ recyclerStream = [n \in Sessions |-> 0]
    /\ lock = [n \in Sessions |-> NoFrame]
    /\ worker = "none" /\ hand = NoFrame
    /\ running = FALSE /\ invoked = <<>> /\ active = FALSE
    /\ strm = "unconnected" /\ format = 0 /\ type = Untyped
    /\ queued = {} /\ filled = {} /\ held = {} /\ streaming = FALSE /\ told = FALSE

----------------------------------------------------------------------------
(* The application thread *)

\* What Start leaves in impl when it returns after the given stage.
Created(stage) ==
    CASE stage = "loop"                 -> {}
      [] stage = "ctx"                  -> {"loop"}
      [] stage \in {"dup", "core"}      -> {"loop", "ctx"}
      [] stage = "stream"               -> {"loop", "ctx", "core"}
      [] stage \in {"connect", "none"}  -> Handles

\* Start is called with no stream and no thread left; failing is the stage
\* that fails.  Nothing is undone on failure.
Start(failing) ==
    /\ app = "idle" /\ worker = "none" /\ impl = {} /\ session < MaxSessions
    /\ session' = session + 1
    /\ impl' = Created(failing)
    /\ running' = FALSE /\ invoked' = <<>>
    /\ format' = 0 /\ type' = Untyped /\ queued' = {} /\ filled' = {}
    /\ strm' = IF failing = "none" THEN "connecting" ELSE "unconnected"
    /\ active' = (failing = "none")
    /\ IF failing = "none"
         THEN /\ recycler' = session'
              /\ recyclerStream' = [recyclerStream EXCEPT ![session'] = session']
              /\ worker' = "spawned"
         ELSE UNCHANGED <<recycler, recyclerStream, worker>>
    /\ UNCHANGED <<app, ending, lock, hand, held, notes>>

StopCalled(end) ==
    /\ app = "idle"
    /\ app' = "invalidate" /\ ending' = end
    /\ UNCHANGED <<session, impl, recycler, recyclerStream, lock, worker, hand, pw,
                   strm, pool, held, notes>>

\* Mutant: Stop forgets invalidate().
StopInvalidateForgotten ==
    /\ app = "invalidate" /\ app' = "deactivate"
    /\ UNCHANGED <<ending, session, impl, recycler, recyclerStream, lock, worker, hand, pw,
                   strm, pool, held, notes>>

\* recycler->invalidate(): waits for the mutex a recycle() may hold.
StopInvalidate ==
    /\ app = "invalidate"
    /\ IF recycler = 0
         THEN UNCHANGED recyclerStream
         ELSE /\ lock[recycler] = NoFrame
              /\ recyclerStream' = [recyclerStream EXCEPT ![recycler] = 0]
    /\ app' = "deactivate"
    /\ UNCHANGED <<ending, session, impl, recycler, lock, worker, hand, pw, strm,
                   pool, held, notes>>

\* pw_loop_invoke without blocking: queued for a loop some thread has
\* entered, run by the caller when none has.
Invoke(f) ==
    IF InLoop
      THEN invoked' = Append(invoked, f) /\ UNCHANGED <<active, running>>
      ELSE /\ active'  = (active /\ f # "deactivate")
           /\ running' = (running /\ f # "quit")
           /\ UNCHANGED invoked

StopDeactivate ==
    /\ app = "deactivate"
    /\ IF {"loop", "stream"} \subseteq impl THEN Invoke("deactivate") ELSE UNCHANGED pw
    /\ app' = "quit"
    /\ UNCHANGED <<ending, session, impl, recycler, recyclerStream, lock, worker, hand,
                   strm, pool, held, notes>>

StopQuit ==
    /\ app = "quit"
    /\ IF "loop" \in impl THEN Invoke("quit") ELSE UNCHANGED pw
    /\ app' = "join"
    /\ UNCHANGED <<ending, session, impl, recycler, recyclerStream, lock, worker, hand,
                   strm, pool, held, notes>>

\* Mutant: the thread is detached, not joined.
StopJoinDetached ==
    /\ app = "join" /\ app' = "stream"
    /\ UNCHANGED <<ending, session, impl, recycler, recyclerStream, lock, worker, hand, pw,
                   strm, pool, held, notes>>

StopJoin ==
    /\ app = "join" /\ worker \in {"none", "exited"}
    /\ worker' = "none" /\ app' = "stream"
    /\ UNCHANGED <<ending, session, impl, recycler, recyclerStream, lock, hand, pw,
                   strm, pool, held, notes>>

\* pw_stream_disconnect reports the change to "unconnected", then the stream goes.
StopStream ==
    /\ app = "stream"
    /\ impl' = impl \ {"stream"}
    /\ strm' = "unconnected" /\ queued' = {} /\ filled' = {}
    /\ streaming' = (streaming /\ strm # "streaming")
    /\ app' = "core"
    /\ UNCHANGED <<ending, session, recycler, recyclerStream, lock, worker, hand, pw,
                   format, type, held, told>>

StopHandle(h, next) ==
    /\ app = h /\ h \in {"core", "ctx"}
    /\ impl' = impl \ {h}
    /\ app' = next
    /\ UNCHANGED <<ending, session, recycler, recyclerStream, lock, worker, hand, pw,
                   strm, pool, held, notes>>

StopLoop ==
    /\ app = "loop"
    /\ impl' = impl \ {"loop"}
    /\ streaming' = FALSE
    /\ app' = ending
    /\ UNCHANGED <<ending, session, recycler, recyclerStream, lock, worker, hand, pw,
                   strm, pool, held, told>>

Stop ==
    \/ StopInvalidate \/ StopDeactivate \/ StopQuit \/ StopJoin
    \/ StopStream \/ StopHandle("core", "ctx") \/ StopHandle("ctx", "loop") \/ StopLoop

----------------------------------------------------------------------------
(* The loop thread *)

\* pw_main_loop_run sets running whatever a quit before it did.
LoopRun ==
    /\ worker = "spawned"
    /\ worker' = "looping" /\ running' = TRUE
    /\ UNCHANGED <<owner, recyclerStream, lock, hand, invoked, active, strm, pool, held, notes>>

LoopInvoked ==
    /\ worker = "looping" /\ invoked # <<>>
    /\ invoked' = Tail(invoked)
    /\ active'  = (active /\ Head(invoked) # "deactivate")
    /\ running' = (running /\ Head(invoked) # "quit")
    /\ UNCHANGED <<owner, recyclerStream, lock, worker, hand, strm, pool, held, notes>>

LoopExit ==
    /\ worker = "looping" /\ ~running
    /\ worker' = "exited"
    /\ UNCHANGED <<owner, recyclerStream, lock, hand, pw, strm, pool, held, notes>>

\* The state changes a stream reports, and streaming_ after one.
Successors(s) ==
    CASE s = "connecting" -> {"paused", "error", "unconnected"}
      [] s = "paused"     -> {"error", "unconnected"}
                               \cup (IF active /\ format # 0 THEN {"streaming"} ELSE {})
      [] s = "streaming"  -> {"paused", "error", "unconnected"}
      [] OTHER            -> {}

OnStateChanged(new) ==
    /\ worker = "looping" /\ new \in Successors(strm)
    /\ strm' = new
    /\ streaming' = IF new = "streaming" THEN TRUE
                    ELSE streaming /\ strm # "streaming" /\ new # "error"
    /\ UNCHANGED <<owner, recyclerStream, lock, worker, hand, pw, pool, held, told>>

\* A new format: the consumer is told, and the pool is made anew, each buffer of
\* a type of its own.
OnParamChanged(newType) ==
    /\ worker = "looping" /\ strm \in {"connecting", "paused", "streaming"}
    /\ format < MaxFormats
    /\ format' = format + 1 /\ type' = newType
    /\ queued' = Buffers /\ filled' = {}
    /\ told' = TRUE
    /\ UNCHANGED <<owner, recyclerStream, lock, worker, hand, pw, strm, held, streaming>>

\* Mutant: the buffer is queued after the callback as well (no else).
HandleProcessNoElse(b) ==
    /\ worker = "looping" /\ strm = "streaming" /\ b \in filled
    /\ filled' = filled \ {b} /\ queued' = queued \cup {b}
    /\ hand' = [sess |-> session, gen |-> format, buf |-> b]
    /\ worker' = IF type[b] \in Callbacks THEN "callback" ELSE "drop"
    /\ UNCHANGED <<owner, recyclerStream, lock, pw, strm, format, type, held, notes>>

\* Mutant: pw_stream_dequeue_buffer's null is not looked for.
HandleProcessNoNullCheck(b) ==
    /\ worker = "looping" /\ strm = "streaming"
    /\ filled' = filled \ {b}
    /\ hand' = [sess |-> session, gen |-> format, buf |-> IF b \in filled THEN b ELSE NoFrame]
    /\ worker' = "callback"
    /\ UNCHANGED <<owner, recyclerStream, lock, pw, strm, queued, format, type, held, notes>>

\* One buffer is dequeued; with a callback for its type the frame is moved
\* into it, without one the frame stays a local of HandleProcess, and a
\* buffer of another type makes no frame.
HandleProcess(b) ==
    /\ worker = "looping" /\ strm = "streaming" /\ b \in filled
    /\ filled' = filled \ {b}
    /\ hand' = [sess |-> session, gen |-> format, buf |-> b]
    /\ worker' = CASE type[b] = "other"      -> "requeue"
                   [] type[b] \in Callbacks  -> "callback"
                   [] OTHER                  -> "bypass"
    /\ UNCHANGED <<owner, recyclerStream, lock, pw, strm, queued, format, type, held, notes>>

\* HandleProcess's own pw_stream_queue_buffer, outside BufferRecycler::mtx.
\* Where there is a frame, its destructor is still to run.
QueueDirect ==
    /\ worker \in {"bypass", "requeue"}
    /\ queued' = queued \cup {hand.buf}
    /\ IF worker = "bypass"
         THEN worker' = "drop" /\ UNCHANGED hand
         ELSE worker' = "looping" /\ hand' = NoFrame
    /\ UNCHANGED <<owner, recyclerStream, lock, pw, strm, filled, format, type, held, notes>>

CallbackKeeps ==
    /\ worker = "callback"
    /\ worker' = "looping" /\ hand' = NoFrame /\ held' = held \cup {hand}
    /\ UNCHANGED <<owner, recyclerStream, lock, pw, strm, pool, notes>>

CallbackDrops ==
    /\ worker = "callback"
    /\ worker' = "drop"
    /\ UNCHANGED <<owner, recyclerStream, lock, hand, pw, strm, pool, held, notes>>

----------------------------------------------------------------------------
(* Frames and the recycler *)

\* recycle(b) up to its test of stream: with a stream, the mutex stays taken
\* until the buffer is queued.
Recycle(f) ==
    /\ lock[f.sess] = NoFrame
    /\ lock' = IF recyclerStream[f.sess] = 0 THEN lock ELSE [lock EXCEPT ![f.sess] = f]

LoopRecycles ==
    /\ worker = "drop"
    /\ Recycle(hand)
    /\ IF recyclerStream[hand.sess] = 0
         THEN worker' = "looping" /\ hand' = NoFrame
         ELSE worker' = "recycle" /\ UNCHANGED hand
    /\ UNCHANGED <<owner, recyclerStream, pw, strm, pool, held, notes>>

\* Mutant: the destructor does not call on_frame_done.
ConsumerForgets(f) ==
    /\ f \in held
    /\ held' = held \ {f}
    /\ UNCHANGED <<owner, recyclerStream, lock, worker, hand, pw, strm, pool, notes>>

ConsumerRecycles(f) ==
    /\ f \in held
    /\ Recycle(f)
    /\ held' = held \ {f}
    /\ UNCHANGED <<owner, recyclerStream, worker, hand, pw, strm, pool, notes>>

\* Mutant: a recycle() outside streaming returns with the mutex locked.
RecycleQueuesKeepsMutex(n) ==
    /\ lock[n] # NoFrame
    /\ IF strm = "streaming"
         THEN queued' = queued \cup {lock[n].buf} /\ lock' = [lock EXCEPT ![n] = NoFrame]
         ELSE UNCHANGED <<queued, lock>>
    /\ IF worker = "recycle" /\ hand.sess = n
         THEN worker' = "looping" /\ hand' = NoFrame
         ELSE UNCHANGED <<worker, hand>>
    /\ UNCHANGED <<owner, recyclerStream, pw, strm, filled, format, type, held, notes>>

\* pw_stream_queue_buffer and the end of recycle(), on whichever thread holds
\* the mutex of session n.
RecycleQueues(n) ==
    /\ lock[n] # NoFrame
    /\ queued' = queued \cup {lock[n].buf}
    /\ lock' = [lock EXCEPT ![n] = NoFrame]
    /\ IF worker = "recycle" /\ hand.sess = n
         THEN worker' = "looping" /\ hand' = NoFrame
         ELSE UNCHANGED <<worker, hand>>
    /\ UNCHANGED <<owner, recyclerStream, pw, strm, filled, format, type, held, notes>>

\* *f = std::move(*g): the defaulted assignment replaces f.on_frame_done by
\* g's, without calling it, and leaves g with none.
MoveAssign(f, g) ==
    /\ MoveAssigns /\ {f, g} \subseteq held /\ f # g
    /\ held' = held \ {f}
    /\ UNCHANGED <<owner, recyclerStream, lock, worker, hand, pw, strm, pool, notes>>

\* The server's side of the stream, on a thread of its own.
Fill(b) ==
    /\ b \in queued /\ strm = "streaming"
    /\ queued' = queued \ {b} /\ filled' = filled \cup {b}
    /\ UNCHANGED <<owner, recyclerStream, lock, worker, hand, pw, strm, format, type, held, notes>>

----------------------------------------------------------------------------
Next ==
    \/ \E stage \in {"loop", "ctx", "dup", "core", "stream", "connect", "none"} : Start(stage)
    \/ \E end \in {"idle", "closed"} : StopCalled(end)
    \/ Stop
    \/ LoopRun \/ LoopInvoked \/ LoopExit
    \/ \E new \in {"paused", "streaming", "error", "unconnected"} : OnStateChanged(new)
    \/ \E newType \in [Buffers -> DataTypes] : OnParamChanged(newType)
    \/ \E b \in Buffers : HandleProcess(b)
    \/ QueueDirect \/ CallbackKeeps \/ CallbackDrops \/ LoopRecycles
    \/ \E f \in held : ConsumerRecycles(f) \/ \E g \in held : MoveAssign(f, g)
    \/ \E n \in Sessions : RecycleQueues(n)
    \/ \E b \in Buffers : Fill(b)

Spec == Init /\ [][Next]_vars

\* Threads that can run do: a called Stop goes on, the loop thread finishes
\* its callbacks (the registered ones return) and serves every ready source
\* of an iteration, so neither an invoked function nor the exit test is
\* passed over for ever, and a recycle() in progress ends.  A mutex that is
\* free again and again is at some time given to the Stop that waits for it.
Fairness ==
    /\ WF_vars(Stop) /\ SF_vars(StopInvalidate)
    /\ WF_vars(LoopRun) /\ SF_vars(LoopInvoked) /\ SF_vars(LoopExit)
    /\ WF_vars(QueueDirect \/ CallbackKeeps \/ CallbackDrops) /\ WF_vars(LoopRecycles)
    /\ \A n \in Sessions : WF_vars(RecycleQueues(n))

FairSpec == Spec /\ Fairness

----------------------------------------------------------------------------
(* Properties *)

\* Every variable keeps its type.
TypeOK ==
    /\ app \in {"idle", "invalidate", "deactivate", "quit", "join",
                "stream", "core", "ctx", "loop", "closed"}
    /\ ending \in {"idle", "closed"}
    /\ session \in 0..MaxSessions
    /\ impl \subseteq Handles
    /\ recycler \in 0..MaxSessions
    /\ recyclerStream \in [Sessions -> 0..MaxSessions]
    /\ lock \in [Sessions -> Frames \cup {NoFrame}]
    /\ worker \in {"none", "spawned", "looping", "callback", "bypass", "requeue",
                   "drop", "recycle", "exited"}
    /\ hand \in Frames \cup {NoFrame}
    /\ running \in BOOLEAN /\ active \in BOOLEAN
    /\ invoked \in Seq({"deactivate", "quit"})
    /\ strm \in {"unconnected", "connecting", "paused", "streaming", "error"}
    /\ format \in 0..MaxFormats /\ type \in [Buffers -> DataTypes \cup {"none"}]
    /\ queued \subseteq Buffers /\ filled \subseteq Buffers
    /\ held \subseteq Frames
    /\ streaming \in BOOLEAN /\ told \in BOOLEAN

\* "Prevents use-after-free when frames outlive the stream": a thread that is
\* inside recycle() and about to call pw_stream_queue_buffer does so on a
\* stream that exists and that is the one the frame came from, however Stop,
\* the destructor and a later Start interleave with it.
RecycleIntoLiveStream ==
    \A n \in Sessions : lock[n] # NoFrame =>
        recyclerStream[n] = n /\ session = n /\ "stream" \in impl

\* "After the loop thread has stopped, no more callbacks can fire": as long as
\* the thread is in the loop, every object its callbacks use exists, and Stop
\* has not come to the tear-down.
WorkerNeedsObjects ==
    worker \notin {"none", "exited"} =>
        impl = Handles /\ app \in {"idle", "invalidate", "deactivate", "quit", "join"}

\* The frame f is of the pool the stream now has.
Current(f) == f # NoFrame /\ f.sess = session /\ f.gen = format /\ "stream" \in impl

\* Buffers of the pool that some frame stands for.
Leased == {f.buf : f \in {g \in held \cup {hand} \cup {lock[n] : n \in Sessions} : Current(g)}}

\* A buffer is with the stream or with one frame, never both: the server
\* cannot write into a frame somebody reads, and no buffer is queued twice.
BufferExclusive ==
    /\ (queued \cup filled) \cap Leased = {}
    /\ queued \cap filled = {}

\* "Safe RAII buffer return": as long as frames can be returned, every buffer
\* of the pool is with the stream or with a frame that will return it.
BufferNeverLost ==
    recycler = session /\ session # 0 /\ format # 0 /\ "stream" \in impl
      /\ recyclerStream[session] # 0
        => Buffers \subseteq queued \cup filled \cup Leased

\* What a frame points into is mapped as long as a consumer has the frame.
FrameMemoryValid == \A f \in held : Current(f)

\* pw_stream_queue_buffer is not called by two threads at once.
QueueingSerialized ==
    worker \in {"bypass", "requeue"} =>
        ~ \E n \in Sessions : lock[n] # NoFrame /\ lock[n] # hand

\* The state callback's first argument: what it last said is what streaming_ says.
ToldTruth == told => streaming

\* A Stop called once the loop thread is in the loop returns: neither the
\* join nor the mutex waits for ever.
StopReturns == (app = "invalidate" /\ InLoop) ~> (app \in {"idle", "closed"})

\* Stop returns whenever it is called.
StopAlwaysReturns == (app = "invalidate") ~> (app \in {"idle", "closed"})

\* The pool as a lease service, as long as frames may be returned.
open == session # 0 /\ recyclerStream[session] # 0 /\ format # 0

Lease == INSTANCE BufferLease WITH
    Buffers <- Buffers,
    open    <- open,
    free    <- IF open THEN queued \cup filled ELSE {},
    leased  <- IF open THEN Leased ELSE {}

\* Capture implements the lease service: a buffer goes out to one frame and
\* comes back once.
ImplementsLease == Lease!Spec
=============================================================================
