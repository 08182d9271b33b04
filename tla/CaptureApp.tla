----------------------------- MODULE CaptureApp -----------------------------
(***************************************************************************)
(* An application that casts the screen, with the objects and the order of *)
(* calls of tests/test_capture.cpp: a PortalSession, a PipeWireCapture,    *)
(* the locals its callbacks refer to, and the descriptor that goes from    *)
(* the one to the other.  The objects die in the reverse order.  Beyond    *)
(* the test, it may ask the portal again when it was refused, catch what   *)
(* RequestScreenCast throws, leave out a callback, and keep and move       *)
(* frames.                                                                 *)
(***************************************************************************)
EXTENDS Portal, Sequences, FiniteSets

CONSTANTS Buffers, MaxFormats, DataTypes, Callbacks, MoveAssigns, NoFrame

VARIABLES
    app, ending, starts, impl, recycler, recyclerStream, lock, worker, hand,
    running, invoked, active, strm, format, type, queued, filled, held, streaming, told

C == INSTANCE Capture WITH session <- starts, MaxSessions <- 1

VARIABLES
    main,   \* where main is: "portal", "capture" (made, and the callbacks set), "started",
            \* "stopped", "leaving" (its locals are gone) or "ended"
    dups,   \* the descriptors Start made of the portal's and nobody closed
    closedTwice   \* close was called with a descriptor that was closed already

captureVars ==
    <<app, ending, starts, impl, recycler, recyclerStream, lock, worker, hand,
      running, invoked, active, strm, format, type, queued, filled, held, streaming, told>>
appVars == <<vars, captureVars, main, dups, closedTwice>>

AppInit == Init /\ C!Init /\ main = "portal" /\ dups = {} /\ closedTwice = FALSE

Asks ==
    /\ main = "portal" /\ Caller
    /\ UNCHANGED <<captureVars, main, dups, closedTwice>>

\* The portal and the event-loop thread go on whatever main does.
BusGoesOn ==
    /\ Bus
    /\ UNCHANGED <<captureVars, main, dups, closedTwice>>

\* PipeWireCapture, the locals and the callbacks.
MakeCapture ==
    /\ main = "portal" /\ pc = "idle" /\ outcome = "ok"
    /\ main' = "capture"
    /\ UNCHANGED <<vars, captureVars, dups, closedTwice>>

\* Mutant: the descriptor is left to pw_context_connect_fd when that fails.
CloseForgotten(left) == left

\* What Start's close(dup_fd) leaves of the descriptors that are still open.
Close(left) == {}

\* dup_fd is the core's, or was never made.  pw_context_connect_fd, when it
\* fails, has closed it or not, depending on where it failed; Start closes it.
StartCapture(failing) ==
    /\ main = "capture" /\ C!Start(failing)
    /\ IF failing = "core"
         THEN \E left \in SUBSET {pwFd} :
                dups' = Close(left) /\ closedTwice' = (closedTwice \/ left = {})
         ELSE /\ dups' = IF failing \in {"loop", "ctx", "dup"} THEN {} ELSE {pwFd}
              /\ UNCHANGED closedTwice
    /\ main' = IF failing = "none" THEN "started" ELSE "stopped"
    /\ UNCHANGED vars

\* The stream, the loop thread and the consumers, which go on whatever main does.
Streams ==
    /\ C!Next
    /\ UNCHANGED <<app, starts, impl>>
    /\ UNCHANGED <<vars, main, dups, closedTwice>>

\* Mutant: main returns without a Stop.
SleepsOnly ==
    /\ main = "started" /\ main' = "stopped"
    /\ UNCHANGED <<vars, captureVars, dups, closedTwice>>

\* main sleeps, and then calls Stop.
CallsStop ==
    /\ main = "started" /\ C!StopCalled("idle")
    /\ main' = "stopped"
    /\ UNCHANGED <<vars, dups, closedTwice>>

\* Stop, and in it pw_core_disconnect, which closes the core's descriptor.
Stops ==
    /\ C!Stop
    /\ dups' = IF "core" \in impl' THEN dups ELSE {}
    /\ UNCHANGED <<vars, main, closedTwice>>

\* The locals go first, they were declared last.
LocalsGo ==
    /\ main = "stopped" /\ app = "idle" /\ main' = "leaving"
    /\ UNCHANGED <<vars, captureVars, dups, closedTwice>>

DestroyCapture ==
    /\ main = "leaving" /\ C!StopCalled("closed")
    /\ UNCHANGED <<vars, main, dups, closedTwice>>

\* Mutant: the portal's session does not outlive the capture.
DestroyPortalFirst ==
    /\ main \in {"portal", "leaving"} /\ Destroy
    /\ main' = "ended"
    /\ UNCHANGED <<captureVars, dups, closedTwice>>

\* A portal that gave no stream is all there is.
DestroyPortal ==
    /\ main = "portal" \/ (main = "leaving" /\ app = "closed")
    /\ outcome \in {"failed", "threw"} \/ main = "leaving"
    /\ Destroy
    /\ main' = "ended"
    /\ UNCHANGED <<captureVars, dups, closedTwice>>

AppNext ==
    \/ Asks \/ BusGoesOn \/ MakeCapture
    \/ \E failing \in {"loop", "ctx", "dup", "core", "stream", "connect", "none"} : StartCapture(failing)
    \/ Streams \/ CallsStop \/ Stops \/ LocalsGo \/ DestroyCapture \/ DestroyPortal

AppSpec == AppInit /\ [][AppNext]_appVars

\* The calling thread of the portal's requests goes on when it is not blocked.
AppFairSpec == AppSpec /\ Fairness

----------------------------------------------------------------------------
\* No descriptor leaks, and none is closed too early: the portal's is the one
\* in pw_fd_, the one Start made of it is open as long as there is a core to own
\* it, whichever stage of Start or of the portal's calls fails; when main ends,
\* no descriptor and no PipeWire object is left.
NoDescriptorLeaks ==
    /\ openFds \subseteq {pwFd}
    /\ dups # {} <=> "core" \in impl
    /\ main = "ended" => openFds = {} /\ impl = {}

\* "Dup the fd since pw_context_connect_fd takes ownership": it is then not
\* Start's to close, and the number may be another thread's descriptor by now.
NoDescriptorClosedTwice == ~closedTwice

\* The callbacks capture main's locals by reference: once these are gone, the
\* loop thread runs no callback.
LocalsOutliveCallbacks == main \in {"leaving", "ended"} => worker \in {"none", "exited"}

\* The portal ends the cast with its session: no stream is left then.
SessionOutlivesStream == "stream" \in impl => session # 0 /\ session \in sessions
=============================================================================
