------------------------------- MODULE Portal -------------------------------
(***************************************************************************)
(* PortalSession: RequestScreenCast's three requests to the desktop        *)
(* portal and the descriptor it ends with.  Three parties: the calling     *)
(* thread, the bus connection's event-loop thread that runs the Response   *)
(* handler, and the portal, which answers a request at any time after the  *)
(* method call, be it before the caller has subscribed or after it has     *)
(* given up, and whose signal reaches only a subscriber it finds then.     *)
(* Requests are numbered, as make_token numbers their paths; the fields of *)
(* a response are left out but for the one that is needed.                 *)
(***************************************************************************)
EXTENDS Naturals

CONSTANTS
    MaxCalls,       \* bound: calls of RequestScreenCast
    CallAgain       \* is RequestScreenCast called again after it succeeded?

ASSUME PortalAssumption == MaxCalls \in Nat \ {0} /\ CallAgain \in BOOLEAN

Stages == {"CreateSession", "SelectSources", "Start"}

\* A response's code, and whether the result the stage needs is there, is not,
\* or is a variant of another type.
Codes == {0, 1, 2}
Contents == {"complete", "missing", "mistyped"}
NoAnswer == [code |-> 0, content |-> "missing", call |-> 0, request |-> 0]

VARIABLES
    pc,         \* "idle", "call", "subscribe", "await", "open" or "destroyed"
    stage,      \* the request of RequestScreenCast it is at
    calls,      \* calls of RequestScreenCast
    requests,   \* requests made: the number of the last one
    subscribed, \* the request whose Response has a handler, 0: none
    pending,    \* requests unanswered at the portal: number, stage and call
    signal,     \* a Response on its way to the event loop
    promise,    \* what fut.get() waits for
    session,    \* session_handle_: the call that made it, 0: empty
    node,       \* node_id_, likewise
    pwFd,       \* pw_fd_, likewise, 0: -1
    openFds,    \* descriptors dup() made and nobody closed
    sessions,   \* sessions the portal has open
    outcome     \* how RequestScreenCast last ended: "none", "ok", "failed" or "threw"

place == <<pc, stage, calls>>
bus   == <<requests, subscribed, pending, signal, promise>>
owned == <<session, node, pwFd, openFds>>
vars  == <<place, bus, owned, sessions, outcome>>

Init ==
    /\ pc = "idle" /\ stage = "CreateSession" /\ calls = 0
    /\ requests = 0 /\ subscribed = 0 /\ pending = {}
    /\ signal = NoAnswer /\ promise = NoAnswer
    /\ session = 0 /\ node = 0 /\ pwFd = 0 /\ openFds = {} /\ sessions = {}
    /\ outcome = "none"

Returns(result) == pc' = "idle" /\ outcome' = result

RequestScreenCast ==
    /\ pc = "idle" /\ calls < MaxCalls /\ (outcome = "ok" => CallAgain)
    /\ pc' = "call" /\ stage' = "CreateSession" /\ calls' = calls + 1
    /\ outcome' = "none"
    /\ UNCHANGED <<bus, owned, sessions>>

\* The method call: it throws, which is caught, or the portal takes the request on.
CallThrows ==
    /\ pc = "call" /\ Returns("failed")
    /\ UNCHANGED <<stage, calls, bus, owned, sessions>>

\* The proxies are made, and the handler registered, outside any try.
ProxyThrows ==
    /\ pc = "subscribe" \/ (pc = "call" /\ stage = "CreateSession")
    /\ Returns("threw")
    /\ UNCHANGED <<stage, calls, bus, owned, sessions>>

CallMethod ==
    /\ pc = "call" /\ pc' = "subscribe"
    /\ requests' = requests + 1
    /\ pending' = pending \cup {[request |-> requests', stage |-> stage, call |-> calls]}
    /\ UNCHANGED <<stage, calls, subscribed, signal, promise, owned, sessions, outcome>>

\* AwaitPortalResponse, up to the blocking get().
Subscribe ==
    /\ pc = "subscribe" /\ pc' = "await"
    /\ subscribed' = requests /\ promise' = NoAnswer
    /\ UNCHANGED <<stage, calls, requests, pending, signal, owned, sessions, outcome>>

\* Mutant: make_token has no counter, so requests of a stage share a path.
PathOfStage(request, of) == of

\* The object path of a request: make_token numbers it.
Path(request, of) == request

\* The portal answers a request, once; without a subscriber the signal is gone.
Respond(p, code, content) ==
    /\ p \in pending /\ pending' = pending \ {p}
    /\ signal' = IF subscribed # 0 /\ Path(p.request, p.stage) = Path(subscribed, stage)
                   THEN [code |-> code, content |-> content, call |-> p.call, request |-> p.request]
                   ELSE signal
    /\ sessions' = IF p.stage = "CreateSession" /\ code = 0 THEN sessions \cup {p.call} ELSE sessions
    /\ UNCHANGED <<place, requests, subscribed, promise, owned, outcome>>

\* The event-loop thread runs the handler, if there still is one.
Deliver ==
    /\ signal.request # 0
    /\ promise' = IF subscribed # 0 THEN signal ELSE promise
    /\ signal' = NoAnswer
    /\ UNCHANGED <<place, requests, subscribed, pending, owned, sessions, outcome>>

\* get() returns; the proxy and with it the subscription end.
Answered == pc = "await" /\ promise.request # 0 /\ subscribed' = 0 /\ promise' = NoAnswer

NeedsResult == stage \in {"CreateSession", "Start"}

Refused ==
    /\ Answered
    /\ promise.code # 0 \/ (NeedsResult /\ promise.content = "missing")
    /\ Returns("failed")
    /\ UNCHANGED <<stage, calls, requests, pending, signal, owned, sessions>>

\* Variant::get of another type than the result has.
GetThrows ==
    /\ Answered
    /\ promise.code = 0 /\ NeedsResult /\ promise.content = "mistyped"
    /\ Returns("threw")
    /\ UNCHANGED <<stage, calls, requests, pending, signal, owned, sessions>>

Granted ==
    /\ Answered
    /\ promise.code = 0 /\ (NeedsResult => promise.content = "complete")
    /\ session' = IF stage = "CreateSession" THEN promise.call ELSE session
    /\ node' = IF stage = "Start" THEN promise.call ELSE node
    /\ IF stage = "Start"
         THEN pc' = "open" /\ UNCHANGED stage
         ELSE /\ pc' = "call"
              /\ stage' = IF stage = "CreateSession" THEN "SelectSources" ELSE "Start"
    /\ UNCHANGED <<calls, requests, pending, signal, pwFd, openFds, sessions, outcome>>

\* OpenPipeWireRemote and dup(): the member is overwritten in either case.
OpenThrows ==
    /\ pc = "open" /\ Returns("failed")
    /\ UNCHANGED <<stage, calls, bus, owned, sessions>>

DupFails ==
    /\ pc = "open" /\ Returns("failed")
    /\ pwFd' = 0
    /\ UNCHANGED <<stage, calls, bus, session, node, openFds, sessions>>

OpenRemote ==
    /\ pc = "open" /\ Returns("ok")
    /\ pwFd' = calls /\ openFds' = openFds \cup {calls}
    /\ UNCHANGED <<stage, calls, bus, session, node, sessions>>

\* The destructor; its Close may fail, but the connection ends every session
\* and every request.
Destroy ==
    /\ pc = "idle" /\ pc' = "destroyed"
    /\ openFds' = openFds \ {pwFd} /\ pwFd' = 0
    /\ sessions' = {} /\ pending' = {}
    /\ UNCHANGED <<stage, calls, requests, subscribed, signal, promise, session, node, outcome>>

Caller ==
    \/ RequestScreenCast \/ CallThrows \/ ProxyThrows \/ CallMethod \/ Subscribe
    \/ Refused \/ GetThrows \/ Granted \/ OpenThrows \/ DupFails \/ OpenRemote

Bus ==
    \/ \E p \in pending, code \in Codes, content \in Contents : Respond(p, code, content)
    \/ Deliver

Next == Caller \/ Bus \/ Destroy

Spec == Init /\ [][Next]_vars

\* A thread that is not blocked goes on.  The user need not answer.
Fairness ==
    /\ WF_vars(CallThrows \/ ProxyThrows \/ CallMethod \/ Subscribe) /\ WF_vars(Deliver)
    /\ WF_vars(Refused \/ GetThrows \/ Granted) /\ WF_vars(OpenThrows \/ DupFails \/ OpenRemote)

FairSpec == Spec /\ Fairness

----------------------------------------------------------------------------
\* Every variable keeps its type.
TypeOK ==
    /\ pc \in {"idle", "call", "subscribe", "await", "open", "destroyed"}
    /\ stage \in Stages /\ outcome \in {"none", "ok", "failed", "threw"}
    /\ calls \in 0..MaxCalls /\ requests \in 0..(3 * MaxCalls) /\ subscribed \in 0..requests
    /\ pending \subseteq [request : 1..requests, stage : Stages, call : 1..MaxCalls]
    /\ {signal, promise} \subseteq
         [code : Codes, content : Contents, call : 0..MaxCalls, request : 0..requests]
    /\ session \in 0..MaxCalls /\ node \in 0..MaxCalls /\ pwFd \in 0..MaxCalls
    /\ openFds \subseteq 1..MaxCalls /\ sessions \subseteq 1..MaxCalls

\* What a successful RequestScreenCast leaves behind belongs together: the
\* session is open at the portal, and handle, node and descriptor are those
\* of this call, whatever earlier calls failed half-way.
SuccessIsComplete ==
    pc = "idle" /\ outcome = "ok" =>
        session = calls /\ node = calls /\ pwFd = calls
        /\ calls \in sessions /\ calls \in openFds

\* "Blocks until the user responds to the portal dialog": once the portal has
\* answered a request, the call does not stay blocked on that request.
ResponseUnblocks == \A n \in 1..(3 * MaxCalls) :
    (requests = n /\ \A p \in pending : p.request # n)
        ~> (pc = "idle" \/ requests # n \/ pc = "destroyed")
=============================================================================
