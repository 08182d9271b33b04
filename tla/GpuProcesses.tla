---------------------------- MODULE GpuProcesses ----------------------------
(***************************************************************************)
(* GpuMonitor::sample_process_gpu: how much of the GPU a process used, from *)
(* the cumulative engine times in /proc/<pid>/fdinfo, which is read entry   *)
(* by entry while the process opens and closes descriptors.  Descriptors   *)
(* made by dup stand for one client and show the same time.  Render and    *)
(* copy engine are treated alike: one of them is modelled.  A process that *)
(* has no client left and one that is gone look the same.                  *)
(***************************************************************************)
EXTENDS Integers, FiniteSets, Sums

CONSTANTS
    DrmPids, DrmFds, DrmClients,
    MaxDrmTime,  \* bound: the clock, in milliseconds
    NoClient

ASSUME DrmAssumption ==
    IsFiniteSet(DrmClients) /\ NoClient \notin DrmClients /\ MaxDrmTime \in Nat

VARIABLES
    fdinfo,         \* the client each descriptor of a process belongs to
    used,           \* what the engine has done for each client
    dclock,         \* steady_clock
    scan,           \* the call: its process, entries to read, clients found, whether
                    \* no descriptor was closed since it began, and its time then
    process_states, \* process_states_; time -1: none yet, or first_sample
    window          \* history of the last call that counted, for each process: what
                    \* its clients had used when it began, and when it ended, and
                    \* whether it has closed no descriptor since it began

drmVars == <<fdinfo, used, dclock, scan, process_states, window>>

NoScan == [pid |-> {}, left |-> {}, clients |-> <<>>, calm |-> FALSE, begin |-> 0]

Held(p) == {fdinfo[p][f] : f \in DrmFds} \ {NoClient}
Used(p) == SumOf(used, Held(p))

DrmInit ==
    /\ fdinfo = [p \in DrmPids |-> [f \in DrmFds |-> NoClient]]
    /\ used = [c \in DrmClients |-> 0] /\ dclock = 0
    /\ scan = NoScan
    /\ process_states = [p \in DrmPids |-> [prev |-> 0, time |-> -1]]
    /\ window = [p \in DrmPids |-> [begin |-> 0, end |-> 0, calm |-> FALSE]]

----------------------------------------------------------------------------
(* The processes and the driver *)

\* A new client, or a dup of one the process has.
DrmOpen(p, f, c) ==
    /\ fdinfo[p][f] = NoClient
    /\ c \in Held(p) \/ (used[c] = 0 /\ \A q \in DrmPids : c \notin Held(q))
    /\ fdinfo' = [fdinfo EXCEPT ![p][f] = c]
    /\ UNCHANGED <<used, dclock, scan, process_states, window>>

DrmClose(p, f) ==
    /\ fdinfo[p][f] # NoClient
    /\ fdinfo' = [fdinfo EXCEPT ![p][f] = NoClient]
    /\ scan' = IF scan.pid = {p} THEN [scan EXCEPT !.calm = FALSE] ELSE scan
    /\ window' = [window EXCEPT ![p].calm = FALSE]
    /\ UNCHANGED <<used, dclock, process_states>>

\* The engine works for at most one client at a time.
DrmTime(worker) ==
    /\ dclock < MaxDrmTime /\ dclock' = dclock + 1
    /\ \A c \in worker : \E p \in DrmPids : c \in Held(p)
    /\ used' = [c \in DrmClients |-> IF c \in worker THEN used[c] + 1 ELSE used[c]]
    /\ UNCHANGED <<fdinfo, scan, process_states, window>>

----------------------------------------------------------------------------
(* The sampler *)

ScanBegin(p) ==
    /\ scan.pid = {}
    /\ scan' = [pid |-> {p}, left |-> DrmFds, clients |-> [c \in {} |-> 0],
                calm |-> TRUE, begin |-> Used(p)]
    /\ UNCHANGED <<fdinfo, used, dclock, process_states, window>>

\* Mutant: every descriptor of a client counts.
SlotSums(clients, c, ns) ==
    [d \in DOMAIN clients \cup {c} |->
        IF d # c THEN clients[d] ELSE IF c \in DOMAIN clients THEN clients[c] + ns ELSE ns]

\* The largest value seen of each client.
Slot(clients, c, ns) ==
    [d \in DOMAIN clients \cup {c} |->
        IF d = c /\ (c \in DOMAIN clients => clients[c] < ns) THEN ns ELSE clients[d]]

\* An entry that is not a client's, or that was closed in between, is passed over.
ScanRead(p, f) ==
    LET c == fdinfo[p][f]
    IN  /\ scan.pid = {p} /\ f \in scan.left
        /\ scan' = [scan EXCEPT !.left = @ \ {f},
                                !.clients = IF c = NoClient THEN @ ELSE Slot(@, c, used[c])]
        /\ UNCHANGED <<fdinfo, used, dclock, process_states, window>>

Total == SumOf(scan.clients, DOMAIN scan.clients)

Baseline(p) ==
    /\ process_states' = [process_states EXCEPT ![p] = [prev |-> Total, time |-> dclock]]
    /\ window' = [window EXCEPT ![p] = [begin |-> scan.begin, end |-> Used(p), calm |-> scan.calm]]

\* A total below the last one is an unsigned difference far above dt.
Percent(p) ==
    LET d  == Total - process_states[p].prev
        dt == dclock - process_states[p].time
    IN  IF d < 0 \/ d > dt THEN 100 ELSE (100 * d) \div dt

TooSoonAfter(p) == dclock - process_states[p].time <= 1

\* What the caller gets in out_render_pct when the call ends.
out_render_pct(p) ==
    IF DOMAIN scan.clients = {} \/ process_states[p].time = -1 \/ TooSoonAfter(p) THEN 0 ELSE Percent(p)

ScanEnd(p) ==
    /\ scan.pid = {p} /\ scan.left = {} /\ scan' = NoScan
    /\ IF DOMAIN scan.clients = {} \/ (process_states[p].time # -1 /\ TooSoonAfter(p))
         THEN UNCHANGED <<process_states, window>>
         ELSE Baseline(p)
    /\ UNCHANGED <<fdinfo, used, dclock>>

DrmNext ==
    \/ \E p \in DrmPids, f \in DrmFds :
          DrmClose(p, f) \/ ScanRead(p, f) \/ \E c \in DrmClients : DrmOpen(p, f, c)
    \/ \E worker \in {{}} \cup {{c} : c \in DrmClients} : DrmTime(worker)
    \/ \E p \in DrmPids : ScanBegin(p) \/ ScanEnd(p)

DrmSpec == DrmInit /\ [][DrmNext]_drmVars

----------------------------------------------------------------------------
\* What is reported of a process lies between what it used from the end of
\* the last call that counted to the beginning of this one, and what it used
\* from the beginning of that one to the end of this, however the entries
\* are read, while descriptors are opened and duplicated; as long as none is
\* closed.
UseBracketed ==
    [][\A p \in DrmPids :
        ScanEnd(p) /\ process_states[p].time # -1 /\ window[p].calm
          /\ DOMAIN scan.clients # {} /\ ~TooSoonAfter(p) =>
            LET dt == dclock - process_states[p].time
            IN  /\ out_render_pct(p) * dt <= 100 * (Used(p) - window[p].begin)
                /\ (out_render_pct(p) + 1) * dt > 100 * (scan.begin - window[p].end)]_drmVars

\* A process that used nothing since the last call is not reported as busy.
IdleProcessNotBusy ==
    [][\A p \in DrmPids :
        ScanEnd(p) /\ out_render_pct(p) = 100 => Used(p) > window[p].begin]_drmVars
=============================================================================
