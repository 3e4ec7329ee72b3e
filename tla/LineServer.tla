----------------------------- MODULE LineServer -----------------------------
(***************************************************************************)
(* The local socket of the box's protocol (src/boxsock.cc): connections    *)
(* that octomancer-sync's daemon knows by address, and walks over when it  *)
(* announces.  A connection that cannot be written to is marked inside the *)
(* walk and swept on the next turn of the loop.                            *)
(***************************************************************************)
EXTENDS Integers, Sequences, SequencesExt, FiniteSets

CONSTANTS
    Console,       \* processes that connect
    MaxClients,    \* kMaxClients
    MaxPending,    \* max_pending_, in lines
    MaxCalls       \* a bound: connections

ASSUME LineServerAssumption == MaxClients \in Nat /\ MaxPending \in Nat \ {0}

VARIABLES
    clients,       \* clients_
    broken,        \* those with failed_ set
    out,           \* lines written for a client and not yet taken by the kernel
    sweep_pending,
    peers,         \* SyncDaemon::peers_, in order
    walk,          \* where announce() is in peers; 0 when it is not running
    state,         \* of a console: "away", "queued", "in" or "gone"
    serving,       \* whether the socket is bound
    calls

lineVars == <<clients, broken, out, sweep_pending, peers, walk, state, serving, calls>>

LineInit ==
    /\ clients = {} /\ broken = {}
    /\ out = [c \in Console |-> 0]
    /\ sweep_pending = FALSE
    /\ peers = <<>> /\ walk = 0
    /\ state = [c \in Console |-> "away"]
    /\ serving = TRUE /\ calls = 0

-----------------------------------------------------------------------------
(* The consoles *)

\* A process connects, and waits in the backlog; or hangs up.
Call(c) ==
    /\ walk = 0 /\ calls < MaxCalls
    /\ state[c] = "away" \/ (state[c] = "gone" /\ c \notin clients)
    /\ state' = [state EXCEPT ![c] = IF serving THEN "queued" ELSE "away"]
    /\ calls' = calls + 1
    /\ UNCHANGED <<clients, broken, out, sweep_pending, peers, walk, serving>>

HangUpCall(c) ==
    /\ walk = 0 /\ state[c] = "in"
    /\ state' = [state EXCEPT ![c] = "gone"]
    /\ UNCHANGED <<clients, broken, out, sweep_pending, peers, walk, serving, calls>>

-----------------------------------------------------------------------------
(* One connection *)

\* What the kernel may have taken of n lines for c, all or some: a console
\* that hung up gets an error instead.
Takes(c, n) == IF state[c] = "in" THEN 0..n ELSE {n}

\* flush(), with n lines waiting of which left remain.
FlushFails(c, left) == state[c] # "in" \/ left > MaxPending

\* Leaves the mark and forgets to ask for the sweep.
Mark_NoSweep(c, left) ==
    /\ broken' = IF FlushFails(c, left) THEN broken \cup {c} ELSE broken
    /\ UNCHANGED <<clients, peers, sweep_pending>>

\* A failure marks the connection and asks for a sweep.
Mark(c, left) ==
    /\ broken' = IF FlushFails(c, left) THEN broken \cup {c} ELSE broken
    /\ sweep_pending' = (sweep_pending \/ FlushFails(c, left))
    /\ UNCHANGED <<clients, peers>>

\* Client::send()
ClientSend(c) ==
    IF c \in broken THEN UNCHANGED <<broken, sweep_pending, clients, peers, out>>
    ELSE \E left \in Takes(c, out[c] + 1) :
            /\ out' = [out EXCEPT ![c] = left]
            /\ Mark(c, left)

\* Those of the list that are not among the gone, in order.
Remaining(list, gone) ==
    LET kept[n \in 0..Len(list)] ==
            IF n = 0 THEN <<>>
            ELSE IF list[n] \in gone THEN kept[n - 1] ELSE Append(kept[n - 1], list[n])
    IN  kept[Len(list)]

\* drop(): the daemon forgets the peer, then the object goes.
drop(gone) ==
    /\ peers' = Remaining(peers, gone)
    /\ clients' = clients \ gone
    /\ broken' = broken \ gone
    /\ out' = [c \in Console |-> IF c \in gone THEN 0 ELSE out[c]]
    /\ state' = [c \in Console |-> IF c \in gone THEN "gone" ELSE state[c]]

-----------------------------------------------------------------------------
(* The server *)

Full == Cardinality(clients) >= MaxClients

\* accept_one(): one over the limit is closed at once; another is a client,
\* and is greeted.
accept_one(c) ==
    /\ walk = 0 /\ serving /\ state[c] = "queued"
    /\ IF Full
       THEN state' = [state EXCEPT ![c] = "gone"] /\ UNCHANGED <<clients, broken, out, sweep_pending, peers>>
       ELSE /\ state' = [state EXCEPT ![c] = "in"]
            /\ clients' = clients \cup {c} /\ peers' = Append(peers, c)
            /\ \E left \in 0..1 : out' = [out EXCEPT ![c] = left]
            /\ UNCHANGED <<broken, sweep_pending>>
    /\ UNCHANGED <<walk, serving, calls>>

\* on_ready() when a line has come: it is answered.
on_ready(c) ==
    /\ walk = 0 /\ c \in clients /\ state[c] = "in"
    /\ ClientSend(c)
    /\ UNCHANGED <<walk, state, serving, calls>>

\* on_ready() when there is room to write again, or nobody is there any more.
on_ready_write(c) ==
    /\ walk = 0 /\ c \in clients /\ (out[c] > 0 \/ state[c] = "gone")
    /\ \E left \in Takes(c, out[c]) :
          IF FlushFails(c, left) THEN drop({c})
          ELSE out' = [out EXCEPT ![c] = left] /\ UNCHANGED <<clients, broken, peers, state>>
    /\ UNCHANGED <<sweep_pending, walk, serving, calls>>

sweep ==
    /\ walk = 0 /\ sweep_pending
    /\ sweep_pending' = FALSE
    /\ drop(broken)
    /\ UNCHANGED <<walk, serving, calls>>

\* SyncDaemon::announce(), one peer at a time.
announce_next ==
    /\ IF walk = 0 THEN peers # <<>> ELSE walk <= Len(peers)
    /\ LET i == IF walk = 0 THEN 1 ELSE walk
       IN  ClientSend(peers[i]) /\ walk' = IF i = Len(peers) THEN 0 ELSE i + 1
    /\ UNCHANGED <<state, serving, calls>>

\* stop()
stop_server ==
    /\ walk = 0 /\ serving
    /\ serving' = FALSE
    /\ drop(clients \cup {c \in Console : state[c] = "queued"})
    /\ UNCHANGED <<sweep_pending, walk, calls>>

LineNext ==
    \/ \E c \in Console : Call(c) \/ HangUpCall(c) \/ accept_one(c) \/ on_ready(c) \/ on_ready_write(c)
    \/ sweep \/ announce_next \/ stop_server

-----------------------------------------------------------------------------
(* Properties *)

\* The daemon's peers are the connections, each once, and every one left to
\* visit in a walk is still there: nothing is freed under the daemon.
PeersAreClients ==
    /\ ToSet(peers) = clients /\ Len(peers) = Cardinality(clients)
    /\ walk # 0 => walk <= Len(peers)

\* What the server holds is bounded: a client at most, each behind by at most
\* one line more than it may be, and that one is on its way out.
HeldIsBounded ==
    /\ Cardinality(clients) <= MaxClients
    /\ \A c \in clients : out[c] <= MaxPending \/ c \in broken

\* A connection marked inside a walk is dropped, and so is one whose console
\* has gone.
FailedAreDropped ==
    LET doomed == broken \cup {c \in clients : state[c] = "gone"}
    IN  (doomed # {}) ~> (doomed = {})

\* Consoles that stop reading or vanish, even inside the daemon's walk over its
\* peers, cost it a bounded amount and for a bounded time.
ConsolesAreContained == [](PeersAreClients /\ HeldIsBounded) /\ FailedAreDropped
=============================================================================
