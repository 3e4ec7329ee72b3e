------------------------------- MODULE Server -------------------------------
(***************************************************************************)
(* octomancerd's request socket (src/server.cc): one request line a        *)
(* connection, one reply, and a deadline.  serve() is one action: it polls, *)
(* accepts, and takes every client as far as it will go without blocking.  *)
(* A request is a number of pieces; a read takes one, the last has the     *)
(* newline.                                                                *)
(***************************************************************************)
EXTENDS Integers, Sequences, FiniteSets

CONSTANTS
    Client,       \* connections
    MaxPieces,    \* how long requests are
    MaxRequest    \* kMaxRequest, in pieces

VARIABLES
    client,    \* per connection: what the client did and what the server knows of it
    acted      \* per connection, the pieces of each request handle() was called with

serverVars == <<client, acted>>

NoClient == [at |-> "none", length |-> 0, sent |-> 0, hung |-> FALSE, broken |-> FALSE, late |-> FALSE,
             in |-> 0, out |-> 0, replied |-> FALSE]

ServerInit ==
    /\ client = [c \in Client |-> NoClient]
    /\ acted = [c \in Client |-> <<>>]

-----------------------------------------------------------------------------
(* The clients: query() of src/client.cc, and whatever else connects, which *)
(* need not send all of its request, nor wait for the reply.               *)

Change(c, d) == client' = [client EXCEPT ![c] = d] /\ UNCHANGED acted

Connect(c) ==
    /\ client[c].at = "none"
    /\ \E n \in 1..MaxPieces : Change(c, [NoClient EXCEPT !.at = "waiting", !.length = n])

SendPiece(c) ==
    /\ client[c].at \in {"waiting", "open"} /\ client[c].sent < client[c].length
    /\ ~client[c].hung /\ ~client[c].broken
    /\ Change(c, [client[c] EXCEPT !.sent = @ + 1])

\* It closes its writing half, or goes away.
HangUp(c) ==
    /\ client[c].at \in {"waiting", "open"} /\ ~client[c].hung
    /\ Change(c, [client[c] EXCEPT !.hung = TRUE])

Break(c) ==
    /\ client[c].at \in {"waiting", "open"} /\ ~client[c].broken
    /\ Change(c, [client[c] EXCEPT !.broken = TRUE])

\* kClientTimeout
Late(c) ==
    /\ client[c].at = "open" /\ ~client[c].late
    /\ Change(c, [client[c] EXCEPT !.late = TRUE])

-----------------------------------------------------------------------------
(* serve(), for one client *)

Readable(d) == ~d.replied /\ (d.sent > d.in \/ d.hung)

\* One read.  End of file with nothing to say is the end of it.
Read(d) ==
    IF ~Readable(d) THEN d
    ELSE IF d.sent = d.in THEN (IF d.out = 0 THEN [d EXCEPT !.at = "done"] ELSE d)
    ELSE IF d.in + 1 > MaxRequest THEN [d EXCEPT !.in = @ + 1, !.out = 1, !.replied = TRUE]
    ELSE [d EXCEPT !.in = @ + 1]

\* A whole line, or what there is from a client that will send no more.
Ready(d, polled) == d.at = "open" /\ ~d.replied /\ (d.in = d.length \/ (polled /\ d.hung))

\* A write takes some of the reply; n is what is left.
Written(d, n) == IF d.at = "open" /\ d.out > 0 THEN [d EXCEPT !.out = n] ELSE d

\* Waits for as long as the client likes.
Finished_Patient(d) == d.at = "open" /\ d.replied /\ d.out = 0

Finished(d) == d.at = "open" /\ ((d.replied /\ d.out = 0) \/ d.late)

\* What a turn makes of a client; polled says whether the poll was about it.
Served(d, polled, n) ==
    LET read == IF polled THEN Read(d) ELSE d
        handled == IF Ready(read, polled) THEN [read EXCEPT !.out = 1, !.replied = TRUE] ELSE read
        sent == Written(handled, n)
    IN  IF d.at # "open" THEN d
        ELSE IF d.broken /\ polled THEN [d EXCEPT !.at = "done"]
        ELSE IF Finished(sent) THEN [sent EXCEPT !.at = "done"] ELSE sent

\* Whether the handler was called, and with how much.
Asked(d, polled) ==
    LET read == IF polled THEN Read(d) ELSE d
    IN  IF d.at = "open" /\ ~(d.broken /\ polled) /\ Ready(read, polled) THEN <<read.in>> ELSE <<>>

\* Those waiting are accepted, and looked at with nothing polled.
serve ==
    \E left \in [Client -> 0..1] :
        /\ client' = [c \in Client |->
              IF client[c].at = "waiting" THEN Served([client[c] EXCEPT !.at = "open"], FALSE, left[c])
              ELSE Served(client[c], TRUE, left[c])]
        /\ acted' = [c \in Client |-> IF client[c].at = "open" THEN acted[c] \o Asked(client[c], TRUE) ELSE acted[c]]

ServerNext ==
    \/ \E c \in Client : Connect(c) \/ SendPiece(c) \/ HangUp(c) \/ Break(c) \/ Late(c)
    \/ serve

\* The main loop serves on every turn, and deadlines pass.
ServerFairness == WF_serverVars(serve) /\ \A c \in Client : WF_serverVars(Late(c))

-----------------------------------------------------------------------------
\* A request is acted on once, and from a client that has not hung up only
\* when all of it has arrived.
WholeRequests ==
    \A c \in Client :
        /\ Len(acted[c]) <= 1
        /\ acted[c] # <<>> /\ ~client[c].hung => acted[c][1] = client[c].length

\* No client holds its place for ever: whatever it does or does not send, it
\* is answered or dropped.
ClientsEnd == \A c \in Client : (client[c].at = "open") ~> (client[c].at = "done")

\* A client is served once, from a whole request, and its place is free again.
ClientsAreServed == []WholeRequests /\ ClientsEnd
=============================================================================
