----------------------------- MODULE HciCamera -----------------------------
(***************************************************************************)
(* A camera driven over the dongle: the client (src/camera_hci.cc) with    *)
(* its pairing (src/smp.cc), over the host's ATT channels, ACL queue and   *)
(* encryption (src/hcilink.cc).  The scan, the command queue and the       *)
(* sharing of the radio are in HciShare.                                   *)
(*                                                                         *)
(* The daemon that calls the client gives up on a call after a deadline of *)
(* its own and makes the next one, so calls overlap: each has an id, and   *)
(* each request carries the id of the call it is made for.  A handler runs *)
(* to its end before anything else happens; "stack" holds the completions  *)
(* still to be run inside the current one, "posted" those deferred onto    *)
(* the loop.                                                               *)
(***************************************************************************)
EXTENDS Integers, Sequences, SequencesExt, FiniteSets

CONSTANTS
    MaxHandle,    \* connection handles the controller hands out, and again
    MaxConns,     \* how many connections are ever made
    MaxCalls,     \* how many calls the daemon makes
    MaxRounds,    \* requests discovery makes in one walk before it gives up
    MaxFragments, \* kMaxQueuedFragments
    AclTotal,     \* the controller's buffers
    Present,      \* characteristics the camera has
    Scattered,    \* whether finding a descriptor may take several requests
    Stray         \* whether the camera sends pairing messages out of turn

Handle == 1..MaxHandle
Char == {"timecode", "incoming", "outgoing"}

ASSUME HciCameraAssumption ==
    /\ MaxHandle \in Nat
    /\ MaxConns \in Nat /\ MaxCalls \in Nat /\ MaxRounds \in Nat
    /\ MaxFragments \in Nat /\ AclTotal \in Nat \ {0}
    /\ Present \subseteq Char
    /\ Scattered \in BOOLEAN /\ Stray \in BOOLEAN

VARIABLES
    link,      \* the controller: coming up, up, or gone
    conns,     \* conns_, encrypted_, and what the far end was told to send
    closing,   \* handles the controller has been asked to disconnect
    chan,      \* att_: handle -> [flight, queue]
    acl,       \* acl_queue_
    credits,   \* acl_credits_
    sent,      \* fragments in the controller's buffers
    peer,      \* requests each connection's far end has still to answer
    linking,   \* the connection attempt: its call and address type
    encrypt,   \* encrypt_pending_, and whose
    cam,       \* the client: conn_, subscribed_, what discovery found
    pairing,   \* pairing_ and pairing_done_
    daemon,    \* the caller: what its last answer lets it do, and the call it waits for
    calls,     \* id -> how often the call was made and answered
    stack,
    posted

cameraVars == <<link, conns, closing, chan, acl, credits, sent, peer, linking, encrypt, cam, pairing,
          daemon, calls, stack, posted>>

CallId == 1..MaxCalls
Made == 0..MaxConns   \* connections are numbered, so that one can be told from the next

Question == {"mtu", "services", "chars", "cccd", "subscribe", "write"}
NoReq == [call |-> 0, ask |-> "none", of |-> "none", round |-> 0, again |-> FALSE]
Request == {r \in [call : CallId, ask : Question, of : Char \cup {"none"}, round : Nat, again : BOOLEAN] :
               r.ask = "subscribe" => r.of \in Char}
Answer == {"ok", "more", "none", "denied", "refused"}

\* The opcode a response is matched by.
Opcode(ask) == IF ask \in {"subscribe", "write"} THEN "write" ELSE ask

Fragment ==
         [h : Handle, made : Made, kind : {"att"}, req : Request]
    \cup [h : Handle, made : Made, kind : {"smp"}, req : {NoReq}]
Work ==
         [kind : {"answer"}, req : Request, ok : BOOLEAN, ans : Answer, about : Char \cup {"none"}]
    \cup [kind : {"paired"}, req : Request, ok : BOOLEAN]
    \cup [kind : {"encrypted"}, ok : BOOLEAN]
    \cup [kind : {"result"}, call : CallId, ok : BOOLEAN]
    \cup [kind : {"gone"}, h : Handle]

\* A cycle of the daemon: connect, subscribe, then write as often as it needs.
Turn == {"idle", "connecting", "connected", "subscribing", "subscribed", "writing"}

Bring == {"reset", "mask", "lemask", "version", "buffers", "address", "rand", "setrandom"}

NotPairing == [state |-> "none", req |-> NoReq]
NoChars == [c \in Char |-> [found |-> FALSE, cccd |-> "none"]]
NoLinking == [call |-> 0, type |-> 0]
NoEncrypt == [pending |-> FALSE, h |-> 0]
EmptyChan == [flight |-> NoReq, queue |-> <<>>]

CameraTypeOK ==
    /\ link \in Bring \cup {"up", "failed", "closed"}
    /\ conns \in [Handle -> [open : BOOLEAN, made : Made, enc : BOOLEAN, notes : SUBSET Char]]
    /\ closing \subseteq Handle
    /\ chan \in [Handle -> [flight : Request \cup {NoReq}, queue : Seq(Request)]]
    /\ acl \in Seq(Fragment) /\ Len(acl) <= MaxFragments
    /\ credits \in 0..AclTotal
    /\ sent \in Seq(Fragment) /\ Len(sent) <= AclTotal
    /\ peer \in [Handle -> Seq(Request)]
    /\ linking \in [call : CallId \cup {0}, type : 0..1]
    /\ encrypt \in [pending : BOOLEAN, h : Handle \cup {0}]
    /\ cam \in [conn : Handle \cup {0}, subscribed : BOOLEAN, scratch : SUBSET Char,
                chars : [Char -> [found : BOOLEAN, cccd : Char \cup {"none"}]],
                cccds : [Char -> Char \cup {"none"}]]
    /\ pairing \in [state : {"none", "response", "confirm", "random", "ready"},
                    req : Request \cup {NoReq}]
    /\ daemon \in [turn : Turn, waits : CallId \cup {0}]
    /\ calls \in [CallId -> [made : BOOLEAN, answered : 0..2]]
    /\ stack \in Seq(Work) /\ posted \in Seq(Work)

CameraInit ==
    /\ link = "reset"
    /\ conns = [h \in Handle |-> [open |-> FALSE, made |-> 0, enc |-> FALSE, notes |-> {}]]
    /\ closing = {}
    /\ chan = [h \in Handle |-> EmptyChan]
    /\ acl = <<>> /\ credits = AclTotal /\ sent = <<>>
    /\ peer = [h \in Handle |-> <<>>]
    /\ linking = NoLinking
    /\ encrypt = NoEncrypt
    /\ cam = [conn |-> 0, subscribed |-> FALSE, scratch |-> {}, chars |-> NoChars,
              cccds |-> [c \in Char |-> "none"]]
    /\ pairing = NotPairing
    /\ daemon = [turn |-> "idle", waits |-> 0]
    /\ calls = [i \in CallId |-> [made |-> FALSE, answered |-> 0]]
    /\ stack = <<>> /\ posted = <<>>

Resting == stack = <<>>
Up == link # "closed"
Open(h) == h # 0 /\ conns[h].open

Failed(req) == [kind |-> "answer", req |-> req, ok |-> FALSE, ans |-> "none", about |-> "none"]
Answered(req, ans, about) == [kind |-> "answer", req |-> req, ok |-> TRUE, ans |-> ans, about |-> about]
Result(call, ok) == [kind |-> "result", call |-> call, ok |-> ok]
Ask(call, ask, of, round) == [call |-> call, ask |-> ask, of |-> of, round |-> round, again |-> FALSE]

-----------------------------------------------------------------------------
(* The link's bring-up: three commands that must succeed, three that need   *)
(* not, then an address.                                                    *)

init_step ==
    /\ Resting
    /\ \/ /\ link \in {"reset", "mask", "lemask"}
          /\ link' \in {"failed", CASE link = "reset" -> "mask" [] link = "mask" -> "lemask"
                                    [] OTHER -> "version"}
       \/ link = "version" /\ link' = "buffers"
       \/ link = "buffers" /\ link' = "address"
    /\ UNCHANGED <<conns, closing, chan, acl, credits, sent, peer, linking, encrypt, cam, pairing,
                   daemon, calls, stack, posted>>

\* A controller with no public address is given a random static one.
init_address ==
    /\ Resting
    /\ \/ link = "address" /\ link' \in {"up", "rand"}
       \/ link = "rand" /\ link' = "setrandom"
       \/ link = "setrandom" /\ link' \in {"up", "failed"}
    /\ UNCHANGED <<conns, closing, chan, acl, credits, sent, peer, linking, encrypt, cam, pairing,
                   daemon, calls, stack, posted>>

-----------------------------------------------------------------------------
(* ACL and ATT.  These operators compute on a record of the link's queues.  *)

Queues == [conns |-> conns, chan |-> chan, acl |-> acl, credits |-> credits, sent |-> sent, stack |-> stack,
           posted |-> posted]

Becomes(q) ==
    /\ conns' = q.conns /\ chan' = q.chan /\ acl' = q.acl /\ credits' = q.credits /\ sent' = q.sent
    /\ stack' = q.stack /\ posted' = q.posted

\* pump_acl(): while there are credits.
pump_acl(q) ==
    LET n == IF q.credits < Len(q.acl) THEN q.credits ELSE Len(q.acl)
    IN  [q EXCEPT !.credits = @ - n,
                  !.sent = @ \o SubSeq(q.acl, 1, n),
                  !.acl = SubSeq(@, n + 1, Len(@))]

\* queue_acl(): a connection that is not there, or a full queue, is refused.
CanQueue(q, h) == Up /\ q.conns[h].open /\ Len(q.acl) < MaxFragments

queue_acl(q, h, kind, req) ==
    pump_acl([q EXCEPT !.acl = Append(@, [h |-> h, made |-> q.conns[h].made, kind |-> kind, req |-> req])])

\* pump_att(): one request out per connection.  One that cannot be queued is
\* answered at once, from inside the call that made it.
pump_att(q, h) ==
    LET ch == q.chan[h]
        req == Head(ch.queue)
    IN  IF ch.flight # NoReq \/ ch.queue = <<>> THEN q
        ELSE IF CanQueue(q, h)
        THEN queue_acl([q EXCEPT !.chan[h] = [flight |-> req, queue |-> Tail(ch.queue)]], h, "att", req)
        ELSE [q EXCEPT !.chan[h].queue = Tail(@), !.stack = <<Failed(req)>> \o @]

att_request(q, h, req) ==
    IF ~Up \/ h = 0 \/ ~q.conns[IF h = 0 THEN 1 ELSE h].open
    THEN [q EXCEPT !.posted = Append(@, Failed(req))]
    ELSE pump_att([q EXCEPT !.chan[h].queue = Append(@, req)], h)

\* finish_att(): the request in flight is answered and the next one goes out.
finish_att(q, h, work) == pump_att([q EXCEPT !.chan[h].flight = NoReq, !.stack = <<work>> \o @], h)

\* finish_pairing(): whoever waits for the pairing is told, once.
PairingOver(q, ok) ==
    IF pairing = NotPairing THEN q
    ELSE [q EXCEPT !.stack = <<[kind |-> "paired", req |-> pairing.req, ok |-> ok]>> \o @]

\* The daemon's handler for a call.
Complete(q, call, ok) == [q EXCEPT !.stack = <<Result(call, ok)>> \o @]

-----------------------------------------------------------------------------
(* What the daemon calls: one thing after the other, each once the one      *)
(* before it was answered, except that it may give up and begin again.      *)

NextCall == {i \in CallId : ~calls[i].made /\ \A j \in CallId : j < i => calls[j].made}

Call(i, turn) ==
    /\ calls' = [calls EXCEPT ![i].made = TRUE]
    /\ daemon' = [turn |-> turn, waits |-> i]

\* A cycle ends when it has what it wants, and at arm_step()'s deadline with the
\* call still out.
finish_cycle ==
    /\ Resting /\ (daemon.waits # 0 \/ daemon.turn = "subscribed")
    /\ daemon' = [turn |-> "idle", waits |-> 0]
    /\ UNCHANGED <<link, conns, closing, chan, acl, credits, sent, peer, linking, encrypt, cam, pairing,
                   calls, stack, posted>>

\* HciCamera::disconnect(): the client lets go at once, the controller later.
LetGo == [cam EXCEPT !.conn = 0, !.subscribed = FALSE]
AskedToClose == IF Up /\ Open(cam.conn) THEN closing \cup {cam.conn} ELSE closing

\* connect(): drops what it holds, then tries the address as public and as
\* random.  A controller has one initiator: a second attempt is refused.
connect ==
    /\ Resting /\ link \in {"up", "closed"} /\ daemon.turn = "idle"
    /\ ~(cam.conn # 0 /\ cam.subscribed)
    /\ \E i \in NextCall :
          /\ Call(i, "connecting")
          /\ LET q == PairingOver(Queues, FALSE)
             IN  IF ~Up \/ linking # NoLinking
                 THEN /\ Becomes([q EXCEPT !.posted = Append(@, Result(i, FALSE))])
                      /\ UNCHANGED linking
                 ELSE /\ linking' = [call |-> i, type |-> 0]
                      /\ Becomes(q)
    /\ cam' = LetGo
    /\ closing' = AskedToClose
    /\ pairing' = NotPairing
    /\ UNCHANGED <<link, peer, encrypt>>

\* A camera held from the last cycle is used as it is, or dropped after it.
UseHeld ==
    /\ Resting /\ daemon.turn = "idle" /\ cam.conn # 0 /\ cam.subscribed
    /\ daemon' = [daemon EXCEPT !.turn = "subscribed"]
    /\ UNCHANGED <<link, conns, closing, chan, acl, credits, sent, peer, linking, encrypt, cam, pairing,
                   calls, stack, posted>>

disconnect ==
    /\ Resting /\ daemon.turn = "idle" /\ cam.conn # 0
    /\ cam' = LetGo
    /\ closing' = AskedToClose
    /\ pairing' = NotPairing
    /\ Becomes(PairingOver(Queues, FALSE))
    /\ UNCHANGED <<link, peer, linking, encrypt, daemon, calls>>

\* subscribe_next(): the characteristics that have a descriptor, in order.  The
\* request names the descriptor it writes; "round" is the place in the order.
Order == <<"timecode", "incoming">>
SubscribeNext(n) ==
    LET rest == {i \in n..2 : cam.chars[Order[i]].cccd # "none"}
    IN  IF rest = {} THEN 0 ELSE Min(rest)
AskSubscribe(q, call, n) == att_request(q, cam.conn, Ask(call, "subscribe", cam.chars[Order[n]].cccd, n))

subscribe ==
    /\ Resting /\ daemon.turn = "connected"
    /\ \E i \in NextCall :
          /\ Call(i, "subscribing")
          /\ LET n == SubscribeNext(1)
             IN  IF cam.conn = 0 \/ cam.subscribed
                 THEN Becomes([Queues EXCEPT !.posted = Append(@, Result(i, cam.conn # 0))]) /\ UNCHANGED cam
                 ELSE IF n = 0
                 THEN Becomes(Complete(Queues, i, TRUE)) /\ cam' = [cam EXCEPT !.subscribed = TRUE]
                 ELSE Becomes(AskSubscribe(Queues, i, n)) /\ UNCHANGED cam
    /\ UNCHANGED <<link, closing, peer, linking, encrypt, pairing>>

write_control ==
    /\ Resting /\ daemon.turn = "subscribed"
    /\ \E i \in NextCall :
          /\ Call(i, "writing")
          /\ Becomes(IF cam.conn = 0 \/ ~cam.chars["outgoing"].found
                     THEN [Queues EXCEPT !.posted = Append(@, Result(i, FALSE))]
                     ELSE att_request(Queues, cam.conn, Ask(i, "write", "outgoing", 0)))
    /\ UNCHANGED <<link, closing, peer, linking, encrypt, cam, pairing>>

-----------------------------------------------------------------------------
(* Connecting                                                               *)

\* The link is up: the client starts afresh and asks for a larger MTU.
Connected ==
    /\ Resting /\ linking # NoLinking /\ Up
    /\ \E h \in Handle, n \in 1..MaxConns :
          LET q == [Queues EXCEPT !.conns[h] = [open |-> TRUE, made |-> n, enc |-> FALSE, notes |-> {}]]
          IN  /\ ~conns[h].open
              /\ \A g \in Handle : conns[g].made < n
              /\ \E g \in Handle : conns[g].made = n - 1
              /\ cam' = [cam EXCEPT !.conn = h, !.subscribed = FALSE, !.chars = NoChars]
              /\ peer' = [peer EXCEPT ![h] = <<>>]
              /\ Becomes(att_request(q, h, Ask(linking.call, "mtu", "none", 0)))
    /\ linking' = NoLinking
    /\ UNCHANGED <<link, closing, encrypt, pairing, daemon, calls>>

\* It was not answered in time: the other address type, and then no more.
ConnectTimeout ==
    /\ Resting /\ posted = <<>> /\ linking # NoLinking /\ Up
    /\ IF linking.type = 0
       THEN linking' = [linking EXCEPT !.type = 1] /\ UNCHANGED stack
       ELSE linking' = NoLinking /\ stack' = <<Result(linking.call, FALSE)>>
    /\ UNCHANGED <<link, conns, closing, chan, acl, credits, sent, peer, encrypt, cam, pairing, daemon, calls, posted>>

-----------------------------------------------------------------------------
(* The client's handlers, one for each completion it may be given.          *)

Now(kind) == stack # <<>> /\ Head(stack).kind = kind
Work1 == Head(stack)
Popped == [Queues EXCEPT !.stack = Tail(@)]
Asked(ask) == Now("answer") /\ Work1.req.ask = ask

\* The next question of the same call, on whatever connection is held now.
AskNext(q, ask, of, round) == att_request(q, cam.conn, Ask(Work1.req.call, ask, of, round))

\* discover()'s handler when discovery fails: the connection is dropped.
GiveUp ==
    /\ Becomes(PairingOver(Complete(Popped, Work1.req.call, FALSE), FALSE))
    /\ cam' = LetGo
    /\ closing' = AskedToClose
    /\ pairing' = NotPairing
    /\ UNCHANGED <<link, peer, linking, encrypt, daemon, calls>>

ClientOnly == UNCHANGED <<link, closing, peer, linking, encrypt, pairing, daemon, calls>>

\* Refusing a larger MTU is no obstacle; discovery begins.
OnMtu ==
    /\ Asked("mtu")
    /\ cam' = [cam EXCEPT !.scratch = {}]
    /\ Becomes(AskNext(Popped, "services", "none", 0))
    /\ ClientOnly

\* walk_services()
OnServices ==
    /\ Asked("services")
    /\ LET r == Work1.req
       IN  CASE Work1.ok /\ Work1.ans = "ok" ->
                    Becomes(AskNext(Popped, "chars", "none", 0)) /\ UNCHANGED cam /\ ClientOnly
             [] Work1.ok /\ Work1.ans = "more" /\ r.round + 1 < MaxRounds ->
                    Becomes(AskNext(Popped, "services", "none", r.round + 1)) /\ UNCHANGED cam /\ ClientOnly
             [] OTHER -> GiveUp

\* walk_cccds(): the characteristics to subscribe to, of those found.
NextWanted(found, c) ==
    IF c = "first" /\ "timecode" \in found THEN "timecode"
    ELSE IF c \in {"first", "timecode"} /\ "incoming" \in found THEN "incoming"
    ELSE "none"

\* finish_discovery(): what was found is put where it is used, and without the
\* outgoing and timecode characteristics the device is no use.
finish_discovery(found, cccds) ==
    LET chars == [c \in Char |-> IF c \in found
                                 THEN [found |-> TRUE, cccd |-> IF cccds[c] # "none" THEN cccds[c]
                                                                ELSE cam.chars[c].cccd]
                                 ELSE cam.chars[c]]
        held == [cam EXCEPT !.chars = chars, !.scratch = found, !.cccds = [c \in Char |-> "none"]]
    IN  IF chars["outgoing"].found /\ chars["timecode"].found
        THEN cam' = held /\ Becomes(Complete(Popped, Work1.req.call, TRUE)) /\ ClientOnly
        ELSE /\ cam' = [held EXCEPT !.conn = 0, !.subscribed = FALSE]
             /\ Becomes(PairingOver(Complete(Popped, Work1.req.call, FALSE), FALSE))
             /\ closing' = AskedToClose
             /\ pairing' = NotPairing
             /\ UNCHANGED <<link, peer, linking, encrypt, daemon, calls>>

walk_cccds(found, cccds, c) ==
    LET next == NextWanted(found, c)
    IN  IF next = "none" THEN finish_discovery(found, cccds)
        ELSE /\ cam' = [cam EXCEPT !.scratch = found, !.cccds = cccds]
             /\ Becomes(AskNext(Popped, "cccd", next, 0))
             /\ ClientOnly

\* walk_chars()
OnChars ==
    /\ Asked("chars")
    /\ LET r == Work1.req
       IN  IF ~Work1.ok THEN GiveUp
           ELSE \E new \in IF Work1.ans = "none" THEN {{}} ELSE {Present, Present \ {"outgoing"}} :
                    LET found == cam.scratch \cup new
                    IN  IF Work1.ans = "more" /\ r.round + 1 < MaxRounds
                        THEN /\ cam' = [cam EXCEPT !.scratch = found]
                             /\ Becomes(AskNext(Popped, "chars", "none", r.round + 1))
                             /\ ClientOnly
                        ELSE walk_cccds(found, cam.cccds, "first")

\* find_cccd(): a characteristic without a descriptor is passed over.
OnCccd ==
    /\ Asked("cccd")
    /\ LET r == Work1.req
       IN  IF Work1.ok /\ Work1.ans = "more" /\ r.round + 1 < MaxRounds
           THEN Becomes(AskNext(Popped, "cccd", r.of, r.round + 1)) /\ UNCHANGED cam /\ ClientOnly
           ELSE walk_cccds(cam.scratch,
                           IF Work1.ok /\ Work1.ans = "ok" THEN [cam.cccds EXCEPT ![r.of] = Work1.about]
                           ELSE cam.cccds,
                           r.of)

\* ensure_encrypted(): pair, unless the link is encrypted or pairing already.
PairFor(r) ==
    /\ CASE cam.conn = 0 \/ (~conns[cam.conn].enc /\ pairing # NotPairing) ->
                /\ Becomes([Popped EXCEPT !.posted = Append(@, [kind |-> "paired", req |-> r, ok |-> FALSE])])
                /\ UNCHANGED pairing
         [] cam.conn # 0 /\ conns[cam.conn].enc ->
                /\ Becomes([Popped EXCEPT !.posted = Append(@, [kind |-> "paired", req |-> r, ok |-> TRUE])])
                /\ UNCHANGED pairing
         [] OTHER ->
                IF CanQueue(Popped, cam.conn)
                THEN /\ pairing' = [state |-> "response", req |-> r]
                     /\ Becomes(queue_acl(Popped, cam.conn, "smp", NoReq))
                ELSE /\ Becomes([Popped EXCEPT !.stack = <<[kind |-> "paired", req |-> r, ok |-> FALSE]>> \o @])
                     /\ UNCHANGED pairing
    /\ UNCHANGED <<link, closing, peer, linking, encrypt, cam, daemon, calls>>

\* write_cccd()'s handler, and subscribe_next()'s.  A camera that wants an
\* encrypted link is paired with and asked once more.
OnSubscribe ==
    /\ Asked("subscribe")
    /\ LET r == Work1.req
           next == SubscribeNext(r.round + 1)
       IN  CASE Work1.ok /\ Work1.ans = "denied" /\ ~r.again -> PairFor(r)
             [] Work1.ok /\ Work1.ans = "ok" /\ next # 0 ->
                    Becomes(AskSubscribe(Popped, r.call, next)) /\ UNCHANGED cam /\ ClientOnly
             [] Work1.ok /\ Work1.ans = "ok" /\ next = 0 ->
                    /\ cam' = [cam EXCEPT !.subscribed = TRUE]
                    /\ Becomes(Complete(Popped, r.call, TRUE))
                    /\ ClientOnly
             [] OTHER -> Becomes(Complete(Popped, r.call, FALSE)) /\ UNCHANGED cam /\ ClientOnly

OnWrite ==
    /\ Asked("write")
    /\ IF Work1.ok /\ Work1.ans = "denied" /\ ~Work1.req.again THEN PairFor(Work1.req)
       ELSE /\ Becomes(Complete(Popped, Work1.req.call, Work1.ok /\ Work1.ans = "ok"))
            /\ UNCHANGED cam /\ ClientOnly

\* The request that was denied is made again, once.
OnPaired ==
    /\ Now("paired")
    /\ Becomes(IF Work1.ok THEN att_request(Popped, cam.conn, [Work1.req EXCEPT !.again = TRUE])
               ELSE Complete(Popped, Work1.req.call, FALSE))
    /\ UNCHANGED cam /\ ClientOnly

\* on_smp()'s handler for start_encryption: finish_pairing().
OnEncrypted ==
    /\ Now("encrypted")
    /\ Becomes(PairingOver(Popped, Work1.ok))
    /\ pairing' = NotPairing
    /\ UNCHANGED <<link, closing, peer, linking, encrypt, cam, daemon, calls>>

on_gone ==
    /\ Now("gone")
    /\ IF Work1.h = cam.conn
       THEN cam' = LetGo /\ pairing' = NotPairing /\ Becomes(PairingOver(Popped, FALSE))
       ELSE UNCHANGED <<cam, pairing>> /\ Becomes(Popped)
    /\ UNCHANGED <<link, closing, peer, linking, encrypt, daemon, calls>>

\* guard_done(): an answer to a call the daemon gave up on changes nothing.
OnResult ==
    /\ Now("result")
    /\ calls' = [calls EXCEPT ![Work1.call].answered = @ + 1]
    /\ daemon' = IF Work1.call # daemon.waits THEN daemon
                 ELSE [turn |-> IF ~Work1.ok THEN "idle"
                                ELSE CASE daemon.turn = "connecting" -> "connected" [] OTHER -> "subscribed",
                       waits |-> 0]
    /\ Becomes(Popped)
    /\ UNCHANGED <<link, closing, peer, linking, encrypt, cam, pairing>>

\* defer(): the loop's next turn.
RunPosted ==
    /\ Resting /\ posted # <<>>
    /\ stack' = <<Head(posted)>>
    /\ posted' = Tail(posted)
    /\ UNCHANGED <<link, conns, closing, chan, acl, credits, sent, peer, linking, encrypt, cam, pairing, daemon, calls>>

Handlers ==
    \/ OnMtu \/ OnServices \/ OnChars \/ OnCccd \/ OnSubscribe \/ OnWrite
    \/ OnPaired \/ OnEncrypted \/ on_gone \/ OnResult

-----------------------------------------------------------------------------
(* What arrives                                                             *)

ArrivesOnly == UNCHANGED <<link, closing, linking, cam, daemon, calls>>

\* A fragment went out: the far end has it, and its buffer is free again.  What
\* is posted on the loop runs at the end of the turn, before another round trip.
NumCompleted ==
    /\ Resting /\ sent # <<>> /\ Up /\ posted = <<>>
    /\ LET f == Head(sent)
       IN  /\ peer' = [peer EXCEPT ![f.h] = IF f.kind = "att" /\ conns[f.h].made = f.made
                                            THEN Append(@, f.req) ELSE @]
           /\ Becomes(pump_acl([Queues EXCEPT !.sent = Tail(@), !.credits = @ + 1]))
    /\ UNCHANGED <<encrypt, pairing>> /\ ArrivesOnly

\* What a far end may answer to each question.
MayAnswer(h, ask) ==
    CASE ask = "mtu" -> {"ok", "refused"}
      [] ask = "cccd" /\ ~Scattered -> {"ok", "none"}
      [] ask \in {"services", "chars", "cccd"} -> {"ok", "more", "none"}
      [] OTHER -> IF conns[h].enc THEN {"ok", "refused"} ELSE {"ok", "denied", "refused"}

\* dispatch_acl(): a response is the answer to the request in flight when the
\* opcodes match; otherwise nobody is waiting for it.
Response(h) ==
    /\ Resting /\ Up /\ Open(h) /\ peer[h] # <<>>
    /\ LET r == Head(peer[h])
           flight == chan[h].flight
       IN  \E ans \in MayAnswer(h, r.ask) :
              LET q == [Queues EXCEPT !.conns[h].notes =
                            IF r.ask = "subscribe" /\ ans = "ok" THEN @ \cup {r.of} ELSE @]
              IN  IF flight # NoReq /\ Opcode(flight.ask) = Opcode(r.ask)
                  THEN Becomes(finish_att(q, h, Answered(flight, ans, r.of)))
                  ELSE Becomes(q)
    /\ peer' = [peer EXCEPT ![h] = Tail(@)]
    /\ UNCHANGED <<encrypt, pairing>> /\ ArrivesOnly

AttTimeout(h) ==
    /\ Resting /\ posted = <<>> /\ Up /\ chan[h].flight # NoReq
    /\ Becomes(finish_att(Queues, h, Failed(chan[h].flight)))
    /\ UNCHANGED <<peer, encrypt, pairing>> /\ ArrivesOnly

\* on_smp() and smp::Initiator::handle(): response, confirm, random, each with a
\* reply; then the key both sides derived is used.  Anything else, a peer that
\* refuses, a passkey nobody supplies and a random that does not match end it.
Smp(good) ==
    /\ Resting /\ Up /\ Open(cam.conn) /\ pairing.state \in {"response", "confirm", "random"}
    /\ LET reply == IF CanQueue(Queues, cam.conn) THEN queue_acl(Queues, cam.conn, "smp", NoReq) ELSE Queues
       IN  CASE ~good ->
                    Becomes(PairingOver(reply, FALSE)) /\ pairing' = NotPairing /\ UNCHANGED encrypt
             [] good /\ pairing.state = "response" ->
                    Becomes(reply) /\ pairing' = [pairing EXCEPT !.state = "confirm"] /\ UNCHANGED encrypt
             [] good /\ pairing.state = "confirm" ->
                    Becomes(reply) /\ pairing' = [pairing EXCEPT !.state = "random"] /\ UNCHANGED encrypt
             [] OTHER ->
                    /\ pairing' = [pairing EXCEPT !.state = "ready"]
                    /\ IF encrypt.pending
                       THEN Becomes([Queues EXCEPT !.posted = Append(@, [kind |-> "encrypted", ok |-> FALSE])])
                            /\ UNCHANGED encrypt
                       ELSE encrypt' = [pending |-> TRUE, h |-> cam.conn] /\ Becomes(Queues)
    /\ UNCHANGED peer /\ ArrivesOnly

\* A message after the last: handle() ignores it, but on_smp() finds the pairing
\* ready to encrypt and starts encryption again.
SmpStray ==
    /\ Stray /\ posted = <<>>   \* bound: one at a time
    /\ Resting /\ Up /\ Open(cam.conn) /\ pairing.state = "ready"
    /\ IF encrypt.pending
       THEN Becomes([Queues EXCEPT !.posted = Append(@, [kind |-> "encrypted", ok |-> FALSE])]) /\ UNCHANGED encrypt
       ELSE encrypt' = [pending |-> TRUE, h |-> cam.conn] /\ Becomes(Queues)
    /\ UNCHANGED <<peer, pairing>> /\ ArrivesOnly

\* Encryption is on, or was refused, or was never heard of again.
EncryptionChange(ok) ==
    /\ Resting /\ Up /\ encrypt.pending /\ Open(encrypt.h)
    /\ Becomes([Queues EXCEPT !.conns[encrypt.h].enc = ok,
                              !.stack = <<[kind |-> "encrypted", ok |-> ok]>>])
    /\ encrypt' = NoEncrypt
    /\ UNCHANGED <<peer, pairing>> /\ ArrivesOnly

EncryptTimeout ==
    /\ Resting /\ posted = <<>> /\ Up /\ encrypt.pending
    /\ stack' = <<[kind |-> "encrypted", ok |-> FALSE]>>
    /\ encrypt' = NoEncrypt
    /\ UNCHANGED <<conns, chan, acl, credits, sent, posted, peer, pairing>> /\ ArrivesOnly

PairingTimeout ==
    /\ Resting /\ posted = <<>> /\ pairing # NotPairing
    /\ Becomes(PairingOver(Queues, FALSE))
    /\ pairing' = NotPairing
    /\ UNCHANGED <<peer, encrypt>> /\ ArrivesOnly

Waiting(h) == (IF chan[h].flight = NoReq THEN <<>> ELSE <<Failed(chan[h].flight)>>)
              \o [i \in DOMAIN chan[h].queue |-> Failed(chan[h].queue[i])]

\* The fragments of other connections.
Without(fragments, h) ==
    LET kept[n \in 0..Len(fragments)] ==
            IF n = 0 THEN <<>>
            ELSE IF fragments[n].h = h THEN kept[n - 1] ELSE Append(kept[n - 1], fragments[n])
    IN  kept[Len(fragments)]

\* The fragments stay queued.
drop_connection_KeepsFragments(h) ==
    [Queues EXCEPT
        !.conns[h] = [@ EXCEPT !.open = FALSE, !.enc = FALSE, !.notes = {}],
        !.chan[h] = EmptyChan,
        !.stack = Waiting(h) \o (IF encrypt.pending THEN <<[kind |-> "encrypted", ok |-> FALSE]>> ELSE <<>>)
                             \o <<[kind |-> "gone", h |-> h]>>]

\* Nobody waiting on the connection is told.
drop_connection_Silent(h) ==
    [Queues EXCEPT
        !.conns[h] = [@ EXCEPT !.open = FALSE, !.enc = FALSE, !.notes = {}],
        !.chan[h] = EmptyChan,
        !.acl = Without(@, h),
        !.stack = <<[kind |-> "gone", h |-> h]>>]

\* A connection that is gone takes nothing with it and leaves nothing behind:
\* fragments queued for a dead handle would go to whoever has the number next.
drop_connection(h) ==
    [Queues EXCEPT
        !.conns[h] = [@ EXCEPT !.open = FALSE, !.enc = FALSE, !.notes = {}],
        !.chan[h] = EmptyChan,
        !.acl = Without(@, h),
        !.stack = Waiting(h) \o (IF encrypt.pending THEN <<[kind |-> "encrypted", ok |-> FALSE]>> ELSE <<>>)
                             \o <<[kind |-> "gone", h |-> h]>>]

\* The camera went away, or was let go.  The controller frees the buffers of
\* the connection, and need not say so.
Disconnected(h) ==
    /\ Resting /\ Up /\ Open(h)
    /\ LET q == drop_connection(h)
           others == Without(sent, h)
       IN  \E told \in {0, Len(sent) - Len(others)} :
              Becomes(pump_acl([q EXCEPT !.sent = others, !.credits = @ + told]))
    /\ peer' = [peer EXCEPT ![h] = <<>>]
    /\ closing' = closing \ {h}
    /\ encrypt' = NoEncrypt
    /\ UNCHANGED <<link, linking, cam, pairing, daemon, calls>>

AllWaiting ==
    LET upto[n \in 0..MaxHandle] == IF n = 0 THEN <<>> ELSE upto[n - 1] \o Waiting(n)
    IN  upto[MaxHandle]

\* fail(): the dongle was unplugged.  Everything outstanding fails at once.
fail ==
    /\ Resting /\ Up
    /\ link' = "closed"
    /\ chan' = [h \in Handle |-> EmptyChan]
    /\ acl' = <<>> /\ sent' = <<>>
    /\ stack' = AllWaiting \o (IF linking # NoLinking THEN <<Result(linking.call, FALSE)>> ELSE <<>>)
                           \o (IF encrypt.pending THEN <<[kind |-> "encrypted", ok |-> FALSE]>> ELSE <<>>)
    /\ peer' = [h \in Handle |-> <<>>]
    /\ linking' = NoLinking
    /\ encrypt' = NoEncrypt
    /\ UNCHANGED <<conns, closing, credits, cam, pairing, daemon, calls, posted>>

-----------------------------------------------------------------------------
Timeouts ==
    \/ ConnectTimeout
    \/ \E h \in Handle : AttTimeout(h)
    \/ EncryptTimeout
    \/ PairingTimeout

CameraNext ==
    \/ init_step \/ init_address
    \/ connect \/ UseHeld \/ disconnect \/ subscribe \/ write_control \/ finish_cycle
    \/ Connected
    \/ Handlers
    \/ RunPosted
    \/ NumCompleted
    \/ \E h \in Handle : Response(h) \/ Disconnected(h)
    \/ \E good \in BOOLEAN : Smp(good) \/ EncryptionChange(good)
    \/ SmpStray
    \/ Timeouts
    \/ fail

\* Handlers run, what is posted on the loop runs, and timers fire.  Nothing is
\* assumed of the camera or of the daemon.
CameraFairness ==
    /\ WF_cameraVars(Handlers)
    /\ WF_cameraVars(RunPosted)
    /\ WF_cameraVars(Timeouts)

CameraSpec == CameraInit /\ [][CameraNext]_cameraVars /\ CameraFairness

-----------------------------------------------------------------------------
(* Properties *)

\* Whatever happens to the camera, the link or the pairing, a call's handler is
\* called once and not again (hcilink.cc: nothing is left holding a completion).
AnsweredOnce == \A i \in CallId : calls[i].answered <= (IF calls[i].made THEN 1 ELSE 0)

\* A connection starts with nothing of the last one that had its number: no
\* fragment, here or in the controller's buffers, no request, here or at the far
\* end, none to close it, and no belief that it is or is becoming encrypted.
OfThisConnection(f) == Open(f.h) /\ f.made = conns[f.h].made
NothingInherited ==
    /\ \A i \in DOMAIN acl : OfThisConnection(acl[i])
    /\ \A i \in DOMAIN sent : OfThisConnection(sent[i])
    /\ \A h \in closing : Open(h)
    /\ encrypt.pending => Open(encrypt.h)
    /\ \A h \in Handle : ~Open(h) => ~conns[h].enc /\ conns[h].notes = {} /\ chan[h] = EmptyChan /\ peer[h] = <<>>

\* The two together: what the link keeps is of the connection that is there,
\* and a completion is kept in one place until it is called.
LinkStateIsItsOwn == NothingInherited /\ AnsweredOnce

\* The client believes itself subscribed only when the camera has been told to
\* send what this connection's discovery found.
SubscribedIsTrue ==
    (cam.subscribed /\ Open(cam.conn)) =>
        \A c \in {"timecode", "incoming"} :
            cam.chars[c].cccd # "none" => cam.chars[c].cccd \in conns[cam.conn].notes

\* A call is always answered: a camera that goes silent, disconnects or is
\* never paired, and a dongle that is unplugged, all end it.  And a subscription
\* the client counts on is one the camera knows of.
CallsAreAnswered == []SubscribedIsTrue /\ \A i \in CallId : calls[i].made ~> calls[i].answered > 0
=============================================================================
