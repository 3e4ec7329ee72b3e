----------------------------- MODULE HciShare -----------------------------
(***************************************************************************)
(* One Bluetooth controller and its several users: SharedLink of           *)
(* src/src/hcishare.cc over the scanning, connecting and command queue of  *)
(* Link in src/src/hcilink.cc.                                             *)
(*                                                                         *)
(* Everything runs on the loop's thread, so a step is one command answered,*)
(* one event delivered, one deferred call or one call by a user, with all  *)
(* that follows from it.  The handlers are functions on x, the whole state *)
(* as a record; Become assigns what they return.                           *)
(*                                                                         *)
(* The controller is external: one scanner, one initiator, commands        *)
(* answered in order, and a cancelled connection reported as a failed one. *)
(***************************************************************************)
EXTENDS Naturals, Sequences

CONSTANTS
    Users,        \* subscriptions to the radio
    Peers,        \* addresses somebody connects to
    NoPeer,
    RoughUsers,   \* bound: those of them that act
    RoughPeers,   \* when the radio is rough
    Radios        \* how the radio may be

ASSUME HciShareAssumption ==
    /\ NoPeer \notin Peers
    /\ RoughUsers \subseteq Users
    /\ RoughPeers \subseteq Peers
    /\ Radios \subseteq {"calm", "late", "rough"}

VARIABLES
    radio,    \* whether an attempt may go unanswered ("late"), and a command
              \* fail or the dongle be unplugged as well ("rough")
    want,     \* want_scan_ and want_active_ of each user
    share,    \* state_, reconciling_, connecting_, force_, applied_active_
    pending,  \* the users whose completion is in pending_
    link,     \* closed_, scanning_, connect_*
    queue,    \* the command in flight and cmd_queue_ behind it
    later,    \* calls deferred to the next turn of the loop
    ctl,      \* the controller: scanning how, with which parameters, to whom
    evt,      \* the connection event the controller has sent
    said      \* what this step told those who waited, if it settled

vars == <<radio, want, share, pending, link, queue, later, ctl, evt, said>>

Peer == Peers \cup {NoPeer}
Radio == {"off", "passive", "active"}
Wish == {"no", "passive", "active", "gone"}

Share == [state : {"opening", "ready", "failed"}, reconciling : BOOLEAN,
          connecting : BOOLEAN, force : BOOLEAN, active : BOOLEAN]

\* connect_pending_ with connect_peer_, connect_restore_scan_, and whether
\* connect_timer_ is armed.
Link == [closed : BOOLEAN, scanning : BOOLEAN, peer : Peer, restore : BOOLEAN,
         timer : BOOLEAN]

\* A command with the handler that waits for its answer.
Command == [op : {"passive", "active", "enable", "disable", "create", "cancel"},
            for : {"start", "stop", "restore", "connect", "nobody"}, peer : Peer]

\* A deferred call: the answer to a connect that was refused, or to the
\* stop_scan of one that had no scan to stop.
Deferred == [what : {"refused", "stopped"}, peer : Peer]

Here == [want |-> want, share |-> share, pending |-> pending, link |-> link,
         queue |-> queue, later |-> later, ctl |-> ctl, evt |-> evt,
         said |-> "nothing"]

Become(x) ==
    /\ radio' = radio
    /\ want' = x.want
    /\ share' = x.share
    /\ pending' = x.pending
    /\ link' = x.link
    /\ queue' = x.queue
    /\ later' = x.later
    /\ ctl' = x.ctl
    /\ evt' = x.evt
    /\ said' = x.said

NoEvent == [peer |-> NoPeer, ok |-> FALSE]

\* What the users ask for together: active wins.
Union(w) ==
    IF \E u \in Users : w[u] = "active" THEN "active"
    ELSE IF \E u \in Users : w[u] = "passive" THEN "passive"
    ELSE "off"

-----------------------------------------------------------------------------
(* Link: commands and scanning.                                            *)

command(x, op, for, p) ==
    [x EXCEPT !.queue = Append(@, [op |-> op, for |-> for, peer |-> p])]

\* Parameters first; the enable follows when they are answered.
start_scan(x, how, for) == command(x, how, for, NoPeer)

stop_scan(x, for, p) ==
    IF x.link.scanning THEN command(x, "disable", for, p)
    ELSE [x EXCEPT !.later = @ \cup {[what |-> "stopped", peer |-> p]}]

-----------------------------------------------------------------------------
(* SharedLink: bringing the radio into line with what the users want.      *)

settle(x, ok) ==
    [x EXCEPT !.pending = {},
              !.said = IF x.pending = {} THEN @
                       ELSE IF ok THEN "ok" ELSE "failed"]

\* Mutant: a vote for active does not restart a passive scan.
pump_Sticky(x) ==
    IF x.link.closed \/ x.share.state = "failed" THEN settle(x, FALSE)
    ELSE IF x.share.state = "opening" \/ x.share.connecting THEN x
    ELSE LET how == Union(x.want)
         IN  IF x.link.scanning = (how # "off") THEN settle(x, TRUE)
             ELSE IF how = "off"
             THEN stop_scan([x EXCEPT !.share.reconciling = TRUE], "stop", NoPeer)
             ELSE start_scan([x EXCEPT !.share.reconciling = TRUE], how, "start")

pump(x) ==
    IF x.link.closed \/ x.share.state = "failed" THEN settle(x, FALSE)
    ELSE IF x.share.state = "opening" \/ x.share.connecting THEN x
    ELSE LET how == Union(x.want)
             right == how # "off" /\ (how = "active") = x.share.active
             y == [x EXCEPT !.share.force = FALSE]
         IN  IF x.link.scanning /\ (x.share.force \/ ~right)
             THEN stop_scan([y EXCEPT !.share.reconciling = TRUE], "stop", NoPeer)
             ELSE IF x.link.scanning \/ how = "off" THEN settle(y, TRUE)
             ELSE start_scan([y EXCEPT !.share.reconciling = TRUE,
                                       !.share.active = how = "active"],
                             how, "start")

reconcile(x) == IF x.share.reconciling THEN x ELSE pump(x)

\* Mutant: a command that fails leaves the reconciliation open.
next_Stuck(x, ok) ==
    IF ok THEN pump([x EXCEPT !.share.reconciling = FALSE]) ELSE settle(x, FALSE)

\* The end of one command of a reconciliation.
next(x, ok) ==
    LET y == [x EXCEPT !.share.reconciling = FALSE]
    IN  IF ok THEN pump(y) ELSE settle(y, FALSE)

end_connect(x) ==
    reconcile([x EXCEPT !.share.connecting = FALSE, !.share.force = TRUE])

-----------------------------------------------------------------------------
(* Link: connecting.                                                       *)

\* Puts the scan it found back, passive, if there is no connection.
finish_connect(x, ok) ==
    LET y == [x EXCEPT !.link.peer = NoPeer, !.link.timer = FALSE,
                       !.link.restore = FALSE]
    IN  IF x.link.peer = NoPeer THEN x
        ELSE end_connect(IF x.link.restore /\ ~ok /\ ~x.link.closed
                         THEN start_scan(y, "passive", "restore") ELSE y)

\* The scan is stopped: ask for the connection, in whoever's name is pending.
connect_stopped(x, ok, p) ==
    IF x.link.peer = NoPeer THEN x
    ELSE IF ok THEN command(x, "create", "connect", p)
    ELSE finish_connect(x, FALSE)

created(x, ok) ==
    IF x.link.peer = NoPeer THEN x
    ELSE IF ok THEN [x EXCEPT !.link.timer = TRUE]
    ELSE finish_connect(x, FALSE)

\* What waits for the answer to each command.
answered(x, c, ok) ==
    IF c.op \in {"passive", "active"} /\ ok THEN command(x, "enable", c.for, NoPeer)
    ELSE CASE c.for = "start" ->
                next([x EXCEPT !.link.scanning = @ \/ ok], ok)
           [] c.for = "restore" -> [x EXCEPT !.link.scanning = @ \/ ok]
           [] c.for = "stop" -> next([x EXCEPT !.link.scanning = FALSE], ok)
           [] c.for = "connect" /\ c.op = "disable" ->
                connect_stopped([x EXCEPT !.link.scanning = FALSE], ok, c.peer)
           [] c.for = "connect" /\ c.op = "create" -> created(x, ok)
           [] OTHER -> x

-----------------------------------------------------------------------------
(* The controller.                                                         *)

Allowed(c) ==
    CASE c.op \in {"passive", "active"} -> ctl.scan = "off" /\ ctl.init = NoPeer
      [] c.op = "enable" -> ctl.init = NoPeer
      [] c.op = "disable" -> TRUE
      [] c.op = "create" -> ctl.init = NoPeer /\ ctl.scan = "off"
      [] c.op = "cancel" -> ctl.init # NoPeer

Done(c) ==
    CASE c.op \in {"passive", "active"} -> [ctl EXCEPT !.how = c.op]
      [] c.op = "enable" -> [ctl EXCEPT !.scan = ctl.how]
      [] c.op = "disable" -> [ctl EXCEPT !.scan = "off"]
      [] c.op = "create" -> [ctl EXCEPT !.init = c.peer]
      [] c.op = "cancel" -> [ctl EXCEPT !.init = NoPeer]

\* The command in flight is answered, or its timer gives up on it.
CommandAnswered(ok) ==
    /\ queue # <<>>
    /\ evt = NoEvent
    /\ ok => Allowed(Head(queue))
    /\ ~ok => ~Allowed(Head(queue)) \/ radio = "rough"
    /\ LET c == Head(queue)
           x == [Here EXCEPT !.queue = Tail(@),
                             !.ctl = IF ok THEN Done(c) ELSE @,
                             !.evt = IF ok /\ c.op = "cancel"
                                     THEN [peer |-> ctl.init, ok |-> FALSE] ELSE @]
       IN  Become(answered(x, c, ok))

PeerAnswers ==
    /\ ctl.init # NoPeer
    /\ evt = NoEvent
    /\ Become([Here EXCEPT !.evt = [peer |-> ctl.init, ok |-> TRUE],
                           !.ctl.init = NoPeer])

-----------------------------------------------------------------------------
(* What reaches the host.                                                  *)

\* LE Connection Complete is taken for the answer to whatever is pending.
ConnectionComplete ==
    /\ evt # NoEvent
    /\ Become(finish_connect([Here EXCEPT !.evt = NoEvent], evt.ok))

\* An attempt is given seconds: by then the commands queued with it have been
\* answered or given up.
ConnectTimeout ==
    /\ link.timer
    /\ queue = <<>>
    /\ radio # "calm"
    /\ Become(finish_connect(
                 command([Here EXCEPT !.link.timer = FALSE],
                         "cancel", "nobody", NoPeer), FALSE))

RunDeferred(d) ==
    /\ d \in later
    /\ LET x == [Here EXCEPT !.later = @ \ {d}]
       IN  Become(IF d.what = "refused" THEN end_connect(x)
                  ELSE connect_stopped(x, TRUE, d.peer))

on_ready(ok) ==
    /\ share.state = "opening"
    /\ ok \/ radio = "rough"
    /\ LET x == [Here EXCEPT !.share.state = IF ok THEN "ready" ELSE "failed"]
       IN  Become(IF ok THEN pump(x) ELSE settle(x, FALSE))

\* Link::fail: every command, the connection and then the users are told.
fail ==
    /\ radio = "rough"
    /\ ~link.closed
    /\ Become(settle([Here EXCEPT
                 !.share = [@ EXCEPT !.state = "failed", !.reconciling = FALSE,
                                     !.connecting = @ /\ link.peer = NoPeer,
                                     !.force = @ \/ link.peer # NoPeer],
                 !.link = [closed |-> TRUE, scanning |-> FALSE, peer |-> NoPeer,
                           restore |-> FALSE, timer |-> FALSE],
                 !.queue = <<>>,
                 !.ctl = [scan |-> "off", how |-> "passive", init |-> NoPeer],
                 !.evt = NoEvent], FALSE))

-----------------------------------------------------------------------------
(* The users.                                                              *)

\* `how` is "no" for stop_scan.
AskScan(u, how) ==
    /\ want[u] # "gone"
    /\ Become(reconcile([Here EXCEPT !.want[u] = how, !.pending = @ \cup {u}]))

\* ~User: its share of the scan is released and nobody is told.
drop_user(u) ==
    /\ want[u] # "gone"
    /\ Become(reconcile([Here EXCEPT !.want[u] = "gone"]))

refuse(x, p) == [x EXCEPT !.later = @ \cup {[what |-> "refused", peer |-> p]}]

connect(p) ==
    /\ share.state = "ready"
    /\ LET x == [Here EXCEPT !.share.connecting = TRUE]
       IN  Become(IF link.closed \/ link.peer # NoPeer THEN refuse(x, p)
                  ELSE stop_scan([x EXCEPT !.link.peer = p,
                                           !.link.restore = link.scanning],
                                 "connect", p))

-----------------------------------------------------------------------------
Init ==
    /\ radio \in Radios
    /\ want = [u \in Users |-> "no"]
    /\ share = [state |-> "opening", reconciling |-> FALSE,
                connecting |-> FALSE, force |-> FALSE, active |-> FALSE]
    /\ pending = {}
    /\ link = [closed |-> FALSE, scanning |-> FALSE, peer |-> NoPeer,
               restore |-> FALSE, timer |-> FALSE]
    /\ queue = <<>>
    /\ later = {}
    /\ ctl = [scan |-> "off", how |-> "passive", init |-> NoPeer]
    /\ evt = NoEvent
    /\ said = "nothing"

\* What happens of itself, and what users do.
RadioStep ==
    \/ \E ok \in BOOLEAN : CommandAnswered(ok) \/ on_ready(ok)
    \/ \E d \in later : RunDeferred(d)
    \/ ConnectionComplete
    \/ PeerAnswers
    \/ ConnectTimeout
    \/ fail

UserStep ==
    \/ \E u \in IF radio = "rough" THEN RoughUsers ELSE Users :
          \/ \E how \in {"no", "passive", "active"} : AskScan(u, how)
          \/ drop_user(u)
    \/ \E p \in IF radio = "rough" THEN RoughPeers ELSE Peers : connect(p)

Next == RadioStep \/ UserStep

\* The controller answers or the command's timer does; the loop runs what was
\* deferred and delivers what was sent; an attempt ends by its own timer; and
\* the controller comes up or does not.
Fairness ==
    /\ WF_vars(\E ok \in BOOLEAN : CommandAnswered(ok))
    /\ WF_vars(\E ok \in BOOLEAN : on_ready(ok))
    /\ WF_vars(\E d \in later : RunDeferred(d))
    /\ WF_vars(ConnectionComplete)
    /\ WF_vars(ConnectTimeout \/ PeerAnswers)

Spec == Init /\ [][Next]_vars /\ Fairness

-----------------------------------------------------------------------------
(* Properties.                                                             *)

\* Every variable in its type; the queue never holds more than the commands of
\* one reconciliation, one restored scan, one cancelled and one new connection.
TypeOK ==
    /\ radio \in Radios
    /\ want \in [Users -> Wish]
    /\ share \in Share
    /\ pending \subseteq Users
    /\ link \in Link
    /\ queue \in Seq(Command) /\ Len(queue) <= 6
    /\ later \subseteq Deferred
    /\ ctl \in [scan : Radio, how : {"passive", "active"}, init : Peer]
    /\ evt \in [peer : Peer, ok : BOOLEAN]
    /\ said \in {"nothing", "ok", "failed"}

\* Nothing is under way anywhere.
Quiet ==
    /\ share.state = "ready"
    /\ queue = <<>> /\ later = {} /\ evt = NoEvent
    /\ link.peer = NoPeer /\ ctl.init = NoPeer

\* "The radio scans if anybody wants it to, and stops when the last user stops
\* asking ... the union wins" and "`done` reports whether the radio is now
\* scanning" (hcishare.h): once things are quiet, and whenever a user is told
\* yes, the controller is doing what the users ask for together, whatever
\* connections, restored scans and changes of mind came between, if every
\* command is answered.
RadioFollowsUsers ==
    radio # "rough" /\ (Quiet \/ said = "ok") => ctl.scan = Union(want)

\* Once the users stop asking, everybody has been answered, no connection is
\* left half made and no reconciliation half done, even if commands fail, the
\* answers cross and the radio dies (settle, end_connect, on_closed).
SettlesDown ==
    <>[][RadioStep]_vars
        => <>[](pending = {} /\ ~share.connecting /\ ~share.reconciling)
=============================================================================
