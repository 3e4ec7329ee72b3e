--------------------------- MODULE HciShare_proofs ---------------------------
(***************************************************************************)
(* Proofs about the shared controller (HciShare), where every command is   *)
(* answered: what the host believes of the radio is so, one reconciliation *)
(* and one connection are under way at a time, and when both are over the  *)
(* controller does what the users ask for together.                        *)
(***************************************************************************)
EXTENDS HciShare, SequenceTheorems, TLAPS

-----------------------------------------------------------------------------
(* The inductive invariant, on the record a chain of handlers has built.   *)

Controller == [scan : Radio, how : {"passive", "active"}, init : Peer]

World == [want : [Users -> Wish], share : Share, pending : SUBSET Users, link : Link,
          queue : Seq(Command), later : SUBSET Deferred, ctl : Controller,
          evt : [peer : Peer, ok : BOOLEAN], said : {"nothing", "ok", "failed"}]

Reconciles(c) == c.for \in {"start", "stop"}

\* What is queued: scanning for the share, and the two commands of a connection.
Issued(c) ==
    \/ c.op \in {"passive", "active", "enable"} /\ c.for = "start"
    \/ c.op = "disable" /\ c.for \in {"stop", "connect"}
    \/ c.op = "create" /\ c.for = "connect"

\* The link is up, and the host knows whether the controller scans, and how.
Known(x) ==
    /\ ~x.link.closed
    /\ x.share.state # "failed" /\ (x.share.state = "opening" => ~x.share.reconciling)
    /\ x.link.scanning <=> x.ctl.scan # "off"
    /\ x.link.scanning => (x.ctl.scan = "active" <=> x.share.active)

\* One command at a time is the reconciliation's, and it starts a scan only
\* where there is none.
OneReconciliation(x) ==
    /\ \A i \in 1..Len(x.queue) :
          LET c == x.queue[i]
          IN  /\ Issued(c)
              /\ Reconciles(c) => x.share.reconciling
              /\ \A j \in 1..Len(x.queue) : Reconciles(c) /\ Reconciles(x.queue[j]) => i = j
              /\ c.for = "start" => ~x.link.scanning
              /\ c.op \in {"passive", "active"} => (c.op = "active" <=> x.share.active)
              /\ c.op = "enable" => (x.ctl.how = "active" <=> x.share.active)
    /\ x.share.reconciling => \E i \in 1..Len(x.queue) : Reconciles(x.queue[i])

\* A connection is asked for, under way, or just made.
NoneAsked(x) ==
    /\ \A i \in 1..Len(x.queue) : x.queue[i].for # "connect"
    /\ \A d \in x.later : d.what # "stopped"
NoneMade(x) == x.ctl.init = NoPeer /\ x.evt = NoEvent

OneConnection(x) ==
    /\ \A i, j \in 1..Len(x.queue) : x.queue[i].for = "connect" /\ x.queue[j].for = "connect" => i = j
    /\ \A d, e \in x.later : d.what = "stopped" /\ e.what = "stopped" => d = e
    /\ \A d \in x.later : d.what = "stopped" =>
          ~x.link.restore /\ \A i \in 1..Len(x.queue) : x.queue[i].for # "connect"
    /\ NoneMade(x) \/ NoneAsked(x)
    /\ x.ctl.init = NoPeer \/ x.evt = NoEvent
    /\ x.link.peer = NoPeer => NoneAsked(x) /\ NoneMade(x)
    /\ x.evt = NoEvent \/ x.evt.ok
    /\ x.share.connecting => x.link.peer # NoPeer \/ \E d \in x.later : d.what = "refused"

\* A connection that would put a scan back is never refused: no scan can be on
\* by the time the controller is asked for it.
NothingToRestore(x) ==
    x.link.restore =>
        \A i \in 1..Len(x.queue) :
            /\ x.queue[i].op = "create" =>
                  ~x.link.scanning /\ \A j \in 1..(i - 1) : x.queue[j].op # "enable"
            /\ x.queue[i].for = "connect" /\ x.queue[i].op = "disable" =>
                  /\ \A j \in 1..Len(x.queue) : x.queue[j].op # "enable"
                  /\ \A j \in 1..(i - 1) : x.queue[j].for # "start"

Core(x) == x \in World /\ Known(x) /\ OneReconciliation(x) /\ OneConnection(x) /\ NothingToRestore(x)

\* Where nothing is left to do, the radio is in line with what the users want.
InLine(x) ==
    /\ x.share.state = "ready" /\ ~x.share.reconciling /\ ~x.share.connecting /\ x.link.peer = NoPeer
          => x.ctl.scan = Union(x.want)
    /\ x.said = "ok" => x.ctl.scan = Union(x.want)

Now == [Here EXCEPT !.said = said]

CalmInv == radio = "calm" => Core(Now) /\ InLine(Now)

-----------------------------------------------------------------------------
(* Queues and records.                                                     *)

LEMMA Appended ==
    ASSUME NEW q \in Seq(Command), NEW c \in Command
    PROVE  /\ Append(q, c) \in Seq(Command)
           /\ Len(Append(q, c)) = Len(q) + 1 /\ Len(q) \in Nat
           /\ \A i \in 1..Len(q) : Append(q, c)[i] = q[i]
           /\ Append(q, c)[Len(q) + 1] = c
BY AppendProperties, LenProperties

LEMMA Popped ==
    ASSUME NEW q \in Seq(Command), q # <<>>
    PROVE  /\ Tail(q) \in Seq(Command) /\ Head(q) \in Command /\ Head(q) = q[1]
           /\ Len(q) \in Nat \ {0} /\ Len(Tail(q)) = Len(q) - 1
           /\ \A i \in 1..(Len(q) - 1) : Tail(q)[i] = q[i + 1]
BY HeadTailProperties, LenProperties, EmptySeq

LEMMA WorldFacts ==
    ASSUME NEW x \in World
    PROVE  /\ x.want \in [Users -> Wish] /\ x.share \in Share /\ x.pending \subseteq Users
           /\ x.link \in Link /\ x.queue \in Seq(Command) /\ x.later \subseteq Deferred
           /\ x.ctl \in Controller /\ x.evt \in [peer : Peer, ok : BOOLEAN]
           /\ x.said \in {"nothing", "ok", "failed"}
BY DEF World

\* What a step becomes is the state it leads to.
LEMMA BecomeFacts ==
    ASSUME NEW z, Core(z), InLine(z), Become(z)
    PROVE  CalmInv'
<1>1. z \in World
  BY DEF Core
<1>2. Now' = z
  BY <1>1 DEF World, Become, Now, Here
<1>3. Core(Now)' /\ InLine(Now)'
  <2>1. Core(Now') /\ InLine(Now')
    BY <1>2
  <2> QED BY <2>1 DEF Core, InLine, World, Controller, Known, OneReconciliation, OneConnection, NothingToRestore, NoneAsked,
             NoneMade, Issued, Reconciles, Union, Share, Link, Command, Deferred, Peer, Radio, Wish
<1> QED BY <1>3 DEF CalmInv

\* A step starts from what the last one left, with nothing said.
LEMMA HereFacts ==
    ASSUME CalmInv, radio = "calm"
    PROVE  /\ Core(Here) /\ Here.said = "nothing" /\ Here \in World
           /\ Here.want = want /\ Here.share = share /\ Here.pending = pending /\ Here.link = link
           /\ Here.queue = queue /\ Here.later = later /\ Here.ctl = ctl /\ Here.evt = evt
<1>1. Core(Now) /\ Now \in World
  BY DEF CalmInv, Core
<1>2. /\ Now.want = want /\ Now.share = share /\ Now.pending = pending /\ Now.link = link
      /\ Now.queue = queue /\ Now.later = later /\ Now.ctl = ctl /\ Now.evt = evt
  BY DEF Now, Here
<1>3. /\ Here.want = want /\ Here.share = share /\ Here.pending = pending /\ Here.link = link
      /\ Here.queue = queue /\ Here.later = later /\ Here.ctl = ctl /\ Here.evt = evt /\ Here.said = "nothing"
  BY DEF Here
<1>4. Here \in World
  <2>1. /\ want \in [Users -> Wish] /\ share \in Share /\ pending \subseteq Users /\ link \in Link
        /\ queue \in Seq(Command) /\ later \subseteq Deferred /\ ctl \in Controller
        /\ evt \in [peer : Peer, ok : BOOLEAN]
    BY <1>1, <1>2, WorldFacts
  <2> QED BY <2>1 DEF Here, World
<1> HIDE DEF Now, Here
<1>5. Core(Here)
  BY <1>1, <1>2, <1>3, <1>4 DEF Core, Known, OneReconciliation, OneConnection, NothingToRestore, NoneAsked, NoneMade
<1> QED BY <1>3, <1>4, <1>5

-----------------------------------------------------------------------------
(* The share.                                                              *)

\* The share's next command is asked for where none of its own is queued: to
\* stop the scan there is, or to start one where there is none.
MayAsk(x, c, s) ==
    /\ s \in Share /\ c \in Command
    /\ Core(x) /\ ~x.share.reconciling /\ x.share.state = "ready"
    /\ \/ c.op = "disable" /\ c.for = "stop" /\ s.active = x.share.active
       \/ c.op \in {"passive", "active"} /\ c.for = "start" /\ ~x.link.scanning /\ (c.op = "active" <=> s.active)
    /\ s.state = x.share.state /\ s.connecting = x.share.connecting /\ s.reconciling

AskedFor(x, c, s) == [x EXCEPT !.queue = Append(@, c), !.share = s]

LEMMA AskedFacts ==
    ASSUME NEW x, NEW c, NEW s, MayAsk(x, c, s)
    PROVE  LET z == AskedFor(x, c, s) IN Core(z) /\ z.share.reconciling /\ z.said = x.said
<1> DEFINE z == AskedFor(x, c, s)
<1> USE DEF MayAsk
<1>1. x \in World
  BY DEF Core
<1>2. /\ z.queue = Append(x.queue, c) /\ z.link = x.link /\ z.later = x.later /\ z.ctl = x.ctl /\ z.evt = x.evt
      /\ z.share = s /\ z.said = x.said
  BY <1>1 DEF World, AskedFor
<1>3. z \in World
  <2>1. Append(x.queue, c) \in Seq(Command)
    BY <1>1, WorldFacts, Appended
  <2> QED BY <1>1, <2>1 DEF World, AskedFor
<1>4. /\ Len(x.queue) \in Nat /\ Len(z.queue) = Len(x.queue) + 1
      /\ \A i \in 1..Len(x.queue) : z.queue[i] = x.queue[i]
      /\ z.queue[Len(x.queue) + 1] = c
  BY <1>1, <1>2, WorldFacts, Appended
<1>5. Issued(c) /\ Reconciles(c) /\ c.op # "create" /\ c.op # "enable" /\ c.for # "connect"
  BY DEF Issued, Reconciles
<1> HIDE DEF z
<1>6. \A i \in 1..Len(x.queue) : ~Reconciles(x.queue[i]) /\ x.queue[i].for # "start" /\ Issued(x.queue[i])
                              /\ x.queue[i].op \notin {"passive", "active", "enable"}
  BY DEF Core, OneReconciliation, Reconciles, Issued
<1>7. Known(z)
  BY <1>2 DEF Core, Known
<1>8. OneReconciliation(z)
  <2>1. \E i \in 1..Len(z.queue) : Reconciles(z.queue[i])
    BY <1>4, <1>5
  <2>2. \A i \in 1..Len(z.queue) : i \in 1..Len(x.queue) \/ i = Len(x.queue) + 1
    BY <1>4
  <2> QED BY <1>2, <1>4, <1>5, <1>6, <2>1, <2>2 DEF OneReconciliation
<1>9. OneConnection(z)
  BY <1>2, <1>4, <1>5 DEF Core, OneConnection, NoneAsked, NoneMade
<1>10. NothingToRestore(z)
  BY <1>2, <1>4, <1>5 DEF Core, NothingToRestore
<1>11. Core(z) /\ z.share.reconciling /\ z.said = x.said
  BY <1>2, <1>3, <1>7, <1>8, <1>9, <1>10 DEF Core
<1> QED BY <1>11 DEF z

\* What nothing of Core looks at.
LEMMA SameCore ==
    ASSUME NEW x, NEW z, Core(x), z \in World,
           z.queue = x.queue, z.link = x.link, z.later = x.later, z.ctl = x.ctl, z.evt = x.evt,
           z.share.state = x.share.state, z.share.reconciling = x.share.reconciling,
           z.share.connecting = x.share.connecting, z.share.active = x.share.active
    PROVE  Core(z)
BY DEF Core, Known, OneReconciliation, OneConnection, NothingToRestore, NoneAsked, NoneMade

\* The share, with no command of its own out, looks at what is wanted.
LEMMA PumpFacts ==
    ASSUME NEW x, Core(x), ~x.share.reconciling, x.said = "nothing"
    PROVE  Core(pump(x)) /\ InLine(pump(x))
<1> DEFINE how == Union(x.want)
           right == how # "off" /\ (how = "active") = x.share.active
           y == [x EXCEPT !.share.force = FALSE]
<1>1. x \in World /\ x.share \in Share /\ x.link \in Link /\ x.ctl \in Controller
  BY WorldFacts DEF Core
<1>2. ~x.link.closed /\ x.share.state \in {"opening", "ready"}
  BY <1>1 DEF Core, Known, Share
<1>3. how \in {"off", "passive", "active"}
  BY DEF Union
<1> HIDE DEF how
<1>4. CASE x.share.state = "opening" \/ x.share.connecting
  <2>1. pump(x) = x
    BY <1>2, <1>4 DEF pump
  <2> QED BY <1>4, <2>1 DEF InLine
<1>5. CASE x.share.state = "ready" /\ ~x.share.connecting
  <2>1. CASE x.link.scanning /\ (x.share.force \/ ~right)
    <3> DEFINE s == [x.share EXCEPT !.force = FALSE, !.reconciling = TRUE]
               c == [op |-> "disable", for |-> "stop", peer |-> NoPeer]
               z == AskedFor(x, c, s)
    <3>1. pump(x) = z
      BY <1>1, <1>2, <1>5, <2>1 DEF pump, how, right, stop_scan, command, AskedFor, World, Share
    <3>2. c \in Command /\ c.op = "disable" /\ c.for = "stop"
      BY DEF Command, Peer
    <3>3. /\ s \in Share /\ s.state = x.share.state /\ s.connecting = x.share.connecting /\ s.reconciling
          /\ s.active = x.share.active
      BY <1>1 DEF Share
    <3> HIDE DEF s, c
    <3>4. MayAsk(x, c, s)
      BY <1>5, <3>2, <3>3 DEF MayAsk
    <3>5. Core(z) /\ z.share.reconciling /\ z.said = x.said
      BY <3>4, AskedFacts
    <3> HIDE DEF z
    <3> QED BY <3>1, <3>5 DEF InLine
  <2>2. CASE ~(x.link.scanning /\ (x.share.force \/ ~right)) /\ (x.link.scanning \/ how = "off")
    <3>1. pump(x) = settle(y, TRUE)
      BY <1>1, <1>2, <1>5, <2>2 DEF pump, how, right
    <3>2. /\ pump(x).want = x.want /\ pump(x).ctl = x.ctl /\ pump(x).queue = x.queue /\ pump(x).link = x.link
          /\ pump(x).later = x.later /\ pump(x).evt = x.evt
          /\ pump(x).share = [x.share EXCEPT !.force = FALSE]
          /\ pump(x).said \in {"nothing", "ok"}
      BY <1>1, <3>1 DEF settle, World
    <3>3. pump(x) \in World
      <4>1. [x.share EXCEPT !.force = FALSE] \in Share
        BY <1>1 DEF Share
      <4> QED BY <1>1, <3>1, <4>1 DEF settle, World
    <3>4. Core(pump(x))
      <4>1. /\ pump(x).share.state = x.share.state /\ pump(x).share.reconciling = x.share.reconciling
            /\ pump(x).share.connecting = x.share.connecting /\ pump(x).share.active = x.share.active
        BY <1>1, <3>2 DEF Share
      <4> QED BY <3>2, <3>3, <4>1, SameCore
    <3>5. x.ctl.scan = how
      BY <1>1, <1>3, <2>2 DEF Core, Known, Controller, Radio, right
    <3> QED BY <3>2, <3>4, <3>5 DEF InLine, how
  <2>3. CASE ~x.link.scanning /\ how # "off"
    <3>1. PICK act \in BOOLEAN : act = (how = "active")
      OBVIOUS
    <3> DEFINE s == [x.share EXCEPT !.force = FALSE, !.reconciling = TRUE, !.active = act]
               c == [op |-> how, for |-> "start", peer |-> NoPeer]
               z == AskedFor(x, c, s)
    <3>2. pump(x) = z
      BY <1>1, <1>2, <1>5, <2>3, <3>1 DEF pump, how, right, start_scan, command, AskedFor, World, Share
    <3>3. c \in Command /\ c.op = how /\ c.for = "start" /\ c.op \in {"passive", "active"}
      BY <1>3, <2>3 DEF Command, Peer
    <3>4. /\ s \in Share /\ s.state = x.share.state /\ s.connecting = x.share.connecting /\ s.reconciling
          /\ (how = "active" <=> s.active)
      BY <1>1, <3>1 DEF Share
    <3> HIDE DEF s, c
    <3>5. MayAsk(x, c, s)
      BY <1>5, <2>3, <3>3, <3>4 DEF MayAsk
    <3>6. Core(z) /\ z.share.reconciling /\ z.said = x.said
      BY <3>5, AskedFacts
    <3> HIDE DEF z
    <3> QED BY <3>2, <3>6 DEF InLine
  <2> QED BY <2>1, <2>2, <2>3
<1> QED BY <1>2, <1>4, <1>5

LEMMA ReconcileFacts ==
    ASSUME NEW x, Core(x), x.said = "nothing"
    PROVE  Core(reconcile(x)) /\ InLine(reconcile(x))
<1>1. CASE x.share.reconciling
  BY <1>1 DEF reconcile, InLine
<1>2. CASE ~x.share.reconciling
  BY <1>2, PumpFacts DEF reconcile
<1> QED BY <1>1, <1>2

LEMMA SettledFacts ==
    ASSUME NEW x, Core(x), x.said = "nothing", x.link.peer # NoPeer
    PROVE  Core(settle(x, FALSE)) /\ InLine(settle(x, FALSE))
<1> DEFINE z == settle(x, FALSE)
<1>1. x \in World
  BY DEF Core
<1>2. /\ z \in World /\ z.queue = x.queue /\ z.link = x.link /\ z.later = x.later /\ z.ctl = x.ctl
      /\ z.evt = x.evt /\ z.share = x.share /\ z.said # "ok"
  BY <1>1 DEF settle, World
<1> HIDE DEF z
<1>3. Core(z) /\ InLine(z)
  BY <1>2, SameCore DEF InLine
<1> QED BY <1>3 DEF z

-----------------------------------------------------------------------------
(* Commands and their answers.                                             *)

\* The share's command has been answered, and none of its own is left.
LEMMA ShareAnswered ==
    ASSUME NEW x, NEW z \in World, Core(x), x.queue # <<>>, Reconciles(Head(x.queue)),
           z.queue = Tail(x.queue), z.later = x.later, z.evt = x.evt, z.ctl.init = x.ctl.init,
           z.link.peer = x.link.peer, z.link.restore = x.link.restore,
           ~z.share.reconciling, z.share.connecting = x.share.connecting,
           Known(z), z.link.scanning => x.link.scanning \/ Head(x.queue).op = "enable"
    PROVE  Core(z)
<1>1. x \in World /\ x.queue \in Seq(Command)
  BY WorldFacts DEF Core
<1>2. /\ Head(x.queue) = x.queue[1] /\ Len(x.queue) \in Nat \ {0} /\ Len(z.queue) = Len(x.queue) - 1
      /\ \A i \in 1..Len(z.queue) : i + 1 \in 1..Len(x.queue) /\ z.queue[i] = x.queue[i + 1]
  <2>1. /\ Head(x.queue) = x.queue[1] /\ Len(x.queue) \in Nat \ {0} /\ Len(z.queue) = Len(x.queue) - 1
        /\ \A i \in 1..(Len(x.queue) - 1) : z.queue[i] = x.queue[i + 1]
    BY <1>1, Popped
  <2> QED BY <2>1
<1>3. \A i \in 1..Len(z.queue) : Issued(z.queue[i]) /\ ~Reconciles(z.queue[i])
  BY <1>2 DEF Core, OneReconciliation
<1>4. OneReconciliation(z)
  BY <1>3 DEF OneReconciliation, Issued, Reconciles
<1>5. OneConnection(z)
  BY <1>2 DEF Core, OneConnection, NoneAsked, NoneMade
<1>6. NothingToRestore(z)
  <2> SUFFICES ASSUME z.link.restore, NEW i \in 1..Len(z.queue)
               PROVE  /\ z.queue[i].op = "create" => ~z.link.scanning
                      /\ \A j \in 1..Len(z.queue) : z.queue[j].op # "enable" /\ z.queue[j].for # "start"
    BY <1>2 DEF NothingToRestore
  <2>1. \A j \in 1..Len(z.queue) : z.queue[j].op # "enable" /\ z.queue[j].for # "start"
    BY <1>3 DEF Issued, Reconciles
  <2>2. z.queue[i].op = "create" => ~x.link.scanning /\ Head(x.queue).op # "enable"
    BY <1>2 DEF Core, NothingToRestore
  <2> QED BY <2>1, <2>2
<1> QED BY <1>4, <1>5, <1>6 DEF Core

\* The parameters are set: the enable takes the place of the command.
LEMMA ParametersSet ==
    ASSUME NEW x, NEW z \in World, NEW op \in {"passive", "active"}, Core(x), x.queue # <<>>,
           Head(x.queue).op = op,
           z.queue = Append(Tail(x.queue), [op |-> "enable", for |-> "start", peer |-> NoPeer]),
           z.later = x.later, z.evt = x.evt, z.link = x.link, z.share = x.share,
           z.ctl.scan = x.ctl.scan, z.ctl.init = x.ctl.init, z.ctl.how = op
    PROVE  Core(z)
<1> DEFINE c == [op |-> "enable", for |-> "start", peer |-> NoPeer]
           n == Len(x.queue)
<1>1. x \in World /\ x.queue \in Seq(Command) /\ c \in Command
  BY WorldFacts DEF Core, Command, Peer
<1>2. /\ Head(x.queue) = x.queue[1] /\ n \in Nat \ {0} /\ Len(z.queue) = n /\ z.queue[n] = c
      /\ \A i \in 1..(n - 1) : i + 1 \in 1..n /\ z.queue[i] = x.queue[i + 1]
  <2>1. /\ Tail(x.queue) \in Seq(Command) /\ Head(x.queue) = x.queue[1] /\ n \in Nat \ {0} /\ Len(Tail(x.queue)) = n - 1
        /\ \A i \in 1..(n - 1) : Tail(x.queue)[i] = x.queue[i + 1]
    BY <1>1, Popped
  <2>2. /\ Len(z.queue) = n - 1 + 1 /\ z.queue[n - 1 + 1] = c
        /\ \A i \in 1..(n - 1) : z.queue[i] = Tail(x.queue)[i]
    BY <1>1, <2>1, Appended
  <2> QED BY <2>1, <2>2
<1>3. c.op = "enable" /\ c.for = "start" /\ Issued(c) /\ Reconciles(c)
  BY DEF Issued, Reconciles
<1> HIDE DEF c, n
<1>4. /\ Issued(x.queue[1]) /\ x.queue[1].for = "start" /\ Reconciles(x.queue[1]) /\ ~x.link.scanning
      /\ x.share.reconciling /\ (op = "active" <=> x.share.active)
  <2>1. 1 \in 1..Len(x.queue)
    BY <1>2 DEF n
  <2> QED BY <1>2, <2>1 DEF Core, OneReconciliation, Issued, Reconciles
<1>5. \A i \in 1..(n - 1) : Issued(z.queue[i]) /\ ~Reconciles(z.queue[i])
  BY <1>2, <1>4 DEF Core, OneReconciliation, n
<1>6. Known(z)
  BY <1>4 DEF Core, Known
<1>7. \A i \in 1..Len(z.queue) : i \in 1..(n - 1) \/ i = n
  BY <1>2
<1>8. OneReconciliation(z)
  <2>1. \E i \in 1..Len(z.queue) : Reconciles(z.queue[i])
    BY <1>2, <1>3
  <2> QED BY <1>2, <1>3, <1>4, <1>5, <1>7, <2>1 DEF OneReconciliation, Issued, Reconciles
<1>9. OneConnection(z)
  BY <1>2, <1>3, <1>7 DEF Core, OneConnection, NoneAsked, NoneMade, n
<1>10. NothingToRestore(z)
  <2> SUFFICES ASSUME z.link.restore, NEW i \in 1..Len(z.queue)
               PROVE  /\ z.queue[i].op = "create" =>
                            ~z.link.scanning /\ \A j \in 1..(i - 1) : z.queue[j].op # "enable"
                      /\ ~(z.queue[i].for = "connect" /\ z.queue[i].op = "disable")
    BY DEF NothingToRestore
  <2>1. ~z.link.scanning
    BY <1>4
  <2>2. \A j \in 1..(i - 1) : z.queue[j].op # "enable"
    <3>1. \A j \in 1..(n - 1) : z.queue[j].op # "enable"
      BY <1>5 DEF Issued, Reconciles
    <3>2. \A j \in 1..(i - 1) : j \in 1..(n - 1)
      BY <1>2
    <3> QED BY <3>1, <3>2
  <2>3. ~(z.queue[i].for = "connect" /\ z.queue[i].op = "disable")
    <3>1. CASE i = n
      BY <1>2, <1>3, <3>1
    <3>2. CASE i \in 1..(n - 1)
      BY <1>2, <1>4, <3>2 DEF Core, NothingToRestore, n
    <3> QED BY <1>7, <3>1, <3>2
  <2> QED BY <2>1, <2>2, <2>3
<1> QED BY <1>6, <1>8, <1>9, <1>10 DEF Core

-----------------------------------------------------------------------------
(* The commands of a connection.                                           *)

Unasked(q) == \A i \in 1..Len(q) : q[i].for # "connect"

\* A command of the connection has been answered: none is left in the queue.
HeadAnswered(x, z) ==
    /\ Core(x) /\ x.queue # <<>> /\ Head(x.queue).for = "connect"
    /\ z.queue = Tail(x.queue) /\ z.share.reconciling = x.share.reconciling
    /\ z.share.active = x.share.active /\ z.ctl.how = x.ctl.how /\ (z.link.scanning => x.link.scanning)

LEMMA ConnectionAnswered ==
    ASSUME NEW x, NEW z, HeadAnswered(x, z)
    PROVE  /\ OneReconciliation(z) /\ Unasked(z.queue)
           /\ x.link.peer # NoPeer /\ NoneMade(x) /\ \A d \in x.later : d.what # "stopped"
           /\ Len(z.queue) = Len(x.queue) - 1
           /\ \A i \in 1..Len(z.queue) : i + 1 \in 1..Len(x.queue) /\ z.queue[i] = x.queue[i + 1]
<1> USE DEF HeadAnswered
<1>1. x \in World /\ x.queue \in Seq(Command)
  BY WorldFacts DEF Core
<1>2. /\ Head(x.queue) = x.queue[1] /\ Len(x.queue) \in Nat \ {0} /\ Len(z.queue) = Len(x.queue) - 1
      /\ \A i \in 1..(Len(x.queue) - 1) : z.queue[i] = x.queue[i + 1]
  BY <1>1, Popped
<1>3. /\ \A i \in 1..Len(z.queue) : i + 1 \in 1..Len(x.queue) /\ i + 1 # 1 /\ z.queue[i] = x.queue[i + 1]
      /\ \A j \in 1..Len(x.queue) : j # 1 => j - 1 \in 1..Len(z.queue) /\ z.queue[j - 1] = x.queue[j]
      /\ 1 \in 1..Len(x.queue)
  BY <1>2
<1>4. Unasked(z.queue)
  BY <1>2, <1>3 DEF Core, OneConnection, Unasked
<1>5. x.link.peer # NoPeer /\ NoneMade(x) /\ \A d \in x.later : d.what # "stopped"
  BY <1>2, <1>3 DEF Core, OneConnection, NoneAsked
<1>6. x.share.reconciling => \E i \in 1..Len(z.queue) : Reconciles(z.queue[i])
  <2> SUFFICES ASSUME x.share.reconciling PROVE \E i \in 1..Len(z.queue) : Reconciles(z.queue[i])
    OBVIOUS
  <2>1. PICK j \in 1..Len(x.queue) : Reconciles(x.queue[j])
    BY DEF Core, OneReconciliation
  <2>2. j # 1
    BY <1>2, <2>1 DEF Reconciles
  <2> QED BY <1>3, <2>1, <2>2
<1>7. \A i, j \in 1..Len(z.queue) : Reconciles(z.queue[i]) /\ Reconciles(z.queue[j]) => i = j
  <2> SUFFICES ASSUME NEW i \in 1..Len(z.queue), NEW j \in 1..Len(z.queue), Reconciles(z.queue[i]), Reconciles(z.queue[j])
               PROVE  i = j
    OBVIOUS
  <2>1. i + 1 = j + 1
    BY <1>3 DEF Core, OneReconciliation
  <2> QED BY <2>1
<1>8. OneReconciliation(z)
  BY <1>3, <1>6, <1>7 DEF Core, OneReconciliation
<1> QED BY <1>2, <1>3, <1>4, <1>5, <1>8

\* The scan is off, and the controller is asked for the connection.
LEMMA CreateAsked ==
    ASSUME NEW w, NEW z \in World, NEW p \in Peer,
           w.queue \in Seq(Command), z.queue = Append(w.queue, [op |-> "create", for |-> "connect", peer |-> p]),
           z.later = w.later, z.evt = w.evt, z.link = w.link, z.share = w.share, z.ctl = w.ctl,
           Known(w), OneReconciliation(w), Unasked(w.queue), NoneMade(w), w.link.peer # NoPeer,
           \A d \in w.later : d.what # "stopped",
           w.link.restore => ~w.link.scanning /\ \A i \in 1..Len(w.queue) : w.queue[i].op # "enable"
    PROVE  Core(z)
<1> DEFINE c == [op |-> "create", for |-> "connect", peer |-> p]
           n == Len(w.queue)
<1>1. /\ n \in Nat /\ Len(z.queue) = n + 1 /\ z.queue[n + 1] = c
      /\ \A i \in 1..n : z.queue[i] = w.queue[i]
  <2>1. c \in Command
    BY DEF Command
  <2> QED BY <2>1, Appended
<1>2. c.op = "create" /\ c.for = "connect" /\ Issued(c) /\ ~Reconciles(c)
  BY DEF Issued, Reconciles
<1>3. \A i \in 1..Len(z.queue) : i \in 1..n \/ i = n + 1
  BY <1>1
<1> HIDE DEF c
<1>4. Known(z)
  BY DEF Known
<1>5. OneReconciliation(z)
  BY <1>1, <1>2, <1>3 DEF OneReconciliation
<1>6. OneConnection(z)
  BY <1>1, <1>2, <1>3 DEF OneConnection, NoneMade, NoneAsked, Unasked
<1>7. NothingToRestore(z)
  <2> SUFFICES ASSUME z.link.restore, NEW i \in 1..Len(z.queue)
               PROVE  /\ ~z.link.scanning /\ \A j \in 1..(i - 1) : z.queue[j].op # "enable"
                      /\ ~(z.queue[i].for = "connect" /\ z.queue[i].op = "disable")
    BY DEF NothingToRestore
  <2>1. \A j \in 1..(i - 1) : j \in 1..n
    BY <1>1
  <2> QED BY <1>1, <1>2, <1>3, <2>1 DEF Unasked
<1> QED BY <1>4, <1>5, <1>6, <1>7 DEF Core

\* The connection is over, and nothing of it is left.
LEMMA ConnectionOver ==
    ASSUME NEW z \in World, Known(z), OneReconciliation(z), Unasked(z.queue), NoneMade(z),
           \A d \in z.later : d.what # "stopped", ~z.link.restore, ~z.share.connecting
    PROVE  Core(z)
BY DEF Core, OneConnection, NoneAsked, NoneMade, NothingToRestore, Unasked

\* The end of a connection, where no scan is put back.
LEMMA FinishFacts ==
    ASSUME NEW x \in World, NEW ok \in BOOLEAN, x.link.peer # NoPeer, ok \/ ~x.link.restore,
           Known(x), OneReconciliation(x), Unasked(x.queue), NoneMade(x),
           \A d \in x.later : d.what # "stopped", x.said = "nothing"
    PROVE  Core(finish_connect(x, ok)) /\ InLine(finish_connect(x, ok))
<1> DEFINE l == [x.link EXCEPT !.peer = NoPeer, !.timer = FALSE, !.restore = FALSE]
           s == [x.share EXCEPT !.connecting = FALSE, !.force = TRUE]
           z == [x EXCEPT !.link = l, !.share = s]
<1>1. x.link \in Link /\ x.share \in Share
  BY WorldFacts
<1>2. finish_connect(x, ok) = reconcile(z)
  BY <1>1 DEF finish_connect, end_connect, World, Share, Link
<1>3. /\ l \in Link /\ ~l.restore /\ l.scanning = x.link.scanning /\ l.closed = x.link.closed
      /\ s \in Share /\ ~s.connecting /\ s.reconciling = x.share.reconciling /\ s.active = x.share.active
      /\ s.state = x.share.state
  BY <1>1 DEF Link, Share, Peer
<1> HIDE DEF l, s
<1>4. /\ z \in World /\ z.queue = x.queue /\ z.later = x.later /\ z.ctl = x.ctl /\ z.evt = x.evt /\ z.said = x.said
      /\ z.link = l /\ z.share = s
  BY <1>3 DEF World
<1> HIDE DEF z
<1>5. Known(z) /\ OneReconciliation(z) /\ NoneMade(z)
  BY <1>3, <1>4 DEF Known, OneReconciliation, NoneMade
<1>6. Core(z)
  BY <1>3, <1>4, <1>5, ConnectionOver
<1> QED BY <1>2, <1>4, <1>6, ReconcileFacts

-----------------------------------------------------------------------------
(* The steps.                                                              *)

LEMMA InitInv == Init => CalmInv
<1> SUFFICES ASSUME Init PROVE Core(Now) /\ InLine(Now)
  BY DEF CalmInv
<1>1. /\ Now.want = want /\ Now.share = share /\ Now.pending = pending /\ Now.link = link
      /\ Now.queue = queue /\ Now.later = later /\ Now.ctl = ctl /\ Now.evt = evt /\ Now.said = said
  BY DEF Now, Here
<1>2. Now \in World
  <2>1. /\ want \in [Users -> Wish] /\ share \in Share /\ pending \subseteq Users /\ link \in Link
        /\ queue \in Seq(Command) /\ later \subseteq Deferred /\ ctl \in Controller
        /\ evt \in [peer : Peer, ok : BOOLEAN] /\ said \in {"nothing", "ok", "failed"}
    BY DEF Init, Wish, Share, Link, Controller, Radio, Peer, NoEvent
  <2> QED BY <2>1 DEF Now, Here, World
<1>3. Len(Now.queue) = 0
  BY <1>1 DEF Init
<1> HIDE DEF Now
<1>4. Core(Now) /\ InLine(Now)
  BY <1>1, <1>2, <1>3 DEF Init, Core, Known, OneReconciliation, OneConnection, NothingToRestore, NoneAsked, NoneMade,
     InLine
<1> QED BY <1>4

\* A command that is refused or carried out.
LEMMA CommandInv ==
    ASSUME CalmInv, radio = "calm", NEW ok \in BOOLEAN, CommandAnswered(ok)
    PROVE  CalmInv'
<1> DEFINE c == Head(queue)
           x == [Here EXCEPT !.queue = Tail(@), !.ctl = IF ok THEN Done(c) ELSE @]
<1>1. /\ Core(Here) /\ Here.said = "nothing" /\ Here \in World /\ Here.want = want
      /\ Here.share = share /\ Here.pending = pending /\ Here.link = link
      /\ Here.queue = queue /\ Here.later = later /\ Here.ctl = ctl /\ Here.evt = evt
  BY HereFacts
<1>2. queue \in Seq(Command) /\ share \in Share /\ link \in Link /\ ctl \in Controller
  BY <1>1, WorldFacts
<1>3. queue # <<>> /\ Tail(queue) \in Seq(Command) /\ c \in Command /\ c = queue[1] /\ 1 \in 1..Len(queue)
  BY <1>2, Popped DEF CommandAnswered
<1>4. Issued(c) /\ (c.for = "start" => ~link.scanning)
  BY <1>1, <1>3 DEF Core, OneReconciliation
<1>5. Become(answered(x, c, ok))
  <2>1. c.op # "cancel"
    BY <1>4 DEF Issued
  <2>2. [Here EXCEPT !.queue = Tail(@), !.ctl = IF ok THEN Done(c) ELSE @,
                     !.evt = IF ok /\ c.op = "cancel" THEN [peer |-> ctl.init, ok |-> FALSE] ELSE @] = x
    BY <1>1, <2>1 DEF World
  <2> QED BY <2>2 DEF CommandAnswered
<1>6. (ok => Allowed(c)) /\ (~ok => ~Allowed(c))
  BY DEF CommandAnswered
<1>7. link.scanning <=> ctl.scan # "off"
  BY <1>1 DEF Core, Known
<1>8. Done(c) \in Controller
  <2>1. CASE c.op \in {"passive", "active"}
    BY <1>2, <2>1 DEF Done, Controller
  <2>2. CASE c.op = "enable"
    BY <1>2, <2>2 DEF Done, Controller, Radio
  <2>3. CASE c.op = "disable"
    BY <1>2, <2>3 DEF Done, Controller, Radio
  <2>4. CASE c.op = "create"
    BY <1>2, <1>3, <2>4 DEF Done, Controller, Command
  <2> QED BY <1>4, <2>1, <2>2, <2>3, <2>4 DEF Issued
<1>9. /\ x \in World /\ x.queue = Tail(queue) /\ x.ctl = (IF ok THEN Done(c) ELSE ctl) /\ x.link = link /\ x.share = share
      /\ x.later = later /\ x.evt = evt /\ x.said = "nothing" /\ x.want = want
  BY <1>1, <1>3, <1>8 DEF World
<1> HIDE DEF c, x
<1> USE <1>3
<1>10. CASE c.op \in {"passive", "active"} /\ ok
  <2> DEFINE z == [x EXCEPT !.queue = Append(@, [op |-> "enable", for |-> "start", peer |-> NoPeer])]
  <2>1. c.for = "start"
    BY <1>4, <1>10 DEF Issued
  <2>2. answered(x, c, ok) = z
    BY <1>10, <2>1 DEF answered, command
  <2>3. [op |-> "enable", for |-> "start", peer |-> NoPeer] \in Command
    BY DEF Command, Peer
  <2>4. /\ z \in World /\ z.queue = Append(Tail(queue), [op |-> "enable", for |-> "start", peer |-> NoPeer])
        /\ z.ctl = Done(c) /\ z.link = link /\ z.share = share /\ z.later = later /\ z.evt = evt /\ z.said = "nothing"
    BY <1>9, <1>10, <2>3, Appended DEF World
  <2>5. Done(c).scan = ctl.scan /\ Done(c).init = ctl.init /\ Done(c).how = c.op
    BY <1>2, <1>10 DEF Done, Controller
  <2> HIDE DEF z
  <2>6. Core(z)
    BY <1>1, <1>10, <2>4, <2>5, ParametersSet DEF c
  <2>7. z.share.reconciling
    BY <1>1, <2>1, <2>4 DEF Core, OneReconciliation, Reconciles
  <2>8. InLine(z)
    BY <2>4, <2>7 DEF InLine
  <2> QED BY <1>5, <2>2, <2>6, <2>8, BecomeFacts
<1>11. CASE c.for = "start" /\ ~ok
  <2> DEFINE s == [share EXCEPT !.reconciling = FALSE]
             y == [x EXCEPT !.share = s]
  <2>1. answered(x, c, ok) = settle(y, FALSE)
    <3>1. [x EXCEPT !.link.scanning = @ \/ ok] = x
      BY <1>2, <1>9, <1>11 DEF Link, World
    <3>2. answered(x, c, ok) = next(x, FALSE)
      BY <1>11, <3>1 DEF answered
    <3> QED BY <1>9, <3>2 DEF next
  <2>2. s \in Share /\ ~s.reconciling /\ s.connecting = share.connecting /\ s.state = share.state /\ s.active = share.active
    BY <1>2 DEF Share
  <2> HIDE DEF s
  <2>3. /\ y \in World /\ y.queue = Tail(queue) /\ y.link = link /\ y.ctl = ctl /\ y.evt = evt /\ y.later = later
        /\ y.share = s /\ y.said = "nothing"
    BY <1>9, <1>11, <2>2 DEF World
  <2> HIDE DEF y
  <2>4. Known(y)
    BY <1>1, <2>2, <2>3 DEF Core, Known
  <2>5. Core(y)
    BY <1>1, <1>11, <2>2, <2>3, <2>4, ShareAnswered DEF c, Reconciles
  <2>6. ctl.init # NoPeer
    BY <1>4, <1>6, <1>7, <1>11 DEF Allowed, Issued
  <2>7. link.peer # NoPeer
    BY <1>1, <2>6 DEF Core, OneConnection, NoneMade
  <2> QED BY <1>5, <2>1, <2>3, <2>5, <2>7, SettledFacts, BecomeFacts
<1>12. CASE c.op = "enable" /\ ok
  <2> DEFINE s == [share EXCEPT !.reconciling = FALSE]
             l == [link EXCEPT !.scanning = TRUE]
             y == [x EXCEPT !.link = l, !.share = s]
  <2>1. answered(x, c, ok) = pump(y)
    <3>1. c.for = "start"
      BY <1>4, <1>12 DEF Issued
    <3>2. answered(x, c, ok) = next([x EXCEPT !.link.scanning = TRUE], TRUE)
      BY <1>9, <1>12, <3>1 DEF answered
    <3>3. [[x EXCEPT !.link.scanning = TRUE] EXCEPT !.share.reconciling = FALSE] = y
      BY <1>9 DEF World
    <3> QED BY <3>2, <3>3 DEF next
  <2>2. s \in Share /\ ~s.reconciling /\ s.connecting = share.connecting /\ s.state = share.state /\ s.active = share.active
    BY <1>2 DEF Share
  <2>3. l \in Link /\ l.scanning /\ l.closed = link.closed /\ l.peer = link.peer /\ l.restore = link.restore
    BY <1>2 DEF Link
  <2> HIDE DEF s, l
  <2>4. /\ y \in World /\ y.queue = Tail(queue) /\ y.link = l /\ y.ctl = Done(c) /\ y.evt = evt /\ y.later = later
        /\ y.share = s /\ y.said = "nothing"
    BY <1>9, <1>12, <2>2, <2>3 DEF World
  <2> HIDE DEF y
  <2>5. Done(c).scan = ctl.how /\ Done(c).init = ctl.init /\ ctl.how \in {"passive", "active"}
    BY <1>2, <1>12 DEF Done, Controller, Radio
  <2>6. Known(y)
    <3>1. ctl.how = "active" <=> share.active
      BY <1>1, <1>12 DEF Core, OneReconciliation
    <3> QED BY <1>1, <2>2, <2>3, <2>4, <2>5, <3>1 DEF Core, Known
  <2>7. Core(y)
    <3>1. Reconciles(c)
      BY <1>4, <1>12 DEF Issued, Reconciles
    <3>2. Reconciles(Head(Here.queue)) /\ Head(Here.queue).op = "enable" /\ Here.queue # <<>>
      BY <1>1, <1>12, <3>1 DEF c
    <3>3. /\ y.queue = Tail(Here.queue) /\ y.later = Here.later /\ y.evt = Here.evt /\ y.ctl.init = Here.ctl.init
          /\ y.link.peer = Here.link.peer /\ y.link.restore = Here.link.restore
          /\ ~y.share.reconciling /\ y.share.connecting = Here.share.connecting
      BY <1>1, <2>2, <2>3, <2>4, <2>5
    <3> QED BY <1>1, <2>4, <2>6, <3>2, <3>3, ShareAnswered
  <2> QED BY <1>5, <2>1, <2>2, <2>4, <2>7, PumpFacts, BecomeFacts
<1>13. CASE c.op = "disable" /\ c.for = "stop"
  <2> DEFINE s == [share EXCEPT !.reconciling = FALSE]
             l == [link EXCEPT !.scanning = FALSE]
             y == [x EXCEPT !.link = l, !.share = s]
  <2>1. ok
    BY <1>6, <1>13 DEF Allowed
  <2>2. answered(x, c, ok) = pump(y)
    <3>1. answered(x, c, ok) = next([x EXCEPT !.link.scanning = FALSE], TRUE)
      BY <1>9, <1>13, <2>1 DEF answered
    <3>2. [[x EXCEPT !.link.scanning = FALSE] EXCEPT !.share.reconciling = FALSE] = y
      BY <1>9 DEF World
    <3> QED BY <3>1, <3>2 DEF next
  <2>3. s \in Share /\ ~s.reconciling /\ s.connecting = share.connecting /\ s.state = share.state
    BY <1>2 DEF Share
  <2>4. l \in Link /\ ~l.scanning /\ l.closed = link.closed /\ l.peer = link.peer /\ l.restore = link.restore
    BY <1>2 DEF Link
  <2> HIDE DEF s, l
  <2>5. /\ y \in World /\ y.queue = Tail(queue) /\ y.link = l /\ y.ctl = Done(c) /\ y.evt = evt /\ y.later = later
        /\ y.share = s /\ y.said = "nothing"
    BY <1>9, <2>1, <2>3, <2>4 DEF World
  <2> HIDE DEF y
  <2>6. Done(c).scan = "off" /\ Done(c).init = ctl.init
    BY <1>2, <1>13 DEF Done, Controller
  <2>7. Known(y)
    BY <1>1, <2>3, <2>4, <2>5, <2>6 DEF Core, Known
  <2>8. Core(y)
    <3>1. Reconciles(Head(Here.queue)) /\ Here.queue # <<>>
      BY <1>1, <1>13 DEF c, Reconciles
    <3>2. /\ y.queue = Tail(Here.queue) /\ y.later = Here.later /\ y.evt = Here.evt /\ y.ctl.init = Here.ctl.init
          /\ y.link.peer = Here.link.peer /\ y.link.restore = Here.link.restore
          /\ ~y.share.reconciling /\ y.share.connecting = Here.share.connecting /\ ~y.link.scanning
      BY <1>1, <2>3, <2>4, <2>5, <2>6
    <3> QED BY <1>1, <2>5, <2>7, <3>1, <3>2, ShareAnswered
  <2> QED BY <1>5, <2>2, <2>3, <2>5, <2>8, PumpFacts, BecomeFacts
<1>14. CASE c.op = "disable" /\ c.for = "connect"
  <2> DEFINE l == [link EXCEPT !.scanning = FALSE]
             w == [x EXCEPT !.link = l]
             z == [w EXCEPT !.queue = Append(@, [op |-> "create", for |-> "connect", peer |-> c.peer])]
  <2>1. ok
    BY <1>6, <1>14 DEF Allowed
  <2>2. l \in Link /\ ~l.scanning /\ l.closed = link.closed /\ l.peer = link.peer /\ l.restore = link.restore
    BY <1>2 DEF Link
  <2>3. answered(x, c, ok) = connect_stopped(w, TRUE, c.peer)
    BY <1>9, <1>14, <2>1 DEF answered, World
  <2> HIDE DEF l
  <2>4. /\ w \in World /\ w.queue = Tail(queue) /\ w.link = l /\ w.ctl = Done(c) /\ w.evt = evt /\ w.later = later
        /\ w.share = share /\ w.said = "nothing"
    BY <1>9, <2>1, <2>2 DEF World
  <2> HIDE DEF w
  <2>5. Done(c).scan = "off" /\ Done(c).init = ctl.init /\ Done(c).how = ctl.how
    BY <1>2, <1>14 DEF Done, Controller
  <2>6. Head(Here.queue) = c /\ Here.queue # <<>> /\ w.queue = Tail(Here.queue)
    BY <1>1, <2>4 DEF c
  <2>7. /\ OneReconciliation(w) /\ Unasked(w.queue)
        /\ link.peer # NoPeer /\ NoneMade(Here) /\ \A d \in later : d.what # "stopped"
        /\ \A i \in 1..Len(w.queue) : i + 1 \in 1..Len(queue) /\ w.queue[i] = queue[i + 1]
    <3>1. /\ Head(Here.queue).for = "connect" /\ w.share.reconciling = Here.share.reconciling
          /\ w.share.active = Here.share.active /\ w.ctl.how = Here.ctl.how /\ ~w.link.scanning
      BY <1>1, <1>14, <2>2, <2>4, <2>5, <2>6
    <3>2. HeadAnswered(Here, w)
      BY <1>1, <2>6, <3>1 DEF HeadAnswered
    <3> QED BY <1>1, <2>6, <3>2, ConnectionAnswered
  <2>8. link.restore => \A i \in 1..Len(w.queue) : w.queue[i].op # "enable"
    BY <1>1, <1>14, <2>7 DEF Core, NothingToRestore
  <2>9. Known(w) /\ NoneMade(w)
    BY <1>1, <2>2, <2>4, <2>5, <2>7 DEF Core, Known, NoneMade
  <2>10. connect_stopped(w, TRUE, c.peer) = z
    BY <2>2, <2>4, <2>7 DEF connect_stopped, command
  <2>11. c.peer \in Peer
    BY DEF Command
  <2>12. /\ z \in World /\ z.queue = Append(w.queue, [op |-> "create", for |-> "connect", peer |-> c.peer])
         /\ z.link = l /\ z.later = w.later /\ z.ctl = w.ctl /\ z.evt = w.evt /\ z.share = w.share /\ z.said = "nothing"
    <3>1. [op |-> "create", for |-> "connect", peer |-> c.peer] \in Command
      BY <2>11 DEF Command
    <3> QED BY <2>4, <3>1, Appended DEF World
  <2> HIDE DEF z
  <2>13. Core(z)
    BY <2>2, <2>4, <2>7, <2>8, <2>9, <2>11, <2>12, CreateAsked
  <2>14. InLine(z)
    BY <2>2, <2>7, <2>12 DEF InLine
  <2> QED BY <1>5, <2>3, <2>10, <2>13, <2>14, BecomeFacts
<1>15. CASE c.op = "create"
  <2>1. c.for = "connect" /\ Head(Here.queue) = c /\ Here.queue # <<>> /\ x.queue = Tail(Here.queue)
    BY <1>1, <1>4, <1>9, <1>15 DEF Issued, c
  <2>2. x.ctl.how = ctl.how /\ x.ctl.scan = ctl.scan
    BY <1>2, <1>9, <1>15 DEF Done, Controller
  <2>3. /\ OneReconciliation(x) /\ Unasked(x.queue)
        /\ link.peer # NoPeer /\ NoneMade(Here) /\ \A d \in later : d.what # "stopped"
    <3>1. HeadAnswered(Here, x)
      BY <1>1, <1>9, <2>1, <2>2 DEF HeadAnswered
    <3> QED BY <1>1, <3>1, ConnectionAnswered
  <2>4. Known(x)
    BY <1>1, <1>9, <2>2 DEF Core, Known
  <2>5. answered(x, c, ok) = created(x, ok)
    BY <1>15, <2>1 DEF answered
  <2>6. CASE ok
    <3> DEFINE l == [link EXCEPT !.timer = TRUE]
               z == [x EXCEPT !.link = l]
    <3>1. created(x, ok) = z
      BY <1>9, <2>3, <2>6 DEF created, World
    <3>2. l \in Link /\ l.scanning = link.scanning /\ l.closed = link.closed /\ l.peer = link.peer /\ l.restore = link.restore
      BY <1>2 DEF Link
    <3> HIDE DEF l
    <3>3. /\ z \in World /\ z.queue = x.queue /\ z.link = l /\ z.ctl = x.ctl /\ z.evt = evt /\ z.later = later
          /\ z.share = share /\ z.said = "nothing"
      BY <1>9, <3>2 DEF World
    <3> HIDE DEF z
    <3>4. Known(z) /\ OneReconciliation(z)
      BY <1>9, <2>3, <2>4, <3>2, <3>3 DEF Known, OneReconciliation
    <3>5. OneConnection(z)
      <4>1. /\ \A i \in 1..Len(z.queue) : z.queue[i].for # "connect"
            /\ \A d \in z.later : d.what # "stopped"
            /\ z.link.peer # NoPeer /\ z.evt = NoEvent
        BY <1>1, <2>3, <3>2, <3>3 DEF NoneMade, Unasked
      <4> QED BY <4>1 DEF OneConnection, NoneAsked
    <3>6. NothingToRestore(z)
      <4>1. \A i \in 1..Len(z.queue) : z.queue[i].op # "create" /\ z.queue[i].for # "connect"
        BY <2>3, <3>3, <3>4 DEF OneReconciliation, Issued, Unasked
      <4> QED BY <4>1 DEF NothingToRestore
    <3>7. Core(z) /\ InLine(z)
      BY <2>3, <3>2, <3>3, <3>4, <3>5, <3>6 DEF Core, InLine
    <3> QED BY <1>5, <2>5, <3>1, <3>7, BecomeFacts
  <2>7. CASE ~ok
    <3>1. ~link.restore
      <4>1. ctl.init = NoPeer
        BY <1>1, <2>3 DEF NoneMade
      <4>2. link.scanning
        BY <1>6, <1>7, <1>15, <2>7, <4>1 DEF Allowed
      <4> QED BY <1>1, <1>15, <4>2 DEF Core, NothingToRestore
    <3>2. created(x, ok) = finish_connect(x, FALSE)
      BY <1>9, <2>3, <2>7 DEF created
    <3>3. NoneMade(x)
      BY <1>1, <1>9, <2>3, <2>7 DEF NoneMade
    <3>4. Core(finish_connect(x, FALSE)) /\ InLine(finish_connect(x, FALSE))
      BY <1>9, <2>3, <2>4, <3>1, <3>3, FinishFacts
    <3> QED BY <1>5, <2>5, <3>2, <3>4, BecomeFacts
  <2> QED BY <2>6, <2>7
<1> QED BY <1>4, <1>10, <1>11, <1>12, <1>13, <1>14, <1>15 DEF Issued

\* A user asks the radio to scan, or to stop, or leaves.
LEMMA WantsInv ==
    ASSUME CalmInv, radio = "calm", NEW u \in Users, NEW how \in Wish, NEW p \in SUBSET Users,
           Become(reconcile([Here EXCEPT !.want[u] = how, !.pending = p]))
    PROVE  CalmInv'
<1> DEFINE w == [want EXCEPT ![u] = how]
           x == [Here EXCEPT !.want = w, !.pending = p]
<1>1. Core(Here) /\ Here.said = "nothing" /\ Here \in World /\ Here.want = want
  BY HereFacts
<1>2. w \in [Users -> Wish]
  BY <1>1, WorldFacts
<1>3. [Here EXCEPT !.want[u] = how, !.pending = p] = x
  BY <1>1 DEF World
<1> HIDE DEF w
<1>4. /\ x \in World /\ x.queue = Here.queue /\ x.link = Here.link /\ x.later = Here.later /\ x.ctl = Here.ctl
      /\ x.evt = Here.evt /\ x.share = Here.share /\ x.said = "nothing"
  BY <1>1, <1>2 DEF World
<1> HIDE DEF x
<1>5. Core(x)
  BY <1>1, <1>4, SameCore
<1> QED BY <1>3, <1>4, <1>5, ReconcileFacts, BecomeFacts

\* Somebody asks for a connection.
LEMMA ConnectInv ==
    ASSUME CalmInv, radio = "calm", NEW p \in Peers, connect(p)
    PROVE  CalmInv'
<1> DEFINE s == [share EXCEPT !.connecting = TRUE]
           x == [Here EXCEPT !.share = s]
           add == [what |-> "refused", peer |-> p]
           wait == [what |-> "stopped", peer |-> p]
           c == [op |-> "disable", for |-> "connect", peer |-> p]
<1>1. /\ Core(Here) /\ Here.said = "nothing" /\ Here \in World
      /\ Here.share = share /\ Here.link = link
      /\ Here.queue = queue /\ Here.later = later /\ Here.ctl = ctl /\ Here.evt = evt
  BY HereFacts
<1>2. share \in Share /\ link \in Link /\ queue \in Seq(Command) /\ later \subseteq Deferred
  BY <1>1, WorldFacts
<1>3. p # NoPeer /\ p \in Peer /\ add \in Deferred /\ wait \in Deferred /\ c \in Command
  BY HciShareAssumption DEF HciShareAssumption, Peer, Deferred, Command
<1>4. [Here EXCEPT !.share.connecting = TRUE] = x
  BY <1>1 DEF World
<1>5. s \in Share /\ s.connecting /\ s.reconciling = share.reconciling /\ s.active = share.active /\ s.state = share.state
  BY <1>2 DEF Share
<1> HIDE DEF s
<1>6. /\ x \in World /\ x.queue = queue /\ x.link = link /\ x.later = later /\ x.ctl = ctl
      /\ x.evt = evt /\ x.share = s /\ x.said = "nothing"
  BY <1>1, <1>5 DEF World
<1> HIDE DEF x
<1>7. ~link.closed
  BY <1>1 DEF Core, Known
<1>8. CASE link.peer # NoPeer
  <2> DEFINE z == [x EXCEPT !.later = @ \cup {add}]
  <2>1. Become(z)
    BY <1>4, <1>8 DEF connect, refuse
  <2>2. /\ z \in World /\ z.queue = queue /\ z.link = link /\ z.later = later \cup {add} /\ z.ctl = ctl
        /\ z.evt = evt /\ z.share = s /\ z.said = "nothing" /\ add.what = "refused"
    BY <1>2, <1>3, <1>6 DEF World
  <2> HIDE DEF z, add
  <2>3. Known(z) /\ OneReconciliation(z) /\ NothingToRestore(z)
    BY <1>1, <1>5, <2>2 DEF Core, Known, OneReconciliation, NothingToRestore
  <2>4. OneConnection(z)
    BY <1>1, <1>8, <2>2 DEF Core, OneConnection, NoneAsked, NoneMade
  <2> QED BY <1>5, <2>1, <2>2, <2>3, <2>4, BecomeFacts DEF Core, InLine
<1>9. CASE link.peer = NoPeer
  <2> DEFINE l == [link EXCEPT !.peer = p, !.restore = link.scanning]
             y == [x EXCEPT !.link = l]
  <2>1. Become(stop_scan(y, "connect", p))
    <3>1. [x EXCEPT !.link.peer = p, !.link.restore = link.scanning] = y
      BY <1>6 DEF World
    <3> QED BY <1>4, <1>7, <1>9, <3>1 DEF connect
  <2>2. /\ l \in Link /\ l.scanning = link.scanning /\ l.closed = link.closed /\ l.peer = p /\ l.peer # NoPeer
        /\ (l.restore <=> link.scanning)
    BY <1>2, <1>3 DEF Link
  <2> HIDE DEF l
  <2>3. /\ y \in World /\ y.queue = queue /\ y.link = l /\ y.later = later /\ y.ctl = ctl
        /\ y.evt = evt /\ y.share = s /\ y.said = "nothing"
    BY <1>6, <2>2 DEF World
  <2> HIDE DEF y
  <2>4. NoneAsked(Here) /\ NoneMade(Here)
    BY <1>1, <1>9 DEF Core, OneConnection
  <2>5. CASE link.scanning
    <3> DEFINE z == [y EXCEPT !.queue = Append(@, c)]
    <3>1. Become(z)
      BY <2>1, <2>2, <2>3, <2>5 DEF stop_scan, command
    <3>2. /\ z \in World /\ z.queue = Append(queue, c) /\ z.link = l /\ z.later = later /\ z.ctl = ctl
          /\ z.evt = evt /\ z.share = s /\ z.said = "nothing"
      BY <1>2, <1>3, <2>3, Appended DEF World
    <3>3. /\ Len(queue) \in Nat /\ Len(z.queue) = Len(queue) + 1
          /\ \A i \in 1..Len(queue) : z.queue[i] = queue[i]
          /\ z.queue[Len(queue) + 1] = c
      BY <1>2, <1>3, <3>2, Appended
    <3>4. c.op = "disable" /\ c.for = "connect" /\ Issued(c) /\ ~Reconciles(c)
      BY DEF Issued, Reconciles
    <3> HIDE DEF z, c
    <3>5. \A i \in 1..Len(z.queue) : i \in 1..Len(queue) \/ i = Len(queue) + 1
      BY <3>3
    <3>6. Known(z)
      BY <1>1, <1>5, <2>2, <3>2 DEF Core, Known
    <3>7. OneReconciliation(z)
      BY <1>1, <1>5, <2>2, <3>2, <3>3, <3>4, <3>5 DEF Core, OneReconciliation
    <3>8. OneConnection(z)
      <4>1. /\ \A i \in 1..Len(queue) : queue[i].for # "connect"
            /\ \A d \in z.later : d.what # "stopped"
            /\ NoneMade(z) /\ z.link.peer # NoPeer
        BY <1>1, <2>2, <2>4, <3>2 DEF NoneAsked, NoneMade
      <4>2. \A i \in 1..Len(z.queue) : z.queue[i].for = "connect" => i = Len(queue) + 1
        BY <3>3, <3>5, <4>1
      <4> QED BY <4>1, <4>2 DEF OneConnection, NoneMade
    <3>9. \A i \in 1..Len(queue) : queue[i].op # "enable" /\ queue[i].for # "start" /\ queue[i].op # "create"
      BY <1>1, <2>4, <2>5 DEF Core, OneReconciliation, Issued, NoneAsked
    <3>10. NothingToRestore(z)
      <4>1. \A i \in 1..Len(z.queue) : z.queue[i].op # "enable" /\ z.queue[i].for # "start" /\ z.queue[i].op # "create"
        BY <3>3, <3>4, <3>5, <3>9
      <4>2. \A i \in 1..Len(z.queue) : \A j \in 1..(i - 1) : j \in 1..Len(z.queue)
        BY <3>3
      <4> QED BY <4>1, <4>2 DEF NothingToRestore
    <3> QED BY <1>5, <3>1, <3>2, <3>6, <3>7, <3>8, <3>10, BecomeFacts DEF Core, InLine
  <2>6. CASE ~link.scanning
    <3> DEFINE z == [y EXCEPT !.later = @ \cup {wait}]
    <3>1. Become(z)
      BY <2>1, <2>2, <2>3, <2>6 DEF stop_scan
    <3>2. /\ z \in World /\ z.queue = queue /\ z.link = l /\ z.later = later \cup {wait} /\ z.ctl = ctl
          /\ z.evt = evt /\ z.share = s /\ z.said = "nothing" /\ wait.what = "stopped"
      BY <1>2, <1>3, <2>3 DEF World
    <3> HIDE DEF z, wait
    <3>3. Known(z) /\ OneReconciliation(z) /\ NothingToRestore(z)
      BY <1>1, <1>5, <2>2, <2>6, <3>2 DEF Core, Known, OneReconciliation, NothingToRestore
    <3>4. OneConnection(z)
      <4>1. /\ \A i \in 1..Len(z.queue) : z.queue[i].for # "connect"
            /\ \A d \in z.later : d.what = "stopped" => d = wait
            /\ z.link.peer # NoPeer /\ ~z.link.restore /\ NoneMade(z)
        BY <1>1, <2>2, <2>4, <2>6, <3>2 DEF NoneAsked, NoneMade
      <4> QED BY <4>1 DEF OneConnection, NoneMade
    <3> QED BY <1>5, <3>1, <3>2, <3>3, <3>4, BecomeFacts DEF Core, InLine
  <2> QED BY <2>5, <2>6
<1> QED BY <1>8, <1>9

\* What was deferred: the answer to a refused connect, or to the stop of a scan
\* that was off already.
LEMMA DeferredInv ==
    ASSUME CalmInv, radio = "calm", NEW d \in later, RunDeferred(d)
    PROVE  CalmInv'
<1> DEFINE left == later \ {d}
           x == [Here EXCEPT !.later = left]
<1>1. /\ Core(Here) /\ Here.said = "nothing" /\ Here \in World
      /\ Here.share = share /\ Here.link = link
      /\ Here.queue = queue /\ Here.later = later /\ Here.ctl = ctl /\ Here.evt = evt
  BY HereFacts
<1>2. /\ share \in Share /\ link \in Link /\ queue \in Seq(Command) /\ left \subseteq Deferred /\ d \in Deferred
      /\ d.what \in {"refused", "stopped"} /\ d.peer \in Peer
  BY <1>1, WorldFacts DEF Deferred
<1>3. [Here EXCEPT !.later = @ \ {d}] = x
  BY <1>1 DEF World
<1>4. /\ x \in World /\ x.queue = queue /\ x.link = link /\ x.later = left /\ x.ctl = ctl
      /\ x.evt = evt /\ x.share = share /\ x.said = "nothing"
  BY <1>1, <1>2 DEF World
<1>5. Become(IF d.what = "refused" THEN end_connect(x) ELSE connect_stopped(x, TRUE, d.peer))
  BY <1>3 DEF RunDeferred
<1> HIDE DEF x
<1>6. CASE d.what = "refused"
  <2> DEFINE s == [share EXCEPT !.connecting = FALSE, !.force = TRUE]
             z == [x EXCEPT !.share = s]
  <2>1. end_connect(x) = reconcile(z)
    BY <1>4 DEF end_connect, World
  <2>2. s \in Share /\ ~s.connecting /\ s.reconciling = share.reconciling /\ s.active = share.active /\ s.state = share.state
    BY <1>2 DEF Share
  <2> HIDE DEF s
  <2>3. /\ z \in World /\ z.queue = queue /\ z.link = link /\ z.later = left /\ z.ctl = ctl
        /\ z.evt = evt /\ z.share = s /\ z.said = "nothing"
    BY <1>4, <2>2 DEF World
  <2> HIDE DEF z
  <2>4. Known(z) /\ OneReconciliation(z) /\ NothingToRestore(z)
    BY <1>1, <2>2, <2>3 DEF Core, Known, OneReconciliation, NothingToRestore
  <2>5. OneConnection(z)
    BY <1>1, <2>2, <2>3 DEF Core, OneConnection, NoneAsked, NoneMade
  <2>6. Core(z)
    BY <2>3, <2>4, <2>5 DEF Core
  <2> QED BY <1>5, <1>6, <2>1, <2>3, <2>6, ReconcileFacts, BecomeFacts
<1>7. CASE d.what = "stopped"
  <2> DEFINE z == [x EXCEPT !.queue = Append(@, [op |-> "create", for |-> "connect", peer |-> d.peer])]
  <2>1. /\ link.peer # NoPeer /\ ~link.restore /\ Unasked(queue) /\ NoneMade(Here)
        /\ \A e \in left : e.what # "stopped"
    BY <1>1, <1>7 DEF Core, OneConnection, NoneAsked, Unasked
  <2>2. Become(z)
    BY <1>4, <1>5, <1>7, <2>1 DEF connect_stopped, command
  <2>3. /\ z \in World /\ z.queue = Append(queue, [op |-> "create", for |-> "connect", peer |-> d.peer])
        /\ z.link = link /\ z.later = left /\ z.ctl = ctl /\ z.evt = evt /\ z.share = share /\ z.said = "nothing"
    <3>1. [op |-> "create", for |-> "connect", peer |-> d.peer] \in Command
      BY <1>2 DEF Command
    <3> QED BY <1>2, <1>4, <3>1, Appended DEF World
  <2> HIDE DEF z
  <2>4. Known(x) /\ OneReconciliation(x) /\ NoneMade(x)
    BY <1>1, <1>4, <2>1 DEF Core, Known, OneReconciliation, NoneMade
  <2>5. Core(z)
    BY <1>2, <1>4, <2>1, <2>3, <2>4, CreateAsked
  <2> QED BY <2>1, <2>2, <2>3, <2>5, BecomeFacts DEF InLine
<1> QED BY <1>2, <1>6, <1>7

\* The peer answers, and the host hears of it.
LEMMA AnswerInv == ASSUME CalmInv, radio = "calm", PeerAnswers PROVE CalmInv'
<1> DEFINE t == [ctl EXCEPT !.init = NoPeer]
           e == [peer |-> ctl.init, ok |-> TRUE]
           z == [Here EXCEPT !.evt = e, !.ctl = t]
<1>1. /\ Core(Here) /\ Here.said = "nothing" /\ Here \in World
      /\ Here.share = share /\ Here.link = link
      /\ Here.queue = queue /\ Here.later = later /\ Here.ctl = ctl /\ Here.evt = evt
  BY HereFacts
<1>2. ctl \in Controller /\ ctl.init \in Peer
  BY <1>1, WorldFacts DEF Controller
<1>3. Become(z)
  <2>1. [Here EXCEPT !.evt = e, !.ctl.init = NoPeer] = z
    BY <1>1 DEF World
  <2> QED BY <2>1 DEF PeerAnswers
<1>4. t \in Controller /\ t.init = NoPeer /\ t.scan = ctl.scan /\ t.how = ctl.how
  BY <1>2 DEF Controller, Peer
<1>5. e \in [peer : Peer, ok : BOOLEAN] /\ e.ok
  BY <1>2
<1> HIDE DEF t, e
<1>6. /\ z \in World /\ z.queue = queue /\ z.link = link /\ z.later = later /\ z.ctl = t
      /\ z.evt = e /\ z.share = share /\ z.said = "nothing"
  BY <1>1, <1>4, <1>5 DEF World
<1> HIDE DEF z
<1>7. ctl.init # NoPeer
  BY DEF PeerAnswers
<1>8. NoneAsked(Here) /\ link.peer # NoPeer
  BY <1>1, <1>7 DEF Core, OneConnection, NoneMade
<1>9. Known(z) /\ OneReconciliation(z) /\ NothingToRestore(z)
  BY <1>1, <1>4, <1>6 DEF Core, Known, OneReconciliation, NothingToRestore
<1>10. OneConnection(z)
  BY <1>1, <1>4, <1>5, <1>6, <1>8 DEF Core, OneConnection, NoneAsked, NoneMade
<1> QED BY <1>3, <1>6, <1>8, <1>9, <1>10, BecomeFacts DEF Core, InLine

LEMMA CompleteInv == ASSUME CalmInv, radio = "calm", ConnectionComplete PROVE CalmInv'
<1> DEFINE x == [Here EXCEPT !.evt = NoEvent]
<1>1. /\ Core(Here) /\ Here.said = "nothing" /\ Here \in World
      /\ Here.share = share /\ Here.link = link
      /\ Here.queue = queue /\ Here.later = later /\ Here.ctl = ctl /\ Here.evt = evt
  BY HereFacts
<1>2. NoEvent \in [peer : Peer, ok : BOOLEAN]
  BY DEF NoEvent, Peer
<1>3. /\ x \in World /\ x.queue = queue /\ x.link = link /\ x.later = later /\ x.ctl = ctl
      /\ x.evt = NoEvent /\ x.share = share /\ x.said = "nothing"
  BY <1>1, <1>2 DEF World
<1>4. Become(finish_connect(x, evt.ok)) /\ evt # NoEvent
  BY DEF ConnectionComplete
<1> HIDE DEF x
<1>5. /\ evt.ok /\ evt.ok \in BOOLEAN /\ ctl.init = NoPeer /\ link.peer # NoPeer /\ NoneAsked(Here)
  BY <1>1, <1>4, WorldFacts DEF Core, OneConnection, NoneMade
<1>6. Known(x) /\ OneReconciliation(x) /\ NoneMade(x) /\ Unasked(x.queue) /\ \A d \in x.later : d.what # "stopped"
  BY <1>1, <1>3, <1>5 DEF Core, Known, OneReconciliation, NoneMade, NoneAsked, Unasked
<1>7. Core(finish_connect(x, evt.ok)) /\ InLine(finish_connect(x, evt.ok))
  BY <1>3, <1>5, <1>6, FinishFacts
<1> QED BY <1>4, <1>7, BecomeFacts

\* The controller has come up.
LEMMA ReadyInv == ASSUME CalmInv, radio = "calm", NEW ok \in BOOLEAN, on_ready(ok) PROVE CalmInv'
<1> DEFINE s == [share EXCEPT !.state = "ready"]
           x == [Here EXCEPT !.share = s]
<1>1. /\ Core(Here) /\ Here.said = "nothing" /\ Here \in World
      /\ Here.share = share /\ Here.link = link
      /\ Here.queue = queue /\ Here.later = later /\ Here.ctl = ctl /\ Here.evt = evt
  BY HereFacts
<1>2. share \in Share
  BY <1>1, WorldFacts
<1>3. ok
  BY DEF on_ready
<1>4. Become(pump(x))
  <2>1. [Here EXCEPT !.share.state = "ready"] = x
    BY <1>1 DEF World
  <2> QED BY <1>3, <2>1 DEF on_ready
<1>5. s \in Share /\ s.state = "ready" /\ s.connecting = share.connecting /\ s.reconciling = share.reconciling /\ s.active = share.active
  BY <1>2 DEF Share
<1> HIDE DEF s
<1>6. /\ x \in World /\ x.queue = queue /\ x.link = link /\ x.later = later /\ x.ctl = ctl
      /\ x.evt = evt /\ x.share = s /\ x.said = "nothing"
  BY <1>1, <1>5 DEF World
<1> HIDE DEF x
<1>7. Core(x)
  <2>1. Known(x) /\ OneReconciliation(x) /\ NothingToRestore(x)
    BY <1>1, <1>5, <1>6 DEF Core, Known, OneReconciliation, NothingToRestore
  <2>2. OneConnection(x)
    BY <1>1, <1>5, <1>6 DEF Core, OneConnection, NoneAsked, NoneMade
  <2> QED BY <1>6, <2>1, <2>2 DEF Core
<1>8. ~x.share.reconciling
  <2>1. ~share.reconciling
    BY <1>1 DEF Core, Known, on_ready
  <2> QED BY <1>5, <1>6, <2>1
<1> QED BY <1>4, <1>6, <1>7, <1>8, PumpFacts, BecomeFacts

\* No attempt goes unanswered unless commands do.
ShareInv == CalmInv /\ radio \in {"calm", "rough"}

LEMMA RadioStays == [Next]_vars => radio' = radio
<1>1. \A z : Become(z) => radio' = radio
  BY DEF Become
<1>2. CASE UNCHANGED vars
  BY <1>2 DEF vars
<1>3. CASE RadioStep
  BY <1>1, <1>3 DEF RadioStep, CommandAnswered, on_ready, RunDeferred, ConnectionComplete, PeerAnswers, ConnectTimeout, fail
<1>4. CASE UserStep
  BY <1>1, <1>4 DEF UserStep, AskScan, drop_user, connect
<1> QED BY <1>2, <1>3, <1>4 DEF Next

LEMMA StepInv == CalmInv /\ [Next]_vars => CalmInv'
<1> SUFFICES ASSUME CalmInv, [Next]_vars PROVE CalmInv'
  OBVIOUS
<1>1. CASE UNCHANGED vars
  BY <1>1 DEF vars, CalmInv, Now, Here, Core, InLine, World, Controller, Known, OneReconciliation, OneConnection,
     NothingToRestore, NoneAsked, NoneMade, Issued, Reconciles, Union
<1>2. CASE Next
  <2>1. radio' = radio
    BY RadioStays
  <2>2. CASE radio # "calm"
    BY <2>1, <2>2 DEF CalmInv
  <2>3. CASE radio = "calm"
    <3>1. ASSUME NEW ok \in BOOLEAN, CommandAnswered(ok) PROVE CalmInv'
      BY <2>3, <3>1, CommandInv
    <3>2. ASSUME NEW ok \in BOOLEAN, on_ready(ok) PROVE CalmInv'
      BY <2>3, <3>2, ReadyInv
    <3>3. ASSUME NEW d \in later, RunDeferred(d) PROVE CalmInv'
      BY <2>3, <3>3, DeferredInv
    <3>4. ASSUME ConnectionComplete PROVE CalmInv'
      BY <2>3, <3>4, CompleteInv
    <3>5. ASSUME PeerAnswers PROVE CalmInv'
      BY <2>3, <3>5, AnswerInv
    <3>6. ~ConnectTimeout /\ ~fail
      BY <2>3 DEF ConnectTimeout, fail
    <3>7. pending \subseteq Users /\ Here.pending = pending
      BY <2>3, HereFacts, WorldFacts
    <3>8. ASSUME NEW u \in Users, NEW how \in {"no", "passive", "active"}, AskScan(u, how) PROVE CalmInv'
      <4>1. Become(reconcile([Here EXCEPT !.want[u] = how, !.pending = pending \cup {u}]))
        BY <3>7, <3>8 DEF AskScan
      <4>2. pending \cup {u} \in SUBSET Users /\ how \in Wish
        BY <3>7 DEF Wish
      <4> QED BY <2>3, <4>1, <4>2, WantsInv, Zenon
    <3>9. ASSUME NEW u \in Users, drop_user(u) PROVE CalmInv'
      <4>1. [Here EXCEPT !.want[u] = "gone"] = [Here EXCEPT !.want[u] = "gone", !.pending = pending]
        BY <2>3, <3>7, HereFacts DEF World
      <4>2. Become(reconcile([Here EXCEPT !.want[u] = "gone", !.pending = pending]))
        BY <3>9, <4>1 DEF drop_user
      <4> QED BY <2>3, <3>7, <4>2, WantsInv DEF Wish
    <3>10. ASSUME NEW p \in Peers, connect(p) PROVE CalmInv'
      BY <2>3, <3>10, ConnectInv
    <3> QED BY <1>2, <2>3, <3>1, <3>2, <3>3, <3>4, <3>5, <3>6, <3>8, <3>9, <3>10 DEF Next, RadioStep, UserStep
  <2> QED BY <2>2, <2>3
<1> QED BY <1>1, <1>2

\* Whatever connections, refusals, deferred answers and changes of mind cross
\* the commands of any number of users, once nothing is under way, and whenever
\* a user is told yes, the controller does what the users ask for together
\* (SharedLink::pump, hcishare.h).  A late radio is one where it fails: there an
\* attempt is given up, and the scan it restores is not looked at again.
THEOREM RadioIsInLine == ASSUME "late" \notin Radios PROVE Spec => []RadioFollowsUsers
<1>1. Init => ShareInv
  BY HciShareAssumption, InitInv DEF ShareInv, Init, HciShareAssumption
<1>2. ShareInv /\ [Next]_vars => ShareInv'
  <2> SUFFICES ASSUME ShareInv, [Next]_vars PROVE ShareInv'
    OBVIOUS
  <2>1. radio' = radio
    BY RadioStays
  <2> QED BY <2>1, StepInv DEF ShareInv
<1>3. ShareInv => RadioFollowsUsers
  <2> SUFFICES ASSUME CalmInv, radio = "calm", Quiet \/ said = "ok" PROVE ctl.scan = Union(want)
    BY DEF RadioFollowsUsers, ShareInv
  <2>1. /\ Now.want = want /\ Now.share = share /\ Now.link = link
        /\ Now.queue = queue /\ Now.later = later /\ Now.ctl = ctl /\ Now.said = said
    BY DEF Now, Here
  <2>2. Core(Now) /\ InLine(Now)
    BY DEF CalmInv
  <2> HIDE DEF Now
  <2>3. CASE said = "ok"
    BY <2>1, <2>2, <2>3 DEF InLine
  <2>4. CASE Quiet
    <3>1. share.state = "ready" /\ link.peer = NoPeer /\ later = {} /\ Len(queue) = 0
      BY <2>4 DEF Quiet
    <3>2. ~share.reconciling /\ ~share.connecting
      BY <2>1, <2>2, <3>1 DEF Core, OneReconciliation, OneConnection
    <3> QED BY <2>1, <2>2, <3>1, <3>2 DEF InLine
  <2> QED BY <2>3, <2>4
<1> QED BY <1>1, <1>2, <1>3, PTL DEF Spec
=============================================================================
