------------------------------ MODULE BoxPeer ------------------------------
(***************************************************************************)
(* octomancerd's second radio: a dongle that runs the sync daemon, reached *)
(* down a cable or over Bluetooth (BoxPeer in src/octomancerd.cc, the link *)
(* in src/boxcdc.cc, the air in src/boxble_mac.mm), and what it said about *)
(* its room (DongleView in src/dongle.cc).                                 *)
(*                                                                         *)
(* pump() is one action: it takes in what arrived, drops what is gone,     *)
(* decides which link carries the conversation, asks, and looks for a      *)
(* port.  Times are abstracted to timers that are running or over: "over"  *)
(* holds those that have run out, in any order.                            *)
(***************************************************************************)
EXTENDS Integers, Sequences, FiniteSets, Functions

CONSTANTS
    Room,        \* the devices the dongle hears
    Strangers,   \* serial ports of other people's microcontrollers
    Uses,        \* the settings of --peer-bluetooth to look at
    MaxBoots,    \* how often the dongle starts
    MaxLinks,    \* how many links to the dongle are opened
    MaxDays      \* how many midnights pass

Cable == "cable"
Ports == Strangers \cup {Cable}
Way == {"usb", "air"}
Timer == {"greet", "retry", "shy", "airtry", "settle", "poll"}

ASSUME BoxPeerAssumption ==
    /\ IsFiniteSet(Room) /\ IsFiniteSet(Strangers) /\ Strangers \cap {Cable, "none", "air"} = {}
    /\ Uses \subseteq {"off", "auto", "both"}
    /\ MaxBoots \in Nat /\ MaxLinks \in Nat /\ MaxDays \in Nat \ {0}

VARIABLES
    p,       \* BoxPeer
    view,    \* DongleView
    over,    \* timers that have run out
    box,     \* the dongle: how it is plugged in, its boots, the date it has
    sending, \* way -> what the dongle has still to say
    inq,     \* way -> what has arrived and is not read yet
    written, \* other people's ports something was sent to
    today,
    links,   \* links opened so far
    use,     \* --peer-bluetooth
    strangers

vars == <<p, view, over, box, sending, inq, written, today, links, use, strangers>>
env == <<box, today, use, strangers>>

Row == [of : Room, link : 0..MaxLinks, answer : 0..1]
Message == [verb : {"hello", "end"}] \cup [verb : {"dev"}, row : Row]
hello == [verb |-> "hello"]

View == [attached : BOOLEAN, greeted : BOOLEAN, dated : 0..MaxDays, asked : BOOLEAN, batch : BOOLEAN,
         pending : Seq(Row), current : Seq(Row), answered : BOOLEAN]

Peer == [link : Ports \cup {"none"}, open : BOOLEAN, usb : BOOLEAN, gone : BOOLEAN, id : 0..MaxLinks,
         boot : 0..MaxBoots, air : {"none", "open", "ready", "gone", "closed"}, greeted : BOOLEAN,
         airid : 0..MaxLinks, carrying : Way \cup {"none"}, settled : BOOLEAN,
         shy : SUBSET Ports, looked : BOOLEAN]

NoView == [attached |-> FALSE, greeted |-> FALSE, dated |-> 0, asked |-> FALSE,
           batch |-> FALSE, pending |-> <<>>, current |-> <<>>, answered |-> FALSE]

TypeOK ==
    /\ p \in Peer
    /\ view \in View
    /\ over \subseteq Timer
    /\ box \in [at : {"mac", "charger"}, up : BOOLEAN, boots : 0..MaxBoots, date : 0..MaxDays, answer : 0..1]
    /\ sending \in [Way -> Seq(Message)] /\ inq \in [Way -> Seq(Message)]
    /\ written \subseteq Strangers
    /\ today \in 1..MaxDays /\ links \in 0..MaxLinks
    /\ use \in Uses /\ strangers \subseteq Strangers

Init ==
    /\ p = [link |-> "none", open |-> FALSE, usb |-> FALSE, gone |-> FALSE, id |-> 0, boot |-> 0,
            air |-> "none", greeted |-> FALSE, airid |-> 0,
            carrying |-> "none", settled |-> FALSE, shy |-> {}, looked |-> FALSE]
    /\ view = NoView
    /\ over = {"retry", "airtry"}
    /\ box = [at |-> "mac", up |-> FALSE, boots |-> 0, date |-> 0, answer |-> 0]
    /\ sending = [w \in Way |-> <<>>] /\ inq = [w \in Way |-> <<>>]
    /\ written = {}
    /\ today = 1
    /\ links = 0
    /\ use \in Uses
    /\ strangers \in SUBSET Strangers

-----------------------------------------------------------------------------
(* DongleView *)

\* Keeps a batch that had begun.
opened_Kept(v) == [v EXCEPT !.attached = TRUE, !.greeted = FALSE, !.asked = FALSE]

\* opened(): nothing the last dongle said is kept.
opened(v) == [NoView EXCEPT !.attached = TRUE, !.dated = v.dated]

\* The box is assumed to remember the date.
closed_Dated(v) == [v EXCEPT !.attached = FALSE, !.greeted = FALSE, !.batch = FALSE, !.pending = <<>>]

\* closed(): the last complete answer stays, and goes dim.
closed(v) == [v EXCEPT !.attached = FALSE, !.greeted = FALSE, !.dated = 0, !.batch = FALSE,
                       !.pending = <<>>]

\* Shows each row as it arrives.
observe_Early(v, m) ==
    CASE m.verb = "hello" -> [v EXCEPT !.greeted = TRUE]
      [] m.verb = "dev" -> [v EXCEPT !.current = Append(IF v.batch THEN @ ELSE <<>>, m.row), !.batch = TRUE]
      [] OTHER -> [v EXCEPT !.batch = FALSE, !.answered = TRUE]

\* observe(): an answer is shown when it is complete.  (`status` and `say` set
\* fields nothing here reads.)
observe(v, m) ==
    CASE m.verb = "hello" -> [v EXCEPT !.greeted = TRUE]
      [] m.verb = "dev" -> [v EXCEPT !.batch = TRUE, !.pending = Append(IF v.batch THEN @ ELSE <<>>, m.row)]
      [] OTHER -> [v EXCEPT !.current = v.pending, !.pending = <<>>, !.batch = FALSE, !.answered = TRUE]

\* One message after another.
Observed(v, said) ==
    LET after[n \in 0..Len(said)] == IF n = 0 THEN v ELSE observe(after[n - 1], said[n])
    IN  after[Len(said)]

wants_date(v) == v.attached /\ v.greeted /\ v.dated # today
wants_poll(v, t) == v.attached /\ v.greeted /\ (v.asked => "poll" \in t)

\* devices(): rows a reader may believe are of now.  (Those of a dongle that
\* stopped answering go dim as well.)
Live(v) == IF v.attached THEN Range(v.current) ELSE {}

-----------------------------------------------------------------------------
(* BoxPeer.  The operators work on the parts pump() changes.               *)

State == [p |-> p, v |-> view, over |-> over, inq |-> inq, sending |-> sending, written |-> written,
          links |-> links]

Becomes(s) ==
    /\ p' = s.p /\ view' = s.v /\ over' = s.over /\ inq' = s.inq /\ sending' = s.sending
    /\ written' = s.written /\ links' = s.links

\* BoxLink::close() and the handler attach() gave it: the view is closed and
\* the link is left for the next pump() to clear.
close_usb(s) ==
    IF ~s.p.open THEN s
    ELSE [s EXCEPT !.p.open = FALSE, !.p.gone = TRUE, !.v = closed(@), !.inq["usb"] = <<>>, !.sending["usb"] = <<>>]

\* on_readable(): what arrived is delivered before the break is acted on.
\* Only the carrier's messages reach the view.
Deliver(s, w) ==
    LET greets == \E i \in DOMAIN s.inq[w] : s.inq[w][i] = hello
        v == IF s.p.carrying = w THEN Observed(s.v, s.inq[w]) ELSE s.v
    IN  [s EXCEPT !.v = v,
                  !.inq[w] = <<>>,
                  !.p.usb = @ \/ (w = "usb" /\ greets),
                  !.p.greeted = @ \/ (w = "air" /\ greets)]

\* The port of a dongle that has gone stays broken.
PortBroken == p.link = Cable /\ ~(box.up /\ box.at = "mac" /\ box.boots = p.boot)

ReadUsb(s) ==
    IF ~s.p.open THEN s
    ELSE IF PortBroken THEN close_usb(Deliver(s, "usb")) ELSE Deliver(s, "usb")

ReadAir(s) ==
    IF s.p.air = "none" THEN s
    ELSE IF s.p.air = "gone" THEN [Deliver(s, "air") EXCEPT !.p.air = "closed"] ELSE Deliver(s, "air")

\* drop(): letting a link go closes it, with all that closing does.
drop(s) ==
    LET t == close_usb(s)
        v == IF t.p.carrying = "usb" THEN closed(t.v) ELSE t.v
    IN  [t EXCEPT !.p.link = "none", !.p.usb = FALSE, !.p.gone = FALSE, !.v = v]

DropGone(s) == IF s.p.gone THEN drop(s) ELSE s

LetAirGo(s) == [s EXCEPT !.p.air = "none", !.p.greeted = FALSE, !.inq["air"] = <<>>, !.sending["air"] = <<>>]
DropAir(s) == IF s.p.air = "closed" THEN [LetAirGo(s) EXCEPT !.over = @ \ {"airtry"}] ELSE s

\* tend_radio(): the cable is given first refusal, then there is a radio link
\* when there is no cable, or always in the debug setting.
UsbReady(s) == s.p.link # "none" /\ s.p.usb
Settled(s) == s.p.settled \/ s.p.usb \/ "settle" \in over
Want(s) == use = "both" \/ ~UsbReady(s)

tend_radio(s) ==
    IF use = "off" \/ ~Settled(s) THEN s
    ELSE LET t == [s EXCEPT !.p.settled = TRUE]
         IN  IF ~Want(t) THEN (IF t.p.air # "none" THEN LetAirGo(t) ELSE t)
             ELSE IF t.p.air # "none" \/ "airtry" \notin t.over \/ t.links = MaxLinks THEN t
             ELSE [t EXCEPT !.over = @ \ {"airtry"}, !.links = @ + 1, !.p.airid = t.links + 1,
                            !.p.air = "open", !.p.greeted = FALSE]

\* A port that never greets is somebody else's, and is left alone.
DropShy(s) ==
    IF s.p.link # "none" /\ ~s.p.usb /\ "greet" \in over
    THEN drop([s EXCEPT !.p.shy = @ \cup {s.p.link}, !.p.looked = FALSE, !.over = @ \ {"shy"}]) ELSE s

\* carrier(), and the handover when it changes.
carrier(s) ==
    IF UsbReady(s) THEN "usb" ELSE IF s.p.air = "ready" /\ s.p.greeted THEN "air" ELSE "none"

HandOver(s) ==
    LET now == carrier(s)
        v == closed(s.v)
    IN  IF now = s.p.carrying THEN s
        ELSE [s EXCEPT !.p.carrying = now,
                       !.v = IF now = "none" THEN v ELSE observe(opened(v), hello)]

\* What a request makes the dongle say, in the order it keeps its devices
\* (SyncDaemon::handle, src/syncd.cc).
Heads == Cardinality(Room)
order == CHOOSE f \in Bijection(1..Heads, Room) : TRUE
RowOf(id, answer, i) == [of |-> order[i], link |-> id, answer |-> answer]
Said(id, answer, i) == IF i > Heads THEN [verb |-> "end"] ELSE [verb |-> "dev", row |-> RowOf(id, answer, i)]
Answer(id) == [i \in 1..(Heads + 1) |-> Said(id, box.answer, i)]

Voice(s) == IF s.p.carrying = "usb" THEN {s.p.link} ELSE {"air"}

\* send(): a write to the cable that fails closes the link; the air takes
\* whatever it is given.
Spoke(s, ok) == IF ok THEN [s EXCEPT !.written = @ \cup (Voice(s) \cap Strangers)] ELSE close_usb(s)

\* The dongle is told the date first, then asked what it hears.
TellDate(s, ok) ==
    IF s.p.carrying = "none" \/ ~wants_date(s.v) THEN s
    ELSE LET t == Spoke(s, ok) IN IF ok THEN [t EXCEPT !.v.dated = today] ELSE t

Poll(s, ok) ==
    IF s.p.carrying = "none" \/ ~wants_poll(s.v, s.over) THEN s
    ELSE LET t == Spoke(s, ok)
             w == s.p.carrying
         IN  IF ~ok THEN t
             ELSE [t EXCEPT !.v.asked = TRUE, !.over = @ \ {"poll"},
                            !.sending[w] = IF s.p.air = "gone" /\ w = "air" THEN @
                                           ELSE @ \o Answer(IF w = "usb" THEN s.p.id ELSE s.p.airid)]

\* attach(): the first port that is not shy and opens.  The dongle greets
\* whoever raises DTR.
Candidates(s) == {q \in strangers \cup (IF box.up /\ box.at = "mac" /\ s.links < MaxLinks THEN {Cable} ELSE {}) : q \notin s.p.shy}

attach(s, port) ==
    [s EXCEPT !.p = [@ EXCEPT !.link = port, !.open = TRUE, !.usb = FALSE, !.boot = box.boots,
                              !.id = IF port = Cable THEN s.links + 1 ELSE 0],
              !.links = IF port = Cable THEN @ + 1 ELSE @,
              !.over = @ \ {"greet"},
              !.inq["usb"] = <<>>,
              !.sending["usb"] = IF port = Cable THEN <<hello>> ELSE <<>>]

\* Looking for a port, when it is time to and there is no link.
Look(s) ==
    IF s.p.link # "none" \/ "retry" \notin s.over THEN {s}
    ELSE LET t == [s EXCEPT !.over = @ \ {"retry"}, !.p.looked = TRUE]
         IN  IF Candidates(s) = {} THEN {t} ELSE {attach(t, port) : port \in Candidates(s)}

\* pump(), in the order it does things.  A write may fail while the cable is
\* coming out (bounded by MaxLinks).
pump ==
    /\ \E heard \in {ReadAir(ReadUsb(State))} :
       \E tended \in {tend_radio(DropAir(DropGone(heard)))} :
       \E s \in {HandOver(DropShy(tended))} :
       \E ok1, ok2 \in IF s.p.carrying = "usb" /\ links < MaxLinks THEN BOOLEAN ELSE {TRUE} :
       \E t \in {TellDate(s, ok1)} :
       \E u \in {Poll(t, ok2)} :
          /\ \E done \in Look(u) : Becomes(done)
          /\ box' = [box EXCEPT !.date = IF box.up /\ t.v.dated # s.v.dated THEN today ELSE @,
                                !.answer = IF u.sending # t.sending THEN 1 - @ ELSE @]
    /\ UNCHANGED <<today, use, strangers>>

-----------------------------------------------------------------------------
(* The world *)

\* A timer that is running.  A port is shy for long enough (kShyFor) that the
\* others are looked for first (kRetryEvery).  Two bounds: a dongle that is
\* there greets in time (kGreetWithin), and a poll comes due after the last
\* answer is in (kPollEvery).
Running(t) ==
    CASE t = "greet" -> p.link # "none" /\ ~p.usb /\ sending["usb"] = <<>> /\ inq["usb"] = <<>>
      [] t = "retry" -> p.link = "none"
      [] t = "shy" -> p.shy # {} /\ p.looked
      [] t = "airtry" -> use # "off" /\ p.air = "none"
      [] t = "settle" -> use # "off" /\ ~p.settled
      [] OTHER -> view.asked /\ \A w \in Way : sending[w] = <<>> /\ inq[w] = <<>>

Elapse(t) ==
    /\ t \notin over /\ Running(t)
    /\ over' = over \cup {t}
    /\ p' = IF t = "shy" THEN [p EXCEPT !.shy = {}] ELSE p
    /\ UNCHANGED <<view, sending, inq, written, links>> /\ UNCHANGED env

\* A message arrives.
Arrive(w) ==
    /\ sending[w] # <<>>
    /\ sending' = [sending EXCEPT ![w] = Tail(@)]
    /\ inq' = [inq EXCEPT ![w] = Append(@, Head(sending[w]))]
    /\ UNCHANGED <<p, view, over, written, links>> /\ UNCHANGED env

\* didConnect ... didUpdateNotificationState: connected and subscribed, on the
\* radio's own queue; the dongle greets whoever subscribes.
AirUp ==
    /\ p.air = "open" /\ box.up
    /\ p' = [p EXCEPT !.air = "ready"]
    /\ sending' = [sending EXCEPT !["air"] = <<hello>>]
    /\ UNCHANGED <<view, over, inq, written, links>> /\ UNCHANGED env

\* giveUp(): the connection failed or ended.  (Bounded by MaxLinks.)
AirLost ==
    /\ p.air \in {"open", "ready"} /\ box.up /\ links < MaxLinks
    /\ p' = [p EXCEPT !.air = "gone"]
    /\ sending' = [sending EXCEPT !["air"] = <<>>]
    /\ UNCHANGED <<view, over, inq, written, links>> /\ UNCHANGED env

\* It is plugged in, and knows nothing; or it is unplugged, and says no more.
BoxStarts ==
    /\ ~box.up /\ box.boots < MaxBoots
    /\ \E at \in {"mac", "charger"} :
          box' = [box EXCEPT !.up = TRUE, !.boots = @ + 1, !.at = at, !.date = 0]
    /\ UNCHANGED <<p, view, over, sending, inq, written, today, links, use, strangers>>

BoxStops ==
    /\ box.up /\ box.boots < MaxBoots
    /\ box' = [box EXCEPT !.up = FALSE]
    /\ sending' = [w \in Way |-> <<>>]
    /\ p' = IF p.air = "ready" THEN [p EXCEPT !.air = "gone"] ELSE p
    /\ UNCHANGED <<view, over, inq, written, today, links, use, strangers>>

Midnight ==
    /\ today < MaxDays
    /\ today' = today + 1
    /\ UNCHANGED <<p, view, over, box, sending, inq, written, links, use, strangers>>

Next ==
    \/ pump
    \/ \E t \in Timer : Elapse(t)
    \/ \E w \in Way : Arrive(w)
    \/ AirUp \/ AirLost
    \/ BoxStarts \/ BoxStops \/ Midnight

\* The main loop turns, timers run out, and a dongle that is there answers.
Fairness ==
    /\ WF_vars(pump)
    /\ \A t \in Timer : WF_vars(Elapse(t))
    /\ \A w \in Way : WF_vars(Arrive(w))
    /\ WF_vars(AirUp)
    /\ WF_vars(BoxStarts)

Spec == Init /\ [][Next]_vars /\ Fairness

-----------------------------------------------------------------------------
(* Properties *)

\* What an attached dongle's page shows is one complete answer, never parts of
\* two or of two links' (octomancerd.cc: "a room that never existed").
WholeAnswers ==
    LET rows == view.current
    IN  view.attached /\ rows # <<>> =>
            /\ {rows[i].of : i \in DOMAIN rows} = Room /\ Len(rows) = Cardinality(Room)
            /\ \A i, j \in DOMAIN rows : rows[i].link = rows[j].link /\ rows[i].answer = rows[j].answer

\* What is live was heard over the link that is speaking now, and nothing is
\* written to a port that did not introduce itself: another program's device
\* is neither believed nor disturbed (octomancerd.cc, pump and attach).
OnlyTheDongle ==
    /\ \A r \in Live(view) :
          (p.carrying = "usb" => r.link = p.id) /\ (p.carrying = "air" => r.link = p.airid)
    /\ written = {}

\* Once nothing more is unplugged, the dongle that is there ends up carried,
\* and over a cable heard and told today's date.
TheBoxIsHeard ==
    <>[]((box.up /\ links < MaxLinks /\ (box.at = "mac" \/ use # "off")) =>
            /\ p.carrying # "none"
            /\ p.carrying = "usb" => view.attached /\ view.answered /\ box.date = today)

=============================================================================
