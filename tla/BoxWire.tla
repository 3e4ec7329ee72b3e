------------------------------- MODULE BoxWire -------------------------------
(***************************************************************************)
(* The dongle's two ways of being talked to: the serial port of its cable  *)
(* (firmware/src/cdcpeer.cc), whose DTR line is polled, and a Bluetooth    *)
(* peripheral (blepeer.cc), whose callbacks come from another thread.      *)
(* Either is a peer of the daemon (src/syncd.cc), which greets it, answers *)
(* its lines and remembers whether it wants announcements.  The two meet   *)
(* only in the daemon's lists, each under its own pointer, so one of them  *)
(* is looked at.                                                           *)
(*                                                                         *)
(* A line is two pieces, the second with the newline.  A host speaks once  *)
(* it was greeted, and keeps the port shut for longer than the box takes   *)
(* to notice: BoxPeer waits kRetryEvery, the box polls ten times a second. *)
(* Unless Hasty, it reads its answers before it leaves.                    *)
(***************************************************************************)
EXTENDS Integers, Sequences

CONSTANTS
    MaxSessions,   \* a bound: hosts, one after the other
    MaxLines,      \* a bound: lines a host sends
    RxRoom,        \* pieces the receive ring holds
    TxRoom,        \* pieces the cable's transmit ring holds
    Hasty          \* whether a host may leave without reading what it asked for

ASSUME BoxWireAssumption == RxRoom \in Nat /\ TxRoom \in Nat \ {0, 1} /\ Hasty \in BOOLEAN

VARIABLES
    kind,                    \* "usb" or "air"
    session, there,          \* which host is at the other end, and whether it still is
    subscribed,              \* notify_on_
    wrote,                   \* pieces this session has written
    hush,                    \* whether this session asked for no announcements
    rx,                      \* the receive ring
    clipped,                 \* sessions of which the ring dropped a piece
    attached,                \* attached_
    reader,                  \* LineReader::buf_
    tx,                      \* the cable's transmit ring
    read,                    \* what this session has read: the first piece, a line begun, a line torn
    advertising,
    turn,                    \* the air's drain(): "idle", or "feed" after settle()
    opened, quiet,           \* SyncDaemon: times the peer is in peers_, whether it is in quiet_
    acted                    \* the last line the daemon was given

wireVars == <<kind, session, there, subscribed, wrote, hush, rx, clipped, attached, reader, tx, read,
              advertising, turn, opened, quiet, acted>>

Nothing == [first |-> "none", begun |-> FALSE, torn |-> FALSE]

WireInit ==
    /\ kind \in {"usb", "air"}
    /\ session = 0 /\ there = FALSE /\ subscribed = FALSE
    /\ wrote = 0 /\ hush = FALSE
    /\ rx = <<>> /\ clipped = {}
    /\ attached = FALSE
    /\ reader = <<>> /\ tx = <<>>
    /\ read = Nothing
    /\ advertising = TRUE /\ turn = "idle"
    /\ opened = 0 /\ quiet = FALSE
    /\ acted = <<>>

-----------------------------------------------------------------------------
(* Hosts *)

\* octo_connected(): the controller stops advertising.
Attach ==
    /\ ~there /\ session < MaxSessions
    /\ IF kind = "usb" THEN ~attached ELSE advertising
    /\ session' = session + 1 /\ there' = TRUE
    /\ wrote' = 0 /\ hush' = FALSE /\ read' = Nothing
    /\ advertising' = FALSE
    /\ UNCHANGED <<kind, subscribed, rx, clipped, attached, reader, tx, turn, opened, quiet, acted>>

\* octo_nus_ccc()
Subscribe ==
    /\ kind = "air" /\ there /\ ~subscribed
    /\ subscribed' = TRUE
    /\ UNCHANGED <<kind, session, there, wrote, hush, rx, clipped, attached, reader, tx, read,
                   advertising, turn, opened, quiet, acted>>

\* DTR falls, or octo_disconnected().
Leave ==
    /\ there
    /\ Hasty \/ \A i \in DOMAIN rx : rx[i].half = 0
    /\ there' = FALSE /\ subscribed' = FALSE
    /\ tx' = IF Hasty THEN tx ELSE <<>>
    /\ UNCHANGED <<kind, session, wrote, hush, rx, clipped, attached, reader, read,
                   advertising, turn, opened, quiet, acted>>

\* The next piece: of a question, or of a request for silence.
Piece(v) == [who |-> session, line |-> wrote \div 2, half |-> wrote % 2, verb |-> v]

\* The receive interrupt, or on_written(): what the ring has no room for is lost.
Write(v) ==
    /\ there /\ read.first = "hello" /\ wrote < 2 * MaxLines
    /\ wrote' = wrote + 1
    /\ hush' = (hush \/ (v = "announce" /\ wrote % 2 = 1))
    /\ rx' = IF Len(rx) < RxRoom THEN Append(rx, Piece(v)) ELSE rx
    /\ clipped' = IF Len(rx) < RxRoom THEN clipped ELSE clipped \cup {session}
    /\ UNCHANGED <<kind, session, there, subscribed, attached, reader, tx, read,
                   advertising, turn, opened, quiet, acted>>

-----------------------------------------------------------------------------
(* Sending *)

Line(of) == <<[of |-> of, half |-> 0], [of |-> of, half |-> 1]>>

\* What a host makes of a piece it reads.
Took(r, p) == [first |-> IF r.first = "none" THEN p.of ELSE r.first,
               begun |-> p.half = 0,
               torn |-> r.torn \/ (r.begun # (p.half = 1))]

\* CdcPeer::send() takes a line that does not fit as far as it goes.
Ringed_Partly(t, line) == t \o SubSeq(line, 1, IF TxRoom - Len(t) < 2 THEN TxRoom - Len(t) ELSE 2)

\* A line goes into the ring whole or not at all.
Ringed(t, line) == IF TxRoom - Len(t) < Len(line) THEN t ELSE t \o line

\* CdcPeer::send(), BlePeer::send(), for every one of the lines; t is what
\* the ring holds before, r what the host has read.
SentTx(t, lines) ==
    LET ring[n \in 0..Len(lines)] == IF n = 0 THEN t ELSE Ringed(ring[n - 1], lines[n])
    IN  IF kind = "usb" /\ (there \/ Hasty) THEN ring[Len(lines)] ELSE t

SentAir(r, lines) ==
    LET heard[n \in 0..Len(lines)] ==
            IF n = 0 THEN r ELSE Took(Took(heard[n - 1], lines[n][1]), lines[n][2])
    IN  IF kind = "air" /\ there /\ subscribed THEN heard[Len(lines)] ELSE r

-----------------------------------------------------------------------------
(* Receiving *)

\* LineReader::reset()
NewReader == <<>>

\* LineReader::feed(): the lines that are complete now, and what is left.
Fed(s, p) ==
    IF p.half = 1 THEN [lines |-> Append(s.lines, Append(s.buf, p)), buf |-> <<>>]
    ELSE [lines |-> s.lines, buf |-> Append(s.buf, p)]

feed(buf, pieces) ==
    LET got[n \in 0..Len(pieces)] ==
            IF n = 0 THEN [lines |-> <<>>, buf |-> buf] ELSE Fed(got[n - 1], pieces[n])
    IN  got[Len(pieces)]

\* A line a host really sent.
Whole(line) ==
    /\ Len(line) = 2
    /\ line[1].who = line[2].who /\ line[1].line = line[2].line /\ line[1].half = 0

\* SyncDaemon::peer_line() for each line: every one is answered, one that
\* makes no sense too; a request for silence is remembered.
Handle(lines, t, r) ==
    LET answers == [i \in DOMAIN lines |-> Line("ok")]
        silence == \E i \in DOMAIN lines : Whole(lines[i]) /\ lines[i][2].verb = "announce"
    IN  /\ quiet' = (quiet \/ silence)
        /\ tx' = IF attached THEN SentTx(t, answers) ELSE t
        /\ read' = IF attached THEN SentAir(r, answers) ELSE r
        /\ acted' = IF lines = <<>> THEN acted
                    ELSE IF \E i \in DOMAIN lines : ~Whole(lines[i])
                    THEN lines[CHOOSE i \in DOMAIN lines : ~Whole(lines[i])] ELSE lines[1]

\* SyncDaemon::peer_opened(), after the link was made ready.
peer_opened(t) ==
    /\ opened' = opened + 1
    /\ tx' = SentTx(t, <<Line("hello")>>)
    /\ read' = SentAir(read, <<Line("hello")>>)
    /\ UNCHANGED quiet

peer_closed ==
    /\ opened' = opened - 1 /\ quiet' = FALSE
    /\ UNCHANGED <<tx, read>>

-----------------------------------------------------------------------------
(* The cable *)

\* poll_control().  What the last host sent has been read by then: the loop
\* serves a source that is ready on every turn, and turns are shorter than this.
poll_control ==
    /\ kind = "usb" /\ there # attached
    /\ there => rx = <<>>
    /\ attached' = there
    /\ IF there THEN reader' = NewReader /\ peer_opened(<<>>)
       ELSE peer_closed /\ UNCHANGED reader
    /\ UNCHANGED <<kind, session, there, subscribed, wrote, hush, rx, clipped, advertising, turn, acted>>

drain_usb ==
    /\ kind = "usb" /\ rx # <<>>
    /\ LET got == feed(reader, rx)
       IN  reader' = got.buf /\ Handle(got.lines, tx, read)
    /\ rx' = <<>>
    /\ UNCHANGED <<kind, session, there, subscribed, wrote, hush, clipped, attached, advertising, turn, opened>>

\* The transmit half of isr().
Transmit ==
    /\ tx # <<>> /\ there
    /\ read' = Took(read, Head(tx))
    /\ tx' = Tail(tx)
    /\ UNCHANGED <<kind, session, there, subscribed, wrote, hush, rx, clipped, attached, reader,
                   advertising, turn, opened, quiet, acted>>

-----------------------------------------------------------------------------
(* The air *)

\* One that cannot be talked to yet is not.
CanTalk == there /\ subscribed

\* settle(), the first half of drain().
settle ==
    /\ kind = "air" /\ turn = "idle"
    /\ CanTalk # attached \/ rx # <<>> \/ (~there /\ ~advertising)
    /\ attached' = CanTalk
    /\ IF CanTalk = attached THEN UNCHANGED <<reader, opened, quiet, tx, read>>
       ELSE IF CanTalk THEN reader' = NewReader /\ peer_opened(tx)
       ELSE peer_closed /\ UNCHANGED reader
    /\ advertising' = (advertising \/ ~there)
    /\ turn' = "feed"
    /\ UNCHANGED <<kind, session, there, subscribed, wrote, hush, rx, clipped, acted>>

drain_air ==
    /\ turn = "feed"
    /\ LET got == feed(reader, rx)
       IN  reader' = got.buf /\ Handle(got.lines, tx, read)
    /\ rx' = <<>> /\ turn' = "idle"
    /\ UNCHANGED <<kind, session, there, subscribed, wrote, hush, clipped, attached, advertising, opened>>

-----------------------------------------------------------------------------
\* announce(): to every peer that has not asked for silence.
Announce ==
    /\ opened > 0 /\ ~quiet
    /\ tx' = SentTx(tx, <<Line("device")>>)
    /\ read' = SentAir(read, <<Line("device")>>)
    /\ UNCHANGED <<kind, session, there, subscribed, wrote, hush, rx, clipped, attached, reader,
                   advertising, turn, opened, quiet, acted>>

WireNext ==
    \/ Attach \/ Subscribe \/ Leave
    \/ \E v \in {"ping", "announce"} : Write(v)
    \/ poll_control \/ drain_usb \/ Transmit
    \/ settle \/ drain_air
    \/ Announce

\* BlePeer::drain(), in its two halves.
ServeAir == settle \/ drain_air

-----------------------------------------------------------------------------
(* Properties *)

\* A line the daemon acts on is one that a host sent, whole: nobody's half a
\* line is completed by the next host, unless the ring was too small for it.
WholeCommands == acted # <<>> => Whole(acted) \/ \E i \in DOMAIN acted : acted[i].who \in clipped

\* A host is greeted first, and reads whole lines from there on, whatever the
\* one before it left unread.
WholeReplies == read.first \in {"none", "hello"} /\ ~read.torn

\* The daemon has a link in its list once while it is attached and not
\* otherwise, and nobody is kept in the dark who did not ask for it.
QuietIsPersonal == opened = (IF attached THEN 1 ELSE 0) /\ (attached /\ there /\ quiet => hush)

\* A host that stays is greeted.
HostsAreGreeted == (there /\ (kind = "air" => subscribed)) ~> (~there \/ read.first = "hello")

\* Each host has a conversation of its own: whole lines both ways, a greeting
\* first, and its own wish for silence.
ConversationsAreSeparate == [](WholeCommands /\ WholeReplies /\ QuietIsPersonal) /\ HostsAreGreeted
=============================================================================
