----------------------------- MODULE DeviceView -----------------------------
(***************************************************************************)
(* The page of devices (src/src/devices.cc), which the terminal, the       *)
(* status command and the application build from two photographs and a     *)
(* file: octomancerd's snapshot, octomancer-sync's status and the          *)
(* configuration, each fetched on its own and each possibly missing.  The  *)
(* two daemons keep moving while the page holds what they said, and the    *)
(* page is drawn again from it at any moment.                              *)
(* Wall clock times start at 1: 0 is a stamp nobody gave.  Every id is one *)
(* a radio reported, never empty.  The order of the rows and the columns   *)
(* that are only printed are left out.                                     *)
(***************************************************************************)
EXTENDS Integers, FiniteSets

CONSTANTS
    Scenes,       \* rooms: whether octomancerd runs, what each radio hears of the
                  \* boxes, the cameras, those cycles are asked for, whether one may
                  \* read nothing, and the configurations: what is switched off,
                  \* warned of and listed
    Clocks,       \* what a box's clock may be ahead by
    DongleBase,   \* where the dongle's own clock started
    StaleAfter,   \* how long a device that is not heard is still live
    WarnSilence,  \* kWarnSilence
    WarnOffset,   \* kWarnOffset
    MaxWall       \* bound: the time

ASSUME DeviceViewAssumption ==
    /\ MaxWall \in Nat /\ StaleAfter \in Nat /\ WarnOffset \in Nat /\ DongleBase \in Int
    /\ WarnSilence \in Nat /\ WarnSilence >= 1
    /\ Clocks \subseteq Int
    /\ \A s \in Scenes :
          /\ IsFiniteSet(s.keys) /\ s.keys \subseteq [radio : {k.radio : k \in s.keys}, box : {k.box : k \in s.keys}]
          /\ "nothing" \notin s.cams /\ s.cams \cap s.keys = {} /\ s.asked \subseteq s.cams /\ s.reads \subseteq BOOLEAN

VARIABLES
    vnow,      \* the wall clock
    scene,     \* which room it is
    clock,     \* what each box's clock is ahead by
    reg,       \* octomancerd: when each radio heard each box last
    attached,  \* whether the dongle answers
    rcam,      \* octomancerd: the camera it watches, and when it was heard
    held,      \* octomancer-sync: the camera whose link is up
    st,        \* what it has published of each camera
    published, \* the camera it published last
    pb, ps, pc,\* the page's snapshot, status and configuration
    poll,      \* what is still to be polled before the clock moves
    contact    \* when each device was really heard last, a box by each radio

worldVars == <<scene, clock>>
benchVars == <<reg, attached, rcam>>
statusVars == <<held, st, published>>
pageVars == <<pb, ps, pc, poll>>
viewVars == <<vnow, worldVars, benchVars, statusVars, pageVars, contact>>

Nothing == "nothing"
Local == "local"
Unheard == [at |-> 0, mine |-> FALSE, time |-> FALSE]
NoRow == [there |-> FALSE]

Later(a, b) == IF a > b THEN a ELSE b
Abs2(x) == IF x < 0 THEN 0 - x ELSE x

-----------------------------------------------------------------------------
(* octomancerd.                                                            *)

\* A box is heard by a radio, and its timecode is read or is not.
HearBox(k, read) ==
    /\ k \in scene.keys /\ (k.radio = Local \/ attached)
    /\ reg' = [reg EXCEPT ![k] = [at |-> vnow, mine |-> TRUE, time |-> @.time \/ read]]
    /\ contact' = [contact EXCEPT ![k] = vnow]
    /\ UNCHANGED <<vnow, worldVars, attached, rcam, statusVars, pageVars>>

\* observe_camera(): one body at a time.  A held one does not advertise.
HearCam(c) ==
    /\ scene.bench /\ c \in scene.cams /\ held # c
    /\ rcam' = IF rcam.id \in {Nothing, c} THEN [id |-> c, at |-> vnow] ELSE rcam
    /\ contact' = [contact EXCEPT ![c] = vnow]
    /\ UNCHANGED <<vnow, worldVars, reg, attached, statusVars, pageVars>>

Plug ==
    /\ \E k \in scene.keys : k.radio # Local
    /\ attached' = ~attached
    /\ UNCHANGED <<vnow, worldVars, reg, rcam, statusVars, pageVars, contact>>

\* What comes off disk is listed, with no reading and not live; a dongle's
\* boxes and the camera are forgotten.
BenchRestarts ==
    /\ scene.bench
    /\ reg' = [k \in scene.keys |->
          IF k.radio = Local THEN [at |-> reg[k].at, mine |-> FALSE, time |-> FALSE] ELSE Unheard]
    /\ rcam' = [id |-> Nothing, at |-> 0]
    /\ UNCHANGED <<vnow, worldVars, attached, statusVars, pageVars, contact>>

\* Registry::snapshot() with the dongle's rows: ages brought up to now, stamps
\* on this machine's clock, readings against the clock of the radio.
Listed(k) ==
    [id |-> k.box, radio |-> k.radio, last |-> reg[k].at, age |-> vnow - reg[k].at,
     live |-> reg[k].mine /\ vnow - reg[k].at <= StaleAfter /\ (k.radio = Local \/ attached),
     time |-> reg[k].time,
     median |-> clock[k.box] + IF k.radio = Local THEN 0 ELSE DongleBase]

Snapshot ==
    [there |-> TRUE, wall |-> vnow, device |-> {Listed(k) : k \in {j \in scene.keys : reg[j].at > 0}},
     link |-> attached,
     camera |-> [seen |-> rcam.id # Nothing, id |-> rcam.id, age |-> vnow - rcam.at,
                 present |-> rcam.id # Nothing /\ vnow - rcam.at <= StaleAfter]]

-----------------------------------------------------------------------------
(* octomancer-sync: what it publishes of a camera.                         *)

presence_from(snap) ==
    [known |-> TRUE, present |-> snap.camera.present, id |-> snap.camera.id,
     seen |-> snap.camera.seen, last_seen |-> snap.wall - snap.camera.age]

\* apply_presence(): contact is being heard now; otherwise octomancerd says,
\* if the body it watches is this one.
apply_presence(row, seen, heard) ==
    IF heard THEN [row EXCEPT !.last_seen = vnow]
    ELSE IF seen.known /\ seen.id = row.id /\ seen.seen THEN [row EXCEPT !.last_seen = seen.last_seen]
    ELSE row

\* A cycle connected to a camera: whatever held another link let go of it.
\* The link may be gone again by the time the cycle publishes.
CycleOf(c, up, measured) ==
    /\ held' = IF up THEN c ELSE Nothing
    /\ st' = [st EXCEPT ![c] =
          [there |-> TRUE, id |-> c, connected |-> up, present |-> TRUE, last_seen |-> vnow, error |-> measured]]
    /\ published' = c
    /\ contact' = [contact EXCEPT ![c] = vnow]
    /\ UNCHANGED <<vnow, worldVars, benchVars, pageVars>>

LinkDrops ==
    /\ held # Nothing
    /\ held' = Nothing
    /\ UNCHANGED <<vnow, worldVars, benchVars, st, published, pageVars, contact>>

\* read_daemon(): octomancerd answers, or it does not.
Answers == {[known |-> FALSE]} \cup {presence_from(snap) : snap \in IF scene.bench THEN {Snapshot} ELSE {}}

\* refresh(): the camera published last, between cycles, and what is read over
\* its link if it is held.
Refreshed(row, seen, read) ==
    LET up == held = row.id
        theirs == seen.known /\ seen.id = row.id
    IN  apply_presence([row EXCEPT !.connected = up,
                                   !.present = IF up THEN TRUE ELSE IF theirs THEN seen.present ELSE @,
                                   !.error = @ \/ (up /\ read)],
                       seen, up)

Refresh ==
    /\ IF published = Nothing THEN UNCHANGED st
       ELSE \E seen \in Answers, read \in BOOLEAN :
               st' = [st EXCEPT ![published] = Refreshed(@, seen, read)]
    /\ poll = "refresh" /\ poll' = "fetch"
    /\ UNCHANGED <<vnow, worldVars, benchVars, held, published, pb, ps, pc, contact>>

SyncRestarts ==
    /\ held' = Nothing /\ published' = Nothing
    /\ st' = [c \in scene.cams |-> NoRow]
    /\ UNCHANGED <<vnow, worldVars, benchVars, pageVars, contact>>

-----------------------------------------------------------------------------
(* The polls.  A daemon that does not answer is no source at all.          *)

Fetch ==
    /\ poll = "fetch"
    /\ pb' \in {NoRow} \cup (IF scene.bench THEN {Snapshot} ELSE {}) /\ poll' = "query"
    /\ UNCHANGED <<vnow, worldVars, benchVars, statusVars, ps, pc, contact>>

\* The file is read after both.  One that will not parse leaves the view
\* unfiltered.
Query ==
    /\ poll = "query"
    /\ ps' \in {NoRow} \cup {[there |-> TRUE, cameras |-> st, bench |-> has] : has \in BOOLEAN}
    /\ pc' \in scene.confs \cup {NoRow}
    /\ poll' = "draw"
    /\ UNCHANGED <<vnow, worldVars, benchVars, statusVars, pb, contact>>

\* The clock moves on no faster than refresh() and the polls, which are seconds
\* apart where the silence that is allowed for is minutes; a held link keeps
\* delivering.
Tick ==
    /\ vnow < MaxWall /\ poll = "draw"
    /\ vnow' = vnow + 1
    /\ poll' = "refresh"
    /\ contact' = IF held = Nothing THEN contact ELSE [contact EXCEPT ![held] = vnow']
    /\ UNCHANGED <<worldVars, benchVars, held, st, published, pb, ps, pc>>

-----------------------------------------------------------------------------
(* build_device_view().                                                    *)

\* A device is enabled unless a configuration says it is not.
box_is_enabled(id) == ~pc.there \/ id \notin pc.off
camera_is_enabled(id) == ~pc.there \/ id \notin pc.off

box_votes(d) == d.live /\ d.time /\ box_is_enabled(d.id)

box_votes_for(d, radio) == d.radio = radio /\ box_votes(d)

\* The median of what the voters read, doubled.
Nth(S, n) ==
    CHOOSE v \in {d.median : d \in S} :
        /\ Cardinality({d \in S : d.median < v}) <= n
        /\ Cardinality({d \in S : d.median <= v}) > n
Median2(S) == LET n == Cardinality(S) IN Nth(S, (n - 1) \div 2) + Nth(S, n \div 2)

Voters(radio) == IF pb.there THEN {d \in pb.device : box_votes_for(d, radio)} ELSE {}

radio_view(radio) ==
    IF Voters(radio) = {} THEN [has_canonical |-> FALSE]
    ELSE [has_canonical |-> TRUE, canonical |-> Median2(Voters(radio))]

\* With nothing to compute from, the other daemon's bench is borrowed.
has_canonical == radio_view(Local).has_canonical \/ (ps.there /\ ps.bench)

\* Mutant: an age is taken as it was when the photograph was.
age_from_Frozen(last_wall, age) == age

\* A stamp beats a duration, which was true when the photograph was taken.
age_from(last_wall, age) == IF last_wall <= 0 THEN age ELSE Later(0, vnow - last_wall)

\* Of a row that has no offset and no age.
Row(kind, id, radio, link) ==
    [kind |-> kind, id |-> id, radio |-> radio, link |-> link,
     has_age |-> FALSE, age |-> 0, has_offset |-> FALSE, offset |-> 0, stale |-> FALSE]
link_is_live(link) == link \in {"held", "on"}

\* A box is quoted against the canonical time of its own radio, and only while
\* it is heard.
BoxRow(d) ==
    LET own == radio_view(d.radio)
        quoted == d.time /\ IF d.radio = Local THEN has_canonical ELSE own.has_canonical
    IN  [Row("box", d.id, d.radio, IF d.live THEN "on" ELSE "off") EXCEPT
            !.has_age = TRUE, !.age = age_from(d.last, d.age),
            !.has_offset = quoted /\ d.live, !.stale = quoted /\ ~d.live,
            !.offset = IF quoted /\ d.live THEN 2 * d.median - own.canonical ELSE 0]

BoxRows == IF pb.there THEN {BoxRow(d) : d \in {e \in pb.device : box_is_enabled(e.id)}} ELSE {}

\* A camera octomancer-sync has published: its error is a distance already.
CamRow(c) ==
    LET link == IF c.connected THEN "held" ELSE IF c.present THEN "on" ELSE "off"
        quoted == has_canonical /\ c.error
    IN  [Row("camera", c.id, "sync", link) EXCEPT
            !.has_age = TRUE, !.age = Later(0, vnow - c.last_seen),
            !.has_offset = quoted /\ link_is_live(link), !.stale = quoted /\ ~link_is_live(link)]

Published == IF ps.there THEN {c \in scene.cams : ps.cameras[c].there} ELSE {}
SyncRows == {CamRow(ps.cameras[c]) : c \in {d \in Published : camera_is_enabled(d)}}

\* Mutant: whether or not octomancer-sync lists it.
BenchCamRows_Always ==
    IF pb.there /\ pb.camera.seen /\ camera_is_enabled(pb.camera.id)
    THEN {[Row("camera", pb.camera.id, "bench", IF pb.camera.present THEN "on" ELSE "unknown") EXCEPT
              !.has_age = TRUE, !.age = pb.camera.age]}
    ELSE {}

\* The one octomancerd watches, if octomancer-sync does not list it.
BenchCamRows ==
    IF pb.there /\ pb.camera.seen /\ pb.camera.id \notin Published /\ camera_is_enabled(pb.camera.id)
    THEN {[Row("camera", pb.camera.id, "bench", IF pb.camera.present THEN "on" ELSE "unknown") EXCEPT
              !.has_age = TRUE, !.age = pb.camera.age]}
    ELSE {}

\* One that is in the configuration and nowhere else, with no age.
ConfRows ==
    IF pc.there
    THEN {Row("camera", c, "conf", IF ps.there THEN "off" ELSE "unknown") :
             c \in {d \in pc.cams : /\ d \notin Published
                                    /\ d \notin {r.id : r \in BenchCamRows}
                                    /\ camera_is_enabled(d)}}
    ELSE {}

Rows == BoxRows \cup SyncRows \cup BenchCamRows \cup ConfRows

warned(r) == pc.there /\ r.id \in pc.warn

\* Age comes before the reading.
warn_level_for(r) ==
    IF ~warned(r) THEN "none"
    ELSE IF r.link # "held" /\ (~r.has_age \/ r.age > WarnSilence) THEN "unsure"
    ELSE IF r.has_offset THEN IF Abs2(r.offset) > 2 * WarnOffset THEN "out" ELSE "none"
    ELSE IF r.stale THEN "none" ELSE "unsure"

-----------------------------------------------------------------------------

ViewInit ==
    /\ vnow = 1 /\ scene \in Scenes
    /\ clock \in [{k.box : k \in scene.keys} -> Clocks]
    /\ reg = [k \in scene.keys |-> Unheard] /\ attached = FALSE
    /\ rcam = [id |-> Nothing, at |-> 0]
    /\ held = Nothing /\ published = Nothing
    /\ st = [c \in scene.cams |-> NoRow]
    /\ pb = NoRow /\ ps = NoRow /\ pc = NoRow
    /\ poll = "refresh"
    /\ contact = [d \in scene.cams \cup scene.keys |-> 0]

ViewNext ==
    \/ \E k \in scene.keys, read \in BOOLEAN : HearBox(k, read)
    \/ \E c \in scene.cams : HearCam(c)
    \/ \E c \in scene.asked, up \in BOOLEAN, measured \in scene.reads : CycleOf(c, up, measured)
    \/ Plug
    \/ BenchRestarts
    \/ LinkDrops
    \/ Refresh
    \/ SyncRestarts
    \/ Fetch
    \/ Query
    \/ Tick

-----------------------------------------------------------------------------
(* Properties.                                                             *)

\* A row somebody asked to be warned about, drawn without a warning; when its
\* device was really heard; and the voters of a radio by their own clocks.
Unwarned(r) == warned(r) /\ warn_level_for(r) = "none"
HeardAt(r) == contact[IF r.kind = "box" THEN [radio |-> r.radio, box |-> r.id] ELSE r.id]
OwnClocks(radio) ==
    {[median |-> clock[d.id], id |-> d.id] : d \in {e \in pb.device : e.radio = radio /\ box_votes(e)}}

\* warn_level_for: "Better to say 'we do not know' than to say something
\* reassuring that nothing supports": a device somebody asked to be warned
\* about and that is drawn without a warning was heard within kWarnSilence,
\* however old the photograph and whichever daemon has restarted.  And "the Mac
\* cancels out entirely": the offset of a box is its distance from the boxes
\* its radio hears, by the boxes' own clocks; where a radio's clock started does
\* not come into it.  A body whose link the program let go of for another's is
\* left out of the first: its row says "held" until the program restarts.
RowsTellTheTruth ==
    \A r \in Rows :
        /\ Unwarned(r) =>
              (r.link = "held" /\ r.id # published) \/ vnow - HeardAt(r) <= WarnSilence
        /\ r.kind = "box" /\ r.has_offset =>
              r.offset = 2 * clock[r.id] - Median2(OwnClocks(r.radio))

\* "A camera in the configuration now always has a row", and one row: whatever
\* the two daemons say of it, or fail to, a listed camera that is enabled is on
\* the page once, one that is switched off is not, and one that nobody has
\* heard is never drawn without the warning somebody asked for.
EveryCameraHasItsRow ==
    pc.there =>
        \A c \in pc.cams :
            LET its == {r \in Rows : r.kind = "camera" /\ r.id = c}
            IN  /\ Cardinality(its) = IF camera_is_enabled(c) THEN 1 ELSE 0
                /\ c \notin scene.cams \/ contact[c] = 0 => \A r \in its : r.id \in pc.warn => ~Unwarned(r)
=============================================================================
