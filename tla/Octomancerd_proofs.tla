------------------------- MODULE Octomancerd_proofs -------------------------
(***************************************************************************)
(* Proofs about the parts of octomancerd (Octomancerd).  The parts share   *)
(* no state: each invariant is shown to be kept by the steps of its own    *)
(* part, and the others leave its variables alone.                         *)
(***************************************************************************)
EXTENDS Octomancerd, SequenceTheorems, WellFoundedInduction, TLAPS

-----------------------------------------------------------------------------
(* The roster.                                                             *)

NameRec == [user : Label \cup {""}, heard : BOOLEAN]
Names == [Device -> NameRec]

RosterType ==
    /\ wall \in Nat \ {0}
    /\ up \in {"down", "up", "refused"}
    /\ DOMAIN seen \subseteq Device
    /\ book \in Names
    /\ file \in [seen : [Device -> Nat], names : Names]
    /\ owed \in [Device -> SUBSET (Label \cup {""})]
    /\ heard \in [Device -> SUBSET (Nat \ {0})]
    /\ kept \subseteq Device

\* What the file would have a later run show is owed as well, whether or not a
\* daemon is up to read it.
FileIsOwed == \A d \in Device : file.names[d].user \in owed[d]

RosterInv == RosterType /\ FileIsOwed /\ RosterSurvives

\* Taking down a name, and typing one, leave a name.
LEMMA NameFacts ==
    ASSUME NEW n \in NameRec
    PROVE  /\ n.user \in Label \cup {""}
           /\ \A h \in BOOLEAN : [n EXCEPT !.heard = h] \in NameRec /\ [n EXCEPT !.heard = h].user = n.user
           /\ \A v \in Label \cup {""} : [n EXCEPT !.user = v] \in NameRec
BY DEF NameRec

LEMMA RosterInitInv == RosterInit => RosterInv
<1> SUFFICES ASSUME RosterInit PROVE RosterInv
  OBVIOUS
<1>1. NoName \in NameRec /\ NoName.user = ""
  BY DEF NoName, NameRec
<1>2. /\ book = [d \in Device |-> NoName] /\ file.names = [d \in Device |-> NoName]
      /\ file.seen = [d \in Device |-> 0] /\ file = [seen |-> file.seen, names |-> file.names]
      /\ kept = {} /\ up = "down" /\ wall = 1 /\ DOMAIN seen = {}
      /\ owed = [d \in Device |-> {""}] /\ heard = [d \in Device |-> {}]
  BY DEF RosterInit, EmptyFile
<1>3. book \in Names /\ file.names \in Names /\ file.seen \in [Device -> Nat]
  <2>1. [d \in Device |-> NoName] \in Names
    BY <1>1, Zenon DEF Names
  <2>2. [d \in Device |-> 0] \in [Device -> Nat]
    OBVIOUS
  <2> QED BY <1>2, <2>1, <2>2, Zenon
<1>7. file \in [seen : [Device -> Nat], names : Names]
  BY <1>2, <1>3, Zenon
<1>8. owed \in [Device -> SUBSET (Label \cup {""})] /\ heard \in [Device -> SUBSET (Nat \ {0})]
  BY <1>2
<1>4. RosterType
  <2>2. 1 \in Nat \ {0}
    OBVIOUS
  <2>1. wall \in Nat \ {0} /\ up \in {"down", "up", "refused"} /\ DOMAIN seen \subseteq Device /\ kept \subseteq Device
    BY <1>2, <2>2, Zenon
  <2> QED BY <1>3, <1>7, <1>8, <2>1, Zenon DEF RosterType
<1>5. FileIsOwed
  BY <1>1, <1>2 DEF FileIsOwed
<1>6. RosterSurvives
  BY <1>2 DEF RosterSurvives, DecisionsSurvive, LastSeenIsASighting, NothingIsLost
<1> QED BY <1>4, <1>5, <1>6 DEF RosterInv

\* A save, of a roster and a book that are sound, keeps what the file has to
\* keep; k is what is kept if it fails.
Savable(s, b, k) ==
    /\ DOMAIN s \subseteq Device /\ b \in Names
    /\ \A d \in DOMAIN s : s[d] \in heard[d]
    /\ k \subseteq kept /\ k \subseteq DOMAIN s

LEMMA SaveFacts ==
    ASSUME RosterInv, ~DiskFills, NEW s, NEW b, NEW k, NEW out \in Outcome,
           Savable(s, b, k), save_devices(s, b, k, out)
    PROVE  /\ file' \in [seen : [Device -> Nat], names : Names]
           /\ owed' \in [Device -> SUBSET (Label \cup {""})]
           /\ \A d \in Device : /\ file'.names[d].user \in owed'[d] /\ b[d].user \in owed'[d]
                                /\ file'.seen[d] \in heard[d] \cup {0}
           /\ kept' \subseteq DOMAIN s
           /\ \A d \in kept' : file'.seen[d] > 0
<1>1. heard \in [Device -> SUBSET (Nat \ {0})] /\ file \in [seen : [Device -> Nat], names : Names]
      /\ owed \in [Device -> SUBSET (Label \cup {""})]
  BY DEF RosterInv, RosterType
<1>2. \A d \in Device : b[d].user \in Label \cup {""}
  BY NameFacts DEF Savable, Names
<1>3. CASE out = "saved"
  <2>1. file' = [seen |-> remembered(s), names |-> b] /\ kept' = DOMAIN s
        /\ owed' = [d \in Device |-> {b[d].user}]
    BY <1>3 DEF save_devices, Rows
  <2>2. \A d \in Device : remembered(s)[d] = IF d \in DOMAIN s THEN s[d] ELSE 0
    BY DEF remembered
  <2>3. \A d \in DOMAIN s : s[d] \in heard[d] /\ s[d] \in Nat \ {0}
    BY <1>1 DEF Savable
  <2>4. remembered(s) \in [Device -> Nat]
    BY <2>3 DEF remembered
  <2>5. b \in Names /\ DOMAIN s \subseteq Device
    BY DEF Savable
  <2>6. file' \in [seen : [Device -> Nat], names : Names] /\ file'.seen = remembered(s) /\ file'.names = b
    BY <2>1, <2>4, <2>5, Zenon
  <2>7. owed' \in [Device -> SUBSET (Label \cup {""})] /\ \A d \in Device : b[d].user \in owed'[d]
    BY <1>2, <2>1
  <2>8. \A d \in Device : file'.seen[d] \in heard[d] \cup {0}
    BY <2>2, <2>3, <2>6
  <2>9. \A d \in kept' : file'.seen[d] > 0
    BY <2>1, <2>2, <2>3, <2>5, <2>6
  <2> QED BY <2>1, <2>6, <2>7, <2>8, <2>9
<1>4. CASE out = "failed"
  <2>1. file' = file /\ kept' = k /\ owed' = [d \in Device |-> owed[d] \cup {b[d].user}]
    BY <1>4 DEF save_devices
  <2>2. /\ \A d \in Device : file.names[d].user \in owed[d] /\ file.seen[d] \in heard[d] \cup {0}
        /\ \A d \in kept : file.seen[d] > 0
    BY DEF RosterInv, FileIsOwed, RosterSurvives, LastSeenIsASighting, NothingIsLost, Restored
  <2>3. k \subseteq kept /\ k \subseteq DOMAIN s
    BY DEF Savable
  <2>4. owed' \in [Device -> SUBSET (Label \cup {""})] /\ \A d \in Device : owed'[d] = owed[d] \cup {b[d].user}
    BY <1>1, <1>2, <2>1
  <2>5. \A d \in Device : file'.names[d].user \in owed'[d] /\ b[d].user \in owed'[d] /\ file'.seen[d] \in heard[d] \cup {0}
    BY <2>1, <2>2, <2>4
  <2>6. kept' \subseteq DOMAIN s /\ \A d \in kept' : file'.seen[d] > 0
    BY <2>1, <2>2, <2>3
  <2> QED BY <1>1, <2>1, <2>4, <2>5, <2>6
<1> QED BY <1>3, <1>4 DEF Outcome

\* What follows from a save, and from leaving things as they were.
LEMMA SaveStep ==
    ASSUME RosterInv, ~DiskFills, NEW k, NEW out \in Outcome,
           Savable(seen', book', k), save_devices(seen', book', k, out),
           up' \in {"up", "down"}, UNCHANGED <<wall, heard>>
    PROVE  RosterInv'
<1>1. /\ file' \in [seen : [Device -> Nat], names : Names]
      /\ owed' \in [Device -> SUBSET (Label \cup {""})]
      /\ \A d \in Device : /\ file'.names[d].user \in owed'[d] /\ book'[d].user \in owed'[d]
                           /\ file'.seen[d] \in heard[d] \cup {0}
      /\ kept' \subseteq DOMAIN seen'
      /\ \A d \in kept' : file'.seen[d] > 0
  BY SaveFacts, Zenon
<1>2. DOMAIN seen' \subseteq Device /\ book' \in Names /\ \A d \in DOMAIN seen' : seen'[d] \in heard[d]
  BY DEF Savable
<1>3. RosterType'
  BY <1>1, <1>2 DEF RosterInv, RosterType
<1>4. FileIsOwed'
  BY <1>1 DEF FileIsOwed
<1>5. DecisionsSurvive' /\ LastSeenIsASighting'
  BY <1>1, <1>2 DEF DecisionsSurvive, LastSeenIsASighting
<1>6. NothingIsLost'
  <2>1. kept' \subseteq Device
    BY <1>1, <1>2
  <2> QED BY <1>1, <2>1 DEF NothingIsLost, Restored
<1> QED BY <1>3, <1>4, <1>5, <1>6 DEF RosterInv, RosterSurvives

\* What is loaded was heard.
LEMMA RestoredHeard == ASSUME RosterInv PROVE Restored \subseteq Device /\ \A d \in Restored : file.seen[d] \in heard[d]
<1>1. \A d \in Device : file.seen[d] \in Nat /\ file.seen[d] \in heard[d] \cup {0}
  <2>1. file \in [seen : [Device -> Nat], names : Names]
    BY DEF RosterInv, RosterType
  <2>2. file.seen \in [Device -> Nat]
    BY <2>1
  <2> QED BY <2>2 DEF RosterInv, RosterSurvives, LastSeenIsASighting
<1> QED BY <1>1 DEF Restored

LEMMA RosterQuiet ==
    ASSUME RosterInv, KillDaemon \/ Edit \/ Later \/ UNCHANGED rosterVars
    PROVE  RosterInv'
<1>1. wall \in Nat \ {0} /\ up \in {"up", "down", "refused"}
  BY DEF RosterInv, RosterType
<1>2. wall + 1 \in Nat \ {0}
  BY <1>1
<1>3. /\ wall' \in Nat \ {0} /\ up' \in {"up", "down", "refused"} /\ (up' = "up" => up = "up")
      /\ UNCHANGED <<seen, book, file, owed, heard, kept>>
  BY <1>1, <1>2 DEF KillDaemon, Edit, Later, rosterVars
<1> QED BY <1>3 DEF RosterInv, RosterType, FileIsOwed, RosterSurvives, DecisionsSurvive, LastSeenIsASighting,
                NothingIsLost, Restored

LEMMA RosterStep == ASSUME RosterInv, ~DiskFills, RosterNext PROVE RosterInv'
<1> USE DEF RosterInv, RosterType, FileIsOwed, RosterSurvives, DecisionsSurvive, LastSeenIsASighting, NothingIsLost
<1>1. CASE Start
  <2>1. UNCHANGED <<wall, file, garbled, owed, heard, kept>>
    BY <1>1 DEF Start
  <2>2. CASE up' = "refused" /\ UNCHANGED <<seen, book>>
    BY <2>1, <2>2 DEF Restored
  <2>3. CASE up' = "up" /\ seen' = [d \in Restored |-> file.seen[d]] /\ book' = file.names
    <3>1. Restored' = Restored
      BY <2>1 DEF Restored
    <3>2. Restored \subseteq Device /\ \A d \in Restored : file.seen[d] \in heard[d]
      BY RestoredHeard
    <3>3. DOMAIN seen' = Restored /\ \A d \in Restored : seen'[d] \in heard[d]
      BY <2>3, <3>2
    <3>4. book' \in Names
      BY <2>3
    <3> QED BY <2>1, <2>3, <3>1, <3>2, <3>3, <3>4
  <2> QED BY <1>1, <2>2, <2>3 DEF Start, Named
<1>2. ASSUME NEW d \in Ours, Hear(d) PROVE RosterInv'
  <2>1. /\ up = "up" /\ seen' = [x \in DOMAIN seen \cup {d} |-> IF x = d THEN wall ELSE seen[x]]
        /\ heard' = [heard EXCEPT ![d] = @ \cup {wall}]
        /\ UNCHANGED <<wall, up, book, file, garbled, owed, kept>>
    BY <1>2 DEF Hear
  <2>2. d \in Device
    BY DEF Device
  <2>3. /\ heard' \in [Device -> SUBSET (Nat \ {0})]
        /\ \A x \in Device : heard[x] \subseteq heard'[x]
        /\ wall \in heard'[d]
    BY <2>1, <2>2
  <2>4. DOMAIN seen' \subseteq Device /\ DOMAIN seen \subseteq DOMAIN seen'
        /\ \A x \in DOMAIN seen' : seen'[x] \in heard'[x]
    BY <2>1, <2>2, <2>3
  <2> QED BY <2>1, <2>3, <2>4 DEF Restored
<1>3. ASSUME NEW remote \in SUBSET Theirs, assemble(remote) PROVE RosterInv'
  <2>1. /\ book' = [d \in Device |-> [book[d] EXCEPT !.heard = @ \/ d \in DOMAIN seen \cup remote]]
        /\ UNCHANGED <<wall, up, seen, file, garbled, owed, heard, kept>>
    BY <1>3 DEF assemble
  <2>2. \A d \in Device : /\ [book[d] EXCEPT !.heard = @ \/ d \in DOMAIN seen \cup remote] \in NameRec
                          /\ [book[d] EXCEPT !.heard = @ \/ d \in DOMAIN seen \cup remote].user = book[d].user
    <3> SUFFICES ASSUME NEW d \in Device
                 PROVE  /\ [book[d] EXCEPT !.heard = @ \/ d \in DOMAIN seen \cup remote] \in NameRec
                        /\ [book[d] EXCEPT !.heard = @ \/ d \in DOMAIN seen \cup remote].user = book[d].user
      OBVIOUS
    <3>1. (book[d].heard \/ d \in DOMAIN seen \cup remote) \in BOOLEAN
      BY Zenon
    <3>2. book[d] \in NameRec
      BY DEF Names
    <3> QED BY <3>1, <3>2, NameFacts, Zenon
  <2>3. book' \in Names /\ \A d \in Device : book'[d].user = book[d].user
    BY <2>1, <2>2 DEF Names
  <2> QED BY <2>1, <2>3 DEF Restored
<1>4. ASSUME NEW out \in Outcome, NEW d \in Device, refresh_command(d, out) PROVE RosterInv'
  <2>1. /\ up = "up" /\ book' = [book EXCEPT ![d] = [@ EXCEPT !.heard = FALSE]]
        /\ save_devices(seen, book', kept, out) /\ UNCHANGED <<wall, up, seen, heard>>
    BY <1>4 DEF refresh_command, refresh
  <2>2. book' \in Names
    BY <2>1, NameFacts DEF Names
  <2>3. Savable(seen', book', kept) /\ save_devices(seen', book', kept, out)
    BY <2>1, <2>2 DEF Savable
  <2> QED BY <2>1, <2>3, SaveStep
<1>5. ASSUME NEW out \in Outcome, NEW d \in Device, forget_command(d, out) PROVE RosterInv'
  <2>1. /\ up = "up" /\ seen' = [x \in DOMAIN seen \ {d} |-> seen[x]]
        /\ save_devices(seen', book, kept \ {d}, out) /\ UNCHANGED <<wall, up, book, heard>>
    BY <1>5 DEF forget_command
  <2>2. Savable(seen', book', kept \ {d}) /\ save_devices(seen', book', kept \ {d}, out)
    BY <2>1 DEF Savable
  <2> QED BY <2>1, <2>2, SaveStep
<1>6. ASSUME NEW out \in Outcome, NEW d \in Device, NEW v \in Label \cup {""}, name_command(d, v, out) PROVE RosterInv'
  <2>1. /\ up = "up" /\ book' = [book EXCEPT ![d].user = v]
        /\ save_devices(seen, book', kept, out) /\ UNCHANGED <<wall, up, seen, heard>>
    BY <1>6 DEF name_command
  <2>2. book' \in Names
    BY <2>1, NameFacts DEF Names
  <2>3. Savable(seen', book', kept) /\ save_devices(seen', book', kept, out)
    BY <2>1, <2>2 DEF Savable
  <2> QED BY <2>1, <2>3, SaveStep
<1>7. ASSUME NEW out \in Outcome, SaveTimer(out) \/ StopDaemon(out) PROVE RosterInv'
  <2>1. /\ up = "up" /\ up' \in {"up", "down"}
        /\ save_devices(seen, book, kept, out) /\ UNCHANGED <<wall, seen, book, heard>>
    BY <1>7 DEF SaveTimer, StopDaemon
  <2>2. Savable(seen', book', kept) /\ save_devices(seen', book', kept, out)
    BY <2>1 DEF Savable
  <2> QED BY <2>1, <2>2, SaveStep
<1>8. CASE KillDaemon \/ Edit \/ Later
  BY <1>8, RosterQuiet
<1> QED BY <1>1, <1>2, <1>3, <1>4, <1>5, <1>6, <1>7, <1>8 DEF RosterNext

\* What people decided and what was heard outlives kills, failed saves, spoiled
\* files and restarts, as it was: for any devices and labels, as long as a disk
\* that is full says so before the file is closed (DeviceDb::save() looks
\* at the stream before it is closed, not after).
THEOREM RosterIsKept ==
    ASSUME ~DiskFills
    PROVE  Spec => []RosterSurvives
<1>1. Init => RosterInv
  BY RosterInitInv DEF Init
<1>2. RosterInv /\ [Next]_vars => RosterInv'
  <2> SUFFICES ASSUME RosterInv, [Next]_vars PROVE RosterInv'
    OBVIOUS
  <2>1. CASE RosterNext
    BY <2>1, RosterStep
  <2>2. CASE UNCHANGED rosterVars
    BY <2>2, RosterQuiet
  <2> QED BY <2>1, <2>2 DEF Next, vars
<1>3. RosterInv => RosterSurvives
  BY DEF RosterInv
<1> QED BY <1>1, <1>2, <1>3, PTL DEF Spec

-----------------------------------------------------------------------------
(* The registry.                                                           *)

LessThan == {ss \in Nat \X Nat : ss[1] < ss[2]}

\* A set of naturals that has an element has a least one.
LEMMA LeastNatural == ASSUME NEW T, T \subseteq Nat, T # {} PROVE \E x \in T : \A y \in T : x <= y
<1>1. IsWellFoundedOn(LessThan, Nat)
  BY NatLessThanWellFounded, Zenon DEF OpToRel, LessThan
<1>2. PICK x \in T : \A y \in T : ~(<<y, x>> \in LessThan)
  BY <1>1, WFMin, Zenon
<1>3. \A y \in T : ~(y < x)
  BY <1>2 DEF LessThan
<1> QED BY <1>3

\* What is left of the samples were samples.
LEMMA TrimFacts == ASSUME NEW S, NEW s \in Seq(S) PROVE trim(s) \in Seq(S)
<1> DEFINE staying == {i \in DOMAIN s : s[i].at >= mono - Window /\ i > Len(s) - MaxSamples}
           T == staying \cup {Len(s) + 1}
           m == Min(T)
<1>1. Len(s) \in Nat /\ DOMAIN s = 1..Len(s)
  BY LenProperties
<1>2. T \subseteq 1..(Len(s) + 1) /\ T \subseteq Nat /\ T # {}
  BY <1>1
<1>3. m \in 1..(Len(s) + 1)
  <2> HIDE DEF T
  <2>1. \E x \in T : \A y \in T : x <= y
    BY <1>2, LeastNatural, Zenon
  <2>2. m \in T
    BY <2>1 DEF Min
  <2> QED BY <1>2, <2>2
<1>4. trim(s) = SubSeq(s, m, Len(s))
  BY DEF trim
<1> HIDE DEF m
<1>5. \A i \in m..Len(s) : s[i] \in S
  BY <1>1, <1>3, ElementOfSeq
<1> QED BY <1>1, <1>3, <1>4, <1>5, SubSeqProperties

\* A sample taken when the clock had been set n times.
Of(n) == {x \in [at : Nat, offset : Reading, steps : Nat] : x.steps = n}

Known(n) == [seen : Int, mine : BOOLEAN, samples : Seq(Of(n)), over : Nat, under : Nat, alerting : BOOLEAN,
             notified : Int]

Streak == [of : {"none", "over", "under", "band"}, length : Nat]
Event == [of : Box, entering : BOOLEAN, repeat : BOOLEAN]

RegType ==
    /\ mono \in Nat /\ steps \in Nat /\ last \in Nat \cup {-1}
    /\ DOMAIN devices \subseteq Box /\ devices \in [DOMAIN devices -> Known(last)]
    /\ events \in Seq(Event)
    /\ told \subseteq Box
    /\ streak \in [Box -> Streak]
    /\ camera \in [id : Camera \cup {"none"}, present : BOOLEAN, seen : Int, sessions : Nat]
    /\ returns \in Nat

\* The counters are backed by as many medians in a row.
Counts(d, s) ==
    /\ d.over > 0 => s.of = "over" /\ d.over <= s.length
    /\ d.under > 0 => s.of = "under" /\ d.under <= s.length

Earned ==
    /\ \A b \in Box : streak[b].length <= Confirm
    /\ \A b \in DOMAIN devices : Counts(devices[b], streak[b])

\* An event that waits is about a box that was heard just now.
Pending == \A i \in DOMAIN events : events[i].of \in DOMAIN devices /\ devices[events[i].of].seen = mono

\* Once it has taken what waits, a listener knows which boxes are drifting.
Alerting == {b \in DOMAIN devices : devices[b].alerting}
WillBeTold == Believed = Alerting

\* An absent camera was silent for long enough.
AbsentIsSilent ==
    /\ camera.id = "none" => ~camera.present
    /\ camera.id # "none" /\ ~camera.present => mono - camera.seen > GoneAfter

RegInv == RegType /\ Earned /\ Pending /\ WillBeTold /\ AbsentIsSilent /\ PowerCyclesAreCounted

LEMMA KnownFacts ==
    ASSUME NEW n, NEW d \in Known(n)
    PROVE  /\ d.seen \in Int /\ d.mine \in BOOLEAN /\ d.samples \in Seq(Of(n)) /\ d.over \in Nat /\ d.under \in Nat
           /\ d.alerting \in BOOLEAN /\ d.notified \in Int
BY DEF Known

\* Nothing known of it yet.
LEMMA FreshFacts ==
    ASSUME NEW n
    PROVE  Fresh \in Known(n) /\ ~Fresh.alerting /\ Fresh.over = 0 /\ Fresh.under = 0
<1>1. <<>> \in Seq(Of(n))
  BY EmptySeq
<1> QED BY <1>1 DEF Fresh, Known

LEMMA RegInitInv == ASSUME RegistryInit, Confirm \in Nat PROVE RegInv
<1> PICK restored \in SUBSET Box : devices = [b \in restored |-> Fresh]
  BY DEF RegistryInit
<1>1. DOMAIN devices = restored /\ devices \in [DOMAIN devices -> Known(last)]
  BY FreshFacts
<1>2. /\ mono = 1 /\ steps = 0 /\ last = -1 /\ events = <<>> /\ told = {} /\ returns = 0
      /\ camera = [id |-> "none", present |-> FALSE, seen |-> 0, sessions |-> 0]
      /\ streak = [b \in Box |-> [of |-> "none", length |-> 0]]
  BY DEF RegistryInit, NoCamera
<1>3. events \in Seq(Event) /\ DOMAIN events = {}
  <2>1. <<>> \in Seq(Event) /\ Len(<<>>) = 0
    BY EmptySeq
  <2>2. DOMAIN <<>> = 1..0
    BY <2>1, LenProperties
  <2> QED BY <1>2, <2>1, <2>2
<1>4. RegType
  <2>1. streak \in [Box -> Streak] /\ camera \in [id : Camera \cup {"none"}, present : BOOLEAN, seen : Int, sessions : Nat]
    BY <1>2 DEF Streak
  <2> QED BY <1>1, <1>2, <1>3, <2>1 DEF RegType
<1>5. Earned
  BY <1>1, <1>2, FreshFacts DEF Earned, Counts
<1>6. Pending /\ WillBeTold
  BY <1>1, <1>2, <1>3, FreshFacts DEF Pending, WillBeTold, Believed, Alerting
<1>7. AbsentIsSilent /\ PowerCyclesAreCounted
  BY <1>2 DEF AbsentIsSilent, PowerCyclesAreCounted
<1> QED BY <1>4, <1>5, <1>6, <1>7 DEF RegInv

\* What is known once it was seen that the clock was set: nothing of before.
LEMMA AfterStepFacts ==
    ASSUME RegInv, Confirm \in Nat, NEW b
    PROVE  /\ DOMAIN AfterStep(b) = DOMAIN devices
           /\ AfterStep(b) \in [DOMAIN devices -> Known(steps)]
           /\ \A c \in DOMAIN devices : /\ AfterStep(b)[c].alerting = devices[c].alerting
                                        /\ AfterStep(b)[c].seen = devices[c].seen
                                        /\ Counts(AfterStep(b)[c], Streaks[c])
           /\ Streaks \in [Box -> Streak]
           /\ \A c \in Box : Streaks[c].length <= Confirm
<1>1. /\ last \in Nat \cup {-1} /\ steps \in Nat /\ DOMAIN devices \subseteq Box
      /\ devices \in [DOMAIN devices -> Known(last)] /\ streak \in [Box -> Streak]
  BY DEF RegInv, RegType
<1>2. CASE last = steps
  BY <1>1, <1>2 DEF AfterStep, Streaks, RegInv, Earned
<1>3. CASE last = -1 /\ last # steps
  <2>1. Of(last) \subseteq Of(steps)
    BY <1>3 DEF Of
  <2>2. Known(last) \subseteq Known(steps)
    BY <2>1, SeqMonotonic DEF Known
  <2> QED BY <1>1, <1>3, <2>2 DEF AfterStep, Streaks, RegInv, Earned
<1>4. CASE last \notin {-1, steps}
  <2> DEFINE cleared(d) == [d EXCEPT !.samples = <<>>, !.over = 0, !.under = 0]
  <2>1. AfterStep(b) = [x \in DOMAIN devices |-> cleared(devices[x])]
    BY <1>4 DEF AfterStep
  <2>2. ASSUME NEW d \in Known(last)
        PROVE  /\ cleared(d) \in Known(steps) /\ cleared(d).alerting = d.alerting /\ cleared(d).seen = d.seen
               /\ cleared(d).over = 0 /\ cleared(d).under = 0
    <3>1. <<>> \in Seq(Of(steps))
      BY EmptySeq
    <3> QED BY <3>1 DEF Known
  <2> HIDE DEF cleared
  <2>3. Streaks = [x \in Box |-> [of |-> "none", length |-> 0]]
    BY <1>4 DEF Streaks
  <2>4. Streaks \in [Box -> Streak] /\ \A c \in Box : Streaks[c].length <= Confirm
    BY <2>3 DEF Streak
  <2> QED BY <1>1, <2>1, <2>2, <2>4 DEF Counts
<1> QED BY <1>2, <1>3, <1>4

\* What is known of the box that was heard.
Noticed(b) ==
    [(IF b \in DOMAIN AfterStep(b) THEN AfterStep(b)[b] ELSE Fresh) EXCEPT !.seen = mono, !.mine = TRUE]

LEMMA NoticedFacts ==
    ASSUME RegInv, Confirm \in Nat, NEW b \in Box
    PROVE  /\ Noticed(b) \in Known(steps) /\ Noticed(b).seen = mono
           /\ Noticed(b).alerting = (IF b \in DOMAIN devices THEN devices[b].alerting ELSE FALSE)
           /\ Counts(Noticed(b), Streaks[b])
<1> DEFINE d == IF b \in DOMAIN AfterStep(b) THEN AfterStep(b)[b] ELSE Fresh
<1>1. /\ d \in Known(steps) /\ Counts(d, Streaks[b])
      /\ d.alerting = (IF b \in DOMAIN devices THEN devices[b].alerting ELSE FALSE)
  <2>1. Fresh \in Known(steps) /\ Fresh.alerting = FALSE /\ Counts(Fresh, Streaks[b])
    BY FreshFacts DEF Counts, Fresh
  <2> QED BY <2>1, AfterStepFacts
<1>2. Noticed(b) = [d EXCEPT !.seen = mono, !.mine = TRUE]
  BY DEF Noticed
<1>3. mono \in Int
  BY DEF RegInv, RegType
<1> HIDE DEF d
<1> QED BY <1>1, <1>2, <1>3 DEF Known, Counts

\* And of one that could be read.
Sampled(b, x) ==
    [Noticed(b) EXCEPT !.samples = trim(Append(@, [at |-> mono, offset |-> x, steps |-> steps]))]

LEMMA SampledFacts ==
    ASSUME RegInv, Confirm \in Nat, NEW b \in Box, NEW x \in Reading
    PROVE  /\ Sampled(b, x) \in Known(steps) /\ Sampled(b, x).seen = mono
           /\ Sampled(b, x).alerting = (IF b \in DOMAIN devices THEN devices[b].alerting ELSE FALSE)
           /\ Counts(Sampled(b, x), Streaks[b])
<1> DEFINE d == Noticed(b)
           more == Append(d.samples, [at |-> mono, offset |-> x, steps |-> steps])
<1>1. /\ d \in Known(steps) /\ d.seen = mono /\ Counts(d, Streaks[b])
      /\ d.alerting = (IF b \in DOMAIN devices THEN devices[b].alerting ELSE FALSE)
  BY NoticedFacts
<1>2. [at |-> mono, offset |-> x, steps |-> steps] \in Of(steps)
  BY DEF RegInv, RegType, Of
<1>3. more \in Seq(Of(steps))
  BY <1>1, <1>2, AppendProperties, KnownFacts
<1> HIDE DEF more
<1>4. trim(more) \in Seq(Of(steps))
  BY <1>3, TrimFacts
<1>5. Sampled(b, x) = [d EXCEPT !.samples = trim(more)]
  BY DEF Sampled, more
<1> HIDE DEF d
<1> QED BY <1>1, <1>4, <1>5 DEF Known, Counts

\* The streak that goes with a median that was judged v.
Longer(s, v) == [of |-> v, length |-> IF v = s.of THEN More(s.length) ELSE 1]

LEMMA CountedFacts ==
    ASSUME Confirm \in Nat \ {0}, NEW n, NEW d \in Known(n), NEW s \in Streak, Counts(d, s), s.length <= Confirm,
           NEW t, t = Longer(s, Verdict(d.samples))
    PROVE  /\ Counted(d) \in Known(n) /\ Counted(d).seen = d.seen /\ Counted(d).alerting = d.alerting
           /\ t \in Streak /\ t.length <= Confirm /\ Counts(Counted(d), t)
<1> DEFINE v == Verdict(d.samples)
           over == IF v = "over" THEN More(d.over) ELSE 0
           under == IF v = "under" THEN More(d.under) ELSE 0
<1>1. v \in {"over", "under", "band"}
  BY DEF Verdict
<1>2. Counted(d) = [d EXCEPT !.over = over, !.under = under]
  BY DEF Counted
<1>3. t.of = v /\ t.length = IF v = s.of THEN More(s.length) ELSE 1
  BY DEF Longer
<1> HIDE DEF v
<1>4. s.of \in {"none", "over", "under", "band"} /\ s.length \in Nat /\ d.over \in Nat /\ d.under \in Nat
  BY DEF Streak, Known
<1>5. t.length \in Nat /\ t.length <= Confirm
  BY <1>3, <1>4 DEF More
<1>6. t \in Streak
  <2>1. t = [of |-> v, length |-> t.length]
    BY DEF Longer, v
  <2> QED BY <1>1, <1>5, <2>1 DEF Streak
<1>7. over \in Nat /\ under \in Nat
  BY <1>4 DEF More
<1>8. over > 0 => t.of = "over" /\ over <= t.length
  BY <1>3, <1>4 DEF More, Counts
<1>9. under > 0 => t.of = "under" /\ under <= t.length
  BY <1>3, <1>4 DEF More, Counts
<1> HIDE DEF over, under
<1>10. /\ Counted(d) \in Known(n) /\ Counted(d).seen = d.seen /\ Counted(d).alerting = d.alerting
       /\ Counted(d).over = over /\ Counted(d).under = under
  BY <1>2, <1>7 DEF Known
<1> QED BY <1>5, <1>6, <1>8, <1>9, <1>10 DEF Counts

\* An alarm that changes is announced, as what it changes to.
Announced(b, d) ==
    \/ Raised(b, d) = <<>> /\ Judged(d).alerting = d.alerting
    \/ \E e \in Event : Raised(b, d) = <<e>> /\ e.of = b /\ e.entering = Judged(d).alerting

\* What is judged, and the event it raises.
LEMMA JudgedFacts ==
    ASSUME mono \in Nat, NEW n, NEW d \in Known(n), NEW b \in Box
    PROVE  /\ Judged(d) \in Known(n) /\ Judged(d).seen = d.seen
           /\ Judged(d).over = d.over /\ Judged(d).under = d.under
           /\ Judged(d).alerting # d.alerting =>
                 IF Judged(d).alerting THEN d.over >= Confirm ELSE d.under >= Confirm
           /\ Announced(b, d)
<1>1. CASE Entering(d)
  <2>1. Judged(d) = [d EXCEPT !.alerting = TRUE, !.notified = mono]
    BY <1>1 DEF Judged
  <2>2. Raised(b, d) = <<[of |-> b, entering |-> TRUE, repeat |-> FALSE]>>
    BY <1>1 DEF Raised
  <2>3. [of |-> b, entering |-> TRUE, repeat |-> FALSE] \in Event
    BY DEF Event
  <2>4. ~d.alerting /\ d.over >= Confirm
    BY <1>1 DEF Entering
  <2>5. /\ Judged(d) \in Known(n) /\ Judged(d).seen = d.seen /\ Judged(d).over = d.over /\ Judged(d).under = d.under
        /\ Judged(d).alerting = TRUE
    <3> DEFINE e == [d EXCEPT !.alerting = TRUE]
    <3>1. e \in Known(n) /\ e.seen = d.seen /\ e.over = d.over /\ e.under = d.under /\ e.alerting = TRUE
      BY DEF Known
    <3>2. Judged(d) = [e EXCEPT !.notified = mono]
      BY <2>1
    <3> HIDE DEF e
    <3> QED BY <3>1, <3>2 DEF Known
  <2> QED BY <2>2, <2>3, <2>4, <2>5 DEF Announced
<1>2. CASE ~Entering(d) /\ Leaving(d)
  <2>1. Judged(d) = [d EXCEPT !.alerting = FALSE]
    BY <1>2 DEF Judged
  <2>2. Raised(b, d) = <<[of |-> b, entering |-> FALSE, repeat |-> FALSE]>>
    BY <1>2 DEF Raised
  <2>3. [of |-> b, entering |-> FALSE, repeat |-> FALSE] \in Event
    BY DEF Event
  <2>4. d.alerting /\ d.under >= Confirm
    BY <1>2 DEF Leaving
  <2>5. /\ Judged(d) \in Known(n) /\ Judged(d).seen = d.seen /\ Judged(d).over = d.over /\ Judged(d).under = d.under
        /\ Judged(d).alerting = FALSE
    BY <2>1 DEF Known
  <2> QED BY <2>2, <2>3, <2>4, <2>5 DEF Announced
<1>3. CASE ~Entering(d) /\ ~Leaving(d) /\ Reminding(d)
  <2>1. Judged(d) = [d EXCEPT !.notified = mono]
    BY <1>3 DEF Judged
  <2>2. Raised(b, d) = <<[of |-> b, entering |-> TRUE, repeat |-> TRUE]>>
    BY <1>3 DEF Raised
  <2>3. [of |-> b, entering |-> TRUE, repeat |-> TRUE] \in Event
    BY DEF Event
  <2>4. d.alerting = TRUE
    BY <1>3 DEF Reminding, Known
  <2>5. /\ Judged(d) \in Known(n) /\ Judged(d).seen = d.seen /\ Judged(d).over = d.over /\ Judged(d).under = d.under
        /\ Judged(d).alerting = d.alerting
    BY <2>1 DEF Known
  <2> QED BY <2>2, <2>3, <2>4, <2>5 DEF Announced
<1>4. CASE ~Entering(d) /\ ~Leaving(d) /\ ~Reminding(d)
  BY <1>4 DEF Judged, Raised, Announced
<1> QED BY <1>1, <1>2, <1>3, <1>4

\* All of an advertisement that could be read.
Verdicted(b, x) == Counted(Sampled(b, x))

LEMMA VerdictedFacts ==
    ASSUME RegInv, Confirm \in Nat \ {0}, NEW b \in Box, NEW x \in Reading,
           NEW t, t = Longer(Streaks[b], Verdict(Sampled(b, x).samples)),
           NEW d, d = Verdicted(b, x)
    PROVE  /\ Judged(d) \in Known(steps) /\ Judged(d).seen = mono
           /\ t \in Streak /\ t.length <= Confirm /\ Counts(Judged(d), t)
           /\ Announced(b, d)
           /\ d.alerting = (IF b \in DOMAIN devices THEN devices[b].alerting ELSE FALSE)
           /\ Judged(d).alerting # d.alerting =>
                 t.of = (IF Judged(d).alerting THEN "over" ELSE "under") /\ t.length = Confirm
<1> DEFINE s == Sampled(b, x)
<1>1. /\ s \in Known(steps) /\ s.seen = mono /\ Counts(s, Streaks[b])
      /\ s.alerting = (IF b \in DOMAIN devices THEN devices[b].alerting ELSE FALSE)
  BY SampledFacts
<1>2. Streaks[b] \in Streak /\ Streaks[b].length <= Confirm
  BY AfterStepFacts
<1> HIDE DEF s
<1>3. /\ Counted(s) \in Known(steps) /\ Counted(s).seen = s.seen /\ Counted(s).alerting = s.alerting
      /\ t \in Streak /\ t.length <= Confirm /\ Counts(Counted(s), t)
  <2>1. t = Longer(Streaks[b], Verdict(s.samples))
    BY DEF s
  <2> QED BY <1>1, <1>2, <2>1, CountedFacts
<1>4. d = Counted(s)
  BY DEF Verdicted, s
<1>5. mono \in Nat
  BY DEF RegInv, RegType
<1>6. d \in Known(steps) /\ Counts(d, t) /\ d.over \in Nat /\ d.under \in Nat
  BY <1>3, <1>4, KnownFacts
<1>7. /\ Judged(d) \in Known(steps) /\ Judged(d).seen = d.seen
      /\ Judged(d).over = d.over /\ Judged(d).under = d.under
      /\ Judged(d).alerting # d.alerting =>
            IF Judged(d).alerting THEN d.over >= Confirm ELSE d.under >= Confirm
      /\ Announced(b, d)
  BY <1>5, <1>6, JudgedFacts
<1>8. t.length \in Nat
  BY <1>3 DEF Streak
<1>9. Counts(Judged(d), t)
  BY <1>6, <1>7 DEF Counts
<1>10. ASSUME Judged(d).alerting # d.alerting
       PROVE  t.of = (IF Judged(d).alerting THEN "over" ELSE "under") /\ t.length = Confirm
  <2>1. CASE Judged(d).alerting
    <3>1. d.over >= Confirm
      BY <1>7, <1>10, <2>1
    <3>2. d.over > 0
      BY <1>6, <3>1
    <3>3. t.of = "over" /\ d.over <= t.length
      BY <1>6, <3>2 DEF Counts
    <3>4. t.length = Confirm
      BY <1>3, <1>6, <1>8, <3>1, <3>3
    <3> QED BY <2>1, <3>3, <3>4
  <2>2. CASE ~Judged(d).alerting
    <3>1. d.under >= Confirm
      BY <1>7, <1>10, <2>2
    <3>2. d.under > 0
      BY <1>6, <3>1
    <3>3. t.of = "under" /\ d.under <= t.length
      BY <1>6, <3>2 DEF Counts
    <3>4. t.length = Confirm
      BY <1>3, <1>6, <1>8, <3>1, <3>3
    <3> QED BY <2>2, <3>3, <3>4
  <2> QED BY <2>1, <2>2
<1>11. d.seen = mono /\ d.alerting = (IF b \in DOMAIN devices THEN devices[b].alerting ELSE FALSE)
  BY <1>1, <1>3, <1>4
<1> QED BY <1>3, <1>7, <1>9, <1>10, <1>11


\* An event of a box appended to those that wait.
LEMMA AppendedEvents ==
    ASSUME events \in Seq(Event), NEW e \in Event, events' = Append(events, e)
    PROVE  /\ events' \in Seq(Event) /\ Len(events) + 1 \in DOMAIN events' /\ events'[Len(events) + 1] = e
           /\ DOMAIN events' = DOMAIN events \cup {Len(events) + 1}
           /\ \A i \in DOMAIN events : events'[i] = events[i] /\ i \in DOMAIN events' /\ i <= Len(events)
           /\ \A i \in DOMAIN events' : i \in Nat /\ i <= Len(events) + 1
<1>1. Len(events) \in Nat /\ DOMAIN events = 1..Len(events)
  BY LenProperties
<1> DEFINE a == Append(events, e)
<1>2. /\ a \in Seq(Event) /\ Len(a) = Len(events) + 1 /\ a[Len(events) + 1] = e
      /\ \A i \in 1..Len(events) : a[i] = events[i]
  BY AppendProperties
<1> HIDE DEF a
<1>3. DOMAIN a = 1..(Len(events) + 1)
  BY <1>2, LenProperties
<1> QED BY <1>1, <1>2, <1>3 DEF a

LEMMA ObserveUnread ==
    ASSUME RegInv, Confirm \in Nat \ {0}, NEW b \in Box, observe(b, <<>>)
    PROVE  RegInv' /\ \A c \in DOMAIN devices : devices'[c].alerting = devices[c].alerting
<1> DEFINE K == AfterStep(b)
           h == Noticed(b)
<1>1. /\ devices' = [x \in DOMAIN K \cup {b} |-> IF x = b THEN h ELSE K[x]]
      /\ last' = steps /\ streak' = Streaks /\ UNCHANGED <<events, told, mono, steps, camera, returns>>
  BY DEF observe, Noticed
<1>2. /\ DOMAIN K = DOMAIN devices /\ K \in [DOMAIN devices -> Known(steps)]
      /\ \A c \in DOMAIN devices : K[c].alerting = devices[c].alerting /\ K[c].seen = devices[c].seen
                                   /\ Counts(K[c], Streaks[c])
      /\ Streaks \in [Box -> Streak] /\ \A c \in Box : Streaks[c].length <= Confirm
  BY AfterStepFacts
<1>3. /\ h \in Known(steps) /\ h.seen = mono /\ Counts(h, Streaks[b])
      /\ h.alerting = (IF b \in DOMAIN devices THEN devices[b].alerting ELSE FALSE)
  BY NoticedFacts
<1> HIDE DEF K, h
<1>4. /\ DOMAIN devices' = DOMAIN devices \cup {b} /\ devices' \in [DOMAIN devices' -> Known(steps)]
      /\ \A c \in DOMAIN devices' : /\ Counts(devices'[c], Streaks[c])
                                    /\ devices'[c].alerting = (IF c \in DOMAIN devices THEN devices[c].alerting ELSE FALSE)
                                    /\ devices'[c].seen = (IF c = b THEN mono ELSE devices[c].seen)
  BY <1>1, <1>2, <1>3
<1>5. RegType'
  BY <1>1, <1>2, <1>4 DEF RegInv, RegType
<1>6. Earned'
  BY <1>1, <1>2, <1>4 DEF Earned
<1>7. Pending'
  BY <1>1, <1>4 DEF RegInv, Pending
<1>8. WillBeTold'
  <2>1. Believed' = Believed
    BY <1>1 DEF Believed
  <2>2. Alerting' = Alerting
    BY <1>4 DEF Alerting
  <2> QED BY <2>1, <2>2 DEF RegInv, WillBeTold
<1>9. AbsentIsSilent' /\ PowerCyclesAreCounted'
  BY <1>1 DEF RegInv, AbsentIsSilent, PowerCyclesAreCounted
<1> QED BY <1>4, <1>5, <1>6, <1>7, <1>8, <1>9 DEF RegInv

\* The boxes that are forgotten have nothing waiting.
LEMMA ObserveRead ==
    ASSUME RegInv, Confirm \in Nat \ {0}, NEW b \in Box, NEW r, r # <<>>, r[1] \in Reading, observe(b, r)
    PROVE  /\ RegInv'
           /\ \A c \in DOMAIN devices \cap DOMAIN devices' :
                 devices'[c].alerting # devices[c].alerting =>
                     streak'[c] = [of |-> IF devices'[c].alerting THEN "over" ELSE "under", length |-> Confirm]
<1> DEFINE x == r[1]
           K == AfterStep(b)
           d == Verdicted(b, x)
           t == Longer(Streaks[b], Verdict(Sampled(b, x).samples))
           all == [c \in DOMAIN K \cup {b} |-> IF c = b THEN Judged(d) ELSE K[c]]
           gone == Gone(all, b)
<1>1. /\ devices' = [c \in DOMAIN all \ gone |-> all[c]] /\ events' = events \o Raised(b, d)
      /\ told' = told \ gone /\ last' = steps /\ streak' = [Streaks EXCEPT ![b] = t]
      /\ UNCHANGED <<mono, steps, camera, returns>>
  <2>2. last' = steps /\ UNCHANGED <<mono, steps, camera, returns>>
    BY DEF observe
  <2>3. devices' = [c \in DOMAIN all \ gone |-> all[c]] /\ events' = events \o Raised(b, d) /\ told' = told \ gone
    BY Zenon DEF observe, Noticed, Sampled, Verdicted
  <2>4. streak' = [Streaks EXCEPT ![b] = t]
    BY Zenon DEF observe, Noticed, Sampled, Longer
  <2> QED BY <2>2, <2>3, <2>4
<1>2. /\ DOMAIN K = DOMAIN devices /\ K \in [DOMAIN devices -> Known(steps)]
      /\ \A c \in DOMAIN devices : K[c].alerting = devices[c].alerting /\ K[c].seen = devices[c].seen
                                   /\ Counts(K[c], Streaks[c])
      /\ Streaks \in [Box -> Streak] /\ \A c \in Box : Streaks[c].length <= Confirm
  BY AfterStepFacts
<1>3. /\ Judged(d) \in Known(steps) /\ Judged(d).seen = mono
      /\ t \in Streak /\ t.length <= Confirm /\ Counts(Judged(d), t)
      /\ Announced(b, d)
      /\ d.alerting = (IF b \in DOMAIN devices THEN devices[b].alerting ELSE FALSE)
      /\ Judged(d).alerting # d.alerting =>
            t.of = (IF Judged(d).alerting THEN "over" ELSE "under") /\ t.length = Confirm
  <2>1. t = Longer(Streaks[b], Verdict(Sampled(b, x).samples)) /\ d = Verdicted(b, x) /\ x \in Reading
    OBVIOUS
  <2> HIDE DEF x, d, t
  <2> QED BY <2>1, VerdictedFacts, Zenon
<1> HIDE DEF x, K, d, t
<1>4. /\ DOMAIN all = DOMAIN devices \cup {b} /\ all[b] = Judged(d)
      /\ \A c \in DOMAIN devices : c # b => all[c] = K[c]
  BY <1>2
<1> HIDE DEF all
<1>5. gone \subseteq DOMAIN devices /\ b \notin gone /\ \A c \in gone : devices[c].seen # mono
  <2>1. \A c \in gone : /\ c \in DOMAIN all /\ c # b /\ ForgetAfter > 0 /\ mono - all[c].seen > ForgetAfter
    BY DEF Gone
  <2>2. \A c \in gone : c \in DOMAIN devices /\ all[c].seen = devices[c].seen
    BY <1>2, <1>4, <2>1
  <2>3. mono \in Nat /\ ForgetAfter \in Int
    BY RegistryAssumption DEF RegInv, RegType
  <2>4. \A c \in gone : mono - devices[c].seen > ForgetAfter /\ ForgetAfter > 0
    BY <2>1, <2>2
  <2>5. \A c \in gone : devices[c].seen # mono
    BY <2>3, <2>4
  <2> QED BY <2>1, <2>2, <2>5
<1> HIDE DEF gone
<1>6. b \in DOMAIN devices' /\ DOMAIN devices' = (DOMAIN devices \cup {b}) \ gone
      /\ devices'[b] = Judged(d) /\ \A c \in DOMAIN devices' : c # b => c \in DOMAIN devices /\ devices'[c] = K[c]
  BY <1>1, <1>4, <1>5
<1>7. /\ \A c \in DOMAIN devices' : /\ devices'[c] \in Known(steps)
                                    /\ Counts(devices'[c], streak'[c])
      /\ streak' \in [Box -> Streak] /\ streak'[b] = t /\ \A c \in Box : streak'[c].length <= Confirm
  <2>1. /\ streak' \in [Box -> Streak] /\ streak'[b] = t
        /\ \A c \in Box : c # b => streak'[c] = Streaks[c]
    BY <1>1, <1>2, <1>3
  <2>2. DOMAIN devices \subseteq Box
    BY DEF RegInv, RegType
  <2>3. \A c \in Box : streak'[c].length <= Confirm
    BY <1>2, <1>3, <2>1
  <2>4. \A c \in DOMAIN devices' : c # b => devices'[c] \in Known(steps) /\ Counts(devices'[c], streak'[c])
    BY <1>2, <1>6, <2>1, <2>2
  <2> QED BY <1>3, <1>6, <2>1, <2>3, <2>4
<1>8. Earned'
  BY <1>7 DEF Earned
<1>9. \A c \in DOMAIN devices' : c # b => /\ devices'[c].alerting = devices[c].alerting
                                          /\ devices'[c].seen = devices[c].seen
  BY <1>2, <1>6
<1>10. \A c \in DOMAIN devices \cap DOMAIN devices' :
          devices'[c].alerting # devices[c].alerting =>
              streak'[c] = [of |-> IF devices'[c].alerting THEN "over" ELSE "under", length |-> Confirm]
  <2> SUFFICES ASSUME NEW c \in DOMAIN devices \cap DOMAIN devices', devices'[c].alerting # devices[c].alerting
               PROVE  streak'[c] = [of |-> IF devices'[c].alerting THEN "over" ELSE "under", length |-> Confirm]
    OBVIOUS
  <2>1. c = b
    BY <1>9
  <2>2. t.of = (IF devices'[b].alerting THEN "over" ELSE "under") /\ t.length = Confirm
    BY <1>3, <1>6, <2>1
  <2>3. t = [of |-> t.of, length |-> t.length]
    BY <1>3 DEF Streak
  <2> QED BY <1>7, <2>1, <2>2, <2>3
<1>11. RegType /\ Pending /\ WillBeTold /\ events \in Seq(Event) /\ told \subseteq Box /\ DOMAIN devices \subseteq Box
  BY DEF RegInv, RegType
<1>12. ~(b \in DOMAIN devices) => b \notin Believed
  BY <1>11 DEF WillBeTold, Alerting
<1>13. \A c \in gone : c \notin told' /\ \A i \in DOMAIN events : events[i].of # c
  BY <1>1, <1>5, <1>11 DEF Pending
<1>14. events' \in Seq(Event) /\ Pending' /\ WillBeTold'
  <2>1. CASE Raised(b, d) = <<>> /\ Judged(d).alerting = d.alerting
    <3>1. events' = events
      BY <1>1, <1>11, <2>1, ConcatEmptySeq
    <3>2. Pending'
      BY <1>1, <1>3, <1>6, <1>9, <1>11, <1>13, <3>1 DEF Pending
    <3>3. Believed' = Believed \ gone
      BY <1>1, <1>13, <3>1 DEF Believed
    <3>4. Alerting' = Alerting \ gone
      <4>1. \A c : c # b => (c \in Alerting' <=> c \in Alerting /\ c \notin gone)
        BY <1>5, <1>6, <1>9 DEF Alerting
      <4>2. b \in Alerting' <=> b \in Alerting
        BY <1>3, <1>6, <2>1 DEF Alerting
      <4> QED BY <1>5, <4>1, <4>2
    <3> QED BY <1>11, <3>1, <3>2, <3>3, <3>4 DEF WillBeTold
  <2>2. ASSUME NEW e \in Event, Raised(b, d) = <<e>>, e.of = b, e.entering = Judged(d).alerting
        PROVE  events' \in Seq(Event) /\ Pending' /\ WillBeTold'
    <3>1. events' = Append(events, e)
      BY <1>1, <1>11, <2>2, AppendIsConcat
    <3> DEFINE n == Len(events) + 1
    <3>2. /\ events' \in Seq(Event) /\ n \in DOMAIN events' /\ events'[n] = e
          /\ DOMAIN events' = DOMAIN events \cup {n}
          /\ \A i \in DOMAIN events : events'[i] = events[i] /\ i \in DOMAIN events' /\ i <= Len(events)
          /\ \A i \in DOMAIN events' : i \in Nat /\ i <= n
      BY <1>11, <3>1, AppendedEvents
    <3> HIDE DEF n
    <3>3. Pending'
      <4>1. devices'[b].seen = mono /\ mono' = mono
        BY <1>1, <1>3, <1>6
      <4>2. ASSUME NEW i \in DOMAIN events
            PROVE  events'[i].of \in DOMAIN devices' /\ devices'[events'[i].of].seen = mono
        <5>1. events'[i] = events[i] /\ events[i].of \in DOMAIN devices /\ devices[events[i].of].seen = mono
              /\ events[i].of \notin gone
          BY <1>11, <1>13, <3>2 DEF Pending
        <5> QED BY <1>6, <1>9, <4>1, <5>1
      <4>3. events'[n].of \in DOMAIN devices' /\ devices'[events'[n].of].seen = mono
        BY <1>6, <2>2, <3>2, <4>1
      <4> QED BY <3>2, <4>1, <4>2, <4>3 DEF Pending
    <3>4. b \in Believed' <=> Judged(d).alerting
      BY <2>2, <3>2 DEF Believed
    <3>5. \A c \in Box : c # b => (c \in Believed' <=> c \in Believed /\ c \notin gone)
      <4> SUFFICES ASSUME NEW c \in Box, c # b PROVE c \in Believed' <=> c \in Believed /\ c \notin gone
        OBVIOUS
      <4>1. c \in told' <=> c \in told /\ c \notin gone
        BY <1>1
      <4>2. events'[n].of # c /\ \A i \in DOMAIN events' : i # n => i \in DOMAIN events /\ events'[i] = events[i]
        BY <2>2, <3>2
      <4>3. \A i \in DOMAIN events : i \in DOMAIN events' /\ events'[i] = events[i]
        BY <3>2
      <4>4. (\A i \in DOMAIN events' : events'[i].of # c) <=> (\A i \in DOMAIN events : events[i].of # c)
        BY <4>2, <4>3
      <4>5. (\E i \in DOMAIN events' : /\ events'[i].of = c /\ events'[i].entering
                                       /\ \A j \in DOMAIN events' : events'[j].of = c => j <= i)
              <=> (\E i \in DOMAIN events : /\ events[i].of = c /\ events[i].entering
                                            /\ \A j \in DOMAIN events : events[j].of = c => j <= i)
        BY <4>2, <4>3
      <4>6. c \in gone => \A i \in DOMAIN events : events[i].of # c
        BY <1>13
      <4> QED BY <4>1, <4>4, <4>5, <4>6 DEF Believed
    <3>6. \A c \in Box : c # b => (c \in Alerting' <=> c \in Alerting /\ c \notin gone)
      BY <1>5, <1>6, <1>9, <1>11 DEF Alerting
    <3>7. b \in Alerting' <=> Judged(d).alerting
      BY <1>6 DEF Alerting
    <3>8. Believed' \subseteq Box /\ Alerting' \subseteq Box
      BY <1>6, <1>11 DEF Believed, Alerting
    <3>9. \A c \in Box : c \in Believed' <=> c \in Alerting'
      BY <1>11, <3>4, <3>5, <3>6, <3>7 DEF WillBeTold
    <3> QED BY <3>2, <3>3, <3>8, <3>9 DEF WillBeTold
  <2> QED BY <1>3, <2>1, <2>2 DEF Announced
<1>15. RegType'
  <2>1. devices' \in [DOMAIN devices' -> Known(steps)]
    BY <1>1, <1>7
  <2> QED BY <1>1, <1>6, <1>7, <1>11, <1>14, <2>1 DEF RegType
<1>16. AbsentIsSilent' /\ PowerCyclesAreCounted'
  BY <1>1 DEF RegInv, AbsentIsSilent, PowerCyclesAreCounted
<1> QED BY <1>8, <1>10, <1>14, <1>15, <1>16 DEF RegInv

\* A step that raises nothing and judges nothing.
LEMMA Unjudged ==
    ASSUME RegInv, RegType', Earned', AbsentIsSilent', PowerCyclesAreCounted', events' = <<>>,
           told' = Alerting'
    PROVE  RegInv'
<1>1. DOMAIN events' = {}
  <2>1. <<>> \in Seq(Event) /\ Len(<<>>) = 0
    BY EmptySeq
  <2>2. DOMAIN <<>> = 1..0
    BY <2>1, LenProperties
  <2> QED BY <2>2
<1>2. Pending'
  BY <1>1 DEF Pending
<1>3. Believed' = {b \in Box : b \in told'}
  BY <1>1 DEF Believed
<1>4. told' \subseteq Box
  BY DEF RegType
<1> QED BY <1>2, <1>3, <1>4 DEF RegInv, WillBeTold

\* While nothing waits the listener is up to date.
LEMMA NothingWaits == ASSUME RegInv, events = <<>> PROVE told = Alerting
<1>1. DOMAIN events = {}
  <2>1. <<>> \in Seq(Event) /\ Len(<<>>) = 0
    BY EmptySeq
  <2>2. DOMAIN <<>> = 1..0
    BY <2>1, LenProperties
  <2> QED BY <2>2
<1>2. Believed = {b \in Box : b \in told} /\ told \subseteq Box
  BY <1>1 DEF Believed, RegInv, RegType
<1> QED BY <1>2 DEF RegInv, WillBeTold

LEMMA TakeInv == ASSUME RegInv, take_events PROVE RegInv' /\ UNCHANGED devices
<1>1. events' = <<>> /\ told' = Believed /\ UNCHANGED <<mono, steps, devices, last, camera, streak, returns>>
  BY DEF take_events
<1>2. <<>> \in Seq(Event)
  BY EmptySeq
<1>3. Believed \subseteq Box
  BY DEF Believed
<1>4. RegType'
  BY <1>1, <1>2, <1>3 DEF RegInv, RegType
<1>5. Earned' /\ AbsentIsSilent' /\ PowerCyclesAreCounted'
  BY <1>1 DEF RegInv, Earned, AbsentIsSilent, PowerCyclesAreCounted
<1>6. told' = Alerting'
  BY <1>1 DEF RegInv, WillBeTold, Alerting
<1> QED BY <1>1, <1>4, <1>5, <1>6, Unjudged

LEMMA ForgetInv ==
    ASSUME RegInv, Confirm \in Nat, NEW x, forget(x)
    PROVE  RegInv' /\ \A b \in DOMAIN devices \cap DOMAIN devices' : devices'[b] = devices[b]
<1>1. /\ events = <<>> /\ devices' = [b \in DOMAIN devices \ {x} |-> devices[b]] /\ told' = told \ {x}
      /\ camera' = (IF camera.id = x THEN NoCamera ELSE camera)
      /\ returns' = (IF camera.id = x THEN 0 ELSE returns)
      /\ streak' = (IF x \in Box THEN [streak EXCEPT ![x] = [of |-> "none", length |-> 0]] ELSE streak)
      /\ UNCHANGED <<mono, steps, last, events>>
  BY DEF forget
<1>2. /\ DOMAIN devices' = DOMAIN devices \ {x} /\ \A b \in DOMAIN devices' : devices'[b] = devices[b]
  BY <1>1
<1>3. [of |-> "none", length |-> 0] \in Streak /\ [of |-> "none", length |-> 0].length = 0
  BY DEF Streak
<1>4. /\ streak' \in [Box -> Streak] /\ \A b \in Box : b # x => streak'[b] = streak[b]
      /\ \A b \in Box : streak'[b].length <= Confirm
  BY <1>1, <1>3 DEF RegInv, RegType, Earned
<1>5. NoCamera \in [id : Camera \cup {"none"}, present : BOOLEAN, seen : Int, sessions : Nat]
      /\ NoCamera.id = "none" /\ ~NoCamera.present /\ NoCamera.sessions = 0
  BY DEF NoCamera
<1>6. RegType'
  <2>1. devices' \in [DOMAIN devices' -> Known(last)] /\ DOMAIN devices' \subseteq Box
    BY <1>1, <1>2 DEF RegInv, RegType
  <2>2. camera' \in [id : Camera \cup {"none"}, present : BOOLEAN, seen : Int, sessions : Nat] /\ returns' \in Nat
    BY <1>1, <1>5 DEF RegInv, RegType
  <2> QED BY <1>1, <1>4, <2>1, <2>2 DEF RegInv, RegType
<1>7. Earned'
  BY <1>2, <1>4 DEF RegInv, RegType, Earned
<1>8. AbsentIsSilent' /\ PowerCyclesAreCounted'
  BY <1>1, <1>5 DEF RegInv, AbsentIsSilent, PowerCyclesAreCounted
<1>9. told' = Alerting'
  BY <1>1, <1>2, NothingWaits DEF Alerting
<1> QED BY <1>1, <1>2, <1>6, <1>7, <1>8, <1>9, Unjudged

\* The camera: silence is noticed by whoever asks first, or by the camera itself
\* coming back.
LEMMA CameraInv ==
    ASSUME RegInv, snapshot \/ \E k \in Camera : observe_camera(k)
    PROVE  RegInv' /\ UNCHANGED devices
<1>1. UNCHANGED <<mono, steps, devices, last, events, told, streak>>
  BY DEF snapshot, observe_camera
<1> DEFINE C == [id : Camera \cup {"none"}, present : BOOLEAN, seen : Int, sessions : Nat]
<1>2. /\ camera \in C /\ returns \in Nat /\ mono \in Nat
      /\ camera.id = "none" => ~camera.present
      /\ camera.id # "none" /\ ~camera.present => mono - camera.seen > GoneAfter
      /\ camera.sessions = returns
  BY DEF RegInv, RegType, AbsentIsSilent, PowerCyclesAreCounted
<1> DEFINE long == mono - camera.seen > GoneAfter
           aged == age_camera(camera)
<1>3. /\ aged \in C /\ aged.id = camera.id /\ aged.seen = camera.seen /\ aged.sessions = camera.sessions
      /\ aged.present = (IF long THEN FALSE ELSE camera.present)
  BY <1>2 DEF age_camera
<1>4. camera' \in C /\ returns' \in Nat /\ AbsentIsSilent' /\ PowerCyclesAreCounted'
  <2>1. CASE snapshot
    <3>1. camera' = aged /\ returns' = returns
      BY <2>1 DEF snapshot
    <3> HIDE DEF aged
    <3> QED BY <1>1, <1>2, <1>3, <3>1 DEF AbsentIsSilent, PowerCyclesAreCounted
  <2>2. ASSUME NEW k \in Camera, observe_camera(k)
        PROVE  camera' \in C /\ returns' \in Nat /\ AbsentIsSilent' /\ PowerCyclesAreCounted'
    <3> DEFINE more == camera.id = "none" \/ (camera.id = k /\ long)
    <3>1. returns' = (IF more THEN returns + 1 ELSE returns)
      BY <2>2 DEF observe_camera
    <3>2. CASE camera.id \in {"none", k}
      <4>1. camera' = [aged EXCEPT !.id = k, !.seen = mono, !.present = TRUE,
                                   !.sessions = IF aged.present THEN @ ELSE @ + 1]
        BY <2>2, <3>2 DEF observe_camera, Sighted
      <4>2. aged.present <=> ~more
        BY <1>2, <1>3, <3>2
      <4> HIDE DEF aged, more
      <4>3. /\ camera' \in C /\ camera'.id = k /\ camera'.present
            /\ camera'.sessions = (IF more THEN camera.sessions + 1 ELSE camera.sessions)
        <5> DEFINE n == IF aged.present THEN aged.sessions ELSE aged.sessions + 1
        <5>1. n \in Nat /\ n = IF more THEN camera.sessions + 1 ELSE camera.sessions
          BY <1>2, <1>3, <4>2
        <5>2. camera' = [aged EXCEPT !.id = k, !.seen = mono, !.present = TRUE, !.sessions = n]
          BY <4>1
        <5> HIDE DEF n
        <5>3. camera' = [id |-> k, present |-> TRUE, seen |-> mono, sessions |-> n]
          BY <1>3, <5>2
        <5> QED BY <1>2, <5>1, <5>3
      <4> QED BY <1>2, <3>1, <4>3, RegistryAssumption DEF AbsentIsSilent, PowerCyclesAreCounted
    <3>3. CASE camera.id \notin {"none", k}
      <4>1. camera' = camera /\ returns' = returns
        BY <2>2, <3>3 DEF observe_camera
      <4> QED BY <1>1, <1>2, <4>1 DEF AbsentIsSilent, PowerCyclesAreCounted
    <3> QED BY <3>2, <3>3
  <2> QED BY <2>1, <2>2
<1>5. RegType'
  BY <1>1, <1>4 DEF RegInv, RegType
<1>6. Earned' /\ Pending'
  BY <1>1 DEF RegInv, Earned, Pending
<1>7. WillBeTold'
  BY <1>1 DEF RegInv, WillBeTold, Believed, Alerting
<1> QED BY <1>1, <1>4, <1>5, <1>6, <1>7 DEF RegInv

LEMMA TimeInv == ASSUME RegInv, Pass \/ SetClock PROVE RegInv' /\ UNCHANGED devices
<1>1. UNCHANGED <<devices, last, events, camera, told, streak, returns>>
  BY DEF Pass, SetClock
<1>2. mono' \in Nat /\ steps' \in Nat /\ (mono' = mono \/ (mono' = mono + 1 /\ events = <<>>))
  BY DEF Pass, SetClock, RegInv, RegType
<1>3. RegType'
  BY <1>1, <1>2 DEF RegInv, RegType
<1>4. Earned' /\ PowerCyclesAreCounted'
  BY <1>1 DEF RegInv, Earned, PowerCyclesAreCounted
<1>5. AbsentIsSilent'
  <2>1. mono \in Nat /\ camera.seen \in Int /\ GoneAfter \in Int
    BY RegistryAssumption DEF RegInv, RegType
  <2>2. mono - camera.seen > GoneAfter => mono' - camera.seen > GoneAfter
    BY <1>2, <2>1
  <2> QED BY <1>1, <2>2 DEF RegInv, AbsentIsSilent
<1>6. CASE mono' = mono
  BY <1>1, <1>3, <1>4, <1>5, <1>6 DEF RegInv, Pending, WillBeTold, Believed, Alerting
<1>7. CASE events = <<>>
  <2>1. told' = Alerting' /\ events' = <<>>
    BY <1>1, <1>7, NothingWaits DEF Alerting
  <2> QED BY <1>1, <1>3, <1>4, <1>5, <2>1, Unjudged
<1> QED BY <1>1, <1>2, <1>6, <1>7

\* An alarm that changed was earned.
Deserved ==
    \A b \in DOMAIN devices \cap DOMAIN devices' :
        devices'[b].alerting # devices[b].alerting =>
            streak'[b] = [of |-> IF devices'[b].alerting THEN "over" ELSE "under", length |-> Confirm]

LEMMA RegStep ==
    ASSUME RegInv, Confirm \in Nat \ {0}, BoxesNext \/ CameraNext
    PROVE  RegInv' /\ Deserved
<1>1. ASSUME NEW b \in Box, NEW r \in {<<>>} \cup {<<x>> : x \in Reading}, observe(b, r)
      PROVE  RegInv' /\ Deserved
  <2>1. CASE r = <<>>
    BY <1>1, <2>1, ObserveUnread DEF Deserved
  <2>2. CASE r # <<>>
    <3>1. r[1] \in Reading
      BY <1>1, <2>2
    <3> QED BY <1>1, <2>2, <3>1, ObserveRead DEF Deserved
  <2> QED BY <2>1, <2>2
<1>2. CASE take_events
  BY <1>2, TakeInv DEF Deserved
<1>3. ASSUME NEW x, forget(x) PROVE RegInv' /\ Deserved
  BY <1>3, ForgetInv DEF Deserved
<1>4. CASE Pass \/ SetClock
  BY <1>4, TimeInv DEF Deserved
<1>5. CASE snapshot \/ \E k \in Camera : observe_camera(k)
  BY <1>5, CameraInv DEF Deserved
<1> QED BY <1>1, <1>2, <1>3, <1>4, <1>5 DEF BoxesNext, CameraNext

\* What the registry says of the bench, of its alarms and of its camera is the
\* case, however the clock is set, whatever goes silent and however many events
\* wait: nothing reaches across the moment the clock was set, an alarm changes
\* only after as many medians in a row as it takes, whoever takes the events
\* knows who is drifting, and every time the camera comes back is a session.
\* (With --confirm of one or more; with zero, the first median raises an alarm.)
THEOREM RegistryTellsTheTruth ==
    ASSUME Confirm \in Nat \ {0}
    PROVE  Spec => RegistryIsHonest
<1>1. Init => RegInv
  BY RegInitInv DEF Init
<1>2. RegInv /\ [Next]_vars => RegInv' /\ [Deserved]_registryVars
  <2> SUFFICES ASSUME RegInv, [Next]_vars PROVE RegInv' /\ [Deserved]_registryVars
    OBVIOUS
  <2>1. CASE BoxesNext \/ CameraNext
    BY <2>1, RegStep
  <2>2. CASE UNCHANGED registryVars
    BY <2>2 DEF registryVars, RegInv, RegType, Earned, Pending, WillBeTold, Believed, Alerting, AbsentIsSilent,
       PowerCyclesAreCounted
  <2> QED BY <2>1, <2>2 DEF Next, vars
<1>3. RegInv => OneClock
  <2> SUFFICES ASSUME RegInv PROVE OneClock
    OBVIOUS
  <2>1. ASSUME NEW b \in DOMAIN devices
        PROVE  \A i \in DOMAIN devices[b].samples : devices[b].samples[i].steps = last
    <3>1. devices[b].samples \in Seq(Of(last))
      BY KnownFacts DEF RegInv, RegType
    <3>2. \A i \in DOMAIN devices[b].samples : devices[b].samples[i] \in Of(last)
      BY <3>1, LenProperties, ElementOfSeq
    <3> QED BY <3>2 DEF Of
  <2> QED BY <2>1 DEF OneClock, Voting
<1>4. RegInv => AlarmsAreTold
  BY NothingWaits DEF AlarmsAreTold, Alerting
<1>5. RegInv => PowerCyclesAreCounted
  BY DEF RegInv
<1>6. Spec => [](OneClock /\ AlarmsAreTold /\ PowerCyclesAreCounted)
  BY <1>1, <1>2, <1>3, <1>4, <1>5, PTL DEF Spec
<1>7. Spec => [][Deserved]_registryVars
  BY <1>1, <1>2, PTL DEF Spec
<1>8. [][Deserved]_registryVars => AlarmsAreEarned
  BY PTL DEF Deserved, AlarmsAreEarned
<1> QED BY <1>6, <1>7, <1>8, PTL DEF RegistryIsHonest

-----------------------------------------------------------------------------
(* The hand-over between the radio's thread and the loop's.                *)

Number == Nat \ {0}

\* What was handed over and what waits, one after the other, only goes up and
\* ends with what was pushed last; and a queue that holds something has a byte in
\* the pipe, or a thread that is about to write one or to look.
Ascending(s) == \A i, j \in DOMAIN s : i < j => s[i] < s[j]
Below(s, t) == \A i \in DOMAIN s, j \in DOMAIN t : s[i] < t[j]
Upto(s, n) == \A i \in DOMAIN s : s[i] <= n
Has(s, n) == \E i \in DOMAIN s : s[i] = n

WakeIsOwed == queue # <<>> => pipe > 0 \/ pusher = "poke" \/ drainer = "swap"

BridgeInv ==
    /\ queue \in Seq(Number) /\ got \in Seq(Number)
    /\ pushed \in Nat /\ pipe \in Nat /\ signalled \in BOOLEAN /\ alive \in BOOLEAN
    /\ Ascending(got) /\ Ascending(queue) /\ Below(got, queue)
    /\ Upto(got, pushed) /\ Upto(queue, pushed)
    /\ alive /\ pushed > 0 => Has(got, pushed) \/ Has(queue, pushed)
    /\ queue # <<>> => signalled
    /\ signalled => pipe > 0 \/ pusher = "poke" \/ drainer = "swap"

\* A queue with something behind it.
LEMMA AppendAscends ==
    ASSUME NEW s \in Seq(Number), NEW n \in Nat, Ascending(s), Upto(s, n)
    PROVE  LET t == Append(s, n + 1)
           IN  t \in Seq(Number) /\ t # <<>> /\ Ascending(t) /\ Upto(t, n + 1) /\ Has(t, n + 1)
               /\ \A i \in DOMAIN t : t[i] = n + 1 \/ Has(s, t[i])
<1> DEFINE t == Append(s, n + 1)
<1>1. Len(s) \in Nat /\ DOMAIN s = 1..Len(s) /\ \A i \in DOMAIN s : s[i] \in Number
  BY LenProperties, ElementOfSeq
<1>2. n + 1 \in Number
  BY DEF Number
<1>3. /\ t \in Seq(Number) /\ Len(t) = Len(s) + 1 /\ t[Len(s) + 1] = n + 1
      /\ \A i \in 1..Len(s) : t[i] = s[i]
  BY <1>2, AppendProperties
<1> HIDE DEF t
<1>4. DOMAIN t = 1..(Len(s) + 1) /\ t # <<>>
  BY <1>3, LenProperties, EmptySeq
<1>5. \A i \in DOMAIN t : (i \in DOMAIN s /\ t[i] = s[i]) \/ (i = Len(s) + 1 /\ t[i] = n + 1)
  BY <1>1, <1>3, <1>4
<1>6. Ascending(t)
  <2> SUFFICES ASSUME NEW i \in DOMAIN t, NEW j \in DOMAIN t, i < j PROVE t[i] < t[j]
    BY DEF Ascending
  <2>1. i \in DOMAIN s /\ t[i] = s[i]
    BY <1>1, <1>4, <1>5
  <2>2. CASE j \in DOMAIN s /\ t[j] = s[j]
    BY <2>1, <2>2 DEF Ascending
  <2>3. CASE t[j] = n + 1
    BY <1>1, <2>1, <2>3 DEF Upto, Number
  <2> QED BY <1>5, <2>2, <2>3
<1>7. Upto(t, n + 1)
  BY <1>1, <1>5 DEF Upto, Number
<1>8. Has(t, n + 1)
  BY <1>1, <1>3, <1>4 DEF Has
<1>9. \A i \in DOMAIN t : t[i] = n + 1 \/ Has(s, t[i])
  BY <1>5 DEF Has
<1> QED BY <1>3, <1>4, <1>6, <1>7, <1>8, <1>9 DEF t

\* What is left when the oldest makes room.
LEMMA TailAscends ==
    ASSUME NEW s \in Seq(Number), NEW n \in Nat, s # <<>>, Ascending(s), Upto(s, n)
    PROVE  /\ Tail(s) \in Seq(Number) /\ Ascending(Tail(s)) /\ Upto(Tail(s), n)
           /\ \A i \in DOMAIN Tail(s) : Has(s, Tail(s)[i])
<1>1. Len(s) \in Nat \ {0} /\ DOMAIN s = 1..Len(s)
  BY LenProperties, EmptySeq
<1>2. /\ Tail(s) \in Seq(Number) /\ Len(Tail(s)) = Len(s) - 1
      /\ \A i \in 1..Len(Tail(s)) : Tail(s)[i] = s[i + 1]
  BY HeadTailProperties
<1>3. DOMAIN Tail(s) = 1..(Len(s) - 1)
  BY <1>2, LenProperties
<1>4. \A i \in DOMAIN Tail(s) : i + 1 \in DOMAIN s /\ Tail(s)[i] = s[i + 1] /\ i \in Nat
  BY <1>1, <1>2, <1>3
<1> QED BY <1>2, <1>4 DEF Ascending, Upto, Has

LEMMA PushInv == ASSUME BridgeInv, MaxQueued \in Nat \ {0}, push PROVE BridgeInv'
<1>1. UNCHANGED <<alive, pipe, drainer, got>> /\ pushed' = pushed + 1
  BY DEF push
<1>2. /\ queue \in Seq(Number) /\ got \in Seq(Number) /\ pushed \in Nat
      /\ Ascending(queue) /\ Ascending(got) /\ Below(got, queue) /\ Upto(got, pushed) /\ Upto(queue, pushed)
  BY DEF BridgeInv
<1>3. \A i \in DOMAIN got : got[i] \in Nat
  BY <1>2, LenProperties, ElementOfSeq DEF Number
<1>4. Upto(got, pushed + 1)
  BY <1>2, <1>3 DEF Upto
<1>5. CASE ~alive
  <2>1. UNCHANGED <<queue, signalled, pusher>>
    BY <1>5 DEF push
  <2>2. \A i \in DOMAIN queue : queue[i] \in Nat
    BY <1>2, LenProperties, ElementOfSeq DEF Number
  <2>3. Upto(queue, pushed + 1)
    BY <1>2, <2>2 DEF Upto
  <2> QED BY <1>1, <1>2, <1>4, <1>5, <2>1, <2>3 DEF BridgeInv
<1>6. CASE alive
  <2>1. queue' = Queued(pushed + 1) /\ signalled' = TRUE /\ pusher' = (IF signalled THEN "idle" ELSE "poke")
        /\ pusher = "idle"
    BY <1>6 DEF push
  <2>2. PICK s \in Seq(Number) : /\ queue' = Append(s, pushed + 1) /\ Ascending(s) /\ Upto(s, pushed)
                                 /\ \A i \in DOMAIN s : Has(queue, s[i])
    <3>1. CASE Len(queue) >= MaxQueued
      <4>1. queue # <<>>
        BY <3>1, EmptySeq
      <4> QED BY <1>2, <2>1, <3>1, <4>1, TailAscends DEF Queued
    <3>2. CASE ~(Len(queue) >= MaxQueued)
      BY <1>2, <2>1, <3>2 DEF Queued, Has
    <3> QED BY <3>1, <3>2
  <2>3. /\ queue' \in Seq(Number) /\ Ascending(queue') /\ Upto(queue', pushed + 1) /\ Has(queue', pushed + 1)
        /\ \A i \in DOMAIN queue' : queue'[i] = pushed + 1 \/ Has(s, queue'[i])
    BY <1>2, <2>2, AppendAscends
  <2>4. Below(got, queue')
    <3> SUFFICES ASSUME NEW i \in DOMAIN got, NEW j \in DOMAIN queue' PROVE got[i] < queue'[j]
      BY DEF Below
    <3>1. CASE queue'[j] = pushed + 1
      BY <1>2, <1>3, <3>1 DEF Upto
    <3>2. CASE Has(s, queue'[j])
      <4>1. PICK k \in DOMAIN s : s[k] = queue'[j]
        BY <3>2 DEF Has
      <4>2. PICK l \in DOMAIN queue : queue[l] = s[k]
        BY <2>2 DEF Has
      <4> QED BY <1>2, <4>1, <4>2 DEF Below
    <3> QED BY <2>3, <3>1, <3>2
  <2>5. signalled' => pipe' > 0 \/ pusher' = "poke" \/ drainer' = "swap"
    BY <1>1, <2>1 DEF BridgeInv
  <2> QED BY <1>1, <1>2, <1>4, <1>6, <2>1, <2>3, <2>4, <2>5 DEF BridgeInv
<1> QED BY <1>5, <1>6

\* Everything is handed over, behind what was.
LEMMA SwapInv == ASSUME BridgeInv, Swap PROVE BridgeInv'
<1>1. /\ got' = got \o queue /\ queue' = <<>> /\ signalled' = FALSE /\ UNCHANGED <<alive, pipe, pusher, pushed>>
  BY DEF Swap
<1>2. /\ queue \in Seq(Number) /\ got \in Seq(Number) /\ pushed \in Nat
      /\ Ascending(queue) /\ Ascending(got) /\ Below(got, queue) /\ Upto(got, pushed) /\ Upto(queue, pushed)
  BY DEF BridgeInv
<1>3. /\ Len(got) \in Nat /\ DOMAIN got = 1..Len(got) /\ Len(queue) \in Nat /\ DOMAIN queue = 1..Len(queue)
  BY <1>2, LenProperties
<1> DEFINE w == got \o queue
<1>4. /\ w \in Seq(Number) /\ Len(w) = Len(got) + Len(queue)
      /\ \A i \in 1..Len(got) + Len(queue) : w[i] = IF i <= Len(got) THEN got[i] ELSE queue[i - Len(got)]
  BY <1>2, ConcatProperties
<1> HIDE DEF w
<1>5. DOMAIN w = 1..(Len(got) + Len(queue))
  BY <1>4, LenProperties
<1>6. \A i \in DOMAIN w : /\ i \in Nat
                          /\ IF i <= Len(got) THEN i \in DOMAIN got /\ w[i] = got[i]
                             ELSE i - Len(got) \in DOMAIN queue /\ w[i] = queue[i - Len(got)]
  BY <1>3, <1>4, <1>5
<1>7. Ascending(w)
  <2> SUFFICES ASSUME NEW i \in DOMAIN w, NEW j \in DOMAIN w, i < j PROVE w[i] < w[j]
    BY DEF Ascending
  <2>1. i \in Nat /\ j \in Nat
    BY <1>6
  <2>2. CASE j <= Len(got)
    BY <1>2, <1>3, <1>6, <2>1, <2>2 DEF Ascending
  <2>3. CASE i > Len(got)
    <3>1. i - Len(got) < j - Len(got) /\ ~(i <= Len(got)) /\ ~(j <= Len(got))
      BY <1>3, <2>1, <2>3
    <3> QED BY <1>2, <1>6, <3>1 DEF Ascending
  <2>4. CASE i <= Len(got) /\ ~(j <= Len(got))
    BY <1>2, <1>6, <2>4 DEF Below
  <2> QED BY <1>3, <2>1, <2>2, <2>3, <2>4
<1>8. Upto(w, pushed)
  BY <1>2, <1>6 DEF Upto
<1>9. Has(got, pushed) \/ Has(queue, pushed) => Has(w, pushed)
  <2>1. \A i \in DOMAIN got : i \in DOMAIN w /\ w[i] = got[i]
    BY <1>3, <1>4, <1>5
  <2>2. \A i \in DOMAIN queue : i + Len(got) \in DOMAIN w /\ w[i + Len(got)] = queue[i]
    BY <1>3, <1>4, <1>5
  <2> QED BY <2>1, <2>2 DEF Has
<1>10. <<>> \in Seq(Number) /\ DOMAIN (<<>>) = {}
  <2>1. <<>> \in Seq(Number) /\ Len(<<>>) = 0
    BY EmptySeq
  <2>2. DOMAIN <<>> = 1..0
    BY <2>1, LenProperties
  <2> QED BY <2>1, <2>2
<1>11. Ascending(queue') /\ Below(got', queue') /\ Upto(queue', pushed)
  BY <1>1, <1>10 DEF Ascending, Below, Upto
<1> QED BY <1>1, <1>4, <1>7, <1>8, <1>9, <1>10, <1>11 DEF BridgeInv, w

LEMMA BridgeStep == ASSUME BridgeInv, MaxQueued \in Nat \ {0}, BridgeNext PROVE BridgeInv'
<1>1. CASE push
  BY <1>1, PushInv
<1>2. CASE Swap
  BY <1>2, SwapInv
<1>3. CASE Poke
  BY <1>3 DEF Poke, BridgeInv
<1>4. CASE drain
  BY <1>4 DEF drain, BridgeInv
<1>5. CASE Destroy
  <2>1. queue' = <<>> /\ alive' = FALSE /\ UNCHANGED <<signalled, pipe, pusher, drainer, pushed, got>>
    BY <1>5 DEF Destroy
  <2>2. <<>> \in Seq(Number) /\ Len(<<>>) = 0
    BY EmptySeq
  <2>3. DOMAIN <<>> = 1..0
    BY <2>2, LenProperties
  <2>4. Ascending(queue') /\ Below(got', queue') /\ Upto(queue', pushed)
    BY <2>1, <2>3 DEF Ascending, Below, Upto
  <2> QED BY <2>1, <2>2, <2>4 DEF BridgeInv
<1> QED BY <1>1, <1>2, <1>3, <1>4, <1>5 DEF BridgeNext

\* Whatever the two threads do in between each other's steps, the handlers see
\* events in the order they were pushed, once each and never without the newest,
\* and a queue that holds something has somebody who owes the loop a wake-up: a
\* push that comes between the loop's read of the pipe and its taking of the
\* queue is taken with it, and one after that writes again.
THEOREM BridgeLosesNoWakeup ==
    ASSUME MaxQueued \in Nat \ {0}
    PROVE  Spec => [](NewestIsKept /\ WakeIsOwed)
<1>1. Init => BridgeInv
  <2> SUFFICES ASSUME BridgeInit PROVE BridgeInv
    BY DEF Init
  <2>1. <<>> \in Seq(Number) /\ Len(<<>>) = 0
    BY EmptySeq
  <2>2. DOMAIN <<>> = 1..0
    BY <2>1, LenProperties
  <2>3. queue = <<>> /\ got = <<>> /\ pushed = 0 /\ pipe = 0 /\ ~signalled /\ signalled \in BOOLEAN /\ alive \in BOOLEAN
    BY DEF BridgeInit
  <2>4. Ascending(got) /\ Ascending(queue) /\ Below(got, queue) /\ Upto(got, pushed) /\ Upto(queue, pushed)
    BY <2>2, <2>3 DEF Ascending, Below, Upto
  <2> QED BY <2>1, <2>3, <2>4 DEF BridgeInv
<1>2. BridgeInv /\ [Next]_vars => BridgeInv'
  <2> SUFFICES ASSUME BridgeInv, [Next]_vars PROVE BridgeInv'
    OBVIOUS
  <2>1. CASE BridgeNext
    BY <2>1, BridgeStep
  <2>2. CASE UNCHANGED bridgeVars
    BY <2>2 DEF bridgeVars, BridgeInv, Ascending, Below, Upto, Has
  <2> QED BY <2>1, <2>2 DEF Next, vars
<1>3. BridgeInv => NewestIsKept
  <2> SUFFICES ASSUME BridgeInv PROVE NewestIsKept
    OBVIOUS
  <2>1. queue \in Seq(Number) /\ got \in Seq(Number)
    BY DEF BridgeInv
  <2>2. /\ Len(got) \in Nat /\ DOMAIN got = 1..Len(got) /\ Len(queue) \in Nat /\ DOMAIN queue = 1..Len(queue)
    BY <2>1, LenProperties
  <2> DEFINE w == got \o queue
  <2>3. /\ w \in Seq(Number) /\ Len(w) = Len(got) + Len(queue)
        /\ \A i \in 1..Len(got) + Len(queue) : w[i] = IF i <= Len(got) THEN got[i] ELSE queue[i - Len(got)]
    BY <2>1, ConcatProperties
  <2> HIDE DEF w
  <2>4. DOMAIN w = 1..(Len(got) + Len(queue))
    BY <2>3, LenProperties
  <2>5. \A i \in DOMAIN got : i \in DOMAIN w /\ w[i] = got[i]
    BY <2>2, <2>3, <2>4
  <2>6. \A i \in DOMAIN queue : i + Len(got) \in DOMAIN w /\ w[i + Len(got)] = queue[i]
    BY <2>2, <2>3, <2>4
  <2>7. alive /\ pushed > 0 => \E i \in DOMAIN w : w[i] = pushed
    BY <2>5, <2>6 DEF BridgeInv, Has
  <2>8. \A i, j \in DOMAIN got : i < j => got[i] < got[j]
    BY DEF BridgeInv, Ascending
  <2> QED BY <2>7, <2>8 DEF NewestIsKept, w
<1>4. BridgeInv => WakeIsOwed
  BY DEF BridgeInv, WakeIsOwed
<1> QED BY <1>1, <1>2, <1>3, <1>4, PTL DEF Spec

-----------------------------------------------------------------------------
(* The request socket.                                                     *)

ClientRec == [at : {"none", "waiting", "open", "done"}, length : Nat, sent : Nat, hung : BOOLEAN, broken : BOOLEAN,
              late : BOOLEAN, in : Nat, out : Nat, replied : BOOLEAN]

\* A client that was acted on has its reply or is done with, and what was acted on
\* was all of what it had to say, unless it hung up.
ActedOn(d, a) ==
    /\ Len(a) <= 1
    /\ a # <<>> => /\ d.at \in {"open", "done"}
                   /\ d.at = "open" => d.replied
                   /\ ~d.hung => a[1] = d.length

ServerInv ==
    /\ client \in [Client -> ClientRec] /\ acted \in [Client -> Seq(Nat)]
    /\ \A c \in Client : ActedOn(client[c], acted[c])

\* A client does something.
LEMMA ClientActs ==
    ASSUME ServerInv, NEW c \in Client, NEW d \in ClientRec, Change(c, d),
           client[c].at = "none" \/ (/\ d.at = client[c].at /\ d.replied = client[c].replied
                                     /\ d.length = client[c].length /\ (client[c].hung => d.hung))
    PROVE  ServerInv'
<1>1. client' = [client EXCEPT ![c] = d] /\ acted' = acted
  BY DEF Change
<1>2. ActedOn(d, acted[c])
  BY DEF ServerInv, ActedOn
<1> QED BY <1>1, <1>2 DEF ServerInv

\* What one turn makes of a client that is open.
LEMMA ServedFacts ==
    ASSUME NEW d \in ClientRec, d.at = "open", NEW polled \in BOOLEAN, NEW n \in 0..1, NEW a \in Seq(Nat), ActedOn(d, a)
    PROVE  /\ Served(d, polled, n) \in ClientRec
           /\ a \o Asked(d, polled) \in Seq(Nat)
           /\ ActedOn(Served(d, polled, n), a \o Asked(d, polled))
           /\ Asked(d, polled) = <<>> => Served(d, polled, n).at \in {"open", "done"}
<1> DEFINE read == IF polled THEN Read(d) ELSE d
           handled == IF Ready(read, polled) THEN [read EXCEPT !.out = 1, !.replied = TRUE] ELSE read
           sent == Written(handled, n)
<1>1. /\ read \in ClientRec /\ read.at \in {"open", "done"} /\ read.length = d.length /\ read.hung = d.hung
      /\ (d.replied => read.replied)
  <2>1. /\ d.in + 1 \in Nat /\ d.in \in Nat
    BY DEF ClientRec
  <2> QED BY <2>1 DEF Read, ClientRec
<1> HIDE DEF read
<1>2. /\ handled \in ClientRec /\ handled.at = read.at /\ handled.length = d.length /\ handled.hung = d.hung
      /\ (read.replied => handled.replied) /\ (Ready(read, polled) => handled.replied)
  BY <1>1 DEF ClientRec
<1> HIDE DEF handled
<1>3. /\ sent \in ClientRec /\ sent.at = handled.at /\ sent.length = d.length /\ sent.hung = d.hung
      /\ sent.replied = handled.replied
  BY <1>2 DEF Written, ClientRec
<1> HIDE DEF sent
<1>4. Served(d, polled, n) = IF d.broken /\ polled THEN [d EXCEPT !.at = "done"]
                             ELSE IF Finished(sent) THEN [sent EXCEPT !.at = "done"] ELSE sent
  BY DEF Served, sent, handled, read
<1> DEFINE e == Served(d, polled, n)
<1>5. /\ e \in ClientRec /\ e.at \in {"open", "done"} /\ e.length = d.length /\ e.hung = d.hung
      /\ ~(d.broken /\ polled) => e.replied = handled.replied
      /\ d.broken /\ polled => e.at = "done"
  <2>1. /\ [d EXCEPT !.at = "done"] \in ClientRec /\ [d EXCEPT !.at = "done"].at = "done"
        /\ [d EXCEPT !.at = "done"].length = d.length /\ [d EXCEPT !.at = "done"].hung = d.hung
    BY DEF ClientRec
  <2>2. /\ [sent EXCEPT !.at = "done"] \in ClientRec /\ [sent EXCEPT !.at = "done"].at = "done"
        /\ [sent EXCEPT !.at = "done"].length = sent.length /\ [sent EXCEPT !.at = "done"].hung = sent.hung
        /\ [sent EXCEPT !.at = "done"].replied = sent.replied
    BY <1>3 DEF ClientRec
  <2>3. CASE d.broken /\ polled
    BY <1>4, <2>1, <2>3
  <2>4. CASE ~(d.broken /\ polled)
    BY <1>1, <1>2, <1>3, <1>4, <2>2, <2>4
  <2> QED BY <2>3, <2>4
<1> HIDE DEF e
<1>6. Asked(d, polled) = IF ~(d.broken /\ polled) /\ Ready(read, polled) THEN <<read.in>> ELSE <<>>
  BY DEF Asked, read
<1>7. CASE ~(d.broken /\ polled) /\ Ready(read, polled)
  <2>1. ~read.replied /\ (read.in = read.length \/ d.hung)
    BY <1>1, <1>7 DEF Ready
  <2>2. a = <<>>
    BY <1>1, <2>1 DEF ActedOn
  <2>3. read.in \in Nat
    BY <1>1 DEF ClientRec
  <2>4. a \o Asked(d, polled) = <<read.in>> /\ <<read.in>> \in Seq(Nat)
    BY <1>6, <1>7, <2>2, <2>3, ConcatEmptySeq
  <2>5. Len(<<read.in>>) = 1 /\ <<read.in>>[1] = read.in
    OBVIOUS
  <2>6. ActedOn(e, <<read.in>>)
    BY <1>1, <1>2, <1>5, <1>7, <2>1, <2>5 DEF ActedOn
  <2> QED BY <1>5, <2>4, <2>6 DEF e
<1>8. CASE ~(~(d.broken /\ polled) /\ Ready(read, polled))
  <2>1. a \o Asked(d, polled) = a
    BY <1>6, <1>8, ConcatEmptySeq
  <2>2. ActedOn(e, a)
    BY <1>1, <1>2, <1>5 DEF ActedOn
  <2> QED BY <1>5, <2>1, <2>2 DEF e
<1> QED BY <1>7, <1>8

\* serve() looks at every client once.
LEMMA ServeKeepsOne ==
    ASSUME ServerInv, NEW c \in Client, NEW left \in [Client -> 0..1], NEW d, NEW a,
           d = IF client[c].at = "waiting" THEN Served([client[c] EXCEPT !.at = "open"], FALSE, left[c])
               ELSE Served(client[c], TRUE, left[c]),
           a = IF client[c].at = "open" THEN acted[c] \o Asked(client[c], TRUE) ELSE acted[c]
    PROVE  d \in ClientRec /\ a \in Seq(Nat) /\ ActedOn(d, a)
<1>1. client[c] \in ClientRec /\ acted[c] \in Seq(Nat) /\ ActedOn(client[c], acted[c]) /\ left[c] \in 0..1
  BY DEF ServerInv
<1>2. CASE client[c].at = "open"
  BY <1>1, <1>2, ServedFacts
<1>3. CASE client[c].at = "waiting"
  <2> DEFINE w == [client[c] EXCEPT !.at = "open"]
  <2>1. w \in ClientRec /\ w.at = "open" /\ w.replied = client[c].replied
    BY <1>1 DEF ClientRec
  <2>2. acted[c] = <<>> /\ a = <<>>
    BY <1>1, <1>3 DEF ActedOn
  <2>3. <<>> \in Seq(Nat) /\ Len(<<>>) = 0
    OBVIOUS
  <2>4. ActedOn(w, <<>>) /\ \A e : ActedOn(e, <<>>)
    BY <2>3 DEF ActedOn
  <2>5. Served(w, FALSE, left[c]) \in ClientRec
    <3> HIDE DEF w
    <3> QED BY <1>1, <2>1, <2>3, <2>4, ServedFacts
  <2> QED BY <1>3, <2>2, <2>3, <2>4, <2>5
<1>4. CASE client[c].at \notin {"open", "waiting"}
  BY <1>1, <1>4 DEF Served
<1> QED BY <1>2, <1>3, <1>4

LEMMA ServeKeeps ==
    ASSUME ServerInv, serve PROVE ServerInv'
<1> PICK left \in [Client -> 0..1] :
        /\ client' = [c \in Client |->
              IF client[c].at = "waiting" THEN Served([client[c] EXCEPT !.at = "open"], FALSE, left[c])
              ELSE Served(client[c], TRUE, left[c])]
        /\ acted' = [c \in Client |-> IF client[c].at = "open" THEN acted[c] \o Asked(client[c], TRUE) ELSE acted[c]]
  BY DEF serve
<1>1. ASSUME NEW c \in Client PROVE client'[c] \in ClientRec /\ acted'[c] \in Seq(Nat) /\ ActedOn(client'[c], acted'[c])
  BY ServeKeepsOne
<1>2. client' \in [Client -> ClientRec]
  BY <1>1
<1>3. acted' \in [Client -> Seq(Nat)]
  BY <1>1
<1> QED BY <1>1, <1>2, <1>3 DEF ServerInv

LEMMA ServerStep ==
    ASSUME ServerInv, ServerNext PROVE ServerInv'
<1>1. CASE serve
  BY <1>1, ServeKeeps
<1>2. ASSUME NEW c \in Client, Connect(c) PROVE ServerInv'
  <2> PICK n \in 1..MaxPieces : Change(c, [NoClient EXCEPT !.at = "waiting", !.length = n])
    BY <1>2 DEF Connect
  <2>1. n \in Nat
    OBVIOUS
  <2>2. [NoClient EXCEPT !.at = "waiting", !.length = n] \in ClientRec
    BY <2>1 DEF NoClient, ClientRec
  <2> QED BY <1>2, <2>2, ClientActs DEF Connect
<1>3. ASSUME NEW c \in Client, SendPiece(c) PROVE ServerInv'
  <2>1. client[c] \in ClientRec
    BY DEF ServerInv
  <2>2. client[c].sent + 1 \in Nat
    BY <2>1 DEF ClientRec
  <2>3. [client[c] EXCEPT !.sent = @ + 1] \in ClientRec
    BY <2>1, <2>2 DEF ClientRec
  <2> QED BY <1>3, <2>1, <2>3, ClientActs DEF SendPiece, ClientRec
<1>4. ASSUME NEW c \in Client, HangUp(c) PROVE ServerInv'
  <2>1. client[c] \in ClientRec
    BY DEF ServerInv
  <2>2. [client[c] EXCEPT !.hung = TRUE] \in ClientRec
    BY <2>1 DEF ClientRec
  <2> QED BY <1>4, <2>1, <2>2, ClientActs DEF HangUp, ClientRec
<1>5. ASSUME NEW c \in Client, Break(c) PROVE ServerInv'
  <2>1. client[c] \in ClientRec
    BY DEF ServerInv
  <2>2. [client[c] EXCEPT !.broken = TRUE] \in ClientRec
    BY <2>1 DEF ClientRec
  <2> QED BY <1>5, <2>1, <2>2, ClientActs DEF Break, ClientRec
<1>6. ASSUME NEW c \in Client, Late(c) PROVE ServerInv'
  <2>1. client[c] \in ClientRec
    BY DEF ServerInv
  <2>2. [client[c] EXCEPT !.late = TRUE] \in ClientRec
    BY <2>1 DEF ClientRec
  <2> QED BY <1>6, <2>1, <2>2, ClientActs DEF Late, ClientRec
<1> QED BY <1>1, <1>2, <1>3, <1>4, <1>5, <1>6 DEF ServerNext

LEMMA ServerInitInv ==
    ASSUME ServerInit PROVE ServerInv
<1>1. NoClient \in ClientRec
  BY DEF NoClient, ClientRec
<1>2. <<>> \in Seq(Nat) /\ Len(<<>>) = 0
  OBVIOUS
<1>3. ActedOn(NoClient, <<>>)
  BY <1>2 DEF ActedOn
<1> QED BY <1>1, <1>2, <1>3 DEF ServerInit, ServerInv

\* octomancerd acts on a request once, and on all of it unless its client hung up,
\* however the pieces arrive and whatever else its clients do: the safety half of
\* ClientsAreServed.
THEOREM RequestsAreWhole == Spec => []WholeRequests
<1>1. Init => ServerInv
  BY ServerInitInv DEF Init
<1>2. ServerInv /\ [Next]_vars => ServerInv'
  <2> SUFFICES ASSUME ServerInv, [Next]_vars PROVE ServerInv'
    OBVIOUS
  <2>1. CASE ServerNext
    BY <2>1, ServerStep
  <2>2. CASE UNCHANGED serverVars
    BY <2>2 DEF serverVars, ServerInv
  <2> QED BY <2>1, <2>2 DEF Next, vars
<1>3. ServerInv => WholeRequests
  BY DEF ServerInv, ActedOn, WholeRequests
<1> QED BY <1>1, <1>2, <1>3, PTL DEF Spec
=============================================================================
