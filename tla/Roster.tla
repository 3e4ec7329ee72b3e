------------------------------- MODULE Roster -------------------------------
(***************************************************************************)
(* What octomancerd remembers between runs: the roster the radio fills     *)
(* (src/registry.cc), the names (src/naming.cc), and devices.json, which is *)
(* rewritten whole (src/devicedb.cc) on a timer, when somebody decides     *)
(* something and on the way out (src/octomancerd.cc).  The daemon may be   *)
(* killed between any two of these, and the file spoiled by an editor.     *)
(*                                                                         *)
(* wall is the wall clock, and 0 a sighting that never was.  A save and    *)
(* what a command did before it are one step: the file changes at the      *)
(* rename, and a kill before that is a kill before the command.            *)
(***************************************************************************)
EXTENDS Integers, FiniteSets

CONSTANTS
    Ours,       \* devices this Mac's radio can hear
    Theirs,     \* devices only a dongle hears
    Label,      \* what a person may call one; "" is the same as nothing
    DiskFills,  \* whether the disk may turn out full when a file is closed
    MaxWall     \* a bound: how long we look

Device == Ours \cup Theirs

VARIABLES
    wall,
    up,         \* "down", "up", or "refused": it would not start
    seen,       \* registry: when each device on the roster was last heard
    book,       \* NameBook: what a person called a device, and whether it gave a name itself
    file,       \* devices.json: per device the last sighting, and the names
    garbled,    \* devices.json will not parse
    owed,       \* per device, the labels a later run may show
    heard,      \* per device, when it really was heard
    kept        \* devices that a save listed with a sighting, and nobody has forgotten since

rosterVars == <<wall, up, seen, book, file, garbled, owed, heard, kept>>

NoName == [user |-> "", heard |-> FALSE]
EmptyFile == [seen |-> [d \in Device |-> 0], names |-> [d \in Device |-> NoName]]

RosterInit ==
    /\ wall = 1 /\ up = "down"
    /\ seen = [d \in {} |-> 0]
    /\ book = [d \in Device |-> NoName]
    /\ file = EmptyFile /\ garbled = FALSE
    /\ owed = [d \in Device |-> {""}]
    /\ heard = [d \in Device |-> {}]
    /\ kept = {}

-----------------------------------------------------------------------------
(* Loading *)

\* DeviceDb::load(): all of it or nothing; no file yet is the first run.
Loads == ~garbled

\* The name book is filled from every line.
Named == file.names

\* A line with no sighting in it is a name and nothing else.
Restored == {d \in Device : file.seen[d] > 0}

\* main(): a file that will not parse is fatal.
Start ==
    /\ up \in {"down", "refused"}
    /\ IF ~Loads THEN up' = "refused" /\ UNCHANGED <<seen, book>>
       ELSE /\ up' = "up"
            /\ seen' = [d \in Restored |-> file.seen[d]]
            /\ book' = Named
    /\ UNCHANGED <<wall, file, garbled, owed, heard, kept>>

-----------------------------------------------------------------------------
(* Saving *)

\* remembered(): the stamp is never "now".
remembered(s) == [d \in Device |-> IF d \in DOMAIN s THEN s[d] ELSE 0]

\* Only what is on the roster is written.
Rows_Roster(s, b) ==
    [seen |-> remembered(s), names |-> [d \in Device |-> IF d \in DOMAIN s THEN b[d] ELSE NoName]]

\* A device that is not on the roster goes out as a name.
Rows(s, b) == [seen |-> remembered(s), names |-> b]

\* DeviceDb::save(): written beside the file and put in its place, or not.
\* What is lost when the file is closed goes unnoticed.
Outcome == {"saved", "failed"} \cup (IF DiskFills THEN {"short"} ELSE {})

\* save_devices(), with s for the roster, b for the book, and k for what is
\* kept if it fails.
save_devices(s, b, k, out) ==
    /\ file' = CASE out = "saved" -> Rows(s, b) [] out = "failed" -> file [] out = "short" -> EmptyFile
    /\ garbled' = (garbled /\ out = "failed")
    /\ kept' = IF out = "failed" THEN k ELSE DOMAIN s
    /\ owed' = [d \in Device |-> IF out = "failed" THEN owed[d] \cup {b[d].user} ELSE {b[d].user}]

-----------------------------------------------------------------------------
(* While it runs *)

\* An advertisement.
Hear(d) ==
    /\ up = "up"
    /\ seen' = [x \in DOMAIN seen \cup {d} |-> IF x = d THEN wall ELSE seen[x]]
    /\ heard' = [heard EXCEPT ![d] = @ \cup {wall}]
    /\ UNCHANGED <<wall, up, book, file, garbled, owed, kept>>

\* assemble(): the names on a snapshot's rows are taken down, those of a
\* dongle's rows, remote, with them.
assemble(remote) ==
    /\ up = "up"
    /\ book' = [d \in Device |-> [book[d] EXCEPT !.heard = @ \/ d \in DOMAIN seen \cup remote]]
    /\ UNCHANGED <<wall, up, seen, file, garbled, owed, heard, kept>>

\* What a person decides is written through.
name_command(d, v, out) ==
    /\ up = "up"
    /\ book' = [book EXCEPT ![d].user = v]
    /\ save_devices(seen, book', kept, out)
    /\ UNCHANGED <<wall, up, seen, heard>>

\* NameBook::refresh(): a name somebody typed is not about the device.
refresh(n) == [n EXCEPT !.heard = FALSE]

refresh_command(d, out) ==
    /\ up = "up"
    /\ book' = [book EXCEPT ![d] = refresh(@)]
    /\ save_devices(seen, book', kept, out)
    /\ UNCHANGED <<wall, up, seen, heard>>

\* Off the roster; the names stay in the book.
forget_command(d, out) ==
    /\ up = "up"
    /\ seen' = [x \in DOMAIN seen \ {d} |-> seen[x]]
    /\ save_devices(seen', book, kept \ {d}, out)
    /\ UNCHANGED <<wall, up, book, heard>>

\* Every kSaveInterval.
SaveTimer(out) ==
    /\ up = "up"
    /\ save_devices(seen, book, kept, out)
    /\ UNCHANGED <<wall, up, seen, book, heard>>

\* An orderly stop saves once more.
StopDaemon(out) ==
    /\ up = "up"
    /\ up' = "down"
    /\ save_devices(seen, book, kept, out)
    /\ UNCHANGED <<wall, seen, book, heard>>

-----------------------------------------------------------------------------
(* Everything else *)

KillDaemon ==
    /\ up = "up"
    /\ up' = "down"
    /\ UNCHANGED <<wall, seen, book, file, garbled, owed, heard, kept>>

\* Somebody edits the file and spoils a line, or puts it right again.
Edit ==
    /\ file # EmptyFile
    /\ garbled' = ~garbled
    /\ UNCHANGED <<wall, up, seen, book, file, owed, heard, kept>>

Later ==
    /\ wall < MaxWall
    /\ wall' = wall + 1
    /\ UNCHANGED <<up, seen, book, file, garbled, owed, heard, kept>>

RosterNext ==
    \/ Start
    \/ \E d \in Ours : Hear(d)
    \/ \E remote \in SUBSET Theirs : assemble(remote)
    \/ \E out \in Outcome :
          \/ \E d \in Device : refresh_command(d, out) \/ forget_command(d, out)
          \/ \E d \in Device, v \in Label \cup {""} : name_command(d, v, out)
          \/ SaveTimer(out) \/ StopDaemon(out)
    \/ KillDaemon \/ Edit \/ Later

-----------------------------------------------------------------------------
(* Properties *)

\* A label somebody chose or cleared is what every later run shows, from the
\* save that was to keep it on; one whose save failed may be forgotten by a
\* kill, and never turns into another.
DecisionsSurvive == up = "up" => \A d \in Device : book[d].user \in owed[d]

\* What the roster and the file say of when a device was last heard is a time
\* at which it was heard, however often it was saved and loaded since.
LastSeenIsASighting ==
    /\ \A d \in DOMAIN seen : seen[d] \in heard[d]
    /\ \A d \in Device : file.seen[d] \in heard[d] \cup {0}

\* A device that a save listed is on the roster of every later run until
\* somebody forgets it.
NothingIsLost == kept \subseteq Restored /\ (up = "up" => kept \subseteq DOMAIN seen)

\* What people decided and what was heard outlives kills, failed saves, spoiled
\* files and restarts, as it was.
RosterSurvives == DecisionsSurvive /\ LastSeenIsASighting /\ NothingIsLost
=============================================================================
