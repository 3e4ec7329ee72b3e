------------------------------- MODULE CamDb -------------------------------
(***************************************************************************)
(* The camera database: CamDb in src/src/camdb.cc, a log of lines replayed *)
(* into memory when it is opened, appended to, and rewritten from memory   *)
(* when it has grown or a body is to be forgotten.  A line is of one body, *)
(* and what of its record matters after a restart: the number of the       *)
(* learnt figures, or of the sample.  A line changes the record of its     *)
(* body alone, so the file is kept as each body's lines in their order,    *)
(* and sizes are counted in lines.  A figure's or a sample's number is     *)
(* that of the call that recorded it.                                      *)
(***************************************************************************)
EXTENDS Integers, Sequences, SequencesExt, FiniteSetsExt

CONSTANTS
    DbIds,        \* bodies
    MaxSamples,   \* opt_.max_samples, 1000 in the program
    CompactMin,   \* opt_.compact_min_bytes, in lines
    MaxRecords,   \* bound: recordings
    MaxTorn       \* bound: recordings the machine dies in the middle of

ASSUME CamDbAssumption ==
    MaxSamples \in Nat \ {0} /\ CompactMin \in Nat /\ MaxRecords \in Nat /\ MaxTorn \in Nat

VARIABLES
    dfile,    \* the file: the lines of each body, and how it ends
    dmem,     \* cam_
    dopen,    \* file_: "open", "off" (null), or "down", no process at all
    dn,       \* recordings so far
    said,     \* samples recorded of each body since it was last forgotten
    torn,     \* recordings the machine has died in the middle of
    gone      \* bodies forgotten and not seen since

dbVars == <<dfile, dmem, dopen, dn, said, torn, gone>>

Blank == [has |-> FALSE, par |-> 0, samples |-> <<>>]
NoRecords == [id \in DbIds |-> Blank]

camera_line(rec) == [t |-> "camera", v |-> rec.par]
write_line(s) == [t |-> "write", v |-> s]

Capped(s) == IF Len(s) > MaxSamples THEN Tail(s) ELSE s

\* Mutant: at the cap the newest sample goes.
Replayed_Newest(rec, line) ==
    IF line.t = "camera" THEN [rec EXCEPT !.has = TRUE, !.par = line.v]
    ELSE [rec EXCEPT !.has = TRUE,
                     !.samples = IF Len(@) < MaxSamples THEN Append(@, line.v) ELSE @]

\* One line of replay_camera_db(), and the record it is of.
Replayed(rec, line) ==
    IF line.t = "camera" THEN [rec EXCEPT !.has = TRUE, !.par = line.v]
    ELSE [rec EXCEPT !.has = TRUE, !.samples = Capped(Append(@, line.v))]

ReplayedLines(lines) ==
    LET rec[n \in 0..Len(lines)] == IF n = 0 THEN Blank ELSE Replayed(rec[n - 1], lines[n])
    IN  rec[Len(lines)]

replay_camera_db(f) == [id \in DbIds |-> ReplayedLines(f.lines[id])]

\* A file that ends in part of a line, or in a line with no newline, takes the
\* next line as more of that one: only the first record on a line is read, and
\* none if it is not whole.
Appended(f, id, line) ==
    IF f.tail = "clean" THEN [f EXCEPT !.lines[id] = Append(@, line)]
    ELSE [f EXCEPT !.tail = "clean"]

Interrupted(f, id, line) ==
    IF f.tail # "clean" THEN {f}
    ELSE {[f EXCEPT !.tail = "part"],
          [f EXCEPT !.lines[id] = Append(@, line), !.tail = "bare"]}

\* What compact() writes: of each body its line and its samples.
Lines(rec) ==
    IF ~rec.has THEN <<>>
    ELSE [k \in 1..(1 + Len(rec.samples)) |->
             IF k = 1 THEN camera_line(rec) ELSE write_line(rec.samples[k - 1])]
Image(mem) == [lines |-> [id \in DbIds |-> Lines(mem[id])], tail |-> "clean"]

LineCount(f) == MapThenSumSet(LAMBDA id : Len(f.lines[id]), DbIds)

\* The marker compact() begins a file with counts as a line here.
live_bytes_estimate(mem) == 1 + LineCount(Image(mem))

should_compact(f, mem) ==
    LineCount(f) >= CompactMin /\ LineCount(f) >= 2 * live_bytes_estimate(mem)

\* compact(): a new file beside the old one and renamed over it, unless it
\* could not be written or renamed; the file may then not open again.
compact(f, mem) ==
    /\ dmem' = mem
    /\ dfile' \in {f, Image(mem)}
    /\ dopen' \in {"open", "off"}

\* append() of a line, memory having been changed already.  The machine may
\* die before all of the line is on the disk.
append(mem, id, line) ==
    IF dopen = "off" THEN dmem' = mem /\ UNCHANGED <<dfile, dopen, torn>>
    ELSE \/ LET f == Appended(dfile, id, line) IN
            /\ IF should_compact(f, mem) THEN compact(f, mem)
               ELSE dfile' = f /\ dmem' = mem /\ UNCHANGED dopen
            /\ UNCHANGED torn
         \/ /\ torn < MaxTorn /\ torn' = torn + 1
            /\ dfile' \in Interrupted(dfile, id, line)
            /\ dopen' = "down" /\ dmem' = NoRecords

-----------------------------------------------------------------------------
Running == dopen # "down"

note_seen(id) ==
    /\ Running /\ dn < MaxRecords /\ dn' = dn + 1
    /\ append([dmem EXCEPT ![id].has = TRUE], id, camera_line(dmem[id]))
    /\ gone' = gone \ {id}
    /\ UNCHANGED said

\* record_write(); said is what the caller may expect to find again.
record_write(id) ==
    /\ Running /\ dn < MaxRecords /\ dn' = dn + 1
    /\ append([dmem EXCEPT ![id].has = TRUE, ![id].samples = Capped(Append(@, dn'))],
              id, write_line(dn'))
    /\ said' = IF dopen = "open" THEN [said EXCEPT ![id] = Append(@, dn')] ELSE said
    /\ gone' = gone \ {id}

\* learn() and, since something changed, record_params().
record_params(id) ==
    /\ Running /\ dn < MaxRecords /\ dn' = dn + 1
    /\ LET mem == [dmem EXCEPT ![id].has = TRUE, ![id].par = dn'] IN
       append(mem, id, camera_line(mem[id]))
    /\ gone' = gone \ {id}
    /\ UNCHANGED said

\* forget() of a body that is there: what is durable is the rewrite.
forget(id) ==
    /\ Running /\ dmem[id].has
    /\ LET mem == [dmem EXCEPT ![id] = Blank] IN
       IF dopen = "off" THEN dmem' = mem /\ UNCHANGED <<dfile, dopen>>
       ELSE compact(dfile, mem)
    /\ gone' = IF dopen = "open" /\ dfile' = Image(dmem') THEN gone \cup {id} ELSE gone
    /\ said' = [said EXCEPT ![id] = <<>>]
    /\ UNCHANGED <<dn, torn>>

\* The process ends, or is killed, between calls: every line was flushed.
DbExit ==
    /\ Running
    /\ dopen' = "down" /\ dmem' = NoRecords
    /\ UNCHANGED <<dfile, dn, said, torn, gone>>

\* open(), by the next one.
DbOpen ==
    /\ ~Running
    /\ dmem' = replay_camera_db(dfile)
    /\ dopen' \in {"open", "off"}
    /\ UNCHANGED <<dfile, dn, said, torn, gone>>

DbInit ==
    /\ dfile = [lines |-> [id \in DbIds |-> <<>>], tail |-> "clean"]
    /\ dmem = NoRecords
    /\ dopen = "open" /\ dn = 0 /\ torn = 0
    /\ said = [id \in DbIds |-> <<>>]
    /\ gone = {}

DbNext ==
    \/ \E id \in DbIds : note_seen(id) \/ record_write(id) \/ record_params(id) \/ forget(id)
    \/ DbExit
    \/ DbOpen

-----------------------------------------------------------------------------
(* Properties.                                                             *)

Expected(s) == {s[k] : k \in {j \in DOMAIN s : j > Len(s) - MaxSamples}}
MissingFrom(mem) == UNION {Expected(said[id]) \ ToSet(mem[id].samples) : id \in DbIds}

\* append, compact and forget: the next process finds what was recorded and
\* nothing that was forgotten.  Of the samples a body was recorded with, within
\* its cap, no more than two are missing from the file for each recording the
\* machine died in, the one that was being recorded and the one the torn line
\* swallowed, however the file was compacted, trimmed and reopened since; and a
\* body forgotten on an open database is not in the file again until something
\* is recorded of it.
DbKeepsTheRecord ==
    /\ Cardinality(MissingFrom(replay_camera_db(dfile))) <= 2 * torn
    /\ \A id \in gone : ~replay_camera_db(dfile)[id].has
=============================================================================
