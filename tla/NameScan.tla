------------------------------ MODULE NameScan ------------------------------
(***************************************************************************)
(* The dongle's radio (firmware/src/scanner_zephyr.cc) hears the clocks of *)
(* the boxes without asking and their names only when it asks: a five      *)
(* second timer of firmware/src/main.cc decides which, with the damping of *)
(* src/naming.cc.  Reports wait in a queue of fixed length that the        *)
(* Bluetooth thread fills and the loop empties.                            *)
(***************************************************************************)
EXTENDS Integers, Sequences, SequencesExt, FiniteSets

CONSTANTS
    Sign,          \* boxes in radio range
    QueueDepth,    \* kQueueDepth
    Settle,        \* kScanSettleSeconds, in turns of the timer
    NameWithin,    \* kNameWithin, in turns of the timer
    MaxRefusals    \* a bound: times bt_le_scan_start() fails

VARIABLES
    reports,       \* g_reports: <<who, "clock" or "name">>
    scanning,      \* what the controller does: "passive", "active" or "off"
    active_,       \* ZephyrScanner::active_
    active,        \* the timer's own copy
    since,         \* turns since changed_at
    age,           \* turns since a box was heard; more than NameWithin: long ago, or never
    known,         \* boxes in the registry
    named,         \* those with a name
    refused        \* times the radio would not start scanning

nameVars == <<reports, scanning, active_, active, since, age, known, named, refused>>

NameInit ==
    /\ reports = <<>>
    /\ scanning = "passive" /\ active_ = FALSE
    /\ active = FALSE /\ since = 0
    /\ age = [b \in Sign |-> NameWithin + 1]
    /\ known = {} /\ named = {}
    /\ refused = 0

-----------------------------------------------------------------------------
(* The Bluetooth thread *)

\* scan_cb(): a report that does not fit is dropped, never waited for.
Put(queue, report) == IF Len(queue) < QueueDepth THEN Append(queue, report) ELSE queue

\* A box advertises; one that is asked answers with its name, in a packet of its own.
scan_cb(b) ==
    /\ scanning # "off"
    /\ reports' = IF scanning = "active" THEN Put(Put(reports, <<b, "clock">>), <<b, "name">>)
                  ELSE Put(reports, <<b, "clock">>)
    /\ UNCHANGED <<scanning, active_, active, since, age, known, named, refused>>

-----------------------------------------------------------------------------
(* The loop's thread *)

\* A packet with a name and no clock is nothing.
NamesGot_Dropped == {}

\* A name on its own is taken for a row that is already there.
NamesGot ==
    {reports[i][1] : i \in {i \in DOMAIN reports :
        /\ reports[i][2] = "name"
        /\ reports[i][1] \in known \cup {reports[j][1] : j \in {j \in 1..i : reports[j][2] = "clock"}}}}

\* drain() and handle(): a clock makes a row, a name on its own does not.
drain_reports ==
    /\ reports # <<>>
    /\ LET heard == {r[1] : r \in {r \in ToSet(reports) : r[2] = "clock"}}
       IN  /\ known' = known \cup heard
           /\ age' = [b \in Sign |-> IF b \in heard THEN 0 ELSE age[b]]
    /\ named' = named \cup NamesGot
    /\ reports' = <<>>
    /\ UNCHANGED <<scanning, active_, active, since, refused>>

\* Rows without a name that were heard lately.
Unnamed == {b \in known \ named : age[b] <= NameWithin}

\* want_active_scan()
want_active_scan ==
    LET want == Unnamed # {}
    IN  IF want = active \/ since < Settle THEN active ELSE want

\* set_active(): the scan is stopped and started again the other way, or as
\* it was if the radio will not; whether that worked is not looked at.
set_active(to) ==
    IF to = active_ THEN UNCHANGED <<scanning, active_, refused>>
    ELSE \E failures \in 0..2 :
            /\ refused + failures <= MaxRefusals
            /\ refused' = refused + failures
            /\ active_' = IF failures = 0 THEN to ELSE active_
            /\ scanning' = IF failures = 2 THEN "off"
                           ELSE IF active_' THEN "active" ELSE "passive"

\* The naming timer.  The loop empties the queue within a millisecond, this
\* fires every five seconds.
NamingTimer ==
    /\ reports = <<>>
    /\ age' = [b \in Sign |-> IF age[b] <= NameWithin THEN age[b] + 1 ELSE age[b]]
    /\ LET want == want_active_scan
       IN  IF want = active
           THEN /\ since' = IF since < Settle THEN since + 1 ELSE since
                /\ UNCHANGED <<active, scanning, active_, refused>>
           ELSE /\ active' = want /\ since' = 1
                /\ set_active(want)
    /\ UNCHANGED <<reports, known, named>>

NameNext ==
    \/ \E b \in Sign : scan_cb(b)
    \/ drain_reports
    \/ NamingTimer

\* A box is heard some time, and one that is asked, with room for both its reports.
Speaks(b) == reports = <<>> /\ scan_cb(b)
Answers(b) == scanning = "active" /\ Len(reports) + 2 <= QueueDepth /\ scan_cb(b)

-----------------------------------------------------------------------------
(* Properties *)

\* Boxes that were heard are asked for their names and get them, unless the
\* radio refused to change over: nobody retries that, the timer having already
\* noted the change.
NamesAreLearnt == (known # {}) ~> (known \subseteq named \/ refused > 0)
=============================================================================
