--------------------------- MODULE ControlSocket ---------------------------
(***************************************************************************)
(* The two conversations over the control socket of octomancer-sync, which *)
(* touch nothing of each other's, side by side: the requests and edits of  *)
(* Control, and the events of FeedRestart.  A behaviour is one of either.  *)
(***************************************************************************)
EXTENDS Control, FeedRestart

VARIABLE part

vars == <<part, controlVars, restartVars>>

Init ==
    /\ part \in {"requests", "events"}
    /\ ControlInit /\ RestartInit
    /\ part # "requests" => \A c \in Cams : file[c] = "none"

Next ==
    /\ UNCHANGED part
    /\ \/ part = "requests" /\ ControlNext /\ UNCHANGED restartVars
       \/ part = "events" /\ RestartNext /\ UNCHANGED controlVars

\* The main thread keeps running; the application's timer goes on, its queue
\* and its main thread run what they are given, and a daemon that is asked
\* again and again answers now and then.
Fairness ==
    /\ WF_controlVars(part = "requests" /\ LoopStep)
    /\ WF_feedVars(part = "events" /\ refresh)
    /\ SF_feedVars(part = "events" /\ Fetch)
    /\ WF_feedVars(part = "events" /\ (Fetch \/ FetchHalf \/ FetchNothing))
    /\ WF_feedVars(part = "events" /\ consumeEvents)

Spec == Init /\ [][Next]_vars /\ Fairness
=============================================================================
