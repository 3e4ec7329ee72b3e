------------------------------- MODULE MCLoop -------------------------------
(* Bounds for Loop. *)
EXTENDS Loop
NoLimitOrNow == {-1, 0}
ReadOrNothing == {{"read"}, {}}
=============================================================================
