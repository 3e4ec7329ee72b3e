----------------------------- MODULE MCCamSync -----------------------------
(***************************************************************************)
(* An instance of CamSync with eight ticks to the second.                  *)
(***************************************************************************)
EXTENDS CamSync

MCJumps == {0, 16}
MCWalks == {0, 1}
MCQuirks == {-3, 0}
=============================================================================
