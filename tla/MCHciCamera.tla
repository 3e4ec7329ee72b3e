---------------------------- MODULE MCHciCamera ----------------------------
(* Bounds for HciCamera. *)
EXTENDS HciCamera
=============================================================================
