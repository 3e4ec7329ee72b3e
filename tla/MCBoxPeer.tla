----------------------------- MODULE MCBoxPeer -----------------------------
(* Bounds for BoxPeer. *)
EXTENDS BoxPeer
=============================================================================
