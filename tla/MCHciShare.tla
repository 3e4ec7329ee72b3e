---------------------------- MODULE MCHciShare ----------------------------
(* Instances of HciShare for TLC.                                          *)
EXTENDS HciShare
=============================================================================
