------------------------------ MODULE MCSyncD ------------------------------
(* Instances of SyncD for TLC.                                             *)
EXTENDS SyncD

CONSTANTS c1, c2

ById(c) == [by |-> "id", cam |-> c]

AnyCamera == {NoWant}
TheSecond == {ById(c2)}
=============================================================================
