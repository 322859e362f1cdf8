----------------------------- MODULE MCCycleLock -----------------------------
(* Instances of CycleLock for TLC. *)
EXTENDS CycleLock, TLC

CONSTANTS p1, p2, p3

TwoProcs == {p1, p2}
ThreeProcs == {p1, p2, p3}
=============================================================================
