---------------------------- MODULE MCRangeLocks ----------------------------
(* RangeLocks with a few processes.                                        *)
EXTENDS RangeLocks

CONSTANTS p1, p2, p3

TwoOwners == {p1, p2}
ThreeOwners == {p1, p2, p3}
=============================================================================
