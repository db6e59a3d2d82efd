---------------------------- MODULE MCMembership ----------------------------
(* Model values and sets for the TLC runs of Membership. *)
EXTENDS Membership

CONSTANTS p1, p2, p3, r1, r2

OnePolicy     == {p1}
TwoPolicies   == {p1, p2}
ThreePolicies == {p1, p2, p3}
OneRollout    == {r1}
TwoRollouts   == {r1, r2}
=============================================================================
