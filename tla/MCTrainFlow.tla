---------------------------- MODULE MCTrainFlow ----------------------------
(* Model values and sets for the TLC runs of TrainFlow. *)
EXTENDS TrainFlowProperties

CONSTANTS p1, p2, r1, r2

OnePolicy   == {p1}
TwoPolicies == {p1, p2}
OneRollout  == {r1}
TwoRollouts == {r1, r2}
=============================================================================
