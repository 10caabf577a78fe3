------------------------------- MODULE MCStream ------------------------------
(* Instances of Stream for TLC. *)
EXTENDS Stream, TLC

CONSTANTS p1, p2

OnePublisher  == {p1}
TwoPublishers == {p1, p2}
Symmetry      == Permutations(TwoPublishers)
=============================================================================
