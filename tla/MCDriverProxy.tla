---------------------------- MODULE MCDriverProxy ----------------------------
(***************************************************************************)
(* Small instances of the driver proxy for TLC.                            *)
(***************************************************************************)
EXTENDS DriverProxy, TLC

CONSTANTS p1, p2

TwoProducers == {p1, p2}

Symmetry == Permutations(Producers)
=============================================================================
