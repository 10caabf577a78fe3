-------------------------- MODULE MCClientConductor --------------------------
(* Instances of the client conductor for TLC.                              *)
EXTENDS ClientConductor

CONSTANTS u1, u2, conductor

OneUser  == {u1}
TwoUsers == {u1, u2}
=============================================================================
