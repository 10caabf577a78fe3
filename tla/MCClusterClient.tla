--------------------------- MODULE MCClusterClient ---------------------------
(* Instances of the cluster client for TLC.                                *)
EXTENDS ClusterClient, TLC

CONSTANTS m1, m2

TwoMembers == {m1, m2}
Symmetry   == Permutations(TwoMembers)
=============================================================================
