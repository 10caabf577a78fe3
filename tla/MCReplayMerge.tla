---------------------------- MODULE MCReplayMerge ----------------------------
(***************************************************************************)
(* The archive client and the replay merge for TLC.                        *)
(***************************************************************************)
EXTENDS ReplayMerge, TLC

\* Goroutines are interchangeable.
CallerSymmetry == Permutations(Callers)
=============================================================================
