---------------------------- MODULE MCSplitRuns ----------------------------
(* Instances of SplitRuns for TLC. *)
EXTENDS SplitRuns, TLC

CONSTANTS s1, s2, v1, v2, l1, l2

Symmetric == Permutations(Runs) \cup Permutations(Reversals) \cup Permutations(Lockers)
=============================================================================
