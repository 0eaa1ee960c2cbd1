----------------------------- MODULE MCHoldings ----------------------------
(* Instances of Holdings for TLC. *)
EXTENDS Holdings, TLC

CONSTANTS e1, e2, k1, d1, d2, f1, f2, x1, x2, p1, p2, r1, r2

Symmetric ==
  Permutations(Legs) \cup Permutations(Disputes) \cup Permutations(Filers)
    \cup Permutations(Resolvers) \cup Permutations(Passes) \cup Permutations(Releases)
=============================================================================
