------------------------------- MODULE MCScoring -------------------------------
(* Instances of ScoringPool for TLC: scores on either side of the cut and one *)
(* far from it; the threads of the pool are interchangeable.                  *)
EXTENDS ScoringPool, TLC

CONSTANTS w1, w2

MCThreads == Permutations({w1, w2})
=============================================================================
