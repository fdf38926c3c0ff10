---------------------------- MODULE MCMedallion ----------------------------
(* Instances of Medallion for TLC: postings, runs and contexts are model     *)
(* values, as are scores (nothing here compares two of them), and they are   *)
(* interchangeable in the safety runs.                                       *)
EXTENDS Medallion, TLC

CONSTANTS p1, p2, r1, r2, h1, h2, s1, s2

MCSymmetry ==
  Permutations({p1, p2}) \cup Permutations({r1, r2})
    \cup Permutations({h1, h2}) \cup Permutations({s1, s2})
============================================================================
