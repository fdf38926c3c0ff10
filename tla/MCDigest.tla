------------------------------ MODULE MCDigest ------------------------------
(* Instances of Digest for TLC: up to three postings, two of them reposts of *)
(* one job, scores on either side of a bar, one or two configurations.  The   *)
(* repost p2 is before p1 in the order of the ids.                           *)
EXTENDS Digest, TLC

CONSTANTS p1, p2, p3, r1, r2

MCDistinct == [p \in Postings |-> p]
MCReposts  == [p \in Postings |-> IF p = p3 THEN 2 ELSE 1]
MCId       == [p \in Postings |-> CASE p = p2 -> 1 [] p = p1 -> 2 [] OTHER -> 3]

MCNever  == [p \in Postings |-> 0]
MCOnce   == [p \in Postings |-> 1]
MCTwice  == [p \in Postings |-> 2]
MCOnce1  == [p \in Postings |-> IF p = p1 THEN 1 ELSE 0]
MCTwice1 == [p \in Postings |-> IF p = p1 THEN 2 ELSE 1]

MCOneConfig == {[profile_hash |-> 1, threshold |-> 2]}
MCTwoBars   == {[profile_hash |-> 1, threshold |-> 1], [profile_hash |-> 2, threshold |-> 2]}
=============================================================================
