------------------------------ MODULE MCLetter ------------------------------
(* An instance of Letter for TLC: four postings, two of them reposts of one   *)
(* job and two without a fingerprint, read two at a time.                    *)
EXTENDS Letter, TLC

Row(score, previous, changed, judged) ==
  [score |-> score, previous |-> previous, changed |-> changed, judged |-> judged]

fresh == Row(2, NoScore, FALSE, "after")
old   == Row(2, NoScore, FALSE, "before")
risen == Row(3, 1, TRUE, "after")
below == Row(1, NoScore, FALSE, "after")

MCRows == {fresh, old, risen, below}
MCFingerprint == (1 :> 7) @@ (2 :> 0) @@ (3 :> 7) @@ (4 :> 0)
MCTables == {<<old, old, old, old>>, <<old, old, risen, NoRow>>, <<fresh, old, old, fresh>>,
             <<below, NoRow, fresh, old>>, <<NoRow, risen, NoRow, fresh>>,
             <<NoRow, below, NoRow, NoRow>>}
=============================================================================
