------------------------------ MODULE MCCapture ------------------------------
(* An instance of Capture for TLC: a click, a command and a pipeline run.     *)
(* Sleeps of two units fit their budgets once or twice, evenly or not; the    *)
(* capture Lambda may be killed before its budget is spent.                  *)
EXTENDS Capture, TLC

CONSTANTS c1, o1, r1, w1, w2, p1, k1, k2

MCBudget    == (c1 :> 4) @@ (o1 :> 3) @@ (r1 :> 2)
MCInterval  == [c \in Callers |-> 2]
MCTimeLimit == (c1 :> 3) @@ (o1 :> 6) @@ (r1 :> 6)
=============================================================================
