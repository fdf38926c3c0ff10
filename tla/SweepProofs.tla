----------------------------- MODULE SweepProofs -----------------------------
(***************************************************************************)
(* The verdict of a sweep is honest and its budget is kept, for every query  *)
(* matrix, page limit and budget.                                           *)
(***************************************************************************)
EXTENDS Sweep, TLAPS

\* What the loop knows at each query: the queries behind it are exactly those
\* asked to their last page as long as none has failed, and a stop leaves the
\* query it stopped at unasked.
SweepInv ==
  /\ SweepTypeOK
  /\ searched \subseteq 1..(query - 1)
  /\ last_failed_queries <= query - 1
  /\ last_failed_queries = 0 => searched = 1..(query - 1)
  /\ last_failed_queries > 0 => \E k \in 1..(query - 1) : k \notin searched
  /\ sweep \in {"idle", "running"} => last_stop_reason = "none"
  /\ sweep = "ended" /\ last_stop_reason = "none" => query = Queries + 1
  /\ last_stop_reason # "none" => query \in Matrix
  /\ last_stop_reason = "budget_exhausted" => made = RequestBudget

\* A sweep starts from nothing searched, nothing failed and nothing billed.
LEMMA SweepInvInit == SweepInit => SweepInv
BY MatrixAssumption DEF SweepInit, SweepInv, SweepTypeOK, Matrix

\* Beginning a sweep, and dropping one, leave the loop at its first query.
LEMMA SweepInvReset ==
  ASSUME Reset, sweep' \in {"idle", "running"}
  PROVE  SweepInv'
BY MatrixAssumption DEF Reset, SweepInv, SweepTypeOK, Matrix

\* Every step of a sweep keeps what the loop knows.
LEMMA SweepInvStep == SweepInv /\ [SweepNext]_sweepVars => SweepInv'
<1> SUFFICES ASSUME SweepInv, [SweepNext]_sweepVars PROVE SweepInv'
  OBVIOUS
<1> USE MatrixAssumption DEF SweepInv, SweepTypeOK, Matrix
<1>1. CASE BeginSweep
  BY <1>1, SweepInvReset DEF BeginSweep
<1>2. CASE DropSweep
  BY <1>2, SweepInvReset DEF DropSweep
<1>3. CASE BudgetStop
  BY <1>3 DEF BudgetStop, StopFor
<1>4. CASE RateLimited
  BY <1>4 DEF RateLimited, Request, StopFor
<1>5. CASE AuthRefused
  BY <1>5 DEF AuthRefused, Request
<1>6. CASE QueryFails
  <2>1. query \in 1..(query' - 1) /\ query \notin searched'
    BY <1>6 DEF QueryFails, Request, NextQuery
  <2>2. SweepTypeOK'
    BY <1>6 DEF QueryFails, Request, NextQuery
  <2>3. QED
    BY <1>6, <2>1, <2>2 DEF QueryFails, Request, NextQuery
<1>7. CASE TurnPage
  BY <1>7 DEF TurnPage, Request
<1>8. CASE LastPage
  <2>1. SweepTypeOK' /\ searched' \subseteq 1..(query' - 1)
    BY <1>8 DEF LastPage, Request, NextQuery
  <2>2. last_failed_queries' = 0 => searched' = 1..(query' - 1)
    BY <1>8 DEF LastPage, Request, NextQuery
  <2>3. last_failed_queries' > 0 => \E k \in 1..(query' - 1) : k \notin searched'
    BY <1>8 DEF LastPage, Request, NextQuery
  <2>4. QED
    BY <1>8, <2>1, <2>2, <2>3 DEF LastPage, Request, NextQuery
<1>9. CASE LoopEnds
  BY <1>9 DEF LoopEnds
<1>10. CASE UNCHANGED sweepVars
  BY <1>10 DEF sweepVars
<1>11. QED
  BY <1>1, <1>2, <1>3, <1>4, <1>5, <1>6, <1>7, <1>8, <1>9, <1>10 DEF SweepNext, SweepStep

\* What the loop knows when it ends is what the verdict says.
LEMMA HonestVerdict == SweepInv => VerdictIsHonest
BY MatrixAssumption DEF SweepInv, SweepTypeOK, VerdictIsHonest, FetchStopped, Matrix

\* What the loop knows of the budget is that it is kept, and spent where it stops.
LEMMA KeptBudget == SweepInv => WithinBudget
BY MatrixAssumption DEF SweepInv, SweepTypeOK, WithinBudget, Matrix

\* fetch_stopped is None exactly when the whole query matrix was searched
\* (jsearch_source.py:197-319 with ingest.py:524-539).
THEOREM VerdictsAreHonest == SweepSpec => []VerdictIsHonest
<1>1. SweepSpec => []SweepInv
  BY SweepInvInit, SweepInvStep, PTL DEF SweepSpec
<1>2. QED
  BY <1>1, HonestVerdict, PTL

\* No sweep bills more requests than its budget (jsearch_source.py:210-223).
THEOREM BudgetIsKept == SweepSpec => []WithinBudget
<1>1. SweepSpec => []SweepInv
  BY SweepInvInit, SweepInvStep, PTL DEF SweepSpec
<1>2. QED
  BY <1>1, KeptBudget, PTL
==============================================================================
