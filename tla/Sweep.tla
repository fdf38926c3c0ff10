-------------------------------- MODULE Sweep --------------------------------
(***************************************************************************)
(* One JSearch sweep (adapters/jsearch_source.py): the matrix of queries,    *)
(* title by country, each searched page by page under a request budget, and *)
(* the verdict core/ingest.py draws from the adapter's two counters.         *)
(*                                                                          *)
(* A query is a number; what a request answers is nondeterministic.  The     *)
(* history variable `searched` holds the queries that were asked to their    *)
(* last page: the verdict is judged against it.                              *)
(***************************************************************************)
EXTENDS Integers

CONSTANTS
  Queries,        (* titles x countries                                      *)
  MaxPages,       (* budget.max_pages_per_query                              *)
  RequestBudget   (* budget.request_budget_per_run                           *)

ASSUME MatrixAssumption ==
  Queries \in Nat /\ MaxPages \in Nat \ {0} /\ RequestBudget \in Nat

VARIABLES
  sweep,                (* idle, running, ended, or raised                    *)
  query,                (* the query the loop is at                           *)
  page,                 (* the page of it to ask for next                     *)
  made,                 (* requests made: every one is billed                 *)
  last_stop_reason,     (* why the loop was left early, "none" if it was not  *)
  last_failed_queries,  (* queries given up on an upstream error              *)
  searched              (* history: queries asked to their last page          *)

sweepVars == <<sweep, query, page, made, last_stop_reason, last_failed_queries, searched>>

Matrix == 1..Queries

SweepTypeOK ==
  /\ sweep \in {"idle", "running", "ended", "raised"}
  /\ query \in 1..(Queries + 1)
  /\ page \in 1..MaxPages
  /\ made \in 0..RequestBudget
  /\ last_stop_reason \in {"none", "rate_limited", "budget_exhausted"}
  /\ last_failed_queries \in 0..Queries
  /\ searched \subseteq Matrix

SweepInit ==
  /\ sweep = "idle"
  /\ query = 1 /\ page = 1 /\ made = 0
  /\ last_stop_reason = "none" /\ last_failed_queries = 0
  /\ searched = {}

(***************************************************************************)
(* The adapter is built for one run, and resets itself when a sweep begins.  *)
(***************************************************************************)
Reset ==
  /\ query' = 1 /\ page' = 1 /\ made' = 0
  /\ last_stop_reason' = "none" /\ last_failed_queries' = 0
  /\ searched' = {}

BeginSweep == sweep = "idle" /\ sweep' = "running" /\ Reset

DropSweep == sweep' = "idle" /\ Reset

StopFor(reason) == sweep' = "ended" /\ last_stop_reason' = reason

NextQuery == query' = query + 1 /\ page' = 1

BudgetStop ==
  /\ sweep = "running" /\ query <= Queries
  /\ made >= RequestBudget
  /\ StopFor("budget_exhausted")
  /\ UNCHANGED <<query, page, made, last_failed_queries, searched>>

\* A request is counted before it is sent, whatever it answers.
Request ==
  /\ sweep = "running" /\ query <= Queries
  /\ made < RequestBudget
  /\ made' = made + 1

RateLimited ==
  /\ Request
  /\ StopFor("rate_limited")
  /\ UNCHANGED <<query, page, last_failed_queries, searched>>

\* 401 and 403 raise out of the sweep, and out of the run.
AuthRefused ==
  /\ Request
  /\ sweep' = "raised"
  /\ UNCHANGED <<query, page, last_stop_reason, last_failed_queries, searched>>

\* Mutant: a failed query is skipped without being counted.
SkipQuery ==
  /\ Request
  /\ NextQuery
  /\ UNCHANGED <<sweep, last_stop_reason, last_failed_queries, searched>>

\* Any other HTTP error, a transient error, a body that is not an answer.
QueryFails ==
  /\ Request
  /\ last_failed_queries' = last_failed_queries + 1
  /\ NextQuery
  /\ UNCHANGED <<sweep, last_stop_reason, searched>>

\* Mutant: the page number has no limit.
TurnEveryPage ==
  /\ Request
  /\ page' = page + 1
  /\ UNCHANGED <<sweep, query, last_stop_reason, last_failed_queries, searched>>

TurnPage ==
  /\ page < MaxPages
  /\ Request
  /\ page' = page + 1
  /\ UNCHANGED <<sweep, query, last_stop_reason, last_failed_queries, searched>>

\* A short page, or the last page the budget section allows.
LastPage ==
  /\ Request
  /\ searched' = searched \cup {query}
  /\ NextQuery
  /\ UNCHANGED <<sweep, last_stop_reason, last_failed_queries>>

LoopEnds ==
  /\ sweep = "running" /\ query > Queries
  /\ sweep' = "ended"
  /\ UNCHANGED <<query, page, made, last_stop_reason, last_failed_queries, searched>>

SweepStep ==
  \/ BudgetStop
  \/ RateLimited
  \/ AuthRefused
  \/ QueryFails
  \/ TurnPage
  \/ LastPage
  \/ LoopEnds

SweepNext == BeginSweep \/ SweepStep \/ DropSweep

SweepSpec == SweepInit /\ [][SweepNext]_sweepVars

(***************************************************************************)
(* The verdict, drawn when the sweep has ended.                             *)
(***************************************************************************)
FetchStopped ==
  IF last_stop_reason = "none" /\ last_failed_queries > 0
  THEN "partial_errors" ELSE last_stop_reason

\* "None = it worked through its whole query matrix" (ingest.py:510-511): the
\* verdict is `none` exactly when every query was asked to its last page.
VerdictIsHonest == sweep = "ended" => (FetchStopped = "none" <=> searched = Matrix)

\* A sweep never bills more requests than its budget, and it stops for the budget
\* only when a query is left that it could not ask.
WithinBudget ==
  /\ made <= RequestBudget
  /\ last_stop_reason = "budget_exhausted" => made = RequestBudget /\ query \notin searched
==============================================================================
