------------------------------- MODULE Cadence -------------------------------
(***************************************************************************)
(* On which days a run sweeps, and what the summaries that runs leave in     *)
(* runs/{date}/ say of a day's sweep (core/intake.py, core/ingest.py).  The  *)
(* digest's alert and scripts/check_ingestion.py both judge by this module,  *)
(* as both judge by core/intake.py.  Days are numbered from a fetch day.     *)
(***************************************************************************)
EXTENDS Integers

CONSTANTS
  EveryNDays,        (* JOBFETCHER_FETCH_EVERY_N_DAYS                        *)
  FirstCleanCycle    (* FIRST_CLEAN_CYCLE: earlier rate limits are expected  *)

ASSUME CadenceAssumption == EveryNDays \in Nat \ {0} /\ FirstCleanCycle \in Nat

Block   == {"no_block", "not_a_fetch_day", "none", "rate_limited", "budget_exhausted",
            "partial_errors"}
Summary == [ingest : Block, statusCode : {200, 500}, mode : {"daily", "reassess"}]

(***************************************************************************)
(* The cadence.                                                             *)
(***************************************************************************)
IsFetchDay(d) == EveryNDays <= 1 \/ d % EveryNDays = 0

\* Mutant: there is no look-back.
SameDay(d) == IF EveryNDays <= 1 THEN d ELSE d

LatestFetchDay(d) == IF EveryNDays <= 1 THEN d ELSE d - (d % EveryNDays)

(***************************************************************************)
(* What the summaries of a day are once a run has written its own: it is new, *)
(* or it replaces the one that an earlier run of the date wrote under the     *)
(* same run_id.                                                             *)
(***************************************************************************)
Written(day, summary) ==
  {(day \ old) \cup {summary} : old \in {{}} \cup {{s} : s \in day}}

(***************************************************************************)
(* What a block and a day's summaries say.                                  *)
(***************************************************************************)
IsSweep(block) == block \notin {"no_block", "not_a_fetch_day"}

SweepProblem(block, d) ==
  \/ block \in {"budget_exhausted", "partial_errors"}
  \/ block = "rate_limited" /\ d >= FirstCleanCycle

\* Mutant: the first problem of the day is reported, a clean retry or not.
FirstProblem(day, d) ==
  IF \E s \in day : SweepProblem(s.ingest, d) THEN "stopped"
  ELSE IF \E s \in day : IsSweep(s.ingest) THEN "none"
  ELSE IF \E s \in day : s.ingest = "no_block" /\ s.statusCode = 500 /\ s.mode = "daily"
  THEN "crashed"
  ELSE "none"

\* Mutant: a crashed reassess counts as a failed search.
AnyCrash(day, d) ==
  LET sweeps == {s \in day : IsSweep(s.ingest)}
  IN  IF sweeps # {}
      THEN IF \A s \in sweeps : SweepProblem(s.ingest, d) THEN "stopped" ELSE "none"
      ELSE IF \E s \in day : s.ingest = "no_block" /\ s.statusCode = 500
      THEN "crashed" ELSE "none"

\* A clean sweep wins, then a sweep that stopped, then a daily run that crashed
\* and left no block.
ProblemOnDay(day, d) ==
  LET sweeps  == {s \in day : IsSweep(s.ingest)}
      crashed == {s \in day : s.ingest = "no_block" /\ s.statusCode = 500
                                /\ s.mode = "daily"}
  IN  IF \E s \in sweeps : ~SweepProblem(s.ingest, d) THEN "none"
      ELSE IF sweeps # {} THEN "stopped"
      ELSE IF crashed # {} THEN "crashed"
      ELSE "none"
==============================================================================
