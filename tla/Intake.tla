-------------------------------- MODULE Intake --------------------------------
(***************************************************************************)
(* What the digest says of intake: on which days a run sweeps, how its sweep *)
(* and its crashes are recorded in runs/{date}/{run_id}.json, and the alert  *)
(* that leads the digest until a sweep succeeds (core/intake.py, the cadence *)
(* of core/ingest.py, adapters/s3_audit.py and handlers/pipeline.py).        *)
(*                                                                          *)
(* One run is in flight at a time: it may be repeated on its day, be for     *)
(* yesterday's date, be a reassess, fail with a 500, or die.  Days are       *)
(* numbered from a fetch day.                                               *)
(***************************************************************************)
EXTENDS Sweep, Cadence

CONSTANTS
  MaxDay,            (* bound: days                                          *)
  MaxInvocations,    (* bound: runs                                          *)
  MaxLosses          (* bound: runs that die, and S3 calls that fail         *)

ASSUME IntakeBounds == {MaxDay, MaxInvocations, MaxLosses} \subseteq Nat

VARIABLES
  today,
  invocations,
  losses,
  summaries,    (* runs/{date}/: the run summaries written for each date     *)
  sent,         (* run_log: the dates whose digest is recorded               *)
  pc,           (* the stage of the run in flight, "idle" when there is none *)
  run_date, mode,
  audit_store,  (* was the store built? None until then                      *)
  ingest,       (* the ingest block: no block, or its fetch_stopped          *)
  alert,        (* what the digest leads with; unknown renders nothing       *)
  outcome,      (* history: what became of each date's sweeps                *)
  erased,       (* history: what of it no summary tells any more: the one    *)
                (* that did was replaced                                     *)
  unrecorded    (* history: dates of which some run's sweep left no record    *)

runVars == <<pc, run_date, mode, audit_store, ingest, alert>>
history == <<outcome, erased, unrecorded>>
vars    == <<sweepVars, today, invocations, losses, summaries, sent, runVars, history>>

Days    == 0..MaxDay
Outcome == {"fine", "short", "crashed"}

TypeOK ==
  /\ SweepTypeOK
  /\ today \in Days
  /\ invocations \in 0..MaxInvocations /\ losses \in 0..MaxLosses
  /\ summaries \in [Days -> SUBSET Summary]
  /\ sent \subseteq Days
  /\ pc \in {"idle", "smoke", "prepare", "sweep", "dissect", "score", "alert", "send", "mark", "done",
             "failed"}
  /\ run_date \in Days /\ mode \in {"daily", "reassess"}
  /\ audit_store \in BOOLEAN
  /\ ingest \in Block
  /\ alert \in {"none", "unknown", "stopped", "crashed"}
  /\ outcome \in [Days -> SUBSET Outcome] /\ erased \in [Days -> SUBSET Outcome]
  /\ unrecorded \subseteq Days

Init ==
  /\ SweepInit
  /\ today = 0 /\ invocations = 0 /\ losses = 0
  /\ summaries = [d \in Days |-> {}]
  /\ sent = {}
  /\ pc = "idle" /\ run_date = 0 /\ mode = "daily"
  /\ audit_store = FALSE /\ ingest = "no_block" /\ alert = "none"
  /\ outcome = [d \in Days |-> {}] /\ erased = [d \in Days |-> {}] /\ unrecorded = {}

(***************************************************************************)
(* The run.                                                                 *)
(***************************************************************************)
Goto(from, to) == pc = from /\ pc' = to

Start(d, m) ==
  /\ Goto("idle", "prepare")
  /\ invocations < MaxInvocations
  /\ invocations' = invocations + 1
  /\ d \in {today - 1, today} \cap Days
  /\ run_date' = d /\ mode' = m
  /\ UNCHANGED <<sweepVars, today, losses, summaries, sent, audit_store, ingest, alert,
                 history>>

\* The deploy gate reads the schema's version and leaves nothing behind, not even
\* a summary; the bound does not count it.
StartSmoke ==
  /\ Goto("idle", "smoke")
  /\ UNCHANGED <<sweepVars, today, invocations, losses, summaries, sent, run_date, mode,
                 audit_store, ingest, alert, history>>

EndSmoke ==
  /\ Goto("smoke", "idle")
  /\ UNCHANGED <<sweepVars, today, invocations, losses, summaries, sent, run_date, mode,
                 audit_store, ingest, alert, history>>

\* An S3 call that fails, or a run that dies; the bound is on both.
Lose == losses < MaxLosses /\ losses' = losses + 1

\* The configuration is read, the database waited for and the profile synced
\* before the audit store is built; building it may fail, and the run goes on.
Prepare ==
  /\ Goto("prepare", IF mode = "daily" /\ IsFetchDay(run_date) THEN "sweep" ELSE "score")
  /\ IF mode = "daily" /\ IsFetchDay(run_date) THEN BeginSweep ELSE UNCHANGED sweepVars
  /\ ingest' = IF mode = "daily" /\ ~IsFetchDay(run_date) THEN "not_a_fetch_day" ELSE ingest
  /\ \/ audit_store' = TRUE /\ UNCHANGED losses
     \/ audit_store' = FALSE /\ Lose
  /\ UNCHANGED <<today, invocations, summaries, sent, run_date, mode, alert, history>>

\* Nothing is wrong with a sweep that searched the whole matrix, or with the rate
\* limit of a month whose quota the old cadence had spent.
Fine ==
  \/ searched = Matrix
  \/ last_stop_reason = "rate_limited" /\ run_date < FirstCleanCycle

\* The sweep runs while postings are landed; what it really searched is known
\* once it has ended.
SweepOn ==
  /\ pc = "sweep" /\ SweepStep
  /\ pc' = CASE sweep' = "ended" -> "dissect" [] sweep' = "raised" -> "failed"
             [] OTHER -> pc
  /\ UNCHANGED <<today, invocations, losses, summaries, sent, run_date, mode, audit_store,
                 ingest, alert, unrecorded>>
  /\ IF sweep' = "ended"
     THEN LET end == IF Fine' THEN "fine" ELSE "short"
          IN  /\ outcome' = [outcome EXCEPT ![run_date] = @ \cup {end}]
              /\ erased' = [erased EXCEPT ![run_date] = @ \ {end}]
     ELSE UNCHANGED <<outcome, erased>>

\* ingest returns, with the verdict, only after the dissections.
EndIngest ==
  /\ Goto("dissect", "score")
  /\ ingest' = FetchStopped
  /\ UNCHANGED <<sweepVars, today, invocations, losses, summaries, sent, run_date, mode,
                 audit_store, alert, history>>

\* A reassess run, a run for a recorded date and a partial run send nothing.
SkipNotify ==
  /\ Goto("score", "done")
  /\ UNCHANGED <<sweepVars, today, invocations, losses, summaries, sent, run_date, mode,
                 audit_store, ingest, alert, history>>

BeginNotify ==
  /\ mode = "daily" /\ run_date \notin sent
  /\ Goto("score", "alert")
  /\ UNCHANGED <<sweepVars, today, invocations, losses, summaries, sent, run_date, mode,
                 audit_store, ingest, alert, history>>

\* _intake_alert_for_digest, when the summaries it needs can be read.
ReadAlert ==
  LET fetch_day == LatestFetchDay(run_date)
      day       == summaries[fetch_day]
  IN  IF fetch_day = run_date
      THEN IF ~SweepProblem(ingest, run_date) THEN "none"
           ELSE IF ~audit_store THEN "stopped"
           ELSE ProblemOnDay(day \cup {[ingest |-> ingest, statusCode |-> 200,
                                        mode |-> mode]}, run_date)
      ELSE IF ~audit_store THEN "unknown"
      ELSE ProblemOnDay(day, fetch_day)

\* A read that fails leaves the run's own verdict on a fetch day, and nothing
\* between fetch days.
GuessAlert ==
  IF LatestFetchDay(run_date) # run_date THEN "unknown"
  ELSE IF SweepProblem(ingest, run_date) THEN "stopped" ELSE "none"

DecideAlert ==
  /\ Goto("alert", "send")
  /\ \/ alert' = ReadAlert /\ UNCHANGED losses
     \/ alert' = GuessAlert /\ Lose
  /\ UNCHANGED <<sweepVars, today, invocations, summaries, sent, run_date, mode, audit_store,
                 ingest, history>>

Send ==
  /\ Goto("send", "mark")
  /\ UNCHANGED <<sweepVars, today, invocations, losses, summaries, sent, run_date, mode,
                 audit_store, ingest, alert, history>>

MarkSent ==
  /\ Goto("mark", "done")
  /\ sent' = sent \cup {run_date}
  /\ UNCHANGED <<sweepVars, today, invocations, losses, summaries, run_date, mode,
                 audit_store, ingest, alert, history>>

\* Any stage may raise: a database or an S3 raw write in the sweep and the
\* dissections, an LLM or a filter set-up, the e-mail.
Raise ==
  /\ pc \in {"prepare", "sweep", "dissect", "score", "alert", "send", "mark"}
  /\ pc' = "failed"
  /\ UNCHANGED <<sweepVars, today, invocations, losses, summaries, sent, run_date, mode,
                 audit_store, ingest, alert, history>>

(***************************************************************************)
(* The end of a run.  The summary is written if the store was built and the *)
(* write succeeds; a run that dies writes none.  A run that was given the    *)
(* run_id of an earlier one replaces its summary, whatever that told.        *)
(***************************************************************************)
Tells(s, d) ==
  IF IsSweep(s.ingest) THEN {IF SweepProblem(s.ingest, d) THEN "short" ELSE "fine"}
  ELSE IF s.ingest = "no_block" /\ s.statusCode = 500 /\ s.mode = "daily" THEN {"crashed"}
  ELSE {}

Told(day, d) == UNION {Tells(s, d) : s \in day}

Searching == mode = "daily" /\ IsFetchDay(run_date)

Over(written) ==
  /\ DropSweep
  /\ pc' = "idle" /\ run_date' = 0 /\ mode' = "daily"
  /\ audit_store' = FALSE /\ ingest' = "no_block" /\ alert' = "none"
  /\ outcome' = [outcome EXCEPT ![run_date] =
       IF Searching /\ ingest = "no_block" THEN @ \cup {"crashed"} ELSE @]
  /\ unrecorded' = unrecorded \cup
       {d \in {run_date} : Searching /\ ~(written /\ (sweep = "ended" => ingest # "no_block"))}
  /\ UNCHANGED <<today, invocations, sent>>

OwnSummary == [ingest |-> ingest, statusCode |-> IF pc = "failed" THEN 500 ELSE 200,
               mode |-> mode]

WriteSummary ==
  /\ pc \in {"done", "failed"}
  /\ audit_store
  /\ \E day \in Written(summaries[run_date], OwnSummary) :
       /\ summaries' = [summaries EXCEPT ![run_date] = day]
       /\ erased' = [erased EXCEPT ![run_date] =
            (@ \cup Told(summaries[run_date], run_date)) \ Told(day, run_date)]
  /\ Over(TRUE)
  /\ UNCHANGED losses

NoSummary ==
  /\ pc \in {"done", "failed"}
  /\ IF audit_store THEN Lose ELSE UNCHANGED losses
  /\ Over(FALSE)
  /\ UNCHANGED <<summaries, erased>>

Die ==
  /\ pc \notin {"idle", "smoke"}
  /\ Lose
  /\ Over(FALSE)
  /\ UNCHANGED <<summaries, erased>>

NextDay ==
  /\ pc = "idle" /\ today < MaxDay
  /\ today' = today + 1
  /\ UNCHANGED <<sweepVars, invocations, losses, summaries, sent, runVars, history>>

Next ==
  \/ \E d \in Days, m \in {"daily", "reassess"} : Start(d, m)
  \/ StartSmoke \/ EndSmoke
  \/ Prepare \/ SweepOn \/ EndIngest
  \/ SkipNotify \/ BeginNotify \/ DecideAlert \/ Send \/ MarkSent
  \/ Raise
  \/ WriteSummary \/ NoSummary \/ Die
  \/ NextDay

Spec == Init /\ [][Next]_vars

(***************************************************************************)
(* Properties of the digest that is about to be sent.                       *)
(***************************************************************************)

\* The fetch day a date's intake comes from, by what a fetch day is.
CycleOf(d) ==
  CHOOSE k \in 0..d : IsFetchDay(k) /\ \A j \in (k + 1)..d : ~IsFetchDay(j)

\* An alert is never made up (pipeline.py:361-362): some daily run of the fetch
\* day left part of the matrix unsearched, or died before it could search it all.
AlertHasCause ==
  pc = "send" /\ alert \in {"stopped", "crashed"}
    => outcome[CycleOf(run_date)] \cap {"short", "crashed"} # {}

\* "EVERY day until a sweep succeeds" (pipeline.py:346-347): while no sweep of the
\* fetch day was fine and one fell short or crashed, every digest of the cycle
\* says so, unless a record was lost, cannot be read, or was replaced by that of a run
\* given the same run_id (pipeline.py:201-206).
AlertUntilSweep ==
  pc = "send" /\ alert = "none" /\ outcome[CycleOf(run_date)] # {}
    => \/ "fine" \in outcome[CycleOf(run_date)]
       \/ CycleOf(run_date) \in unrecorded
       \/ outcome[CycleOf(run_date)] \subseteq erased[CycleOf(run_date)]

\* A fine sweep silences the alert for its whole cycle, whatever crashed or stopped
\* before or after it that day, unless a record of it was lost or every one of a fine
\* sweep was replaced; only on the fetch day itself may a record that cannot be read
\* leave a run with its own verdict.
FineSweepSilences ==
  pc = "send" /\ alert \in {"stopped", "crashed"} /\ "fine" \in outcome[CycleOf(run_date)]
    => \/ CycleOf(run_date) \in unrecorded
       \/ "fine" \in erased[CycleOf(run_date)]
       \/ losses > 0 /\ IsFetchDay(run_date)
==============================================================================
