----------------------------- MODULE IntakeProofs -----------------------------
(***************************************************************************)
(* The intake alert is never made up, for every cadence, query matrix,       *)
(* budget, and number of runs, deaths and S3 failures; and intake uses the   *)
(* sweep as SweepSpec allows.                                               *)
(***************************************************************************)
EXTENDS Intake, SweepProofs

(***************************************************************************)
(* The closed form of the look-back.                                        *)
(***************************************************************************)

\* d - d % n is the last multiple of n up to d.
LEMMA LastMultiple ==
  ASSUME NEW n \in Nat, n > 1, NEW d \in Nat
  PROVE  /\ d - (d % n) \in 0..d
         /\ (d - (d % n)) % n = 0
         /\ \A j \in (d - (d % n) + 1)..d : j % n # 0
<1> DEFINE q == d \div n
           r == d % n
<1>1. q \in Nat /\ r \in 0..(n - 1) /\ d = n * q + r
  BY SMT
<1>2. (n * q) % n = 0
  BY <1>1, SMT
<1>3. ASSUME NEW j \in (n * q + 1)..d PROVE j % n # 0
  BY <1>1, <1>3, SMT
<1>4. QED
  BY <1>1, <1>2, <1>3, SMT

\* latest_fetch_day (core/intake.py:158-165) finds the last fetch day there was.
LEMMA LatestIsCycle ==
  ASSUME NEW d \in Days
  PROVE  /\ LatestFetchDay(d) \in Days
         /\ IsFetchDay(LatestFetchDay(d))
         /\ CycleOf(d) = LatestFetchDay(d)
<1> DEFINE Cycle(k) == IsFetchDay(k) /\ \A j \in (k + 1)..d : ~IsFetchDay(j)
<1>1. d \in Nat /\ EveryNDays \in Nat \ {0}
  BY CadenceAssumption, IntakeBounds DEF Days
<1>2. LatestFetchDay(d) \in 0..d /\ Cycle(LatestFetchDay(d))
  <2>1. CASE EveryNDays <= 1
    BY <1>1, <2>1 DEF LatestFetchDay, IsFetchDay
  <2>2. CASE EveryNDays > 1
    <3> DEFINE last == d - (d % EveryNDays)
    <3>1. LatestFetchDay(d) = last
      BY <1>1, <2>2 DEF LatestFetchDay
    <3>2. last \in 0..d /\ last % EveryNDays = 0 /\ \A j \in (last + 1)..d : j % EveryNDays # 0
      BY <1>1, <2>2, LastMultiple
    <3>3. \A j \in Nat : IsFetchDay(j) <=> j % EveryNDays = 0
      BY <1>1, <2>2 DEF IsFetchDay
    <3> HIDE DEF last
    <3>4. Cycle(last)
      BY <1>1, <3>2, <3>3
    <3>5. QED
      BY <3>1, <3>2, <3>4
  <2>3. QED
    BY <1>1, <2>1, <2>2
<1>3. CycleOf(d) \in 0..d /\ Cycle(CycleOf(d))
  <2>1. \E k \in 0..d : Cycle(k)
    BY <1>2
  <2>2. CycleOf(d) = CHOOSE k \in 0..d : Cycle(k)
    BY DEF CycleOf
  <2>3. QED
    BY <2>1, <2>2, Zenon
<1>4. ASSUME NEW k \in 0..d, NEW l \in 0..d, Cycle(k), Cycle(l) PROVE k = l
  BY <1>1, <1>4
<1>5. CycleOf(d) = LatestFetchDay(d)
  BY <1>2, <1>3, <1>4
<1>6. LatestFetchDay(d) \in Days
  BY <1>1, <1>2, CadenceAssumption, IntakeBounds DEF Days
<1>7. QED
  BY <1>2, <1>5, <1>6

(***************************************************************************)
(* The invariant.                                                           *)
(***************************************************************************)

\* Where the run is fixes what its sweep and its block may be.
StageInv ==
  /\ pc = "dissect" => sweep = "ended"
  /\ pc \in {"idle", "smoke", "prepare", "sweep", "dissect"} => ingest = "no_block"

\* A problem in the run's verdict, or in its block, is in the outcome of its date.
VerdictCause ==
  pc = "dissect" /\ SweepProblem(FetchStopped, run_date) => "short" \in outcome[run_date]

BlockCause ==
  SweepProblem(ingest, run_date) => "short" \in outcome[run_date]

\* So is a problem in a summary of a date, and a crash that left no block.
RecordCause ==
  \A d \in Days : \A s \in summaries[d] :
    /\ SweepProblem(s.ingest, d) => "short" \in outcome[d]
    /\ s.ingest = "no_block" /\ s.statusCode = 500 /\ s.mode = "daily" /\ IsFetchDay(d)
         => "crashed" \in outcome[d]

IntakeInv ==
  /\ TypeOK
  /\ SweepInv
  /\ StageInv
  /\ VerdictCause
  /\ BlockCause
  /\ RecordCause
  /\ AlertHasCause

\* What a run writes is in its date's summaries, beside some of those that were there.
LEMMA WrittenDay ==
  ASSUME NEW day, NEW s, NEW after \in Written(day, s)
  PROVE  s \in after /\ after \subseteq day \cup {s}
BY DEF Written

\* An outcome that only grows keeps every cause that is on record.
LEMMA RecordGrows ==
  ASSUME RecordCause, TypeOK, summaries' = summaries,
         \A d \in Days : outcome[d] \subseteq outcome'[d]
  PROVE  RecordCause'
BY DEF RecordCause, SweepProblem, IsFetchDay, TypeOK

\* Every step of a run uses the sweep as SweepSpec allows, or leaves it alone.
LEMMA SweepStepOrNot == [Next]_vars => [SweepNext]_sweepVars
<1> USE DEF SweepNext
<1>1. ASSUME Next PROVE [SweepNext]_sweepVars
  <2>1. ASSUME Prepare PROVE [SweepNext]_sweepVars
    BY <2>1 DEF Prepare
  <2>2. ASSUME SweepOn PROVE [SweepNext]_sweepVars
    BY <2>2 DEF SweepOn
  <2>3. ASSUME WriteSummary \/ NoSummary \/ Die PROVE [SweepNext]_sweepVars
    BY <2>3 DEF WriteSummary, NoSummary, Die, Over
  <2>4. ASSUME \/ \E d \in Days, m \in {"daily", "reassess"} : Start(d, m)
               \/ StartSmoke \/ EndSmoke \/ EndIngest \/ SkipNotify \/ BeginNotify
               \/ DecideAlert \/ Send \/ MarkSent \/ Raise \/ NextDay
        PROVE  UNCHANGED sweepVars
    BY <2>4 DEF Start, StartSmoke, EndSmoke, EndIngest, SkipNotify, BeginNotify,
                DecideAlert, Send, MarkSent, Raise, NextDay
  <2>5. QED
    BY <1>1, <2>1, <2>2, <2>3, <2>4 DEF Next
<1>2. QED
  BY <1>1 DEF vars

\* What a fetch day's fold reports, its summaries have a cause for.
LEMMA ProblemHasCause ==
  ASSUME TypeOK, NEW d \in Days, IsFetchDay(d), NEW day,
         \A s \in day :
           /\ SweepProblem(s.ingest, d) => "short" \in outcome[d]
           /\ s.ingest = "no_block" /\ s.statusCode = 500 /\ s.mode = "daily"
                => "crashed" \in outcome[d],
         ProblemOnDay(day, d) \in {"stopped", "crashed"}
  PROVE  outcome[d] \cap {"short", "crashed"} # {}
BY DEF ProblemOnDay

\* The runs begin with no sweep, no summary and no alert.
LEMMA IntakeInvInit == Init => IntakeInv
<1> SUFFICES ASSUME Init PROVE IntakeInv
  OBVIOUS
<1>1. SweepInv
  BY SweepInvInit DEF Init
<1>2. TypeOK
  <2>1. 0 \in Days /\ 0 \in 0..MaxInvocations /\ 0 \in 0..MaxLosses
    BY CadenceAssumption, IntakeBounds DEF Days
  <2>2. SweepTypeOK
    BY <1>1 DEF SweepInv
  <2>3. /\ summaries \in [Days -> SUBSET Summary]
        /\ outcome \in [Days -> SUBSET Outcome] /\ erased \in [Days -> SUBSET Outcome]
    BY DEF Init
  <2>4. QED
    BY <2>1, <2>2, <2>3 DEF Init, TypeOK, Block
<1>3. RecordCause /\ BlockCause /\ VerdictCause /\ StageInv /\ AlertHasCause
  BY DEF Init, RecordCause, BlockCause, VerdictCause, StageInv, AlertHasCause, SweepProblem
<1>4. QED
  BY <1>1, <1>2, <1>3 DEF IntakeInv

\* The types, one step per action.
LEMMA TypeStep == TypeOK /\ SweepInv' /\ [Next]_vars => TypeOK'
<1> SUFFICES ASSUME TypeOK, SweepInv', [Next]_vars PROVE TypeOK'
  OBVIOUS
<1>0. SweepTypeOK'
  BY DEF SweepInv
<1> USE CadenceAssumption, IntakeBounds, <1>0 DEF TypeOK, Days, Block, history
<1>1. ASSUME NEW d \in Days, NEW m \in {"daily", "reassess"}, Start(d, m) PROVE TypeOK'
  BY <1>1 DEF Start, Goto
<1>2. CASE StartSmoke \/ EndSmoke
  BY <1>2 DEF StartSmoke, EndSmoke, Goto
<1>3. CASE Prepare
  <2>1. losses' \in 0..MaxLosses
    BY <1>3 DEF Prepare, Lose
  <2>2. pc' \in {"sweep", "score"} /\ ingest' \in Block /\ audit_store' \in BOOLEAN
    BY <1>3 DEF Prepare, Goto
  <2>3. QED
    BY <1>3, <2>1, <2>2 DEF Prepare
<1>4. CASE SweepOn
  <2>1. pc' \in {"dissect", "failed", "sweep"}
    BY <1>4 DEF SweepOn
  <2>2. outcome' \in [Days -> SUBSET Outcome] /\ erased' \in [Days -> SUBSET Outcome]
    BY <1>4 DEF SweepOn, Outcome
  <2>3. QED
    BY <1>4, <2>1, <2>2 DEF SweepOn
<1>5. CASE EndIngest
  <2>1. FetchStopped \in Block
    BY DEF FetchStopped, SweepTypeOK
  <2>2. QED
    BY <1>5, <2>1 DEF EndIngest, Goto
<1>6. CASE SkipNotify \/ BeginNotify
  BY <1>6 DEF SkipNotify, BeginNotify, Goto
<1>7. CASE DecideAlert
  <2>1. {ReadAlert, GuessAlert} \subseteq {"none", "unknown", "stopped", "crashed"}
    BY DEF ReadAlert, GuessAlert, ProblemOnDay
  <2>2. QED
    BY <1>7, <2>1 DEF DecideAlert, Goto, Lose
<1>8. CASE Send \/ MarkSent \/ Raise
  BY <1>8 DEF Send, MarkSent, Raise, Goto
<1>9. ASSUME NEW written \in BOOLEAN, Over(written)
      PROVE  /\ outcome' \in [Days -> SUBSET Outcome] /\ unrecorded' \subseteq Days
             /\ today' \in Days /\ invocations' \in 0..MaxInvocations /\ sent' \subseteq Days
             /\ pc' = "idle" /\ run_date' \in Days /\ mode' = "daily"
             /\ audit_store' = FALSE /\ ingest' = "no_block" /\ alert' = "none"
  <2>1. outcome' \in [Days -> SUBSET Outcome]
    BY <1>9 DEF Over, Outcome
  <2>2. unrecorded' \subseteq Days
    BY <1>9 DEF Over
  <2>3. 0 \in Days
    OBVIOUS
  <2>4. QED
    BY <1>9, <2>1, <2>2, <2>3 DEF Over
<1>10. CASE WriteSummary
  <2>1. OwnSummary \in Summary
    BY DEF OwnSummary, Summary
  <2>2. PICK day \in Written(summaries[run_date], OwnSummary) :
          /\ summaries' = [summaries EXCEPT ![run_date] = day]
          /\ erased' = [erased EXCEPT ![run_date] =
               (@ \cup Told(summaries[run_date], run_date)) \ Told(day, run_date)]
    BY <1>10 DEF WriteSummary
  <2>3. summaries' \in [Days -> SUBSET Summary]
    BY <2>1, <2>2, WrittenDay
  <2>4. Told(summaries[run_date], run_date) \subseteq Outcome
    BY DEF Told, Tells, Outcome
  <2>5. erased' \in [Days -> SUBSET Outcome]
    BY <2>2, <2>4
  <2>6. QED
    BY <1>9, <1>10, <2>3, <2>5 DEF WriteSummary
<1>11. CASE NoSummary \/ Die
  <2>1. losses' \in 0..MaxLosses
    <3>1. Lose \/ losses' = losses
      BY <1>11 DEF NoSummary, Die
    <3>2. QED
      BY <3>1 DEF Lose
  <2>2. Over(FALSE) /\ summaries' = summaries /\ erased' = erased
    BY <1>11 DEF NoSummary, Die
  <2>3. QED
    BY <1>9, <2>1, <2>2
<1>12. CASE NextDay
  BY <1>12 DEF NextDay, runVars, history
<1>13. CASE UNCHANGED vars
  BY <1>13 DEF vars, runVars, history
<1>14. QED
  BY <1>1, <1>2, <1>3, <1>4, <1>5, <1>6, <1>7, <1>8, <1>10, <1>11, <1>12, <1>13 DEF Next

\* Where the run is, one step per kind of action.
LEMMA StageStep == TypeOK /\ StageInv /\ [Next]_vars => StageInv'
<1> SUFFICES ASSUME TypeOK, StageInv, [Next]_vars PROVE StageInv'
  OBVIOUS
<1> USE DEF StageInv, Goto
<1>1. ASSUME NEW d \in Days, NEW m \in {"daily", "reassess"}, Start(d, m) PROVE StageInv'
  BY <1>1 DEF Start
<1>2. CASE StartSmoke \/ EndSmoke
  BY <1>2 DEF StartSmoke, EndSmoke
<1>3. CASE Prepare
  BY <1>3 DEF Prepare
<1>4. CASE SweepOn
  BY <1>4 DEF SweepOn
<1>5. CASE EndIngest \/ SkipNotify \/ BeginNotify \/ DecideAlert \/ Send \/ MarkSent \/ Raise
  BY <1>5 DEF EndIngest, SkipNotify, BeginNotify, DecideAlert, Send, MarkSent, Raise
<1>6. CASE WriteSummary \/ NoSummary \/ Die
  BY <1>6 DEF WriteSummary, NoSummary, Die, Over
<1>7. CASE NextDay \/ UNCHANGED vars
  BY <1>7 DEF NextDay, vars, runVars, sweepVars
<1>8. QED
  BY <1>1, <1>2, <1>3, <1>4, <1>5, <1>6, <1>7 DEF Next

\* A sweep that was fine has a verdict without a problem, by its honesty.
LEMMA FineVerdict ==
  SweepInv /\ run_date \in Nat /\ sweep = "ended" /\ Fine => ~SweepProblem(FetchStopped, run_date)
<1> SUFFICES ASSUME SweepInv, run_date \in Nat, sweep = "ended", Fine
             PROVE  ~SweepProblem(FetchStopped, run_date)
  OBVIOUS
<1>1. CASE searched = Matrix
  <2>1. FetchStopped = "none"
    BY <1>1, HonestVerdict DEF VerdictIsHonest
  <2>2. QED
    BY <2>1 DEF SweepProblem
<1>2. CASE last_stop_reason = "rate_limited" /\ run_date < FirstCleanCycle
  BY <1>2, CadenceAssumption, IntakeBounds DEF FetchStopped, SweepProblem
<1>3. QED
  BY <1>1, <1>2 DEF Fine

\* The same of the next state.
LEMMA FineVerdictNext ==
  (SweepInv /\ run_date \in Nat /\ sweep = "ended" /\ Fine
     => ~SweepProblem(FetchStopped, run_date))'
BY FineVerdict, PTL

\* Causes, one step per action.
LEMMA CauseStep ==
  IntakeInv /\ SweepInv' /\ TypeOK' /\ [Next]_vars
    => VerdictCause' /\ BlockCause' /\ RecordCause' /\ AlertHasCause'
<1> SUFFICES ASSUME IntakeInv, SweepInv', TypeOK', [Next]_vars
             PROVE  VerdictCause' /\ BlockCause' /\ RecordCause' /\ AlertHasCause'
  OBVIOUS
<1> DEFINE Causes == VerdictCause /\ BlockCause /\ RecordCause /\ AlertHasCause
<1> USE DEF IntakeInv
<1>1. ASSUME NEW d \in Days, NEW m \in {"daily", "reassess"}, Start(d, m) PROVE Causes'
  <2>1. RecordCause'
    BY <1>1, RecordGrows DEF Start, history
  <2>2. VerdictCause' /\ BlockCause' /\ AlertHasCause'
    BY <1>1 DEF Start, Goto, StageInv, VerdictCause, BlockCause, AlertHasCause, SweepProblem
  <2>3. QED
    BY <2>1, <2>2
<1>2. CASE StartSmoke \/ EndSmoke \/ SkipNotify \/ BeginNotify \/ Send \/ MarkSent \/ Raise
  <2>1. RecordCause'
    BY <1>2, RecordGrows DEF StartSmoke, EndSmoke, SkipNotify, BeginNotify, Send, MarkSent,
                             Raise, history
  <2>2. VerdictCause' /\ AlertHasCause'
    BY <1>2 DEF StartSmoke, EndSmoke, SkipNotify, BeginNotify, Send, MarkSent, Raise, Goto,
                VerdictCause, AlertHasCause
  <2>3. BlockCause'
    BY <1>2 DEF StartSmoke, EndSmoke, SkipNotify, BeginNotify, Send, MarkSent, Raise, history,
                BlockCause, SweepProblem
  <2>4. QED
    BY <2>1, <2>2, <2>3
<1>3. CASE Prepare
  <2>1. RecordCause'
    BY <1>3, RecordGrows DEF Prepare, history
  <2>2. ingest' \in {"no_block", "not_a_fetch_day"} /\ pc' \in {"sweep", "score"}
    BY <1>3 DEF Prepare, Goto, StageInv
  <2>3. QED
    BY <2>1, <2>2 DEF VerdictCause, BlockCause, AlertHasCause, SweepProblem
<1>4. CASE SweepOn
  <2>1. \A d \in Days : outcome[d] \subseteq outcome'[d]
    BY <1>4 DEF SweepOn, TypeOK
  <2>2. RecordCause'
    BY <1>4, <2>1, RecordGrows DEF SweepOn
  <2>3. BlockCause' /\ pc' # "send"
    BY <1>4 DEF SweepOn, StageInv, BlockCause, SweepProblem
  <2>4. VerdictCause'
    <3>1. SUFFICES ASSUME sweep' = "ended", ~Fine' PROVE "short" \in outcome'[run_date']
      <4>1. ASSUME sweep' = "ended", Fine' PROVE ~SweepProblem(FetchStopped, run_date)'
        BY <4>1, FineVerdictNext, CadenceAssumption, IntakeBounds DEF TypeOK, Days
      <4>2. pc' = "dissect" => sweep' = "ended"
        BY <1>4 DEF SweepOn
      <4>3. QED
        BY <3>1, <4>1, <4>2 DEF VerdictCause
    <3>2. run_date' = run_date /\ outcome' = [outcome EXCEPT ![run_date] = @ \cup {"short"}]
      BY <1>4, <3>1 DEF SweepOn
    <3>3. QED
      BY <3>2 DEF TypeOK
  <2>5. QED
    BY <2>2, <2>3, <2>4 DEF AlertHasCause
<1>5. CASE EndIngest
  <2>1. RecordCause'
    BY <1>5, RecordGrows DEF EndIngest, history
  <2>2. BlockCause'
    BY <1>5 DEF EndIngest, Goto, VerdictCause, BlockCause, SweepProblem, history
  <2>3. QED
    BY <1>5, <2>1, <2>2 DEF EndIngest, Goto, VerdictCause, AlertHasCause
<1>6. CASE DecideAlert
  <2>1. RecordCause' /\ BlockCause' /\ VerdictCause'
    BY <1>6, RecordGrows DEF DecideAlert, Goto, history, BlockCause, VerdictCause, SweepProblem
  <2>2. alert' \in {ReadAlert, GuessAlert} /\ run_date' = run_date /\ outcome' = outcome
    BY <1>6 DEF DecideAlert, history
  <2> DEFINE fetch_day == LatestFetchDay(run_date)
             own == summaries[fetch_day] \cup
                      {[ingest |-> ingest, statusCode |-> 200, mode |-> mode]}
  <2>3. fetch_day \in Days /\ IsFetchDay(fetch_day) /\ CycleOf(run_date) = fetch_day
    BY LatestIsCycle DEF TypeOK
  <2>4. ASSUME fetch_day = run_date, SweepProblem(ingest, run_date)
        PROVE  outcome[fetch_day] \cap {"short", "crashed"} # {}
    BY <2>4 DEF BlockCause
  <2>5. ASSUME ProblemOnDay(summaries[fetch_day], fetch_day) \in {"stopped", "crashed"}
        PROVE  outcome[fetch_day] \cap {"short", "crashed"} # {}
    BY <2>3, <2>5, ProblemHasCause DEF RecordCause
  <2>6. ASSUME alert' \in {"stopped", "crashed"}
        PROVE  \/ fetch_day = run_date /\ SweepProblem(ingest, run_date)
               \/ ProblemOnDay(summaries[fetch_day], fetch_day) \in {"stopped", "crashed"}
    BY <2>2, <2>6 DEF ReadAlert, GuessAlert
  <2>7. AlertHasCause'
    BY <2>2, <2>3, <2>4, <2>5, <2>6 DEF AlertHasCause, CycleOf, IsFetchDay
  <2>8. QED
    BY <2>1, <2>7
<1>7. ASSUME NEW written \in BOOLEAN, Over(written)
      PROVE  /\ \A d \in Days : outcome[d] \subseteq outcome'[d]
             /\ Searching /\ ingest = "no_block" => "crashed" \in outcome'[run_date]
             /\ VerdictCause' /\ BlockCause' /\ AlertHasCause'
  BY <1>7 DEF Over, TypeOK, VerdictCause, BlockCause, AlertHasCause, SweepProblem
<1>8. CASE WriteSummary
  <2>1. Over(TRUE) /\ \E day \in Written(summaries[run_date], OwnSummary) :
          summaries' = [summaries EXCEPT ![run_date] = day]
    BY <1>8 DEF WriteSummary
  <2>2. ASSUME NEW d \in Days, NEW s \in summaries[d]
        PROVE  /\ SweepProblem(s.ingest, d) => "short" \in outcome'[d]
               /\ s.ingest = "no_block" /\ s.statusCode = 500 /\ s.mode = "daily"
                    /\ IsFetchDay(d) => "crashed" \in outcome'[d]
    <3>1. outcome[d] \subseteq outcome'[d]
      BY <1>7, <2>1
    <3>2. QED
      BY <3>1 DEF RecordCause
  <2>3. SweepProblem(ingest, run_date) => "short" \in outcome'[run_date]
    BY <1>7, <2>1 DEF BlockCause, TypeOK
  <2>4. ingest = "no_block" /\ mode = "daily" /\ IsFetchDay(run_date)
          => "crashed" \in outcome'[run_date]
    BY <1>7, <2>1 DEF Searching
  <2>5. \A d \in Days : summaries'[d] \subseteq
          IF d = run_date THEN summaries[d] \cup {OwnSummary} ELSE summaries[d]
    BY <2>1, WrittenDay DEF TypeOK
  <2>6. RecordCause'
    BY <2>2, <2>3, <2>4, <2>5 DEF RecordCause, SweepProblem, IsFetchDay, OwnSummary
  <2>7. QED
    BY <1>7, <2>1, <2>6
<1>9. CASE NoSummary \/ Die
  <2>1. Over(FALSE) /\ summaries' = summaries
    BY <1>9 DEF NoSummary, Die
  <2>2. QED
    BY <1>7, <2>1, RecordGrows
<1>10. CASE NextDay \/ UNCHANGED vars
  <2>1. RecordCause'
    BY <1>10, RecordGrows DEF NextDay, vars, history
  <2>2. VerdictCause' /\ BlockCause' /\ AlertHasCause'
    BY <1>10 DEF NextDay, vars, runVars, history, sweepVars, VerdictCause, BlockCause,
                 AlertHasCause, SweepProblem, FetchStopped
  <2>3. QED
    BY <2>1, <2>2
<1>11. QED
  BY <1>1, <1>2, <1>3, <1>4, <1>5, <1>6, <1>8, <1>9, <1>10 DEF Next

\* Every step keeps the types, the stage of the sweep and the causes of verdicts and
\* alerts.
LEMMA IntakeInvStep == IntakeInv /\ [Next]_vars => IntakeInv'
<1> SUFFICES ASSUME IntakeInv, [Next]_vars PROVE IntakeInv'
  OBVIOUS
<1>1. SweepInv'
  BY SweepStepOrNot, SweepInvStep DEF IntakeInv
<1>2. TypeOK'
  BY <1>1, TypeStep DEF IntakeInv
<1>3. StageInv'
  BY StageStep DEF IntakeInv
<1>4. VerdictCause' /\ BlockCause' /\ RecordCause' /\ AlertHasCause'
  BY <1>1, <1>2, CauseStep
<1>5. QED
  BY <1>1, <1>2, <1>3, <1>4 DEF IntakeInv

\* Intake's sweeps are sweeps: what is proved of SweepSpec holds of them.
THEOREM SweepsAreSweeps == Spec => SweepSpec
<1>1. Init => SweepInit
  BY DEF Init
<1>2. QED
  BY <1>1, SweepStepOrNot, PTL DEF Spec, SweepSpec

\* A digest leads with an alert only if a daily run of its fetch day left part of
\* the matrix unsearched or died before ingest returned (pipeline.py:338-399).
THEOREM AlertsHaveCauses == Spec => []AlertHasCause
<1>1. IntakeInv => AlertHasCause
  BY DEF IntakeInv
<1>2. QED
  BY <1>1, IntakeInvInit, IntakeInvStep, PTL DEF Spec

\* Every variable of Intake keeps its type.
THEOREM TypeCorrect == Spec => []TypeOK
<1>1. IntakeInv => TypeOK
  BY DEF IntakeInv
<1>2. QED
  BY <1>1, IntakeInvInit, IntakeInvStep, PTL DEF Spec

\* The verdicts a run records are honest (ingest.py:508-539).
THEOREM RecordedVerdictsAreHonest == Spec => []VerdictIsHonest
BY SweepsAreSweeps, VerdictsAreHonest, PTL

(***************************************************************************)
(* The other direction: what happened to a fetch day's sweeps is told, by    *)
(* the summaries of its date or by the run that is still in flight.          *)
(***************************************************************************)

\* What a run's stage says of its sweep, its block and its store.
RunInv ==
  /\ pc \in {"idle", "smoke", "prepare"} => sweep = "idle"
  /\ sweep # "idle" => Searching
  /\ IsSweep(ingest) => sweep = "ended" /\ ingest = FetchStopped
  /\ ingest = "not_a_fetch_day" => ~IsFetchDay(run_date)
  /\ pc \in {"dissect", "score", "alert", "send", "mark", "done"} /\ Searching
       => sweep = "ended" /\ (pc = "dissect" \/ IsSweep(ingest))
  /\ pc \in {"alert", "send", "mark"} => mode = "daily"
  /\ pc \in {"sweep", "dissect", "score", "alert", "send", "mark", "done"} /\ losses = 0
       => audit_store

CleanSweep(s, d)   == IsSweep(s.ingest) /\ ~SweepProblem(s.ingest, d)
StoppedSweep(s, d) == IsSweep(s.ingest) /\ SweepProblem(s.ingest, d)
CrashedRun(s)      == s.ingest = "no_block" /\ s.statusCode = 500 /\ s.mode = "daily"

\* The sweep in flight has its place in the outcome of its date, and so has every clean
\* sweep among the summaries.
OutcomeKnows ==
  /\ sweep = "ended" => (IF Fine THEN "fine" ELSE "short") \in outcome[run_date]
  /\ \A d \in Days : (\E s \in summaries[d] : CleanSweep(s, d)) => "fine" \in outcome[d]

\* What the outcome of a fetch day holds is told, by a summary or by the sweep in
\* flight, unless a record of it was lost or the last that told it was replaced.
InFlight(d, x) == d = run_date /\ sweep = "ended" /\ x = IF Fine THEN "fine" ELSE "short"

IsTold(d) ==
  \A x \in outcome[d] : x \in Told(summaries[d], d) \/ x \in erased[d] \/ InFlight(d, x)

OutcomeIsTold == \A d \in Days : IsFetchDay(d) /\ d \notin unrecorded => IsTold(d)

ToldInv ==
  RunInv /\ OutcomeKnows /\ OutcomeIsTold /\ AlertUntilSweep /\ FineSweepSilences

\* A sweep that has ended has a verdict, and the verdict is a problem exactly when the
\* sweep was not fine.
LEMMA VerdictTellsFine ==
  ASSUME SweepInv, run_date \in Nat, sweep = "ended"
  PROVE  /\ IsSweep(FetchStopped)
         /\ SweepProblem(FetchStopped, run_date) <=> ~Fine
<1>1. FetchStopped \in {"none", "rate_limited", "budget_exhausted", "partial_errors"}
  BY DEF SweepInv, SweepTypeOK, FetchStopped
<1>2. FetchStopped = "none" <=> searched = Matrix
  BY HonestVerdict DEF VerdictIsHonest
<1>3. FetchStopped = "rate_limited" <=> last_stop_reason = "rate_limited"
  BY DEF SweepInv, SweepTypeOK, FetchStopped
<1>4. Fine => ~SweepProblem(FetchStopped, run_date)
  BY FineVerdict
<1>5. ~Fine => SweepProblem(FetchStopped, run_date)
  BY <1>1, <1>2, <1>3, CadenceAssumption DEF Fine, SweepProblem
<1> QED
  BY <1>1, <1>4, <1>5 DEF IsSweep

\* A run's own sweep, once ingest has returned.
LEMMA OwnSweep ==
  ASSUME TypeOK, SweepInv, RunInv, Searching, pc \in {"score", "alert", "send", "mark", "done"}
  PROVE  /\ sweep = "ended" /\ IsSweep(ingest) /\ ingest = FetchStopped
         /\ SweepProblem(ingest, run_date) <=> ~Fine
<1>1. sweep = "ended" /\ IsSweep(ingest) /\ ingest = FetchStopped
  BY DEF RunInv
<1>2. run_date \in Nat
  BY IntakeBounds DEF TypeOK, Days
<1> QED
  BY <1>1, <1>2, VerdictTellsFine

\* What the summaries of a day tell, by their kinds.
LEMMA ToldByKind ==
  ASSUME NEW day, NEW d
  PROVE  /\ "fine" \in Told(day, d) <=> \E s \in day : CleanSweep(s, d)
         /\ "short" \in Told(day, d) <=> \E s \in day : StoppedSweep(s, d)
         /\ "crashed" \in Told(day, d) <=> \E s \in day : CrashedRun(s)
<1>1. \A s : /\ "fine" \in Tells(s, d) <=> CleanSweep(s, d)
             /\ "short" \in Tells(s, d) <=> StoppedSweep(s, d)
             /\ "crashed" \in Tells(s, d) <=> CrashedRun(s)
  BY DEF Tells, CleanSweep, StoppedSweep, CrashedRun, IsSweep
<1> QED
  BY <1>1 DEF Told

LEMMA RunInvStep ==
  ASSUME TypeOK, SweepInv, StageInv, RunInv, [Next]_vars
  PROVE  RunInv'
<1> USE DEF RunInv
<1>0. losses \in Nat /\ (Lose => losses' # 0) /\ run_date \in Nat
  BY IntakeBounds DEF TypeOK, Lose, Days
<1>1. ASSUME NEW d \in Days, NEW m \in {"daily", "reassess"}, Start(d, m) PROVE RunInv'
  BY <1>1 DEF Start, Goto, StageInv, IsSweep, sweepVars
<1>2. CASE StartSmoke \/ EndSmoke
  BY <1>2 DEF StartSmoke, EndSmoke, Goto, StageInv, IsSweep, sweepVars
<1>3. CASE Prepare
  <2>1. pc = "prepare" /\ sweep = "idle" /\ ingest = "no_block"
    BY <1>3 DEF Prepare, Goto, StageInv
  <2>2. /\ UNCHANGED <<mode, run_date>>
        /\ losses' = 0 => audit_store'
    BY <1>0, <1>3 DEF Prepare
  <2>3. CASE Searching
    <3>1. pc' = "sweep" /\ sweep' = "running" /\ ingest' = "no_block"
      BY <1>3, <2>1, <2>3 DEF Prepare, Searching, Goto, BeginSweep
    <3> QED
      BY <2>2, <2>3, <3>1 DEF Searching, IsSweep, IsFetchDay
  <2>4. CASE ~Searching
    <3>1. pc' = "score" /\ sweep' = "idle"
      BY <1>3, <2>1, <2>4 DEF Prepare, Searching, Goto, sweepVars
    <3>2. ingest' = IF mode = "daily" THEN "not_a_fetch_day" ELSE "no_block"
      BY <1>3, <2>1, <2>4 DEF Prepare, Searching
    <3> QED
      BY <2>2, <2>4, <3>1, <3>2 DEF Searching, IsSweep, IsFetchDay
  <2> QED
    BY <2>3, <2>4
<1>4. CASE SweepOn
  <2>1. /\ pc = "sweep" /\ sweep # "idle" /\ sweep' # "idle" /\ ingest = "no_block"
        /\ pc' \in {"sweep", "dissect", "failed"}
        /\ pc' = "dissect" => sweep' = "ended"
        /\ UNCHANGED <<mode, run_date, ingest, audit_store, losses>>
    BY <1>4 DEF SweepOn, SweepStep, BudgetStop, RateLimited, AuthRefused, QueryFails, TurnPage,
       LastPage, LoopEnds, Request, StopFor, StageInv
  <2> QED
    BY <2>1 DEF Searching, IsSweep, IsFetchDay
<1>5. CASE EndIngest
  <2>1. /\ pc = "dissect" /\ pc' = "score" /\ sweep = "ended" /\ Searching
        /\ ingest' = FetchStopped
        /\ UNCHANGED sweepVars /\ UNCHANGED <<mode, run_date, audit_store, losses>>
    BY <1>5 DEF EndIngest, Goto, StageInv
  <2>2. IsSweep(FetchStopped)
    BY <1>0, <2>1, VerdictTellsFine
  <2>3. FetchStopped' = FetchStopped /\ Searching'
    BY <2>1 DEF FetchStopped, sweepVars, Searching, IsFetchDay
  <2>4. IsSweep(ingest')
    BY <2>1, <2>2
  <2> QED
    BY <2>1, <2>3, <2>4 DEF IsSweep, Searching, sweepVars
<1>6. ASSUME UNCHANGED sweepVars, UNCHANGED <<mode, run_date, ingest, audit_store>>,
             losses' = losses \/ losses' # 0,
             pc' # "dissect", pc \in {"score", "alert", "send", "mark"},
             pc' \in {"alert", "send", "mark", "done"},
             pc' \in {"alert", "send", "mark"} => mode = "daily"
      PROVE  RunInv'
  BY <1>6 DEF sweepVars, FetchStopped, Searching, IsFetchDay, IsSweep
<1>7. CASE SkipNotify \/ BeginNotify \/ DecideAlert \/ Send \/ MarkSent
  BY <1>0, <1>6, <1>7 DEF SkipNotify, BeginNotify, DecideAlert, Send, MarkSent, Goto
<1>8. CASE Raise
  BY <1>8 DEF Raise, sweepVars, FetchStopped, Searching, IsFetchDay, IsSweep
<1>9. CASE WriteSummary \/ NoSummary \/ Die
  <2>1. pc' = "idle" /\ sweep' = "idle" /\ ingest' = "no_block"
    BY <1>9 DEF WriteSummary, NoSummary, Die, Over, DropSweep
  <2> QED
    BY <2>1 DEF IsSweep
<1>10. CASE NextDay \/ UNCHANGED vars
  BY <1>10 DEF NextDay, vars, runVars, sweepVars, FetchStopped, Searching, IsFetchDay, IsSweep
<1> QED
  BY <1>1, <1>2, <1>3, <1>4, <1>5, <1>7, <1>8, <1>9, <1>10 DEF Next

\* The steps that neither end a sweep nor a run keep what is told: the sweep, if it has
\* ended, is still in flight.
LEMMA ToldStays ==
  ASSUME OutcomeKnows, OutcomeIsTold, UNCHANGED <<summaries, outcome, erased, unrecorded>>,
         \/ UNCHANGED sweepVars /\ run_date' = run_date
         \/ sweep # "ended" /\ sweep' # "ended"
  PROVE  OutcomeKnows' /\ OutcomeIsTold'
<1>1. \A d \in Days : Told(summaries[d], d)' = Told(summaries[d], d)
  BY DEF Told, Tells, IsSweep, SweepProblem
<1>2. \A d, x : InFlight(d, x)' <=> InFlight(d, x)
  BY DEF InFlight, Fine, sweepVars, Matrix
<1>3. OutcomeIsTold'
  BY <1>1, <1>2 DEF OutcomeIsTold, IsTold, IsFetchDay
<1>4. OutcomeKnows'
  BY DEF OutcomeKnows, Fine, sweepVars, Matrix, CleanSweep, IsSweep, SweepProblem
<1> QED
  BY <1>3, <1>4

\* The end of a run: what it leaves untold is unrecorded, and what it replaces is erased.
LEMMA ToldWhenOver ==
  ASSUME TypeOK, SweepInv, RunInv, OutcomeKnows, OutcomeIsTold,
         NEW written \in BOOLEAN, Over(written),
         IF written
         THEN /\ pc \in {"done", "failed"}
              /\ \E day \in Written(summaries[run_date], OwnSummary) :
                   /\ summaries' = [summaries EXCEPT ![run_date] = day]
                   /\ erased' = [erased EXCEPT ![run_date] =
                        (@ \cup Told(summaries[run_date], run_date)) \ Told(day, run_date)]
         ELSE UNCHANGED <<summaries, erased>>
  PROVE  OutcomeKnows' /\ OutcomeIsTold'
<1>1. /\ sweep' # "ended"
      /\ outcome' = [outcome EXCEPT ![run_date] =
                       IF Searching /\ ingest = "no_block" THEN @ \cup {"crashed"} ELSE @]
      /\ \A d \in Days : d \notin unrecorded' =>
           /\ d \notin unrecorded
           /\ d = run_date /\ Searching => written /\ (sweep = "ended" => ingest # "no_block")
  BY DEF Over, DropSweep
<1>2. run_date \in Days /\ run_date \in Nat
  BY IntakeBounds DEF TypeOK, Days
<1>3. \A d \in Days :
        /\ summaries'[d] \subseteq
             IF written /\ d = run_date THEN summaries[d] \cup {OwnSummary} ELSE summaries[d]
        /\ written /\ d = run_date => OwnSummary \in summaries'[d]
        /\ \A x : x \in Told(summaries[d], d) \/ x \in erased[d]
             => x \in Told(summaries'[d], d) \/ x \in erased'[d]
  <2>1. CASE written
    <3>1. PICK day \in Written(summaries[run_date], OwnSummary) :
            /\ summaries' = [summaries EXCEPT ![run_date] = day]
            /\ erased' = [erased EXCEPT ![run_date] =
                 (@ \cup Told(summaries[run_date], run_date)) \ Told(day, run_date)]
      BY <2>1
    <3>2. OwnSummary \in day /\ day \subseteq summaries[run_date] \cup {OwnSummary}
      BY WrittenDay
    <3> QED
      BY <1>2, <2>1, <3>1, <3>2 DEF TypeOK
  <2>2. CASE ~written
    BY <2>2
  <2> QED
    BY <2>1, <2>2
<1>4. CleanSweep(OwnSummary, run_date) => "fine" \in outcome[run_date]
  <2>1. OwnSummary.ingest = ingest
    BY DEF OwnSummary
  <2>2. ASSUME IsSweep(ingest), ~SweepProblem(ingest, run_date)
        PROVE  "fine" \in outcome[run_date]
    <3>1. sweep = "ended" /\ ingest = FetchStopped
      BY <2>2 DEF RunInv
    <3>2. Fine
      BY <1>2, <2>2, <3>1, VerdictTellsFine
    <3> QED
      BY <3>1, <3>2 DEF OutcomeKnows
  <2> QED
    BY <2>1, <2>2 DEF CleanSweep
<1>5. \A d \in Days : /\ outcome[d] \subseteq outcome'[d]
                      /\ \A x \in outcome'[d] :
                           \/ x \in outcome[d]
                           \/ x = "crashed" /\ d = run_date /\ Searching /\ ingest = "no_block"
  BY <1>1, <1>2 DEF TypeOK
<1>6. OutcomeKnows'
  <2>1. ASSUME NEW d \in Days, NEW s \in summaries'[d], CleanSweep(s, d)
        PROVE  "fine" \in outcome'[d]
    <3>1. CASE s \in summaries[d]
      BY <1>5, <2>1, <3>1 DEF OutcomeKnows
    <3>2. CASE s \notin summaries[d]
      <4>1. s = OwnSummary /\ d = run_date
        BY <1>3, <2>1, <3>2
      <4> QED
        BY <1>2, <1>4, <1>5, <2>1, <4>1
    <3> QED
      BY <3>1, <3>2
  <2> QED
    BY <1>1, <2>1 DEF OutcomeKnows, CleanSweep, IsSweep, SweepProblem
<1>7. ASSUME NEW d \in Days, IsFetchDay(d), d \notin unrecorded', NEW x \in outcome'[d]
      PROVE  x \in Told(summaries'[d], d) \/ x \in erased'[d]
  <2>1. CASE x \in outcome[d] /\ ~InFlight(d, x)
    <3>1. IsTold(d)
      BY <1>1, <1>7 DEF OutcomeIsTold
    <3> QED
      BY <1>3, <2>1, <3>1 DEF IsTold
  <2>2. CASE InFlight(d, x)
    <3>1. sweep = "ended" /\ d = run_date /\ Searching
      BY <2>2 DEF InFlight, RunInv
    <3>2. written /\ ingest # "no_block" /\ ingest # "not_a_fetch_day"
      BY <1>1, <1>7, <3>1 DEF RunInv, Searching
    <3>3. IsSweep(ingest) /\ ingest = FetchStopped
      BY <3>2 DEF RunInv, IsSweep
    <3>4. SweepProblem(ingest, run_date) <=> ~Fine
      BY <1>2, <3>1, <3>3, VerdictTellsFine
    <3>5. x \in Tells(OwnSummary, d)
      BY <2>2, <3>1, <3>3, <3>4 DEF InFlight, Tells, OwnSummary
    <3> QED
      BY <1>3, <3>1, <3>2, <3>5 DEF Told
  <2>3. CASE x = "crashed" /\ d = run_date /\ Searching /\ ingest = "no_block"
    <3>1. written /\ pc # "done"
      BY <1>1, <1>7, <2>3 DEF RunInv, IsSweep
    <3>2. pc = "failed" /\ mode = "daily"
      BY <2>3, <3>1 DEF Searching
    <3>3. x \in Tells(OwnSummary, d)
      BY <2>3, <3>2 DEF Tells, OwnSummary, IsSweep
    <3> QED
      BY <1>3, <2>3, <3>1, <3>3 DEF Told
  <2> QED
    BY <1>5, <2>1, <2>2, <2>3
<1>8. \A d \in Days : Told(summaries[d], d)' = Told(summaries'[d], d)
  BY DEF Told, Tells, IsSweep, SweepProblem
<1> QED
  BY <1>6, <1>7, <1>8 DEF OutcomeIsTold, IsTold, IsFetchDay

LEMMA ToldStep ==
  ASSUME TypeOK, SweepInv, StageInv, RunInv, OutcomeKnows, OutcomeIsTold, [Next]_vars
  PROVE  OutcomeKnows' /\ OutcomeIsTold'
<1>1. CASE \/ \E d \in Days, m \in {"daily", "reassess"} : Start(d, m)
           \/ StartSmoke \/ EndSmoke \/ EndIngest \/ SkipNotify \/ BeginNotify
           \/ DecideAlert \/ Send \/ MarkSent \/ Raise
  <2>1. /\ UNCHANGED sweepVars /\ UNCHANGED <<summaries, outcome, erased, unrecorded>>
        /\ run_date' = run_date \/ pc = "idle"
    BY <1>1 DEF Start, StartSmoke, EndSmoke, EndIngest, SkipNotify, BeginNotify, DecideAlert,
       Send, MarkSent, Raise, Goto, history
  <2> QED
    BY <2>1, ToldStays DEF RunInv, sweepVars
<1>2. CASE Prepare
  <2>1. /\ sweep = "idle" /\ sweep' # "ended"
        /\ UNCHANGED <<summaries, outcome, erased, unrecorded>>
    BY <1>2 DEF Prepare, Goto, RunInv, BeginSweep, sweepVars, history
  <2> QED
    BY <2>1, ToldStays
<1>3. CASE SweepOn
  <2>1. /\ UNCHANGED <<summaries, unrecorded, run_date>> /\ run_date \in Days
        /\ sweep = "running"
    BY <1>3 DEF SweepOn, TypeOK, SweepStep, BudgetStop, RateLimited, AuthRefused, QueryFails,
       TurnPage, LastPage, LoopEnds, Request
  <2>2. CASE sweep' # "ended"
    <3>1. UNCHANGED <<outcome, erased>>
      BY <1>3, <2>2 DEF SweepOn
    <3> QED
      BY <2>1, <2>2, <3>1, ToldStays
  <2>3. CASE sweep' = "ended"
    <3> DEFINE end == IF Fine' THEN "fine" ELSE "short"
    <3>1. /\ outcome' = [outcome EXCEPT ![run_date] = @ \cup {end}]
          /\ erased' = [erased EXCEPT ![run_date] = @ \ {end}]
      BY <1>3, <2>3 DEF SweepOn
    <3>2. OutcomeKnows'
      BY <2>1, <2>3, <3>1 DEF OutcomeKnows, TypeOK, CleanSweep, IsSweep, SweepProblem
    <3>3. \A d \in Days : Told(summaries[d], d)' = Told(summaries[d], d)
      BY <2>1 DEF Told, Tells, IsSweep, SweepProblem
    <3>4. ASSUME NEW d \in Days, IsFetchDay(d), d \notin unrecorded, NEW x \in outcome'[d]
          PROVE  x \in Told(summaries[d], d) \/ x \in erased'[d] \/ InFlight(d, x)'
      <4>1. IsTold(d) /\ \A y : ~InFlight(d, y)
        BY <2>1, <3>4 DEF OutcomeIsTold, InFlight
      <4>2. CASE d = run_date /\ x = end
        BY <2>1, <2>3, <4>2 DEF InFlight
      <4>3. CASE ~(d = run_date /\ x = end)
        <5>1. x \in outcome[d] /\ (x \in erased[d] => x \in erased'[d])
          BY <3>1, <3>4, <4>3 DEF TypeOK
        <5> QED
          BY <4>1, <5>1 DEF IsTold
      <4> QED
        BY <4>2, <4>3
    <3> QED
      BY <2>1, <3>2, <3>3, <3>4 DEF OutcomeIsTold, IsTold, IsFetchDay
  <2> QED
    BY <2>2, <2>3
<1>4. CASE WriteSummary
  BY <1>4, ToldWhenOver DEF WriteSummary
<1>5. CASE NoSummary \/ Die
  BY <1>5, ToldWhenOver DEF NoSummary, Die
<1>6. CASE NextDay \/ UNCHANGED vars
  BY <1>6, ToldStays DEF NextDay, vars, runVars, history
<1> QED
  BY <1>1, <1>2, <1>3, <1>4, <1>5, <1>6 DEF Next

\* What the digest says, decided from what is told.
LEMMA DecideAlertTells ==
  ASSUME TypeOK, SweepInv, RunInv, OutcomeKnows, OutcomeIsTold, DecideAlert
  PROVE  AlertUntilSweep' /\ FineSweepSilences'
<1> DEFINE F   == LatestFetchDay(run_date)
           own == [ingest |-> ingest, statusCode |-> 200, mode |-> mode]
<1>1. /\ pc = "alert" /\ mode = "daily"
      /\ alert' = ReadAlert \/ (alert' = GuessAlert /\ losses' # 0)
      /\ losses' = 0 => losses = 0
      /\ UNCHANGED <<summaries, outcome, erased, unrecorded, run_date>>
  <2>1. losses \in Nat
    BY IntakeBounds DEF TypeOK
  <2> QED
    BY <2>1 DEF DecideAlert, Goto, RunInv, Lose, history
<1>2. F \in Days /\ IsFetchDay(F) /\ CycleOf(run_date) = F
  BY LatestIsCycle DEF TypeOK
<1>3. CycleOf(run_date)' = F
  BY <1>1, <1>2 DEF CycleOf, IsFetchDay
<1>4. F \notin unrecorded => IsTold(F)
  BY <1>2 DEF OutcomeIsTold
<1>5. F = run_date => /\ sweep = "ended" /\ IsSweep(ingest)
                      /\ SweepProblem(ingest, run_date) <=> ~Fine
  BY <1>1, <1>2, OwnSweep DEF Searching
<1>6. F # run_date => sweep = "idle"
  <2>1. F # run_date => ~IsFetchDay(run_date)
    BY <1>2 DEF LatestFetchDay, IsFetchDay, TypeOK, Days
  <2> QED
    BY <2>1 DEF RunInv, Searching
<1>own. own.ingest = ingest
  OBVIOUS
<1> HIDE DEF F, own
<1>7. ASSUME F \notin unrecorded, "fine" \notin outcome[F], ~(outcome[F] \subseteq erased[F])
      PROVE  alert' # "none"
  <2>1. \A s \in summaries[F] : ~CleanSweep(s, F)
    BY <1>2, <1>7 DEF OutcomeKnows
  <2>2. PICK x \in outcome[F] : x \notin erased[F] /\ x \in {"short", "crashed"}
    BY <1>2, <1>7 DEF TypeOK, Outcome
  <2>3. CASE F = run_date
    <3>1. SweepProblem(ingest, run_date) /\ IsSweep(ingest)
      BY <1>5, <1>7, <2>3 DEF OutcomeKnows
    <3>2. /\ \A s \in summaries[F] \cup {own} : ~CleanSweep(s, F)
          /\ IsSweep(own.ingest)
      BY <1>own, <2>1, <2>3, <3>1 DEF CleanSweep
    <3>3. ProblemOnDay(summaries[F] \cup {own}, F) = "stopped"
      BY <3>2 DEF ProblemOnDay, CleanSweep
    <3> QED
      BY <1>1, <2>3, <3>1, <3>3 DEF ReadAlert, GuessAlert, F, own
  <2>4. CASE F # run_date
    <3>1. \/ \E s \in summaries[F] : StoppedSweep(s, F)
          \/ \E s \in summaries[F] : CrashedRun(s)
      BY <1>4, <1>7, <2>2, <2>4, ToldByKind DEF IsTold, InFlight
    <3>2. ProblemOnDay(summaries[F], F) # "none"
      BY <2>1, <3>1 DEF ProblemOnDay, CleanSweep, StoppedSweep, CrashedRun
    <3> QED
      BY <1>1, <2>4, <3>2 DEF ReadAlert, GuessAlert, F
  <2> QED
    BY <2>3, <2>4
<1>8. ASSUME F \notin unrecorded, "fine" \in outcome[F], "fine" \notin erased[F],
             losses' = 0 \/ ~IsFetchDay(run_date)
      PROVE  alert' \notin {"stopped", "crashed"}
  <2>1. \/ \E s \in summaries[F] : CleanSweep(s, F)
        \/ F = run_date /\ Fine
    BY <1>4, <1>8, ToldByKind DEF IsTold, InFlight
  <2>2. CASE F = run_date
    <3>1. alert' = ReadAlert /\ audit_store
      BY <1>1, <1>2, <1>8, <2>2 DEF RunInv
    <3>2. Fine => CleanSweep(own, F)
      BY <1>5, <1>own, <2>2 DEF CleanSweep
    <3>3. \E s \in summaries[F] \cup {own} : CleanSweep(s, F)
      BY <2>1, <3>2
    <3>4. ProblemOnDay(summaries[F] \cup {own}, F) = "none"
      BY <3>3 DEF ProblemOnDay, CleanSweep
    <3> QED
      BY <2>2, <3>1, <3>4 DEF ReadAlert, F, own
  <2>3. CASE F # run_date
    <3>1. ProblemOnDay(summaries[F], F) = "none"
      BY <2>1, <2>3 DEF ProblemOnDay, CleanSweep
    <3> QED
      BY <1>1, <2>3, <3>1 DEF ReadAlert, GuessAlert, F
  <2> QED
    BY <2>2, <2>3
<1>9. losses' \in Nat
  BY IntakeBounds DEF TypeOK, DecideAlert, Lose
<1>10. IsFetchDay(run_date)' = IsFetchDay(run_date)
  BY <1>1 DEF IsFetchDay
<1> QED
  BY <1>1, <1>3, <1>7, <1>8, <1>9, <1>10 DEF AlertUntilSweep, FineSweepSilences

LEMMA ToldInvStep ==
  ASSUME IntakeInv, ToldInv, [Next]_vars
  PROVE  ToldInv'
<1> USE DEF IntakeInv, ToldInv
<1>1. RunInv' /\ OutcomeKnows' /\ OutcomeIsTold'
  BY RunInvStep, ToldStep
<1>2. AlertUntilSweep' /\ FineSweepSilences'
  <2>1. CASE DecideAlert
    BY <2>1, DecideAlertTells
  <2>2. CASE UNCHANGED vars
    <3>1. UNCHANGED <<pc, alert, outcome, erased, unrecorded, losses, run_date>>
      BY <2>2 DEF vars, runVars, history
    <3>2. CycleOf(run_date)' = CycleOf(run_date) /\ IsFetchDay(run_date)' = IsFetchDay(run_date)
      BY <3>1 DEF CycleOf, IsFetchDay
    <3> QED
      BY <3>1, <3>2 DEF AlertUntilSweep, FineSweepSilences
  <2>3. CASE Next /\ ~DecideAlert
    <3>1. ASSUME Prepare \/ SweepOn PROVE pc' # "send"
      BY <3>1 DEF Prepare, SweepOn, Goto
    <3>2. ASSUME \/ \E d \in Days, m \in {"daily", "reassess"} : Start(d, m)
                 \/ StartSmoke \/ EndSmoke \/ EndIngest \/ SkipNotify \/ BeginNotify
                 \/ Send \/ MarkSent \/ Raise
          PROVE  pc' # "send"
      BY <3>2 DEF Start, StartSmoke, EndSmoke, EndIngest, SkipNotify, BeginNotify, Send,
         MarkSent, Raise, Goto
    <3>3. ASSUME WriteSummary \/ NoSummary \/ Die \/ NextDay PROVE pc' # "send"
      BY <3>3 DEF WriteSummary, NoSummary, Die, Over, NextDay, runVars
    <3>4. pc' # "send"
      BY <2>3, <3>1, <3>2, <3>3 DEF Next
    <3> QED
      BY <3>4 DEF AlertUntilSweep, FineSweepSilences
  <2> QED
    BY <2>1, <2>2, <2>3
<1> QED
  BY <1>1, <1>2

LEMMA ToldInvHolds == Spec => []ToldInv
<1>1. Init => ToldInv
  BY DEF Init, SweepInit, ToldInv, RunInv, OutcomeKnows, OutcomeIsTold, IsTold, AlertUntilSweep,
     FineSweepSilences, IsSweep
<1> QED
  BY <1>1, IntakeInvInit, IntakeInvStep, ToldInvStep, PTL DEF Spec

\* While no sweep of a fetch day was fine and one fell short or crashed, every digest of its
\* cycle leads with an alert, unless a record was lost, cannot be read or was replaced
\* (pipeline.py:201-206, 338-399).
THEOREM AlertsLastUntilSweep == Spec => []AlertUntilSweep
<1>1. ToldInv => AlertUntilSweep
  BY DEF ToldInv
<1> QED
  BY <1>1, ToldInvHolds, PTL

\* A fine sweep silences the alert for its whole cycle, whatever crashed or stopped before or
\* after it that day, unless a record of it was lost or every one of a fine sweep was
\* replaced; only on the fetch day itself may a record that cannot be read leave a run
\* with its own verdict.
THEOREM FineSweepsSilence == Spec => []FineSweepSilences
<1>1. ToldInv => FineSweepSilences
  BY DEF ToldInv
<1> QED
  BY <1>1, ToldInvHolds, PTL
==============================================================================
