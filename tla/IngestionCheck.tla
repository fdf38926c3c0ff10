---------------------------- MODULE IngestionCheck ----------------------------
(***************************************************************************)
(* scripts/check_ingestion.py: is intake alive?  An operator asks it of the  *)
(* data bucket, for today or for an earlier cutoff, and acts on its exit     *)
(* code.  The variables are the bucket and what runs, lost writes, missed    *)
(* days and redeployed cadences make of it; the report is a function of the  *)
(* bucket, the cutoff and the summaries that cannot be judged.              *)
(***************************************************************************)
EXTENDS Cadence, FiniteSets

CONSTANTS
  Window,            (* --days: the run dates that are judged                *)
  RunDroughtDays,    (* _RUN_DROUGHT_DAYS                                    *)
  MaxDay,            (* bound: days                                          *)
  MaxOdd             (* bound: days and runs that are not as they should be  *)

ASSUME WindowAssumption == Window \in Nat \ {0} /\ RunDroughtDays \in Nat
ASSUME CheckBounds      == {MaxDay, MaxOdd} \subseteq Nat
ASSUME CycleAssumption  == IsFetchDay(FirstCleanCycle)

VARIABLES
  today,
  ran,          (* has a daily run of today begun?                           *)
  sweeping,     (* does the deployed cadence reach its fetch days?           *)
  runs,         (* runs/{date}/: the summaries written for each date         *)
  raw,          (* raw/{source}/{date}/: the dates under which postings lie  *)
  passed_over,  (* history: the fetch days that some run did not sweep       *)
  odd           (* runs and days so far that were not as they should be      *)

vars == <<today, ran, sweeping, runs, raw, passed_over, odd>>

Days      == 0..MaxDay
\* A summary also tells whether its sweep fetched anything.
RunRecord == [ingest : Block, statusCode : {200, 500}, mode : {"daily", "reassess"},
              fetched : BOOLEAN]

TypeOK ==
  /\ today \in Days /\ ran \in BOOLEAN /\ sweeping \in BOOLEAN
  /\ runs \in [Days -> SUBSET RunRecord]
  /\ raw \subseteq Days
  /\ passed_over \subseteq {d \in Days : IsFetchDay(d)}
  /\ odd \in 0..MaxOdd

Init ==
  /\ today = 0 /\ ran = FALSE /\ sweeping \in BOOLEAN
  /\ runs = [d \in Days |-> {}]
  /\ raw = {} /\ passed_over = {} /\ odd = 0

(***************************************************************************)
(* The bucket: what a run, a lost write or a day without a run leaves.  A    *)
(* run d has a date of its own: today's, or an earlier one that its event    *)
(* names or that ended while it ran.                                        *)
(***************************************************************************)
Odd(n) == odd' = odd + n /\ odd' <= MaxOdd
Cost(condition) == IF condition THEN 1 ELSE 0

RunDate == {d \in Days : d <= today}

\* The summary is written, beside the others of its date or in the place of one, or
\* its put is swallowed or never reached.
Leave(d, summary, cost) ==
  \/ /\ \E day \in Written(runs[d], summary) : runs' = [runs EXCEPT ![d] = day]
     /\ Odd(cost)
  \/ UNCHANGED runs /\ Odd(cost + 1)

Again(d) == Cost(ran \/ d # today)
Ran(d)   == ran' = (ran \/ d = today)

\* Postings lie under the day on which they are landed, not under the run's date:
\* yesterday's only if its run went past midnight.
Land(d, fetched) ==
  raw' \in {raw \cup on : on \in IF fetched THEN (SUBSET ({d, today} \cap (today - 1)..today)) \ {{}}
                                 ELSE {{}}}

\* Mutant: a run that does not sweep names no reason the check knows.
SkipUnnamed(d, status) ==
  /\ ~(sweeping /\ IsFetchDay(d))
  /\ Leave(d, [ingest |-> "paused", statusCode |-> status, mode |-> "daily",
               fetched |-> FALSE], Again(d) + Cost(status = 500))
  /\ Ran(d)
  /\ UNCHANGED <<today, sweeping, raw, passed_over>>

\* A date that is no fetch day to the deployed cadence: no sweep.  The rest of
\* the run may still fail.
SkipSweep(d, status) ==
  /\ ~(sweeping /\ IsFetchDay(d))
  /\ Leave(d, [ingest |-> "not_a_fetch_day", statusCode |-> status, mode |-> "daily",
               fetched |-> FALSE], Again(d) + Cost(status = 500))
  /\ passed_over' = passed_over \cup {k \in {d} : IsFetchDay(k)}
  /\ Ran(d)
  /\ UNCHANGED <<today, sweeping, raw>>

RunSweep(d, stopped, fetched, status) ==
  /\ sweeping /\ IsFetchDay(d)
  /\ Leave(d, [ingest |-> stopped, statusCode |-> status, mode |-> "daily",
               fetched |-> fetched],
           Again(d) + Cost(stopped # "none" \/ ~fetched) + Cost(status = 500))
  /\ Land(d, fetched)
  /\ Ran(d)
  /\ UNCHANGED <<today, sweeping, passed_over>>

\* A daily run that fails before ingest returns; a sweep may have landed some
\* postings by then.
CrashEarly(d, fetched) ==
  /\ fetched => sweeping /\ IsFetchDay(d)
  /\ Leave(d, [ingest |-> "no_block", statusCode |-> 500, mode |-> "daily",
               fetched |-> FALSE], Again(d) + 1)
  /\ Land(d, fetched)
  /\ Ran(d)
  /\ UNCHANGED <<today, sweeping, passed_over>>

Reassess(d, status) ==
  /\ Leave(d, [ingest |-> "no_block", statusCode |-> status, mode |-> "reassess",
               fetched |-> FALSE], 1)
  /\ UNCHANGED <<today, ran, sweeping, raw, passed_over>>

\* JOBFETCHER_FETCH_EVERY_N_DAYS is deployed: to a value that never sweeps, or back.
Deploy ==
  /\ sweeping' = ~sweeping
  /\ Odd(1)
  /\ UNCHANGED <<today, ran, runs, raw, passed_over>>

\* The day ends, with its scheduled run or without it.
NextDay ==
  /\ today < MaxDay
  /\ today' = today + 1
  /\ Odd(Cost(~ran))
  /\ ran' = FALSE
  /\ UNCHANGED <<sweeping, runs, raw, passed_over>>

\* The operator asks: the check only reads, and may be run at any time.
Check == UNCHANGED vars

Next ==
  \/ Check
  \/ \E d \in RunDate :
       \/ \E status \in {200, 500} :
            \/ SkipSweep(d, status)
            \/ Reassess(d, status)
            \/ \E stopped \in {b \in Block : IsSweep(b)}, fetched \in BOOLEAN :
                 RunSweep(d, stopped, fetched, status)
       \/ \E fetched \in BOOLEAN : CrashEarly(d, fetched)
  \/ Deploy
  \/ NextDay

Spec == Init /\ [][Next]_vars

(***************************************************************************)
(* The verdict on one run.                                                  *)
(***************************************************************************)
\* Mutant: the first clean cycle still counts as one the old cadence has spent.
LenientVerdict(s, d) ==
  IF s.statusCode = 500 THEN "FAIL"
  ELSE CASE s.ingest \in {"no_block", "not_a_fetch_day"} -> "EXPECTED"
         [] s.ingest = "rate_limited" -> IF d <= FirstCleanCycle THEN "EXPECTED" ELSE "FAIL"
         [] s.ingest \in {"budget_exhausted", "partial_errors"} -> "WARN"
         [] OTHER -> IF s.fetched THEN "PASS" ELSE "WARN"

\* A run without an ingest block that did not fail is a reassess: the daily
\* runs of this build always have one.
Verdict(s, d) ==
  IF s.statusCode = 500 THEN "FAIL"
  ELSE CASE s.ingest \in {"no_block", "not_a_fetch_day"} -> "EXPECTED"
         [] s.ingest = "rate_limited" -> IF d < FirstCleanCycle THEN "EXPECTED" ELSE "FAIL"
         [] s.ingest \in {"budget_exhausted", "partial_errors"} -> "WARN"
         [] OTHER -> IF s.fetched THEN "PASS" ELSE "WARN"

(***************************************************************************)
(* The report for a cutoff c.  Its argument unread is a set of pairs of a    *)
(* date and a summary: those that cannot be opened, or whose shape is not    *)
(* known, count as neither healthy nor failed.                              *)
(***************************************************************************)
\* Mutant: what is dated after the cutoff is listed too.
AllDates(c) == {d \in Days : runs[d] # {} /\ (d <= c \/ d > c)}

RunDates(c) == {d \in Days : d <= c /\ runs[d] # {}}
RawDates(c) == {d \in raw : d <= c}

\* Mutant: one landing of the cycle is enough for ever.
LandedOnce(c) ==
  \E d \in RawDates(c) : d >= FirstCleanCycle /\ c - d <= MaxDay

StaleAfter == 2 * EveryNDays

Fresh(c) ==
  \E d \in RawDates(c) : d >= FirstCleanCycle /\ c - d <= StaleAfter

AwaitingTodaysRun(c) ==
  /\ IsFetchDay(c) /\ runs[c] = {}
  /\ \E d \in RunDates(c) : c - d <= RunDroughtDays

BucketHasData == raw # {} \/ \E d \in Days : runs[d] # {}

NothingHasLanded(c) ==
  ~Fresh(c) /\ ~AwaitingTodaysRun(c) /\ c > FirstCleanCycle /\ BucketHasData

CannotJudge(c) == ~Fresh(c) /\ AwaitingTodaysRun(c)

RunDrought(c) ==
  /\ \A d \in RunDates(c) : c - d > RunDroughtDays
  /\ ~AwaitingTodaysRun(c)

\* The newest run dates there are, as many as are asked for.
Wanted(c) ==
  LET dates == RunDates(c)
  IN  {d \in dates : Cardinality({e \in dates : e > d}) < Window}

Judged(c, unread) == (UNION {{<<d, s>> : s \in runs[d]} : d \in Wanted(c)}) \ unread

\* The longest run of calendar-adjacent days in S has n days or more.
LongestRunReaches(n, S) == \E d \in S : d..(d + n - 1) \subseteq S

\* Mutant: a day without a summary does not end a run of days.
BridgedDays(judged) ==
  {d \in Days : /\ \E q, r \in judged : q[1] <= d /\ d <= r[1]
                /\ \A r \in judged : r[1] = d => r[2].ingest = "not_a_fetch_day"}

SkippedDays(judged) ==
  {r[1] : r \in judged} \ {r[1] : r \in {q \in judged : q[2].ingest # "not_a_fetch_day"}}

FailedDays(judged) == {r[1] : r \in {q \in judged : q[2].statusCode = 500}}

CadenceAnomaly(judged) == EveryNDays > 1 /\ LongestRunReaches(EveryNDays, SkippedDays(judged))
FailureStreak(judged)  == LongestRunReaches(2, FailedDays(judged))

Failing(c, judged) ==
  \/ NothingHasLanded(c)
  \/ \E r \in judged : Verdict(r[2], r[1]) = "FAIL"
  \/ RunDrought(c)
  \/ CadenceAnomaly(judged)
  \/ FailureStreak(judged)

Exit(c, unread) ==
  LET judged == Judged(c, unread)
  IN  IF Wanted(c) = {} THEN IF NothingHasLanded(c) THEN "FAIL" ELSE "CANNOT_JUDGE"
      ELSE IF Failing(c, judged) THEN "FAIL"
      ELSE IF CannotJudge(c) \/ Judged(c, {}) # judged THEN "CANNOT_JUDGE"
      ELSE "OK"

(***************************************************************************)
(* Properties of the answer for today, whatever cannot be read.             *)
(***************************************************************************)
Unreadable == SUBSET Judged(today, {})

\* Nothing that the check is for has happened: no run failed, none was refused by
\* a quota the cadence should fit, no fetch day of the new cycle passed without a
\* landing or was passed over by the cadence, and runs are recent.
Calm ==
  /\ \A d \in Days : \A s \in runs[d] :
       s.statusCode = 200 /\ (s.ingest = "rate_limited" => d < FirstCleanCycle)
  /\ passed_over = {}
  /\ \A d \in FirstCleanCycle..today :
       IsFetchDay(d) /\ (d < today \/ runs[d] # {}) => d \in raw
  /\ \E d \in Days : runs[d] # {} /\ today - d <= RunDroughtDays

\* "A false alarm is the failure mode that gets a check ignored" (check_ingestion.py:287):
\* on a calm bucket the answer is not FAIL, whatever days have no summary, runs
\* were repeated or reassessed, sweeps fell short of the matrix, or summaries
\* cannot be read.
NoFalseAlarm ==
  Calm => \A unread \in Unreadable : Exit(today, unread) # "FAIL"

\* OK is never a false all-clear: runs are recent, something landed within two
\* cadences once the new cycle has begun (on its first day: that day's run is
\* not still awaited), every run in the window was read and none failed, and
\* no whole cadence of adjacent days was skipped.
OkIsEarned ==
  \A unread \in Unreadable : Exit(today, unread) = "OK" =>
    /\ unread = {}
    /\ \E d \in Days : runs[d] # {} /\ today - d <= RunDroughtDays
    /\ \/ \E d \in raw : today - d <= 2 * EveryNDays
       \/ today < FirstCleanCycle
       \/ today = FirstCleanCycle /\ runs[today] # {}
    /\ \A d \in Wanted(today) : \A s \in runs[d] : s.statusCode = 200
    /\ \A d \in Wanted(today) :
         EveryNDays > 1 /\ d..(d + EveryNDays - 1) \subseteq Wanted(today)
           => \E e \in d..(d + EveryNDays - 1) : \E s \in runs[e] : s.ingest # "not_a_fetch_day"

\* "The digest's intake alert reads this same block, and the two must agree"
\* (check_ingestion.py:177): a day the digest alerts for has a line that
\* fails or warns, and a day with a line that passes has no alert.
AgreesWithDigest ==
  \A d \in Wanted(today) :
    LET lines   == {Verdict(s, d) : s \in runs[d]}
        problem == ProblemOnDay(runs[d], d)
    IN  /\ problem # "none" => lines \cap {"FAIL", "WARN"} # {}
        /\ "PASS" \in lines => problem = "none"

\* --today is "a TIME MACHINE: data dated after it is invisible" (check_ingestion.py:459):
\* the answer for a cutoff changes only with what is dated up to it: by a run for an
\* earlier date, or one that went past midnight.  (An empty bucket is told from an
\* empty past by data of any date, so the past must have some.)
SettledUpTo(c) ==
  /\ \A d \in 0..c : runs'[d] = runs[d]
  /\ {d \in raw' : d <= c} = {d \in raw : d <= c}

LaterIsInvisible ==
  [][\A c \in Days :
       SettledUpTo(c) /\ RunDates(c) # {} =>
         Exit(c, {})' = Exit(c, {})]_vars
==============================================================================
