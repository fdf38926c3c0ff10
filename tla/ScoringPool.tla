------------------------------ MODULE ScoringPool ------------------------------
(***************************************************************************)
(* One scoring stage of a run: score_gold of core/ingest.py, its pool of     *)
(* worker threads, the boundary resampling, the scorer's re-prompt and the   *)
(* retries of adapters/llm_openai.py, against the run's deadline and the     *)
(* Lambda's hard timeout.  ingest and reassess drive the same pool, ingest   *)
(* with one sample per posting.                                             *)
(*                                                                          *)
(* Time passes in ticks.  A worker that waits, for an answer or for a retry, *)
(* has an instant `due` at which the wait is over at the latest; the clock   *)
(* does not pass it.  The main thread is never hurried: its writes take any  *)
(* time.                                                                    *)
(***************************************************************************)
EXTENDS Integers, Sequences, FiniteSets

CONSTANTS
  Candidates,     (* how many candidates the stage has read                  *)
  Workers,        (* the threads of the pool                                 *)
  Scores,         (* the scores a valid reply may carry                      *)
  NoScore,        (* no score row                                            *)
  Threshold, HardFloor, NearMissBand,  (* the knobs of the profile row       *)
  TriggerMargin,  (* DEFAULT_RESAMPLE_TRIGGER_MARGIN                         *)
  ResampleN,      (* DEFAULT_RESAMPLE_N                                      *)
  MaxRetries,     (* LlmConfig.max_retries                                   *)
  AttemptTime,    (* the longest one HTTP attempt takes                      *)
  BackoffTime,    (* the longest wait before a retry                         *)
  Wall,           (* the instant the Deadline expires                        *)
  HardTimeout     (* the instant the Lambda is killed                        *)

ASSUME KnobsAssumption ==
  /\ Scores \subseteq Int /\ NoScore \notin Scores
  /\ {Threshold, HardFloor, NearMissBand, TriggerMargin} \subseteq Nat
  /\ HardFloor <= Threshold
ASSUME PoolAssumption == {Candidates, ResampleN, MaxRetries} \subseteq Nat
ASSUME TimeAssumption == {AttemptTime, BackoffTime, Wall, HardTimeout} \subseteq Nat

VARIABLES
  now,
  next,      (* the candidate the pool starts next: the queue is first in, first out *)
  outcome,   (* what has become of each candidate's task                      *)
  samples,   (* the valid scores the model has given a candidate              *)
  task,      (* the candidate a worker is busy with, 0 when it is idle        *)
  phase,     (* calling: waiting for an answer; backoff: waiting to retry     *)
  tried,     (* the attempts a worker has behind it in this call              *)
  prompted,  (* was the reply to the first prompt not valid?                  *)
  due,       (* when a worker's wait is over at the latest                    *)
  main,      (* the main thread                                              *)
  item,      (* the candidate it has saved and not yet marked, 0 if none      *)
  handled,   (* the tasks whose result it has taken                           *)
  counts,    (* what it has counted                                          *)
  saved,     (* the score row written for a candidate                         *)
  marked,    (* the candidates marked scored                                  *)
  refused    (* history: has the database refused a write?                    *)

pool   == <<next, outcome, samples, task, phase, tried, prompted, due>>
writer == <<main, item, handled, counts, saved, marked, refused>>
vars   == <<now, pool, writer>>

Ids     == 1..Candidates
Failure == {"deferred", "billing_blocked", "failed"}
Kinds   == Failure \cup {"scored", "surfaced"}

TypeOK ==
  /\ now \in 0..HardTimeout
  /\ next \in 1..(Candidates + 1)
  /\ outcome \in [Ids -> Failure \cup {"queued", "running", "judged", "raised"}]
  /\ samples \in [Ids -> Seq(Scores)]
  /\ task \in [Workers -> 0..Candidates]
  /\ phase \in [Workers -> {"calling", "backoff"}]
  /\ tried \in [Workers -> 0..MaxRetries]
  /\ prompted \in [Workers -> BOOLEAN]
  /\ due \in [Workers -> Nat]
  /\ main \in {"collect", "mark", "leaving", "over", "aborted", "killed"}
  /\ item \in 0..Candidates
  /\ handled \subseteq Ids
  /\ counts \in [Kinds -> Nat]
  /\ saved \in [Ids -> Scores \cup {NoScore}]
  /\ marked \subseteq Ids
  /\ refused \in BOOLEAN

Init ==
  /\ now = 0
  /\ next = 1
  /\ outcome = [c \in Ids |-> "queued"] /\ samples = [c \in Ids |-> <<>>]
  /\ task = [w \in Workers |-> 0] /\ phase = [w \in Workers |-> "calling"]
  /\ tried = [w \in Workers |-> 0] /\ prompted = [w \in Workers |-> FALSE]
  /\ due = [w \in Workers |-> 0]
  /\ main = "collect" /\ item = 0 /\ handled = {}
  /\ counts = [k \in Kinds |-> 0]
  /\ saved = [c \in Ids |-> NoScore] /\ marked = {}
  /\ refused = FALSE

Alive   == main \notin {"over", "aborted", "killed"}
Busy(w) == task[w] # 0
Expired == now >= Wall

(***************************************************************************)
(* Pure parts: the median of the samples, the band of a score.              *)
(***************************************************************************)

\* The place of a sample in a stable sort by score.
Rank(q, i) == Cardinality({j \in DOMAIN q : q[j] < q[i] \/ (q[j] = q[i] /\ j < i)})

\* Mutant: of an even number of samples, the upper one of the middle two.
UpperMedian(q) == q[CHOOSE i \in DOMAIN q : Rank(q, i) = Len(q) \div 2]

MedianSample(q) == q[CHOOSE i \in DOMAIN q : Rank(q, i) = (Len(q) - 1) \div 2]

NearTheCut(s) == s - Threshold \in (-TriggerMargin)..TriggerMargin

FitCategory(s) ==
  CASE s >= Threshold -> "strong_fit"
    [] s < Threshold /\ s >= Threshold - NearMissBand -> "near_miss"
    [] s < Threshold - NearMissBand /\ s >= HardFloor -> "stretch"
    [] OTHER -> "misaligned"

(***************************************************************************)
(* A call: up to MaxRetries + 1 attempts, a wait before each but the first.  *)
(***************************************************************************)
Wait(w, for, time) ==
  /\ phase' = [phase EXCEPT ![w] = for]
  /\ due' = [due EXCEPT ![w] = now + time]

BeginCall(w, again) ==
  /\ tried' = [tried EXCEPT ![w] = 0]
  /\ prompted' = [prompted EXCEPT ![w] = again]
  /\ Wait(w, "calling", AttemptTime)

\* The worker is done with its task: its fields go back to what they were.
Release(w) ==
  /\ task' = [task EXCEPT ![w] = 0]
  /\ phase' = [phase EXCEPT ![w] = "calling"]
  /\ tried' = [tried EXCEPT ![w] = 0]
  /\ prompted' = [prompted EXCEPT ![w] = FALSE]
  /\ due' = [due EXCEPT ![w] = 0]

Resolve(w, as) ==
  /\ outcome' = [outcome EXCEPT ![task[w]] = as]
  /\ Release(w)

\* An attempt of w may end now, in any of the ways below.
Answered(w) == Alive /\ Busy(w) /\ phase[w] = "calling"

\* A free thread takes the next candidate: past the deadline it defers it.
StartTask(w) ==
  /\ Alive /\ ~Busy(w) /\ next <= Candidates
  /\ next' = next + 1
  /\ IF Expired
     THEN /\ outcome' = [outcome EXCEPT ![next] = "deferred"]
          /\ UNCHANGED <<task, phase, tried, prompted, due>>
     ELSE /\ outcome' = [outcome EXCEPT ![next] = "running"]
          /\ task' = [task EXCEPT ![w] = next]
          /\ BeginCall(w, FALSE)
  /\ UNCHANGED <<now, samples, writer>>

\* Mutant: the deadline is not looked at before an extra sample.
SampleLate(w, s) ==
  LET c == task[w]
      q == Append(samples[c], s)
  IN  /\ samples' = [samples EXCEPT ![c] = q]
      /\ IF Len(q) < ResampleN /\ NearTheCut(q[1])
         THEN BeginCall(w, FALSE) /\ UNCHANGED <<outcome, task>>
         ELSE Resolve(w, "judged")

\* A valid reply is a sample.  A first sample near the cut is followed by others,
\* none of them begun past the deadline.
Sample(w, s) ==
  LET c == task[w]
      q == Append(samples[c], s)
  IN  /\ samples' = [samples EXCEPT ![c] = q]
      /\ IF Len(q) < ResampleN /\ NearTheCut(q[1]) /\ ~Expired
         THEN BeginCall(w, FALSE) /\ UNCHANGED <<outcome, task>>
         ELSE Resolve(w, "judged")

ValidReply(w, s) ==
  /\ Answered(w)
  /\ Sample(w, s)
  /\ UNCHANGED <<now, next, writer>>

\* A reply that is not valid JSON for the schema is asked for once more.
InvalidReply(w) ==
  /\ Answered(w)
  /\ IF prompted[w] THEN Resolve(w, "failed")
     ELSE BeginCall(w, TRUE) /\ UNCHANGED <<outcome, task>>
  /\ UNCHANGED <<now, next, samples, writer>>

\* Mutant: one retry more than the configuration allows.
RetryOnceMore(w) ==
  /\ Answered(w)
  /\ IF tried[w] > MaxRetries THEN Resolve(w, "failed")
     ELSE /\ tried' = [tried EXCEPT ![w] = @ + 1]
          /\ Wait(w, "backoff", BackoffTime)
          /\ UNCHANGED <<outcome, task, prompted>>
  /\ UNCHANGED <<now, next, samples, writer>>

\* 429, a 5xx, or a connection that could not be made.
TransientFailure(w) ==
  /\ Answered(w)
  /\ IF tried[w] = MaxRetries THEN Resolve(w, "failed")
     ELSE /\ tried' = [tried EXCEPT ![w] = @ + 1]
          /\ Wait(w, "backoff", BackoffTime)
          /\ UNCHANGED <<outcome, task, prompted>>
  /\ UNCHANGED <<now, next, samples, writer>>

Retry(w) ==
  /\ Alive /\ Busy(w) /\ phase[w] = "backoff"
  /\ Wait(w, "calling", AttemptTime)
  /\ UNCHANGED <<now, next, outcome, samples, task, tried, prompted, writer>>

\* Another 4xx, no key, an answer that was cut short or has another shape: LlmError.
CallRefused(w) ==
  /\ Answered(w)
  /\ Resolve(w, "failed")
  /\ UNCHANGED <<now, next, samples, writer>>

\* 402: the account cannot pay.
BillingRefused(w) ==
  /\ Answered(w)
  /\ Resolve(w, "billing_blocked")
  /\ UNCHANGED <<now, next, samples, writer>>

\* What is no LlmError leaves the task as it is: an answer that is not read within
\* the timeout (TimeoutError, no URLError), a connection lost while it is read, a
\* body that is no JSON, a key store that cannot be reached.
UnexpectedError(w) ==
  /\ Answered(w)
  /\ Resolve(w, "raised")
  /\ UNCHANGED <<now, next, samples, writer>>

(***************************************************************************)
(* The main thread: it takes results in the order they come, and it alone    *)
(* writes.                                                                  *)
(***************************************************************************)
Finished(c) == outcome[c] \in Failure \cup {"judged", "raised"}

Count(kinds) == counts' = [k \in Kinds |-> IF k \in kinds THEN counts[k] + 1 ELSE counts[k]]

Ready(c) == main = "collect" /\ Finished(c) /\ c \notin handled

\* Mutant: the first candidate that was deferred ends the collection.
BreakAtDeferred(c) ==
  /\ Ready(c) /\ outcome[c] \in Failure
  /\ handled' = handled \cup {c}
  /\ Count({outcome[c]})
  /\ main' = IF outcome[c] = "deferred" THEN "over" ELSE main
  /\ UNCHANGED <<now, pool, item, saved, marked, refused>>

CountUnscored(c) ==
  /\ Ready(c) /\ outcome[c] \in Failure
  /\ handled' = handled \cup {c}
  /\ Count({outcome[c]})
  /\ UNCHANGED <<now, pool, main, item, saved, marked, refused>>

SaveScore(c) ==
  /\ Ready(c) /\ outcome[c] = "judged"
  /\ handled' = handled \cup {c}
  /\ saved' = [saved EXCEPT ![c] = MedianSample(samples[c])]
  /\ item' = c /\ main' = "mark"
  /\ UNCHANGED <<now, pool, counts, marked, refused>>

MarkScored ==
  /\ main = "mark"
  /\ marked' = marked \cup {item}
  /\ Count({"scored"} \cup {k \in {"surfaced"} : FitCategory(saved[item]) = "strong_fit"})
  /\ item' = 0 /\ main' = "collect"
  /\ UNCHANGED <<now, pool, handled, saved, refused>>

\* fut.result() raises what the task raised.
TaskRaised(c) ==
  /\ Ready(c) /\ outcome[c] = "raised"
  /\ handled' = handled \cup {c}
  /\ main' = "leaving"
  /\ UNCHANGED <<now, pool, item, counts, saved, marked, refused>>

\* save_score or mark_scored raises RepositoryError.
WriteRefused ==
  /\ \/ main = "mark"
     \/ \E c \in Ids : Ready(c) /\ outcome[c] = "judged"
  /\ main' = "leaving" /\ refused' = TRUE /\ item' = 0
  /\ UNCHANGED <<now, pool, handled, counts, saved, marked>>

\* Mutant: the exception leaves the stage at once.
LeaveAtOnce ==
  /\ main = "leaving"
  /\ main' = "aborted"
  /\ UNCHANGED <<now, pool, item, handled, counts, saved, marked, refused>>

\* Leaving the `with` block waits for every task, those not begun too; nothing is
\* cancelled and no result is looked at.
Leave ==
  /\ main = "leaving"
  /\ \A c \in Ids : Finished(c)
  /\ main' = "aborted"
  /\ UNCHANGED <<now, pool, item, handled, counts, saved, marked, refused>>

Finish ==
  /\ main = "collect" /\ handled = Ids
  /\ main' = "over"
  /\ UNCHANGED <<now, pool, item, handled, counts, saved, marked, refused>>

(***************************************************************************)
(* Time.                                                                    *)
(***************************************************************************)
Tick ==
  /\ Alive /\ now < HardTimeout
  /\ \A w \in Workers : Busy(w) => now < due[w]
  /\ now' = now + 1
  /\ UNCHANGED <<pool, writer>>

Kill ==
  /\ Alive /\ now = HardTimeout
  /\ main' = "killed" /\ item' = 0
  /\ UNCHANGED <<now, pool, handled, counts, saved, marked, refused>>

\* The stage has been left.
Ended == ~Alive /\ UNCHANGED vars

Work(w) ==
  \/ StartTask(w)
  \/ \E s \in Scores : ValidReply(w, s)
  \/ InvalidReply(w)
  \/ TransientFailure(w)
  \/ Retry(w)
  \/ CallRefused(w)
  \/ BillingRefused(w)
  \/ UnexpectedError(w)

Collect ==
  \/ \E c \in Ids : CountUnscored(c) \/ SaveScore(c) \/ TaskRaised(c)
  \/ MarkScored
  \/ Leave
  \/ Finish

Next ==
  \/ \E w \in Workers : Work(w)
  \/ Collect
  \/ WriteRefused
  \/ Tick
  \/ Kill
  \/ Ended

Spec == Init /\ [][Next]_vars

(***************************************************************************)
(* Properties.                                                              *)
(***************************************************************************)

\* The longest a call takes, with every attempt and every wait.
CallTime == AttemptTime + MaxRetries * (BackoffTime + AttemptTime)

\* What was begun before the deadline is over two calls after it, the prompt and
\* the re-prompt, however many samples it takes and whatever fails.
TailIsBounded == \A w \in Workers : Busy(w) => now < Wall + 2 * CallTime

\* A candidate reaches the shortlist when more than half of its samples do
\* (ingest.py:763-766), also when the deadline has cut the resampling short.
MajoritySurfaces ==
  \A c \in Ids : saved[c] # NoScore =>
    LET for == {i \in DOMAIN samples[c] : samples[c][i] >= Threshold}
    IN  saved[c] >= Threshold <=> 2 * Cardinality(for) > Len(samples[c])

\* A stage that has been left, by an exception too, has no thread still at work
\* and none that will start.
LeftQuietly ==
  main \in {"over", "aborted"} => next > Candidates /\ \A w \in Workers : ~Busy(w)

\* "`scored` + `failed` + `deferred` partition them" (ingest.py:820), with those that
\* billing blocked, and the main thread is "the only writer" (ingest.py:883): seen from
\* outside, the threads and their writer settle the candidates one after the other, each
\* once, as ScoringStage says.
Fate(c) ==
  IF c \in marked THEN "scored"
  ELSE IF c \in handled /\ outcome[c] \in Failure THEN outcome[c] ELSE "open"

Stage ==
  CASE main = "collect" -> "settling"
    [] main = "mark" -> "writing"
    [] main = "over" -> "returned"
    [] OTHER -> "broken"

Outside == INSTANCE ScoringStage
  WITH Candidates <- Ids, Ways <- Failure, stage <- Stage,
       fate <- [c \in Ids |-> Fate(c)],
       rows <- {c \in Ids : saved[c] # NoScore},
       report <- IF main = "over" THEN [k \in Failure \cup {"scored"} |-> counts[k]] ELSE <<>>

SettlesInTurn == Outside!Spec

\* "one un-scorable posting must not lose the rest of the shortlist"
\* (ingest.py:815-816): the database aborts a stage, a model call never does.
FailureIsIsolated == main = "aborted" => refused
=============================================================================
