------------------------------ MODULE Medallion ------------------------------
(***************************************************************************)
(* The medallion database of jobfetcher and the Lambda runs that write it:  *)
(* bronze_posting, posting, cluster, score and score_event, moved from      *)
(* bronze to silver to gold to scored by the stages of core/ingest.py over  *)
(* adapters/repository_postgres.py.                                         *)
(*                                                                          *)
(* Every repository method is one database transaction, and every           *)
(* transaction is one step here.  Between two of them a run holds only what  *)
(* it read earlier (its snapshot), another run may commit, and the run may   *)
(* die.  The language model's answer, the filter's verdict, the deadline    *)
(* and the set of postings a sweep returns are nondeterministic.            *)
(***************************************************************************)
EXTENDS Integers, Sequences, FiniteSets

CONSTANTS
  Postings,       (* the postings a sweep may return; also their cluster ids *)
  Runs,           (* invocations of the Lambda that may be in flight at once *)
  Contexts,       (* gold-filter decision contexts (compute_filter_hash)     *)
  Scores,         (* the scores a judgement may carry                        *)
  NullHash,       (* SQL NULL in posting.gold_filter_hash                    *)
  NoScore,        (* SQL NULL in score.previous_score; no score row          *)
  Modes,          (* the run modes that are invoked: daily, reassess         *)
  Overlap,        (* may a run start while another is in flight?             *)
  MaxJudgements,  (* bound: model judgements of one cluster                  *)
  MaxOverrides,   (* bound: human overrides of one cluster                   *)
  MaxCrashes      (* bound: runs that die part-way                           *)

ASSUME ContextsAssumption == NullHash \notin Contexts
ASSUME ScoresAssumption   == NoScore \notin Scores
ASSUME ModesAssumption    == Modes \subseteq {"daily", "reassess"}
ASSUME BoundsAssumption   == /\ Overlap \in BOOLEAN
                             /\ MaxJudgements \in Nat
                             /\ MaxOverrides \in Nat
                             /\ MaxCrashes \in Nat

VARIABLES
  bronze_posting,   (* the bronze rows                                       *)
  status,           (* posting.status, "absent" while there is no row        *)
  gold_filter_hash, (* posting.gold_filter_hash                              *)
  cluster,          (* the cluster rows                                      *)
  cluster_id,       (* the postings whose cluster_id column is set           *)
  score,            (* score.score, NoScore while there is no row            *)
  previous_score,   (* score.previous_score                                  *)
  score_event,      (* the append-only lineage log of each cluster           *)
  pc,               (* the stage a run is in, "idle" when it is not running  *)
  landed,           (* what the sweep landed and ingest has not yet looked up *)
  work,             (* the items a stage has still to handle                 *)
  item,             (* the items between two transactions of their own        *)
  filter_hash,      (* the decision context of a run's gold stage            *)
  old_score,        (* the scores a reassess run read when it began          *)
  crashes           (* runs that have died so far                            *)

tables == <<bronze_posting, status, gold_filter_hash, cluster, cluster_id>>
ledger == <<score, previous_score, score_event>>
locals == <<pc, landed, work, item, filter_hash, old_score>>
vars   == <<tables, ledger, locals, crashes>>

Status == {"absent", "silver", "rejected", "gold_candidate", "scored"}
Stage  == {"idle", "fetch", "partition", "silver", "gold", "link", "promote",
           "score", "mark", "targets", "rescore"}
Event  == [score : Scores, previous_score : Scores \cup {NoScore},
           scoring_model : {"llm", "human-override"}]

TypeOK ==
  /\ bronze_posting \subseteq Postings
  /\ status \in [Postings -> Status]
  /\ gold_filter_hash \in [Postings -> Contexts \cup {NullHash}]
  /\ cluster \subseteq Postings
  /\ cluster_id \subseteq Postings
  /\ score \in [Postings -> Scores \cup {NoScore}]
  /\ previous_score \in [Postings -> Scores \cup {NoScore}]
  /\ score_event \in [Postings -> Seq(Event)]
  /\ pc \in [Runs -> Stage]
  /\ landed \in [Runs -> SUBSET Postings]
  /\ work \in [Runs -> SUBSET Postings]
  /\ item \in [Runs -> SUBSET Postings]
  /\ filter_hash \in [Runs -> Contexts \cup {NullHash}]
  /\ old_score \in [Runs -> [Postings -> Scores \cup {NoScore}]]
  /\ crashes \in 0..MaxCrashes

Init ==
  /\ bronze_posting = {}
  /\ status = [p \in Postings |-> "absent"]
  /\ gold_filter_hash = [p \in Postings |-> NullHash]
  /\ cluster = {}
  /\ cluster_id = {}
  /\ score = [p \in Postings |-> NoScore]
  /\ previous_score = [p \in Postings |-> NoScore]
  /\ score_event = [p \in Postings |-> <<>>]
  /\ pc = [r \in Runs |-> "idle"]
  /\ landed = [r \in Runs |-> {}]
  /\ work = [r \in Runs |-> {}]
  /\ item = [r \in Runs |-> {}]
  /\ filter_hash = [r \in Runs |-> NullHash]
  /\ old_score = [r \in Runs |-> [p \in Postings |-> NoScore]]
  /\ crashes = 0

(***************************************************************************)
(* Control of one run: the stage it is in and the items it still holds.     *)
(***************************************************************************)
Goto(r, from, to) == pc[r] = from /\ pc' = [pc EXCEPT ![r] = to]

At(r, stage) == pc[r] = stage /\ UNCHANGED pc

Done(r, p) == work' = [work EXCEPT ![r] = @ \ {p}]

(***************************************************************************)
(* The invocation.  Nothing in the deployment serialises invocations: a     *)
(* manual, repeated or reassess invocation may overlap the scheduled one.   *)
(***************************************************************************)
Start(r) ==
  /\ Overlap \/ \A q \in Runs : pc[q] = "idle"
  /\ \E mode \in Modes :
        Goto(r, "idle", IF mode = "daily" THEN "fetch" ELSE "targets")
  /\ UNCHANGED <<tables, ledger, landed, work, item, filter_hash, old_score, crashes>>

(***************************************************************************)
(* ingest: fetch_to_bronze, the look-up of what already exists, and the     *)
(* dissection pool.  A day that is not a fetch day lands nothing.           *)
(***************************************************************************)
UpsertBronze(p) == bronze_posting' = bronze_posting \cup {p}

Land(r, p) ==
  /\ At(r, "fetch")
  /\ p \notin landed[r]
  /\ UpsertBronze(p)
  /\ landed' = [landed EXCEPT ![r] = @ \cup {p}]
  /\ UNCHANGED <<status, gold_filter_hash, cluster, cluster_id, ledger,
                 work, item, filter_hash, old_score, crashes>>

EndFetch(r) ==
  /\ Goto(r, "fetch", "partition")
  /\ UNCHANGED <<tables, ledger, landed, work, item, filter_hash, old_score, crashes>>

\* get_posting: an existing posting is not dissected again.
LookUp(r, p) ==
  /\ At(r, "partition")
  /\ p \in landed[r]
  /\ landed' = [landed EXCEPT ![r] = @ \ {p}]
  /\ work' = [work EXCEPT ![r] = IF status[p] = "absent" THEN @ \cup {p} ELSE @]
  /\ UNCHANGED <<tables, ledger, item, filter_hash, old_score, crashes>>

EndPartition(r) ==
  /\ landed[r] = {}
  /\ Goto(r, "partition", "silver")
  /\ UNCHANGED <<tables, ledger, landed, work, item, filter_hash, old_score, crashes>>

\* save_posting: an upsert that writes status='silver' over whatever is there.
SavePosting(r, p) ==
  /\ At(r, "silver")
  /\ p \in work[r]
  /\ status' = [status EXCEPT ![p] = "silver"]
  /\ Done(r, p)
  /\ UNCHANGED <<bronze_posting, gold_filter_hash, cluster, cluster_id, ledger,
                 landed, item, filter_hash, old_score, crashes>>

\* Dissecting or scoring an item failed, was blocked by billing, or was deferred.
LeaveUnjudged(r, p) ==
  /\ pc[r] \in {"silver", "score", "rescore"}
  /\ UNCHANGED pc
  /\ p \in work[r]
  /\ Done(r, p)
  /\ UNCHANGED <<tables, ledger, landed, item, filter_hash, old_score, crashes>>

(***************************************************************************)
(* apply_gold_filter: the candidates are read once, then each is rejected   *)
(* in one transaction or promoted in three.                                 *)
(***************************************************************************)
\* Mutant: a rejection is re-opened whatever the context it was made in.
ReopenAll(h) == {p \in Postings : status[p] \in {"silver", "rejected"} /\ h \in Contexts}

GoldCandidates(h) ==
  {p \in Postings : \/ status[p] = "silver"
                    \/ status[p] = "rejected" /\ gold_filter_hash[p] # h}

ReadSilver(r, h) ==
  /\ work[r] = {}
  /\ Goto(r, "silver", "gold")
  /\ filter_hash' = [filter_hash EXCEPT ![r] = h]
  /\ work' = [work EXCEPT ![r] = GoldCandidates(h)]
  /\ UNCHANGED <<tables, ledger, landed, item, old_score, crashes>>

MarkGoldRejected(r, p) ==
  /\ At(r, "gold")
  /\ p \in work[r]
  /\ status' = [status EXCEPT ![p] = "rejected"]
  /\ gold_filter_hash' = [gold_filter_hash EXCEPT ![p] = filter_hash[r]]
  /\ Done(r, p)
  /\ UNCHANGED <<bronze_posting, cluster, cluster_id, ledger,
                 landed, item, filter_hash, old_score, crashes>>

UpsertCluster(r, p) ==
  /\ Goto(r, "gold", "link")
  /\ p \in work[r]
  /\ cluster' = cluster \cup {p}
  /\ item' = [item EXCEPT ![r] = {p}]
  /\ UNCHANGED <<bronze_posting, status, gold_filter_hash, cluster_id, ledger,
                 landed, work, filter_hash, old_score, crashes>>

\* Mutant: the link to the cluster is not written before the promotion.
SkipLink(r) ==
  /\ Goto(r, "link", "promote")
  /\ UNCHANGED <<tables, ledger, landed, work, item, filter_hash, old_score, crashes>>

SetPostingCluster(r) ==
  /\ Goto(r, "link", "promote")
  /\ cluster_id' = cluster_id \cup item[r]
  /\ UNCHANGED <<bronze_posting, status, gold_filter_hash, cluster, ledger,
                 landed, work, item, filter_hash, old_score, crashes>>

MarkGoldCandidate(r, p) ==
  /\ p \in item[r]
  /\ Goto(r, "promote", "gold")
  /\ status' = [status EXCEPT ![p] = "gold_candidate"]
  /\ item' = [item EXCEPT ![r] = {}]
  /\ Done(r, p)
  /\ UNCHANGED <<bronze_posting, gold_filter_hash, cluster, cluster_id, ledger,
                 landed, filter_hash, old_score, crashes>>

(***************************************************************************)
(* The score row and its lineage log.  save_score writes both in one        *)
(* transaction; a caller that passes no previous score carries the existing *)
(* row's score over, and the log keeps what the caller passed.              *)
(***************************************************************************)
LlmEvents(p) ==
  {i \in 1..Len(score_event[p]) : score_event[p][i].scoring_model = "llm"}

HumanEvents(p) == 1..Len(score_event[p]) \ LlmEvents(p)

AppendEvent(p, e) == score_event' = [score_event EXCEPT ![p] = Append(@, e)]

\* Mutant: a second judgement does not replace the row (on conflict do nothing).
KeepFirstScore(p, s, previous) ==
  /\ Cardinality(LlmEvents(p)) < MaxJudgements
  /\ score' = [score EXCEPT ![p] = IF @ = NoScore THEN s ELSE @]
  /\ UNCHANGED previous_score
  /\ AppendEvent(p, [score |-> s, previous_score |-> previous, scoring_model |-> "llm"])

\* Mutant: the row takes what the caller passed, so a second first-judgement
\* forgets that there was one (excluded.previous_score).
ForgetPrevious(p, s, previous) ==
  /\ Cardinality(LlmEvents(p)) < MaxJudgements
  /\ score' = [score EXCEPT ![p] = s]
  /\ previous_score' = [previous_score EXCEPT ![p] = previous]
  /\ AppendEvent(p, [score |-> s, previous_score |-> previous, scoring_model |-> "llm"])

SaveScore(p, s, previous) ==
  /\ Cardinality(LlmEvents(p)) < MaxJudgements
  /\ score' = [score EXCEPT ![p] = s]
  /\ previous_score' =
       [previous_score EXCEPT ![p] = IF previous # NoScore THEN previous ELSE score[p]]
  /\ AppendEvent(p, [score |-> s, previous_score |-> previous, scoring_model |-> "llm"])

\* track.py and the panel: the score row must exist, and it keeps its score.
\* The score an operator was shown may be any the row has held.
SetScoreOverride(p, s, shown) ==
  /\ score[p] # NoScore
  /\ Cardinality(HumanEvents(p)) < MaxOverrides
  /\ AppendEvent(p, [score |-> s, previous_score |-> score_event[p][shown].score,
                     scoring_model |-> "human-override"])
  /\ UNCHANGED <<tables, score, previous_score, locals, crashes>>

(***************************************************************************)
(* score_gold: each candidate is judged in one transaction and marked       *)
(* scored in the next.                                                      *)
(***************************************************************************)
\* Mutant: what is already scored is offered to the model again.
ReadAllGold(r) ==
  /\ work[r] = {}
  /\ Goto(r, "gold", "score")
  /\ work' = [work EXCEPT ![r] = {p \in Postings : status[p] \in {"gold_candidate", "scored"}}]
  /\ UNCHANGED <<tables, ledger, landed, item, filter_hash, old_score, crashes>>

\* Mutant: a candidate that already has a score row is not offered again.
ReadUnscoredGold(r) ==
  /\ work[r] = {}
  /\ Goto(r, "gold", "score")
  /\ work' = [work EXCEPT ![r] =
                 {p \in Postings : status[p] = "gold_candidate" /\ score[p] = NoScore}]
  /\ UNCHANGED <<tables, ledger, landed, item, filter_hash, old_score, crashes>>

ReadGold(r) ==
  /\ work[r] = {}
  /\ Goto(r, "gold", "score")
  /\ work' = [work EXCEPT ![r] = {p \in Postings : status[p] = "gold_candidate"}]
  /\ UNCHANGED <<tables, ledger, landed, item, filter_hash, old_score, crashes>>

Judge(r, p, s) ==
  /\ p \in work[r]
  /\ Goto(r, "score", "mark")
  /\ SaveScore(p, s, NoScore)
  /\ item' = [item EXCEPT ![r] = {p}]
  /\ UNCHANGED <<tables, landed, work, filter_hash, old_score, crashes>>

\* Mutant: the posting is marked with a status outside the vocabulary.
MarkDone(r, p) ==
  /\ p \in item[r]
  /\ Goto(r, "mark", "score")
  /\ status' = [status EXCEPT ![p] = "done"]
  /\ item' = [item EXCEPT ![r] = {}]
  /\ Done(r, p)
  /\ UNCHANGED <<bronze_posting, gold_filter_hash, cluster, cluster_id, ledger,
                 landed, filter_hash, old_score, crashes>>

MarkScored(r, p) ==
  /\ p \in item[r]
  /\ Goto(r, "mark", "score")
  /\ status' = [status EXCEPT ![p] = "scored"]
  /\ item' = [item EXCEPT ![r] = {}]
  /\ Done(r, p)
  /\ UNCHANGED <<bronze_posting, gold_filter_hash, cluster, cluster_id, ledger,
                 landed, filter_hash, old_score, crashes>>

(***************************************************************************)
(* reassess: the scored postings and their scores are read once, then each  *)
(* is judged again with the score that was read as its previous one.        *)
(***************************************************************************)
ReassessTargets ==
  {p \in cluster_id : status[p] = "scored" /\ score[p] # NoScore}

ReadScored(r) ==
  /\ Goto(r, "targets", "rescore")
  /\ work' = [work EXCEPT ![r] = ReassessTargets]
  /\ old_score' = [old_score EXCEPT ![r] = score]
  /\ UNCHANGED <<tables, ledger, landed, item, filter_hash, crashes>>

Rejudge(r, p, s) ==
  /\ At(r, "rescore")
  /\ p \in work[r]
  /\ SaveScore(p, s, old_score[r][p])
  /\ Done(r, p)
  /\ UNCHANGED <<tables, landed, item, filter_hash, old_score, crashes>>

(***************************************************************************)
(* The end of a run: it returns, or it dies with its tables as they are (an  *)
(* exception that becomes a returned 500, or the Lambda's hard timeout).    *)
(***************************************************************************)
Forget(r) ==
  /\ pc' = [pc EXCEPT ![r] = "idle"]
  /\ landed' = [landed EXCEPT ![r] = {}]
  /\ work' = [work EXCEPT ![r] = {}]
  /\ item' = [item EXCEPT ![r] = {}]
  /\ filter_hash' = [filter_hash EXCEPT ![r] = NullHash]
  /\ old_score' = [old_score EXCEPT ![r] = [p \in Postings |-> NoScore]]

Finish(r) ==
  /\ pc[r] \in {"score", "rescore"}
  /\ work[r] = {}
  /\ Forget(r)
  /\ UNCHANGED <<tables, ledger, crashes>>

Crash(r) ==
  /\ pc[r] # "idle"
  /\ crashes < MaxCrashes
  /\ crashes' = crashes + 1
  /\ Forget(r)
  /\ UNCHANGED <<tables, ledger>>

Ingest(r) ==
  \/ \E p \in Postings : Land(r, p) \/ LookUp(r, p) \/ SavePosting(r, p)
  \/ EndFetch(r)
  \/ EndPartition(r)

Gold(r) ==
  \/ \E h \in Contexts : ReadSilver(r, h)
  \/ \E p \in Postings : \/ MarkGoldRejected(r, p)
                         \/ UpsertCluster(r, p)
                         \/ MarkGoldCandidate(r, p)
  \/ SetPostingCluster(r)

Scoring(r) ==
  \/ ReadGold(r)
  \/ \E p \in Postings, s \in Scores : Judge(r, p, s)
  \/ \E p \in Postings : MarkScored(r, p) \/ LeaveUnjudged(r, p)

Reassess(r) ==
  \/ ReadScored(r)
  \/ \E p \in Postings, s \in Scores : Rejudge(r, p, s)

Override ==
  \E p \in Postings, s \in Scores : \E shown \in LlmEvents(p) : SetScoreOverride(p, s, shown)

Next ==
  \/ \E r \in Runs : \/ Start(r)
                     \/ Ingest(r)
                     \/ Gold(r)
                     \/ Scoring(r)
                     \/ Reassess(r)
                     \/ Finish(r)
                     \/ Crash(r)
  \/ Override

Spec == Init /\ [][Next]_vars

(***************************************************************************)
(* Fairness.  An invoked run takes its next step until it ends or dies, and *)
(* the schedule invokes a daily one again and again, whatever is invoked by  *)
(* hand.  A source keeps returning a posting it has returned; an item that   *)
(* is tried in run after run is not refused by the model in every one of     *)
(* them.  Nothing is said of deaths or of operators.                        *)
(***************************************************************************)
Proceed(r) == Start(r) \/ Ingest(r) \/ Gold(r) \/ Scoring(r) \/ Reassess(r) \/ Finish(r)

StartDaily(r) == Start(r) /\ pc'[r] = "fetch"

LandAgain(r, p) == p \in bronze_posting /\ Land(r, p)

FairSpec ==
  /\ Spec
  /\ \A r \in Runs : WF_vars(Proceed(r))
  /\ SF_vars(\E r \in Runs : StartDaily(r))
  /\ \A p \in Postings : /\ SF_vars(\E r \in Runs : LandAgain(r, p))
                          /\ SF_vars(\E r \in Runs : SavePosting(r, p))
                          /\ SF_vars(\E r \in Runs, s \in Scores : Judge(r, p, s))

(***************************************************************************)
(* Safety, whatever overlaps and whatever dies.                             *)
(***************************************************************************)

\* Every row a table refers to exists: a posting's bronze row, a posting's
\* cluster, the cluster of a score and of its events.  The foreign keys of
\* db/tables.py would otherwise abort the run that writes.
Referential ==
  /\ \A p \in Postings : status[p] # "absent" => p \in bronze_posting
  /\ cluster_id \subseteq cluster
  /\ \A p \in Postings : score[p] # NoScore => p \in cluster
  /\ \A p \in Postings : score_event[p] # <<>> => p \in cluster

\* A posting that is offered for scoring, or was scored, carries its cluster:
\* save_score rejects a NULL cluster_id, so one candidate promoted without it
\* would fail every later daily run at the same place.
CandidatesAreClustered ==
  \A p \in Postings : status[p] \in {"gold_candidate", "scored"} => p \in cluster_id

\* A posting marked scored has a judgement: mark_scored is a transaction after
\* save_score, and the reverse order would lose a posting silently.
ScoredIsJudged ==
  \A p \in Postings : status[p] = "scored" => score[p] # NoScore

\* The tables are whole in every state, between any two transactions of any runs:
\* rows refer to rows that exist, whoever promotes a posting has linked it to its
\* cluster, and whoever marks one scored has judged it.
TablesAreWhole == Referential /\ CandidatesAreClustered /\ ScoredIsJudged

\* The current judgement and the history never diverge (repository_postgres.py:520-521):
\* the score row is the newest model event of the lineage log, and there is a
\* row exactly when there is such an event.
Newest(p, i) == i \in LlmEvents(p) /\ \A j \in LlmEvents(p) : j <= i

LedgerAgrees ==
  \A p \in Postings :
    /\ score[p] = NoScore <=> LlmEvents(p) = {}
    /\ \A i \in LlmEvents(p) : Newest(p, i) => score_event[p][i].score = score[p]

\* "`previous_score is None` (a first scoring)" (notifier.py:89): it is NULL exactly
\* while no second judgement was made, and otherwise a score that an earlier judgement
\* gave, whichever runs judged the posting and whatever they had read.
PreviousWasGiven ==
  \A p \in Postings :
    IF \A i, j \in LlmEvents(p) : i = j
    THEN previous_score[p] = NoScore
    ELSE \E i \in LlmEvents(p) : /\ ~Newest(p, i)
                                 /\ score_event[p][i].score = previous_score[p]

(***************************************************************************)
(* Safety when invocations do not overlap (Overlap = FALSE).                *)
(***************************************************************************)

\* previous_score is the score of the judgement before the current one, which
\* is what the digest's graduation and first-scoring tests read.
PreviousIsPredecessor ==
  \A p \in Postings : \A i, j \in LlmEvents(p) :
    /\ Newest(p, i) /\ j < i /\ (\A k \in LlmEvents(p) : k <= j \/ k >= i)
          => previous_score[p] = score_event[p][j].score
    /\ LlmEvents(p) = {i} => previous_score[p] = NoScore

\* "A re-run skips done work" (pipeline.py:8-9): daily runs judge a posting
\* once, and once more for each run that died between judging and marking it.
JudgedOncePerDeath ==
  \A p \in Postings :
    Cardinality({i \in LlmEvents(p) : score_event[p][i].previous_score = NoScore})
      <= 1 + crashes

\* Only a run under another decision context re-opens a rejection, however
\* many runs under the same context look at the posting.
RejectionHolds ==
  [][\A p \in Postings :
       status[p] = "rejected" /\ status'[p] # "rejected"
         => \E r \in Runs : /\ pc[r] = "promote" /\ p \in item[r]
                            /\ filter_hash[r] # gold_filter_hash[p]]_vars

(***************************************************************************)
(* Liveness, under FairSpec.                                                *)
(***************************************************************************)

\* Every posting that was landed and that sweeps keep returning is decided in the
\* end, rejected or scored, and a promoted one is scored: neither a dissection that
\* failed or was deferred, nor a death, nor a filter whose context changes leaves it
\* half-way for good.
LandedIsDecided ==
  \A p \in Postings :
    /\ p \in bronze_posting ~> status[p] \in {"rejected", "scored"}
    /\ status[p] = "gold_candidate" ~> status[p] = "scored"
==============================================================================
