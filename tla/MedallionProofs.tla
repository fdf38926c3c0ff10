--------------------------- MODULE MedallionProofs ---------------------------
(***************************************************************************)
(* What holds of the medallion database for every set of postings, every    *)
(* score and every bound: first however many runs overlap, then (~Overlap)   *)
(* while they do not.                                                        *)
(***************************************************************************)
EXTENDS Medallion, SequenceTheorems, FiniteSetTheorems, TLAPS

\* Every variable stays in its type, whatever overlaps and whatever dies.
THEOREM TypeCorrect == Spec => []TypeOK
<1>1. Init => TypeOK
  BY BoundsAssumption DEF Init, TypeOK, Status, Stage
<1>2. TypeOK /\ [Next]_vars => TypeOK'
  <2> SUFFICES ASSUME TypeOK, [Next]_vars PROVE TypeOK'
    OBVIOUS
  <2> USE DEF TypeOK, tables, ledger, locals
  <2>1. ASSUME NEW r \in Runs, Start(r) PROVE TypeOK'
    BY <2>1 DEF Start, Goto, Stage
  <2>2. ASSUME NEW r \in Runs, NEW p \in Postings, Land(r, p) PROVE TypeOK'
    BY <2>2 DEF Land, At, UpsertBronze
  <2>3. ASSUME NEW r \in Runs, EndFetch(r) PROVE TypeOK'
    BY <2>3 DEF EndFetch, Goto, Stage
  <2>4. ASSUME NEW r \in Runs, NEW p \in Postings, LookUp(r, p) PROVE TypeOK'
    BY <2>4 DEF LookUp, At
  <2>5. ASSUME NEW r \in Runs, EndPartition(r) PROVE TypeOK'
    BY <2>5 DEF EndPartition, Goto, Stage
  <2>6. ASSUME NEW r \in Runs, NEW p \in Postings, SavePosting(r, p) PROVE TypeOK'
    BY <2>6 DEF SavePosting, At, Done, Status
  <2>7. ASSUME NEW r \in Runs, NEW p \in Postings, LeaveUnjudged(r, p) PROVE TypeOK'
    BY <2>7 DEF LeaveUnjudged, Done
  <2>8. ASSUME NEW r \in Runs, NEW h \in Contexts, ReadSilver(r, h) PROVE TypeOK'
    BY <2>8 DEF ReadSilver, Goto, Stage, GoldCandidates
  <2>9. ASSUME NEW r \in Runs, NEW p \in Postings, MarkGoldRejected(r, p) PROVE TypeOK'
    BY <2>9 DEF MarkGoldRejected, At, Done, Status
  <2>10. ASSUME NEW r \in Runs, NEW p \in Postings, UpsertCluster(r, p) PROVE TypeOK'
    BY <2>10 DEF UpsertCluster, Goto, Stage
  <2>11. ASSUME NEW r \in Runs, SetPostingCluster(r) PROVE TypeOK'
    BY <2>11 DEF SetPostingCluster, Goto, Stage
  <2>12. ASSUME NEW r \in Runs, NEW p \in Postings, MarkGoldCandidate(r, p) PROVE TypeOK'
    BY <2>12 DEF MarkGoldCandidate, Goto, Done, Stage, Status
  <2>13. ASSUME NEW r \in Runs, ReadGold(r) PROVE TypeOK'
    BY <2>13 DEF ReadGold, Goto, Stage
  <2>14. ASSUME NEW p \in Postings, NEW s \in Scores,
                NEW previous \in Scores \cup {NoScore}, SaveScore(p, s, previous)
         PROVE  /\ score' \in [Postings -> Scores \cup {NoScore}]
                /\ previous_score' \in [Postings -> Scores \cup {NoScore}]
                /\ score_event' \in [Postings -> Seq(Event)]
    BY <2>14, AppendProperties DEF SaveScore, AppendEvent, Event
  <2>15. ASSUME NEW r \in Runs, NEW p \in Postings, NEW s \in Scores, Judge(r, p, s)
         PROVE  TypeOK'
    BY <2>14, <2>15 DEF Judge, Goto, Stage
  <2>16. ASSUME NEW r \in Runs, NEW p \in Postings, MarkScored(r, p) PROVE TypeOK'
    BY <2>16 DEF MarkScored, Goto, Done, Stage, Status
  <2>17. ASSUME NEW r \in Runs, ReadScored(r) PROVE TypeOK'
    BY <2>17 DEF ReadScored, Goto, Stage, ReassessTargets
  <2>18. ASSUME NEW r \in Runs, NEW p \in Postings, NEW s \in Scores, Rejudge(r, p, s)
         PROVE  TypeOK'
    BY <2>14, <2>18 DEF Rejudge, At, Done
  <2>19. ASSUME NEW r \in Runs, Finish(r) PROVE TypeOK'
    BY <2>19 DEF Finish, Forget, Stage
  <2>20. ASSUME NEW r \in Runs, Crash(r) PROVE TypeOK'
    BY <2>20, BoundsAssumption DEF Crash, Forget, Stage
  <2>21. ASSUME NEW p \in Postings, NEW s \in Scores, NEW shown \in LlmEvents(p),
                SetScoreOverride(p, s, shown)
         PROVE  TypeOK'
    <3>1. score_event[p][shown] \in Event
      BY ElementOfSeq DEF LlmEvents
    <3> QED
      BY <2>21, <3>1, AppendProperties DEF SetScoreOverride, AppendEvent, Event
  <2>22. CASE UNCHANGED vars
    BY <2>22 DEF vars
  <2> QED
    BY <2>1, <2>2, <2>3, <2>4, <2>5, <2>6, <2>7, <2>8, <2>9, <2>10, <2>11, <2>12,
       <2>13, <2>15, <2>16, <2>17, <2>18, <2>19, <2>20, <2>21, <2>22
       DEF Next, Ingest, Gold, Scoring, Reassess, Override
<1> QED
  BY <1>1, <1>2, PTL DEF Spec

(***************************************************************************)
(* The integrity of the tables.  Referential, CandidatesAreClustered and     *)
(* ScoredIsJudged are not inductive: what a run still holds, read from the   *)
(* tables some steps ago, must be known to refer to rows that exist.         *)
(***************************************************************************)
HeldRowsExist ==
  \A r \in Runs :
    /\ landed[r] \subseteq bronze_posting
    /\ work[r] \subseteq bronze_posting
    /\ item[r] \subseteq bronze_posting
    /\ pc[r] = "link" => item[r] \subseteq cluster
    /\ pc[r] \in {"promote", "mark"} => item[r] \subseteq cluster_id
    /\ pc[r] \in {"score", "mark", "rescore"} => work[r] \subseteq cluster_id
    /\ pc[r] = "mark" => \A p \in item[r] : score[p] # NoScore

Integrity ==
  /\ TypeOK
  /\ HeldRowsExist
  /\ Referential
  /\ CandidatesAreClustered
  /\ ScoredIsJudged

LEMMA IntegrityInit == Init => Integrity
<1> SUFFICES ASSUME Init PROVE Integrity
  OBVIOUS
<1>1. TypeOK
  BY BoundsAssumption DEF Init, TypeOK, Status, Stage
<1> QED
  BY <1>1 DEF Init, Integrity, HeldRowsExist, Referential, CandidatesAreClustered, ScoredIsJudged

\* No step of an ingest stage breaks the integrity of the tables.
LEMMA IngestKeepsIntegrity ==
  ASSUME Integrity, TypeOK', NEW r \in Runs, Ingest(r)
  PROVE  Integrity'
<1> USE DEF Integrity, TypeOK, HeldRowsExist, Referential, CandidatesAreClustered,
            ScoredIsJudged, tables, ledger
<1>1. ASSUME NEW p \in Postings, Land(r, p) PROVE Integrity'
  BY <1>1 DEF Land, At, UpsertBronze
<1>2. ASSUME EndFetch(r) PROVE Integrity'
  BY <1>2 DEF EndFetch, Goto
<1>3. ASSUME NEW p \in Postings, LookUp(r, p) PROVE Integrity'
  BY <1>3 DEF LookUp, At
<1>4. ASSUME EndPartition(r) PROVE Integrity'
  BY <1>4 DEF EndPartition, Goto
<1>5. ASSUME NEW p \in Postings, SavePosting(r, p) PROVE Integrity'
  BY <1>5 DEF SavePosting, At, Done
<1> QED
  BY <1>1, <1>2, <1>3, <1>4, <1>5 DEF Ingest

\* No step of the gold filter does: a cluster exists before it is linked, and
\* it is linked before the posting is promoted.
LEMMA GoldKeepsIntegrity ==
  ASSUME Integrity, TypeOK', NEW r \in Runs, Gold(r)
  PROVE  Integrity'
<1> USE DEF Integrity, TypeOK, HeldRowsExist, Referential, CandidatesAreClustered,
            ScoredIsJudged, tables, ledger
<1>1. ASSUME NEW h \in Contexts, ReadSilver(r, h) PROVE Integrity'
  BY <1>1 DEF ReadSilver, Goto, GoldCandidates
<1>2. ASSUME NEW p \in Postings, MarkGoldRejected(r, p) PROVE Integrity'
  BY <1>2 DEF MarkGoldRejected, At, Done
<1>3. ASSUME NEW p \in Postings, UpsertCluster(r, p) PROVE Integrity'
  BY <1>3 DEF UpsertCluster, Goto
<1>4. ASSUME SetPostingCluster(r) PROVE Integrity'
  BY <1>4 DEF SetPostingCluster, Goto
<1>5. ASSUME NEW p \in Postings, MarkGoldCandidate(r, p) PROVE Integrity'
  BY <1>5 DEF MarkGoldCandidate, Goto, Done
<1> QED
  BY <1>1, <1>2, <1>3, <1>4, <1>5 DEF Gold

\* What save_score does to the two tables it writes, in one transaction.
LEMMA SaveScoreWrites ==
  ASSUME TypeOK, NEW p \in Postings, NEW s \in Scores,
         NEW previous \in Scores \cup {NoScore}, SaveScore(p, s, previous)
  PROVE  /\ score' = [score EXCEPT ![p] = s]
         /\ score'[p] # NoScore
         /\ \A q \in Postings : q # p => score_event'[q] = score_event[q]
         /\ score_event'[p] =
              Append(score_event[p],
                     [score |-> s, previous_score |-> previous, scoring_model |-> "llm"])
  BY ScoresAssumption DEF SaveScore, AppendEvent, TypeOK

\* No step of the scoring stage does: a judgement is written under a cluster
\* that exists, and before the posting is marked.
LEMMA ScoringKeepsIntegrity ==
  ASSUME Integrity, TypeOK', NEW r \in Runs, Scoring(r)
  PROVE  Integrity'
<1> USE DEF Integrity, TypeOK, HeldRowsExist, Referential, CandidatesAreClustered,
            ScoredIsJudged, tables, ledger
<1>1. ASSUME ReadGold(r) PROVE Integrity'
  BY <1>1 DEF ReadGold, Goto
<1>2. ASSUME NEW p \in Postings, NEW s \in Scores, Judge(r, p, s) PROVE Integrity'
  <2>1. /\ score' = [score EXCEPT ![p] = s]
        /\ score'[p] # NoScore
        /\ \A q \in Postings : q # p => score_event'[q] = score_event[q]
    BY <1>2, SaveScoreWrites DEF Judge
  <2> QED
    BY <1>2, <2>1 DEF Judge, Goto
<1>3. ASSUME NEW p \in Postings, MarkScored(r, p) PROVE Integrity'
  BY <1>3 DEF MarkScored, Goto, Done
<1>4. ASSUME NEW p \in Postings, LeaveUnjudged(r, p) PROVE Integrity'
  BY <1>4 DEF LeaveUnjudged, Done
<1> QED
  BY <1>1, <1>2, <1>3, <1>4 DEF Scoring

\* No step of a reassess run does: it judges only what is already clustered.
LEMMA ReassessKeepsIntegrity ==
  ASSUME Integrity, TypeOK', NEW r \in Runs, Reassess(r)
  PROVE  Integrity'
<1> USE DEF Integrity, TypeOK, HeldRowsExist, Referential, CandidatesAreClustered,
            ScoredIsJudged, tables, ledger
<1>1. ASSUME ReadScored(r) PROVE Integrity'
  BY <1>1 DEF ReadScored, Goto, ReassessTargets
<1>2. ASSUME NEW p \in Postings, NEW s \in Scores, Rejudge(r, p, s) PROVE Integrity'
  <2>1. old_score[r][p] \in Scores \cup {NoScore}
    OBVIOUS
  <2>2. /\ score' = [score EXCEPT ![p] = s]
        /\ score'[p] # NoScore
        /\ \A q \in Postings : q # p => score_event'[q] = score_event[q]
    BY <1>2, <2>1, SaveScoreWrites DEF Rejudge
  <2> QED
    BY <1>2, <2>2 DEF Rejudge, At, Done
<1> QED
  BY <1>1, <1>2 DEF Reassess

\* Neither the start, the end nor the death of a run, nor an operator's
\* override, does.
LEMMA ControlKeepsIntegrity ==
  ASSUME Integrity, TypeOK',
         \/ \E r \in Runs : Start(r) \/ Finish(r) \/ Crash(r)
         \/ Override
         \/ UNCHANGED vars
  PROVE  Integrity'
<1> USE DEF Integrity, TypeOK, HeldRowsExist, Referential, CandidatesAreClustered,
            ScoredIsJudged, tables, ledger, locals
<1>1. ASSUME NEW r \in Runs, Start(r) PROVE Integrity'
  BY <1>1 DEF Start, Goto
<1>2. ASSUME NEW r \in Runs, Finish(r) PROVE Integrity'
  BY <1>2 DEF Finish, Forget
<1>3. ASSUME NEW r \in Runs, Crash(r) PROVE Integrity'
  BY <1>3 DEF Crash, Forget
<1>4. ASSUME NEW p \in Postings, NEW s \in Scores, NEW shown \in LlmEvents(p),
             SetScoreOverride(p, s, shown)
      PROVE  Integrity'
  BY <1>4 DEF SetScoreOverride, AppendEvent
<1>5. CASE UNCHANGED vars
  BY <1>5 DEF vars
<1> QED
  BY <1>1, <1>2, <1>3, <1>4, <1>5 DEF Override

\* Whatever overlaps and whatever dies, every row refers to rows that exist,
\* every candidate carries its cluster, and every scored posting a judgement.
THEOREM IntegrityHolds ==
  Spec => []TablesAreWhole
<1>1. Integrity /\ TypeOK' /\ [Next]_vars => Integrity'
  BY IngestKeepsIntegrity, GoldKeepsIntegrity, ScoringKeepsIntegrity,
     ReassessKeepsIntegrity, ControlKeepsIntegrity DEF Next
<1>2. Integrity => TablesAreWhole
  BY DEF Integrity, TablesAreWhole
<1> QED
  BY <1>1, <1>2, IntegrityInit, TypeCorrect, PTL DEF Spec

(***************************************************************************)
(* The score row and its history.  Both are written by one transaction, so   *)
(* the row is the newest model event however the runs interleave.            *)
(***************************************************************************)

\* The events the model wrote, after an event has been appended.
LEMMA LlmEventsOfAppend ==
  ASSUME TypeOK, NEW p \in Postings, NEW e \in Event,
         score_event'[p] = Append(score_event[p], e)
  PROVE  /\ e.scoring_model = "llm"
              => LlmEvents(p)' = LlmEvents(p) \cup {Len(score_event[p]) + 1}
         /\ e.scoring_model # "llm" => LlmEvents(p)' = LlmEvents(p)
         /\ score_event'[p][Len(score_event[p]) + 1] = e
         /\ \A i \in LlmEvents(p) : /\ i < Len(score_event[p]) + 1
                                    /\ score_event'[p][i] = score_event[p][i]
<1>1. score_event[p] \in Seq(Event)
  BY DEF TypeOK
<1>2. Len(score_event[p]) \in Nat
  BY <1>1, LenProperties
<1>3. /\ Len(score_event'[p]) = Len(score_event[p]) + 1
      /\ \A i \in 1..Len(score_event[p]) : score_event'[p][i] = score_event[p][i]
      /\ score_event'[p][Len(score_event[p]) + 1] = e
  BY <1>1, AppendProperties
<1> QED
  BY <1>2, <1>3 DEF LlmEvents

\* The ledger of one posting agrees.
AgreesOn(p) ==
  /\ score[p] = NoScore <=> LlmEvents(p) = {}
  /\ \A i \in LlmEvents(p) : Newest(p, i) => score_event[p][i].score = score[p]

LEMMA SaveScoreKeepsLedger ==
  ASSUME TypeOK, LedgerAgrees, NEW p \in Postings, NEW s \in Scores,
         NEW previous \in Scores \cup {NoScore}, SaveScore(p, s, previous)
  PROVE  LedgerAgrees'
<1> DEFINE e == [score |-> s, previous_score |-> previous, scoring_model |-> "llm"]
<1> DEFINE n == Len(score_event[p]) + 1
<1>1. e \in Event
  BY DEF Event
<1>2. /\ score' = [score EXCEPT ![p] = s]
      /\ score'[p] # NoScore
      /\ \A q \in Postings : q # p => score_event'[q] = score_event[q]
      /\ score_event'[p] = Append(score_event[p], e)
  BY SaveScoreWrites
<1>3. /\ LlmEvents(p)' = LlmEvents(p) \cup {n}
      /\ score_event'[p][n] = e
      /\ \A i \in LlmEvents(p) : i < n
  BY <1>1, <1>2, LlmEventsOfAppend
<1>4. AgreesOn(p)'
  <2>1. LlmEvents(p)' # {}
    BY <1>3
  <2>2. ASSUME NEW i \in LlmEvents(p)', Newest(p, i)' PROVE i = n
    <3>1. n <= i
      BY <1>3, <2>2 DEF Newest
    <3>2. CASE i \in LlmEvents(p)
      <4>1. i \in Int /\ n \in Int
        BY <3>2, LenProperties DEF LlmEvents, TypeOK
      <4> QED
        BY <1>3, <3>1, <3>2, <4>1
    <3> QED
      BY <1>3, <2>2, <3>2
  <2>3. score'[p] = s
    BY <1>2 DEF TypeOK
  <2> QED
    BY <1>2, <1>3, <2>1, <2>2, <2>3 DEF AgreesOn
<1>5. ASSUME NEW q \in Postings, q # p PROVE AgreesOn(q)'
  <2>1. score'[q] = score[q] /\ score_event'[q] = score_event[q]
    BY <1>2, <1>5 DEF TypeOK
  <2> QED
    BY <2>1 DEF AgreesOn, LedgerAgrees, LlmEvents, Newest
<1> QED
  BY <1>4, <1>5 DEF LedgerAgrees, AgreesOn

LEMMA OverrideKeepsLedger ==
  ASSUME TypeOK, LedgerAgrees, NEW p \in Postings, NEW s \in Scores,
         NEW shown \in LlmEvents(p), SetScoreOverride(p, s, shown)
  PROVE  LedgerAgrees'
<1> DEFINE e == [score |-> s, previous_score |-> score_event[p][shown].score,
                 scoring_model |-> "human-override"]
<1>1. score_event[p][shown] \in Event
  BY ElementOfSeq DEF LlmEvents, TypeOK
<1>2. e \in Event
  BY <1>1 DEF Event
<1>3. /\ score' = score
      /\ score_event' = [score_event EXCEPT ![p] = Append(@, e)]
  BY DEF SetScoreOverride, AppendEvent
<1>4. score_event'[p] = Append(score_event[p], e)
  BY <1>3 DEF TypeOK
<1>5. /\ LlmEvents(p)' = LlmEvents(p)
      /\ \A i \in LlmEvents(p) : score_event'[p][i] = score_event[p][i]
  BY <1>2, <1>4, LlmEventsOfAppend
<1>6. AgreesOn(p)'
  BY <1>3, <1>5 DEF AgreesOn, LedgerAgrees, Newest
<1>7. ASSUME NEW q \in Postings, q # p PROVE AgreesOn(q)'
  <2>1. score_event'[q] = score_event[q]
    BY <1>3, <1>7 DEF TypeOK
  <2> QED
    BY <1>3, <2>1 DEF AgreesOn, LedgerAgrees, LlmEvents, Newest
<1> QED
  BY <1>6, <1>7 DEF LedgerAgrees, AgreesOn

\* What an override leaves: the model's events of every posting.
LEMMA OverrideKeepsLlmEvents ==
  ASSUME TypeOK, NEW p \in Postings, NEW s \in Scores,
         NEW shown \in LlmEvents(p), SetScoreOverride(p, s, shown)
  PROVE  /\ UNCHANGED <<status, score, previous_score, pc, item, crashes>>
         /\ \A q \in Postings :
              /\ LlmEvents(q)' = LlmEvents(q)
              /\ \A i \in LlmEvents(q) : score_event'[q][i] = score_event[q][i]
<1> DEFINE e == [score |-> s, previous_score |-> score_event[p][shown].score,
                 scoring_model |-> "human-override"]
<1>1. score_event[p][shown] \in Event
  BY ElementOfSeq DEF LlmEvents, TypeOK
<1>2. e \in Event
  BY <1>1 DEF Event
<1>3. /\ score_event'[p] = Append(score_event[p], e)
      /\ \A q \in Postings : q # p => score_event'[q] = score_event[q]
  BY DEF SetScoreOverride, AppendEvent, TypeOK
<1>4. /\ LlmEvents(p)' = LlmEvents(p)
      /\ \A i \in LlmEvents(p) : score_event'[p][i] = score_event[p][i]
  BY <1>2, <1>3, LlmEventsOfAppend
<1>5. \A q \in Postings : q # p => LlmEvents(q)' = LlmEvents(q)
  BY <1>3 DEF LlmEvents
<1> QED
  BY <1>3, <1>4, <1>5 DEF SetScoreOverride, tables, locals

\* The steps that write the ledger are the two judgements and the override.
LEMMA LedgerWrites ==
  ASSUME [Next]_vars
  PROVE  \/ UNCHANGED ledger
         \/ Override
         \/ \E r \in Runs, p \in Postings, s \in Scores : Judge(r, p, s) \/ Rejudge(r, p, s)
<1>1. ASSUME NEW r \in Runs, Start(r) \/ Ingest(r) \/ Gold(r) \/ Finish(r) \/ Crash(r)
      PROVE  UNCHANGED ledger
  BY <1>1 DEF Start, Ingest, Land, EndFetch, LookUp, EndPartition, SavePosting, Gold,
     ReadSilver, MarkGoldRejected, UpsertCluster, SetPostingCluster, MarkGoldCandidate,
     Finish, Crash, ledger
<1>2. ASSUME NEW r \in Runs,
             \/ ReadGold(r) \/ ReadScored(r)
             \/ \E p \in Postings : MarkScored(r, p) \/ LeaveUnjudged(r, p)
      PROVE  UNCHANGED ledger
  BY <1>2 DEF ReadGold, ReadScored, MarkScored, LeaveUnjudged, ledger
<1>3. CASE UNCHANGED vars
  BY <1>3 DEF vars, ledger
<1> QED
  BY <1>1, <1>2, <1>3 DEF Next, Scoring, Reassess

\* The current judgement and the history never diverge
\* (repository_postgres.py:520-521).
THEOREM LedgerNeverDiverges == Spec => []LedgerAgrees
<1>1. Init => LedgerAgrees
  BY DEF Init, LedgerAgrees, LlmEvents
<1>2. TypeOK /\ LedgerAgrees /\ [Next]_vars => LedgerAgrees'
  <2> SUFFICES ASSUME TypeOK, LedgerAgrees, [Next]_vars PROVE LedgerAgrees'
    OBVIOUS
  <2>1. CASE UNCHANGED ledger
    BY <2>1 DEF LedgerAgrees, LlmEvents, Newest, ledger
  <2>2. ASSUME NEW r \in Runs, NEW p \in Postings, NEW s \in Scores,
               Judge(r, p, s) \/ Rejudge(r, p, s)
        PROVE  LedgerAgrees'
    <3>1. old_score[r][p] \in Scores \cup {NoScore}
      BY DEF TypeOK
    <3> QED
      BY <2>2, <3>1, SaveScoreKeepsLedger DEF Judge, Rejudge
  <2>3. CASE Override
    BY <2>3, OverrideKeepsLedger DEF Override
  <2> QED
    BY <2>1, <2>2, <2>3, LedgerWrites
<1> QED
  BY <1>1, <1>2, TypeCorrect, PTL DEF Spec

(***************************************************************************)
(* The score before the current one, whatever overlaps: a reassess run may    *)
(* write one that no longer stands, yet never one that was not given.         *)
(***************************************************************************)
WasGiven(p, s) == \E i \in LlmEvents(p) : score_event[p][i].score = s

StandingWasGiven == \A p \in Postings : score[p] # NoScore => WasGiven(p, score[p])

HeldWasGiven ==
  \A r \in Runs : pc[r] = "rescore" => \A p \in work[r] : WasGiven(p, old_score[r][p])

GivenInv == StandingWasGiven /\ HeldWasGiven /\ PreviousWasGiven

(* PreviousWasGiven, of one posting.                                           *)
PreviousGivenOn(p) ==
  IF \A i, j \in LlmEvents(p) : i = j
  THEN previous_score[p] = NoScore
  ELSE \E i \in LlmEvents(p) : /\ ~Newest(p, i)
                               /\ score_event[p][i].score = previous_score[p]

\* A judgement leaves every score that was given given, and the one it writes as the
\* previous one, the caller's or the one that stood, is one of those.
LEMMA SaveScoreKeepsGiven ==
  ASSUME TypeOK, LedgerAgrees, StandingWasGiven, PreviousWasGiven, NEW p \in Postings,
         NEW s \in Scores, NEW previous \in Scores \cup {NoScore},
         previous = NoScore \/ WasGiven(p, previous), SaveScore(p, s, previous)
  PROVE  /\ StandingWasGiven' /\ PreviousWasGiven'
         /\ \A q \in Postings, v \in Scores \cup {NoScore} : WasGiven(q, v) => WasGiven(q, v)'
<1> DEFINE e == [score |-> s, previous_score |-> previous, scoring_model |-> "llm"]
<1> PICK n : n = Len(score_event[p]) + 1
  OBVIOUS
<1>1. e \in Event
  BY DEF Event
<1>2. /\ score' = [score EXCEPT ![p] = s]
      /\ \A q \in Postings : q # p => score_event'[q] = score_event[q]
      /\ score_event'[p] = Append(score_event[p], e)
  BY SaveScoreWrites
<1>3. /\ previous_score'[p] = IF previous # NoScore THEN previous ELSE score[p]
      /\ \A q \in Postings : q # p => previous_score'[q] = previous_score[q]
  BY DEF SaveScore, TypeOK
<1>4. /\ LlmEvents(p)' = LlmEvents(p) \cup {n}
      /\ score_event'[p][n] = e
      /\ \A i \in LlmEvents(p) : i < n /\ score_event'[p][i] = score_event[p][i]
  BY <1>1, <1>2, LlmEventsOfAppend
<1>5. n \in Int /\ \A i \in LlmEvents(p) : i \in Int
  BY LenProperties DEF LlmEvents, TypeOK
<1>6. \A q \in Postings : q # p => LlmEvents(q)' = LlmEvents(q)
  BY <1>2 DEF LlmEvents
<1>7. \A q \in Postings, v \in Scores \cup {NoScore} : WasGiven(q, v) => WasGiven(q, v)'
  BY <1>2, <1>4, <1>6 DEF WasGiven
<1>8. StandingWasGiven'
  <2>1. score'[p] = s /\ WasGiven(p, s)'
    BY <1>2, <1>4 DEF WasGiven, TypeOK
  <2>2. ASSUME NEW q \in Postings, q # p, score'[q] # NoScore PROVE WasGiven(q, score[q])'
    BY <1>2, <1>6, <2>2 DEF StandingWasGiven, WasGiven, TypeOK
  <2> QED
    BY <1>2, <2>1, <2>2 DEF StandingWasGiven, WasGiven, TypeOK
<1>9. PreviousGivenOn(p)'
  <2>1. CASE LlmEvents(p) = {}
    <3>1. score[p] = NoScore /\ previous = NoScore
      BY <2>1 DEF LedgerAgrees, WasGiven
    <3>2. previous_score'[p] = NoScore /\ LlmEvents(p)' = {n}
      BY <1>3, <1>4, <2>1, <3>1
    <3> QED
      BY <3>2 DEF PreviousGivenOn
  <2>2. CASE LlmEvents(p) # {}
    <3>1. WasGiven(p, previous_score'[p])
      BY <1>3, <2>2 DEF LedgerAgrees, StandingWasGiven
    <3>2. PICK i \in LlmEvents(p) : score_event[p][i].score = previous_score'[p]
      BY <3>1 DEF WasGiven
    <3>3. /\ i \in LlmEvents(p)' /\ n \in LlmEvents(p)' /\ i # n /\ ~(n <= i)
          /\ score_event'[p][i].score = previous_score'[p]
      BY <1>4, <1>5, <3>2
    <3>4. ~Newest(p, i)'
      BY <3>3 DEF Newest
    <3> QED
      BY <3>3, <3>4 DEF PreviousGivenOn
  <2> QED
    BY <2>1, <2>2
<1>10. ASSUME NEW q \in Postings, q # p PROVE PreviousGivenOn(q)'
  <2>1. /\ LlmEvents(q)' = LlmEvents(q) /\ score_event'[q] = score_event[q]
        /\ previous_score'[q] = previous_score[q]
    BY <1>2, <1>3, <1>6, <1>10
  <2>2. PreviousGivenOn(q)
    BY DEF PreviousWasGiven, PreviousGivenOn
  <2> QED
    BY <2>1, <2>2 DEF PreviousGivenOn, Newest
<1>11. PreviousWasGiven'
  BY <1>9, <1>10 DEF PreviousWasGiven, PreviousGivenOn
<1> QED
  BY <1>7, <1>8, <1>11

\* What a run holds is kept by the steps that write no judgement: it comes from the rows.
LEMMA HeldStaysGiven ==
  ASSUME TypeOK, StandingWasGiven, HeldWasGiven, [Next]_vars,
         \A q \in Postings, v \in Scores \cup {NoScore} : WasGiven(q, v) => WasGiven(q, v)'
  PROVE  HeldWasGiven'
<1>1. ASSUME \A r \in Runs : pc'[r] = "rescore" =>
               /\ pc[r] = "rescore" /\ work'[r] \subseteq work[r]
               /\ old_score'[r] = old_score[r]
      PROVE  HeldWasGiven'
  <2> SUFFICES ASSUME NEW r \in Runs, pc'[r] = "rescore", NEW p \in work'[r]
               PROVE  WasGiven(p, old_score[r][p])'
    BY DEF HeldWasGiven
  <2>1. p \in Postings /\ p \in work[r] /\ pc[r] = "rescore" /\ old_score'[r] = old_score[r]
    BY <1>1 DEF TypeOK
  <2>2. WasGiven(p, old_score[r][p]) /\ old_score[r][p] \in Scores \cup {NoScore}
    BY <2>1 DEF HeldWasGiven, TypeOK
  <2>3. WasGiven(p, old_score[r][p])'
    BY <2>1, <2>2 DEF WasGiven
  <2> QED
    BY <2>3
<1>2. ASSUME NEW r \in Runs, Start(r) PROVE HeldWasGiven'
  BY <1>1, <1>2 DEF Start, Goto, TypeOK
<1>3. ASSUME NEW r \in Runs, Ingest(r) PROVE HeldWasGiven'
  BY <1>1, <1>3 DEF Ingest, Land, EndFetch, LookUp, EndPartition, SavePosting, Goto, At,
     Done, TypeOK
<1>4. ASSUME NEW r \in Runs, Gold(r) PROVE HeldWasGiven'
  BY <1>1, <1>4 DEF Gold, ReadSilver, MarkGoldRejected, UpsertCluster, SetPostingCluster,
     MarkGoldCandidate, Goto, At, Done, TypeOK
<1>5. ASSUME NEW r \in Runs, Scoring(r) PROVE HeldWasGiven'
  BY <1>1, <1>5 DEF Scoring, ReadGold, Judge, MarkScored, LeaveUnjudged, Goto, Done, TypeOK
<1>6. ASSUME NEW r \in Runs, ReadScored(r) PROVE HeldWasGiven'
  <2>1. /\ work'[r] = ReassessTargets /\ old_score'[r] = score
        /\ UNCHANGED ledger
        /\ \A q \in Runs \ {r} : pc'[q] = pc[q] /\ work'[q] = work[q]
                                 /\ old_score'[q] = old_score[q]
    BY <1>6 DEF ReadScored, Goto, TypeOK
  <2>2. \A p \in work'[r] : WasGiven(p, score[p])
    BY <2>1 DEF ReassessTargets, StandingWasGiven, TypeOK
  <2> QED
    BY <2>1, <2>2 DEF HeldWasGiven, WasGiven, LlmEvents, ledger
<1>7. ASSUME NEW r \in Runs, NEW p \in Postings, NEW s \in Scores, Rejudge(r, p, s)
      PROVE  HeldWasGiven'
  BY <1>1, <1>7 DEF Rejudge, At, Done, TypeOK
<1>8. ASSUME NEW r \in Runs, Finish(r) \/ Crash(r) PROVE HeldWasGiven'
  BY <1>1, <1>8 DEF Finish, Crash, Forget, TypeOK
<1>9. CASE Override \/ UNCHANGED vars
  BY <1>1, <1>9 DEF Override, SetScoreOverride, vars, locals
<1> QED
  BY <1>2, <1>3, <1>4, <1>5, <1>6, <1>7, <1>8, <1>9 DEF Next, Reassess

\* previous_score is NULL exactly until a second judgement is made, and then a score that
\* an earlier judgement gave (notifier.py:89), whatever overlaps and whatever dies.
THEOREM PreviousScoreWasGiven == Spec => []PreviousWasGiven
<1>1. Init => GivenInv
  BY DEF Init, GivenInv, StandingWasGiven, HeldWasGiven, PreviousWasGiven, LlmEvents
<1>2. TypeOK /\ LedgerAgrees /\ GivenInv /\ [Next]_vars => GivenInv'
  <2> SUFFICES ASSUME TypeOK, LedgerAgrees, GivenInv, [Next]_vars PROVE GivenInv'
    OBVIOUS
  <2> DEFINE Kept == \A q \in Postings, v \in Scores \cup {NoScore} :
                       WasGiven(q, v) => WasGiven(q, v)'
  <2>1. CASE UNCHANGED ledger
    <3>1. Kept /\ StandingWasGiven' /\ PreviousWasGiven'
      BY <2>1 DEF GivenInv, StandingWasGiven, PreviousWasGiven, WasGiven, LlmEvents, Newest,
         ledger
    <3> QED
      BY <3>1, HeldStaysGiven DEF GivenInv
  <2>2. CASE Override
    <3>1. /\ UNCHANGED <<score, previous_score>>
          /\ \A q \in Postings : /\ LlmEvents(q)' = LlmEvents(q)
                                /\ \A i \in LlmEvents(q) : score_event'[q][i] = score_event[q][i]
      BY <2>2, OverrideKeepsLlmEvents DEF Override
    <3>2. Kept /\ StandingWasGiven' /\ PreviousWasGiven'
      BY <3>1 DEF GivenInv, StandingWasGiven, PreviousWasGiven, WasGiven, Newest
    <3> QED
      BY <3>2, HeldStaysGiven DEF GivenInv
  <2>3. ASSUME NEW r \in Runs, NEW p \in Postings, NEW s \in Scores,
               Judge(r, p, s) \/ Rejudge(r, p, s)
        PROVE  GivenInv'
    <3>1. PICK previous \in Scores \cup {NoScore} :
            SaveScore(p, s, previous) /\ (previous = NoScore \/ WasGiven(p, previous))
      BY <2>3 DEF Judge, Rejudge, At, GivenInv, HeldWasGiven, TypeOK
    <3>2. Kept /\ StandingWasGiven' /\ PreviousWasGiven'
      BY <3>1, SaveScoreKeepsGiven DEF GivenInv
    <3> QED
      BY <3>2, HeldStaysGiven DEF GivenInv
  <2> QED
    BY <2>1, <2>2, <2>3, LedgerWrites
<1>3. GivenInv => PreviousWasGiven
  BY DEF GivenInv
<1> QED
  BY <1>1, <1>2, <1>3, TypeCorrect, LedgerNeverDiverges, PTL DEF Spec

(***************************************************************************)
(* Runs that do not overlap.  What a run holds is then still what it read:   *)
(* no other run has written the row since.                                   *)
(***************************************************************************)
Alone == \A q, r \in Runs : pc[q] # "idle" /\ pc[r] # "idle" => q = r

WorkIsCurrent(r) ==
  /\ pc[r] = "idle" => work[r] = {}
  /\ pc[r] \in {"fetch", "partition", "silver"} => \A p \in work[r] : status[p] = "absent"
  /\ pc[r] \in {"gold", "link", "promote"} =>
       \A p \in work[r] :
         \/ status[p] = "silver"
         \/ status[p] = "rejected" /\ gold_filter_hash[p] # filter_hash[r]
  /\ pc[r] \in {"score", "mark"} => \A p \in work[r] : status[p] = "gold_candidate"
  /\ pc[r] \in {"link", "promote", "mark"} => item[r] \subseteq work[r]
  /\ pc[r] = "mark" => \E p \in Postings : item[r] = {p}
  /\ pc[r] = "rescore" =>
       \A p \in work[r] : score[p] # NoScore /\ old_score[r][p] = score[p]

(* A posting's first judgements: its daily ones, told by what the caller passed. *)
Firsts(p) == {i \in LlmEvents(p) : score_event[p][i].previous_score = NoScore}

BeingMarked(p) == \E r \in Runs : pc[r] = "mark" /\ p \in item[r]

(* Before it is marked a posting has a judgement for each death at most.       *)
FirstsBounded(p) ==
  /\ Cardinality(Firsts(p)) <= 1 + crashes
  /\ status[p] # "scored" /\ ~BeingMarked(p) => Cardinality(Firsts(p)) <= crashes

SerialInv ==
  /\ Alone
  /\ \A r \in Runs : WorkIsCurrent(r)
  /\ PreviousIsPredecessor
  /\ \A p \in Postings : FirstsBounded(p)

LEMMA AloneStep ==
  ASSUME ~Overlap, TypeOK, Alone, [Next]_vars
  PROVE  Alone'
<1>1. ASSUME NEW r \in Runs, Start(r) PROVE Alone'
  BY <1>1 DEF Start, Goto, Alone, TypeOK
<1>2. ASSUME \A q \in Runs : pc'[q] # "idle" => pc[q] # "idle" PROVE Alone'
  BY <1>2 DEF Alone
<1>3. ASSUME NEW r \in Runs,
             Ingest(r) \/ Gold(r) \/ Scoring(r) \/ Reassess(r) \/ Finish(r) \/ Crash(r)
      PROVE  Alone'
  <2>1. pc[r] # "idle" /\ (pc' = pc \/ \E stage : pc' = [pc EXCEPT ![r] = stage])
    BY <1>3 DEF Ingest, Land, EndFetch, LookUp, EndPartition, SavePosting, Gold, ReadSilver,
       MarkGoldRejected, UpsertCluster, SetPostingCluster, MarkGoldCandidate, Scoring,
       ReadGold, Judge, MarkScored, LeaveUnjudged, Reassess, ReadScored, Rejudge, Finish,
       Crash, Goto, At, Forget
  <2> QED
    BY <1>2, <2>1 DEF TypeOK
<1>4. CASE Override \/ UNCHANGED vars
  BY <1>2, <1>4 DEF Override, SetScoreOverride, vars, locals
<1> QED
  BY <1>1, <1>3, <1>4 DEF Next

\* What an idle run holds: nothing that depends on the tables.
LEMMA OthersAreIdle ==
  ASSUME Alone, NEW r \in Runs, pc[r] # "idle", \A q \in Runs : WorkIsCurrent(q),
         \A q \in Runs \ {r} : pc'[q] = pc[q] /\ work'[q] = work[q],
         WorkIsCurrent(r)'
  PROVE  \A q \in Runs : WorkIsCurrent(q)'
  BY DEF Alone, WorkIsCurrent

LEMMA IngestKeepsWork ==
  ASSUME TypeOK, Alone, \A q \in Runs : WorkIsCurrent(q), NEW r \in Runs, Ingest(r)
  PROVE  \A q \in Runs : WorkIsCurrent(q)'
<1>1. pc[r] # "idle" /\ \A q \in Runs \ {r} : pc'[q] = pc[q] /\ work'[q] = work[q]
  BY DEF Ingest, Land, EndFetch, LookUp, EndPartition, SavePosting, Goto, At, Done, TypeOK
<1>2. WorkIsCurrent(r)'
  <2>1. ASSUME NEW p \in Postings, Land(r, p) PROVE WorkIsCurrent(r)'
    BY <2>1 DEF Land, At, WorkIsCurrent
  <2>2. ASSUME EndFetch(r) PROVE WorkIsCurrent(r)'
    BY <2>2 DEF EndFetch, Goto, WorkIsCurrent, TypeOK, tables
  <2>3. ASSUME NEW p \in Postings, LookUp(r, p) PROVE WorkIsCurrent(r)'
    BY <2>3 DEF LookUp, At, WorkIsCurrent, TypeOK, tables
  <2>4. ASSUME EndPartition(r) PROVE WorkIsCurrent(r)'
    BY <2>4 DEF EndPartition, Goto, WorkIsCurrent, TypeOK, tables
  <2>5. ASSUME NEW p \in Postings, SavePosting(r, p) PROVE WorkIsCurrent(r)'
    BY <2>5 DEF SavePosting, At, Done, WorkIsCurrent, TypeOK
  <2> QED
    BY <2>1, <2>2, <2>3, <2>4, <2>5 DEF Ingest
<1> QED
  BY <1>1, <1>2, OthersAreIdle

LEMMA GoldKeepsWork ==
  ASSUME TypeOK, Alone, \A q \in Runs : WorkIsCurrent(q), NEW r \in Runs, Gold(r)
  PROVE  \A q \in Runs : WorkIsCurrent(q)'
<1>1. pc[r] # "idle" /\ \A q \in Runs \ {r} : pc'[q] = pc[q] /\ work'[q] = work[q]
  BY DEF Gold, ReadSilver, MarkGoldRejected, UpsertCluster, SetPostingCluster,
     MarkGoldCandidate, Goto, At, Done, TypeOK
<1>2. WorkIsCurrent(r)'
  <2>1. ASSUME NEW h \in Contexts, ReadSilver(r, h) PROVE WorkIsCurrent(r)'
    BY <2>1 DEF ReadSilver, GoldCandidates, Goto, WorkIsCurrent, TypeOK, tables
  <2>2. ASSUME NEW p \in Postings, MarkGoldRejected(r, p) PROVE WorkIsCurrent(r)'
    BY <2>2 DEF MarkGoldRejected, At, Done, WorkIsCurrent, TypeOK
  <2>3. ASSUME NEW p \in Postings, UpsertCluster(r, p) PROVE WorkIsCurrent(r)'
    BY <2>3 DEF UpsertCluster, Goto, WorkIsCurrent, TypeOK
  <2>4. ASSUME SetPostingCluster(r) PROVE WorkIsCurrent(r)'
    BY <2>4 DEF SetPostingCluster, Goto, WorkIsCurrent, TypeOK
  <2>5. ASSUME NEW p \in Postings, MarkGoldCandidate(r, p) PROVE WorkIsCurrent(r)'
    BY <2>5 DEF MarkGoldCandidate, Goto, Done, WorkIsCurrent, TypeOK
  <2> QED
    BY <2>1, <2>2, <2>3, <2>4, <2>5 DEF Gold
<1> QED
  BY <1>1, <1>2, OthersAreIdle

LEMMA ScoringKeepsWork ==
  ASSUME TypeOK, Alone, \A q \in Runs : WorkIsCurrent(q), NEW r \in Runs,
         Scoring(r) \/ Reassess(r)
  PROVE  \A q \in Runs : WorkIsCurrent(q)'
<1>1. pc[r] # "idle" /\ \A q \in Runs \ {r} : pc'[q] = pc[q] /\ work'[q] = work[q]
  BY DEF Scoring, ReadGold, Judge, MarkScored, LeaveUnjudged, Reassess, ReadScored, Rejudge,
     Goto, At, Done, TypeOK
<1>2. WorkIsCurrent(r)'
  <2>1. ASSUME ReadGold(r) PROVE WorkIsCurrent(r)'
    BY <2>1 DEF ReadGold, Goto, WorkIsCurrent, TypeOK, tables
  <2>2. ASSUME NEW p \in Postings, NEW s \in Scores, Judge(r, p, s) PROVE WorkIsCurrent(r)'
    BY <2>2 DEF Judge, Goto, WorkIsCurrent, TypeOK, tables
  <2>3. ASSUME NEW p \in Postings, MarkScored(r, p) PROVE WorkIsCurrent(r)'
    BY <2>3 DEF MarkScored, Goto, Done, WorkIsCurrent, TypeOK
  <2>4. ASSUME NEW p \in Postings, LeaveUnjudged(r, p) PROVE WorkIsCurrent(r)'
    BY <2>4 DEF LeaveUnjudged, Done, WorkIsCurrent, TypeOK, tables, ledger
  <2>5. ASSUME ReadScored(r) PROVE WorkIsCurrent(r)'
    BY <2>5 DEF ReadScored, ReassessTargets, Goto, WorkIsCurrent, TypeOK, tables, ledger
  <2>6. ASSUME NEW p \in Postings, NEW s \in Scores, Rejudge(r, p, s) PROVE WorkIsCurrent(r)'
    BY <2>6 DEF Rejudge, SaveScore, At, Done, WorkIsCurrent, TypeOK, tables
  <2> QED
    BY <2>1, <2>2, <2>3, <2>4, <2>5, <2>6 DEF Scoring, Reassess
<1> QED
  BY <1>1, <1>2, OthersAreIdle

LEMMA ControlKeepsWork ==
  ASSUME TypeOK, Alone, \A q \in Runs : WorkIsCurrent(q),
         \/ \E r \in Runs : Start(r) \/ Finish(r) \/ Crash(r)
         \/ Override
         \/ UNCHANGED vars
  PROVE  \A q \in Runs : WorkIsCurrent(q)'
<1>1. ASSUME NEW r \in Runs, Start(r) PROVE \A q \in Runs : WorkIsCurrent(q)'
  <2>1. /\ pc[r] = "idle"
        /\ pc' = [pc EXCEPT ![r] = "fetch"] \/ pc' = [pc EXCEPT ![r] = "targets"]
    BY <1>1 DEF Start, Goto
  <2>2. /\ UNCHANGED <<work, item, filter_hash, old_score, status, gold_filter_hash, score>>
        /\ work[r] = {} /\ pc'[r] \in {"fetch", "targets"}
        /\ \A q \in Runs \ {r} : pc'[q] = pc[q]
    BY <1>1, <2>1 DEF Start, WorkIsCurrent, TypeOK, tables, ledger
  <2>3. WorkIsCurrent(r)'
    BY <2>2 DEF WorkIsCurrent
  <2>4. ASSUME NEW q \in Runs, q # r PROVE WorkIsCurrent(q)'
    BY <2>2, <2>4 DEF WorkIsCurrent
  <2> QED
    BY <2>3, <2>4
<1>2. ASSUME NEW r \in Runs, Finish(r) \/ Crash(r) PROVE \A q \in Runs : WorkIsCurrent(q)'
  <2>1. /\ pc[r] # "idle"
        /\ \A q \in Runs \ {r} : pc'[q] = pc[q] /\ work'[q] = work[q]
        /\ pc'[r] = "idle" /\ work'[r] = {}
    BY <1>2 DEF Finish, Crash, Forget, TypeOK
  <2>2. WorkIsCurrent(r)'
    BY <2>1 DEF WorkIsCurrent
  <2> QED
    BY <2>1, <2>2, OthersAreIdle
<1>3. CASE Override
  BY <1>3 DEF Override, SetScoreOverride, WorkIsCurrent, tables, locals
<1>4. CASE UNCHANGED vars
  BY <1>4 DEF vars, tables, ledger, locals, WorkIsCurrent
<1> QED
  BY <1>1, <1>2, <1>3, <1>4

\* While runs do not overlap a run acts on rows that are as it read them.
LEMMA WorkIsCurrentStep ==
  ASSUME TypeOK, Alone, \A q \in Runs : WorkIsCurrent(q), [Next]_vars
  PROVE  \A q \in Runs : WorkIsCurrent(q)'
  BY IngestKeepsWork, GoldKeepsWork, ScoringKeepsWork, ControlKeepsWork DEF Next

\* A judgement that writes the ledger then carries over the score that stands.
LEMMA LedgerSteps ==
  ASSUME TypeOK, \A q \in Runs : WorkIsCurrent(q), [Next]_vars
  PROVE  \/ UNCHANGED ledger
         \/ Override
         \/ \E r \in Runs, p \in Postings, s \in Scores :
              \/ Judge(r, p, s)
              \/ /\ Rejudge(r, p, s)
                 /\ old_score[r][p] = score[p] /\ score[p] # NoScore
<1>1. ASSUME NEW r \in Runs, NEW p \in Postings, NEW s \in Scores, Rejudge(r, p, s)
      PROVE  old_score[r][p] = score[p] /\ score[p] # NoScore
  BY <1>1 DEF Rejudge, At, WorkIsCurrent
<1> QED
  BY <1>1, LedgerWrites

(***************************************************************************)
(* The score before the current one.                                        *)
(***************************************************************************)
PredecessorOn(p) ==
  \A i, j \in LlmEvents(p) :
    /\ Newest(p, i) /\ j < i /\ (\A k \in LlmEvents(p) : k <= j \/ k >= i)
          => previous_score[p] = score_event[p][j].score
    /\ LlmEvents(p) = {i} => previous_score[p] = NoScore

\* A judgement that carries over the score that stands makes it the previous one: what
\* was the newest event is now the one before it.
LEMMA SaveScoreKeepsPredecessor ==
  ASSUME TypeOK, LedgerAgrees, PreviousIsPredecessor, NEW p \in Postings, NEW s \in Scores,
         NEW previous \in {NoScore, score[p]}, SaveScore(p, s, previous)
  PROVE  PreviousIsPredecessor'
<1> DEFINE e == [score |-> s, previous_score |-> previous, scoring_model |-> "llm"]
<1> PICK n : n = Len(score_event[p]) + 1
  OBVIOUS
<1>1. previous \in Scores \cup {NoScore} /\ e \in Event
  BY DEF Event, TypeOK
<1>2. /\ \A q \in Postings : q # p => score_event'[q] = score_event[q]
      /\ score_event'[p] = Append(score_event[p], e)
  BY <1>1, SaveScoreWrites
<1>3. /\ previous_score'[p] = score[p]
      /\ \A q \in Postings : q # p => previous_score'[q] = previous_score[q]
  BY DEF SaveScore, TypeOK
<1>4. /\ LlmEvents(p)' = LlmEvents(p) \cup {n}
      /\ \A i \in LlmEvents(p) : i < n /\ score_event'[p][i] = score_event[p][i]
  BY <1>1, <1>2, LlmEventsOfAppend
<1>5. n \in Int /\ \A i \in LlmEvents(p) : i \in Int
  BY LenProperties DEF LlmEvents, TypeOK
<1>6. PredecessorOn(p)'
  <2>1. ASSUME NEW i \in LlmEvents(p)', NEW j \in LlmEvents(p)',
               Newest(p, i)', j < i, \A k \in LlmEvents(p)' : k <= j \/ k >= i
        PROVE  previous_score'[p] = score_event'[p][j].score
    <3>1. i = n
      <4>1. n <= i
        BY <1>4, <2>1 DEF Newest
      <4> QED
        BY <1>4, <1>5, <4>1
    <3>2. j \in LlmEvents(p)
      BY <1>4, <1>5, <2>1, <3>1
    <3>3. Newest(p, j)
      BY <1>4, <1>5, <2>1, <3>1, <3>2 DEF Newest
    <3> QED
      BY <1>3, <1>4, <3>2, <3>3 DEF LedgerAgrees
  <2>2. ASSUME NEW i \in LlmEvents(p)', LlmEvents(p)' = {i} PROVE previous_score'[p] = NoScore
    <3>1. LlmEvents(p) = {}
      BY <1>4, <1>5, <2>2
    <3> QED
      BY <1>3, <3>1 DEF LedgerAgrees
  <2> QED
    BY <2>1, <2>2 DEF PredecessorOn
<1>7. ASSUME NEW q \in Postings, q # p PROVE PredecessorOn(q)'
  <2>1. score_event'[q] = score_event[q] /\ previous_score'[q] = previous_score[q]
    BY <1>2, <1>3, <1>7
  <2> QED
    BY <2>1 DEF PredecessorOn, PreviousIsPredecessor, LlmEvents, Newest
<1> QED
  BY <1>6, <1>7 DEF PreviousIsPredecessor, PredecessorOn

LEMMA PredecessorStep ==
  ASSUME TypeOK, LedgerAgrees, \A q \in Runs : WorkIsCurrent(q), PreviousIsPredecessor,
         [Next]_vars
  PROVE  PreviousIsPredecessor'
<1>1. CASE UNCHANGED ledger
  BY <1>1 DEF PreviousIsPredecessor, LlmEvents, Newest, ledger
<1>2. CASE Override
  BY <1>2, OverrideKeepsLlmEvents DEF Override, PreviousIsPredecessor, Newest
<1>3. ASSUME NEW r \in Runs, NEW p \in Postings, NEW s \in Scores,
             \/ Judge(r, p, s)
             \/ Rejudge(r, p, s) /\ old_score[r][p] = score[p] /\ score[p] # NoScore
      PROVE  PreviousIsPredecessor'
  BY <1>3, SaveScoreKeepsPredecessor DEF Judge, Rejudge
<1> QED
  BY <1>1, <1>2, <1>3, LedgerSteps

(***************************************************************************)
(* The daily judgements of a posting, counted.                              *)
(***************************************************************************)

\* The first judgements among the events, after a judgement has been appended.
LEMMA FirstsOfSaveScore ==
  ASSUME TypeOK, NEW p \in Postings, NEW s \in Scores,
         NEW previous \in Scores \cup {NoScore}, SaveScore(p, s, previous)
  PROVE  /\ previous = NoScore =>
              Cardinality(Firsts(p))' = Cardinality(Firsts(p)) + 1
         /\ previous # NoScore => Firsts(p)' = Firsts(p)
         /\ \A q \in Postings : q # p => Firsts(q)' = Firsts(q)
<1> DEFINE e == [score |-> s, previous_score |-> previous, scoring_model |-> "llm"]
<1> PICK n : n = Len(score_event[p]) + 1
  OBVIOUS
<1>1. e \in Event
  BY DEF Event
<1>2. /\ \A q \in Postings : q # p => score_event'[q] = score_event[q]
      /\ score_event'[p] = Append(score_event[p], e)
  BY SaveScoreWrites
<1>3. /\ LlmEvents(p)' = LlmEvents(p) \cup {n}
      /\ score_event'[p][n] = e
      /\ \A i \in LlmEvents(p) : i < n /\ score_event'[p][i] = score_event[p][i]
  BY <1>1, <1>2, LlmEventsOfAppend
<1>4. n \notin Firsts(p)
  <2>1. n \in Int
    BY LenProperties DEF TypeOK
  <2> QED
    BY <1>3, <2>1 DEF Firsts
<1>5. /\ previous = NoScore => Firsts(p)' = Firsts(p) \cup {n}
      /\ previous # NoScore => Firsts(p)' = Firsts(p)
  BY <1>3 DEF Firsts
<1>6. IsFiniteSet(Firsts(p))
  <2>1. IsFiniteSet(1..Len(score_event[p]))
    BY LenProperties, FS_Interval DEF TypeOK
  <2>2. Firsts(p) \subseteq 1..Len(score_event[p])
    BY DEF Firsts, LlmEvents
  <2> QED
    BY <2>1, <2>2, FS_Subset
<1>7. \A q \in Postings : q # p => Firsts(q)' = Firsts(q)
  BY <1>2 DEF Firsts, LlmEvents
<1>8. Cardinality(Firsts(p) \cup {n}) = Cardinality(Firsts(p)) + 1
  BY <1>4, <1>6, FS_AddElement
<1> QED
  BY <1>5, <1>7, <1>8

\* The number of first judgements is a number.
LEMMA FirstsAreCounted ==
  ASSUME TypeOK, NEW p \in Postings
  PROVE  Cardinality(Firsts(p)) \in Nat
<1>1. IsFiniteSet(1..Len(score_event[p]))
  BY LenProperties, FS_Interval DEF TypeOK
<1>2. Firsts(p) \subseteq 1..Len(score_event[p])
  BY DEF Firsts, LlmEvents
<1> QED
  BY <1>1, <1>2, FS_Subset, FS_CardinalityType

\* A posting that leaves neither a status nor a mark behind keeps its bound.
LEMMA FirstsStay ==
  ASSUME NEW p \in Postings, FirstsBounded(p), Firsts(p)' = Firsts(p), crashes' = crashes,
         status'[p] # "scored" => status[p] # "scored",
         BeingMarked(p) => BeingMarked(p)' \/ status'[p] = "scored"
  PROVE  FirstsBounded(p)'
  BY DEF FirstsBounded

LEMMA FirstsStep ==
  ASSUME TypeOK, Alone, \A q \in Runs : WorkIsCurrent(q),
         \A p \in Postings : FirstsBounded(p), [Next]_vars
  PROVE  \A p \in Postings : FirstsBounded(p)'
<1>1. ASSUME UNCHANGED ledger PROVE \A p \in Postings : Firsts(p)' = Firsts(p)
  BY <1>1 DEF Firsts, LlmEvents, ledger
<1>2. crashes \in Nat /\ \A p \in Postings : Cardinality(Firsts(p)) \in Nat
  BY FirstsAreCounted, BoundsAssumption DEF TypeOK
<1>3. ASSUME NEW r \in Runs, NEW p \in Postings, NEW s \in Scores, Judge(r, p, s)
      PROVE  \A q \in Postings : FirstsBounded(q)'
  <2>1. /\ pc[r] = "score" /\ pc'[r] = "mark" /\ p \in work[r] /\ item'[r] = {p}
        /\ status' = status /\ crashes' = crashes
    BY <1>3 DEF Judge, Goto, TypeOK, tables
  <2>2. status[p] = "gold_candidate" /\ \A q \in Postings : ~BeingMarked(q)
    BY <2>1 DEF WorkIsCurrent, Alone, BeingMarked
  <2>3. /\ Cardinality(Firsts(p))' = Cardinality(Firsts(p)) + 1
        /\ \A q \in Postings : q # p => Firsts(q)' = Firsts(q)
    BY <1>3, FirstsOfSaveScore DEF Judge
  <2>4. FirstsBounded(p)'
    <3>1. Cardinality(Firsts(p)) <= crashes
      BY <2>2 DEF FirstsBounded
    <3>2. BeingMarked(p)'
      BY <2>1 DEF BeingMarked
    <3> QED
      BY <1>2, <2>1, <2>3, <3>1, <3>2 DEF FirstsBounded
  <2>5. ASSUME NEW q \in Postings, q # p PROVE FirstsBounded(q)'
    BY <2>1, <2>2, <2>3, <2>5, FirstsStay
  <2> QED
    BY <2>4, <2>5
<1>4. ASSUME NEW r \in Runs, NEW p \in Postings, NEW s \in Scores, Rejudge(r, p, s)
      PROVE  \A q \in Postings : FirstsBounded(q)'
  <2>1. old_score[r][p] # NoScore /\ old_score[r][p] \in Scores \cup {NoScore}
    BY <1>4 DEF Rejudge, At, WorkIsCurrent, TypeOK
  <2>2. \A q \in Postings : Firsts(q)' = Firsts(q)
    BY <1>4, <2>1, FirstsOfSaveScore DEF Rejudge
  <2>3. UNCHANGED <<status, pc, item, crashes>>
    BY <1>4 DEF Rejudge, At, tables
  <2> QED
    BY <2>2, <2>3, FirstsStay DEF BeingMarked
<1>5. ASSUME NEW r \in Runs, NEW p \in Postings, MarkScored(r, p)
      PROVE  \A q \in Postings : FirstsBounded(q)'
  <2>1. /\ pc[r] = "mark" /\ p \in item[r] /\ UNCHANGED ledger /\ crashes' = crashes
        /\ status' = [status EXCEPT ![p] = "scored"]
    BY <1>5 DEF MarkScored, Goto
  <2>2. ASSUME NEW q \in Postings, BeingMarked(q) PROVE q = p
    <3>1. q \in item[r]
      BY <2>1, <2>2 DEF BeingMarked, Alone
    <3> QED
      BY <2>1, <3>1 DEF WorkIsCurrent
  <2>3. \A q \in Postings : status'[q] = IF q = p THEN "scored" ELSE status[q]
    BY <2>1 DEF TypeOK
  <2> QED
    BY <1>1, <2>1, <2>2, <2>3, FirstsStay
<1>6. ASSUME UNCHANGED ledger, crashes' = crashes,
             \A p \in Postings : status[p] = "scored" => status'[p] = "scored",
             \A q \in Runs : pc[q] = "mark" => pc'[q] = "mark" /\ item'[q] = item[q]
      PROVE  \A q \in Postings : FirstsBounded(q)'
  <2>1. \A q \in Postings : BeingMarked(q) => BeingMarked(q)'
    BY <1>6 DEF BeingMarked
  <2>2. ASSUME NEW q \in Postings, status'[q] = "scored", status[q] # "scored"
        PROVE  FirstsBounded(q)'
    BY <1>1, <1>6, <2>2 DEF FirstsBounded
  <2> QED
    BY <1>1, <1>6, <2>1, <2>2 DEF FirstsBounded
<1>7. ASSUME NEW r \in Runs, Start(r) \/ Finish(r)
      PROVE  \A q \in Postings : FirstsBounded(q)'
  BY <1>6, <1>7 DEF Start, Finish, Forget, Goto, TypeOK, tables
<1>8. ASSUME NEW r \in Runs, Ingest(r) PROVE \A q \in Postings : FirstsBounded(q)'
  <2>1. /\ UNCHANGED ledger /\ crashes' = crashes /\ item' = item
        /\ pc' = pc \/ \E stage : pc[r] # "mark" /\ pc' = [pc EXCEPT ![r] = stage]
    BY <1>8 DEF Ingest, Land, EndFetch, LookUp, EndPartition, SavePosting, Goto, At
  <2>2. \A p \in Postings : status[p] = "scored" => status'[p] = "scored"
    BY <1>8 DEF Ingest, Land, EndFetch, LookUp, EndPartition, SavePosting, At, WorkIsCurrent,
       TypeOK, tables
  <2> QED
    BY <1>6, <2>1, <2>2 DEF TypeOK
<1>9. ASSUME NEW r \in Runs, Gold(r) PROVE \A q \in Postings : FirstsBounded(q)'
  <2>1. /\ UNCHANGED ledger /\ crashes' = crashes /\ pc[r] # "mark"
        /\ item' = item \/ \E held : item' = [item EXCEPT ![r] = held]
        /\ pc' = pc \/ \E stage : pc' = [pc EXCEPT ![r] = stage]
    BY <1>9 DEF Gold, ReadSilver, MarkGoldRejected, UpsertCluster, SetPostingCluster,
       MarkGoldCandidate, Goto, At
  <2>2. \A p \in Postings : status[p] = "scored" => status'[p] = "scored"
    BY <1>9 DEF Gold, ReadSilver, MarkGoldRejected, UpsertCluster, SetPostingCluster,
       MarkGoldCandidate, Goto, At, WorkIsCurrent, TypeOK, tables
  <2> QED
    BY <1>6, <2>1, <2>2 DEF TypeOK
<1>10. ASSUME NEW r \in Runs,
              \/ ReadGold(r) \/ ReadScored(r)
              \/ \E p \in Postings : LeaveUnjudged(r, p)
       PROVE  \A q \in Postings : FirstsBounded(q)'
  BY <1>6, <1>10 DEF ReadGold, ReadScored, LeaveUnjudged, Goto, TypeOK, tables
<1>11. ASSUME NEW r \in Runs, Crash(r) PROVE \A q \in Postings : FirstsBounded(q)'
  <2>1. UNCHANGED ledger /\ crashes' = crashes + 1
    BY <1>11 DEF Crash
  <2> QED
    BY <1>1, <1>2, <2>1 DEF FirstsBounded
<1>12. CASE Override
  <2>1. ASSUME NEW q \in Postings PROVE Firsts(q)' = Firsts(q)
    BY <1>12, OverrideKeepsLlmEvents DEF Override, Firsts
  <2>2. UNCHANGED <<status, pc, item, crashes>>
    BY <1>12, OverrideKeepsLlmEvents DEF Override
  <2> QED
    BY <2>1, <2>2, FirstsStay DEF BeingMarked
<1>13. CASE UNCHANGED vars
  BY <1>6, <1>13 DEF vars, tables, locals
<1> QED
  BY <1>3, <1>4, <1>5, <1>7, <1>8, <1>9, <1>10, <1>11, <1>12, <1>13 DEF Next, Scoring, Reassess

LEMMA SerialInvHolds ==
  ASSUME ~Overlap
  PROVE  Spec => []SerialInv
<1>1. Init => SerialInv
  <2> SUFFICES ASSUME Init PROVE SerialInv
    OBVIOUS
  <2>1. \A p \in Postings : LlmEvents(p) = {} /\ Firsts(p) = {}
    BY DEF Init, LlmEvents, Firsts
  <2>2. Alone /\ PreviousIsPredecessor /\ \A r \in Runs : WorkIsCurrent(r)
    BY <2>1 DEF Init, Alone, PreviousIsPredecessor, WorkIsCurrent
  <2>3. \A p \in Postings : Cardinality(Firsts(p)) = 0
    BY <2>1, FS_EmptySet
  <2> QED
    BY <2>2, <2>3 DEF Init, SerialInv, FirstsBounded
<1>2. TypeOK /\ LedgerAgrees /\ SerialInv /\ [Next]_vars => SerialInv'
  BY AloneStep, WorkIsCurrentStep, PredecessorStep, FirstsStep DEF SerialInv
<1> QED
  BY <1>1, <1>2, TypeCorrect, LedgerNeverDiverges, PTL DEF Spec

\* previous_score is the score of the judgement before the current one, while runs do not
\* overlap: the score a reassess run read when it began is still the one that stands.
THEOREM PreviousScoreIsPredecessor ==
  ASSUME ~Overlap
  PROVE  Spec => []PreviousIsPredecessor
<1>1. SerialInv => PreviousIsPredecessor
  BY DEF SerialInv
<1> QED
  BY <1>1, SerialInvHolds, PTL

\* Daily runs that do not overlap judge a posting once, and once more for each run that
\* died ("a re-run skips done work", pipeline.py:8-9).
THEOREM DailyRunsSkipDoneWork ==
  ASSUME ~Overlap
  PROVE  Spec => []JudgedOncePerDeath
<1>1. SerialInv => JudgedOncePerDeath
  BY DEF SerialInv, FirstsBounded, Firsts, JudgedOncePerDeath
<1> QED
  BY <1>1, SerialInvHolds, PTL

(***************************************************************************)
(* What takes a rejection back.                                             *)
(***************************************************************************)
Reopens(p) ==
  status[p] = "rejected" /\ status'[p] # "rejected"
    => \E r \in Runs : /\ pc[r] = "promote" /\ p \in item[r]
                       /\ filter_hash[r] # gold_filter_hash[p]

LEMMA RejectionStep ==
  ASSUME TypeOK, \A q \in Runs : WorkIsCurrent(q), [Next]_vars
  PROVE  \A p \in Postings : Reopens(p)
<1> USE DEF Reopens
<1>1. CASE UNCHANGED status
  BY <1>1
<1>2. ASSUME NEW r \in Runs, NEW p \in Postings, SavePosting(r, p)
      PROVE  \A q \in Postings : Reopens(q)
  BY <1>2 DEF SavePosting, At, WorkIsCurrent, TypeOK
<1>3. ASSUME NEW r \in Runs, NEW p \in Postings, MarkGoldRejected(r, p)
      PROVE  \A q \in Postings : Reopens(q)
  BY <1>3 DEF MarkGoldRejected, TypeOK
<1>4. ASSUME NEW r \in Runs, NEW p \in Postings, MarkGoldCandidate(r, p)
      PROVE  \A q \in Postings : Reopens(q)
  <2>1. /\ pc[r] = "promote" /\ p \in item[r] /\ p \in work[r]
        /\ status' = [status EXCEPT ![p] = "gold_candidate"]
    BY <1>4 DEF MarkGoldCandidate, Goto, WorkIsCurrent
  <2>2. status[p] = "rejected" => filter_hash[r] # gold_filter_hash[p]
    BY <2>1 DEF WorkIsCurrent
  <2> QED
    BY <2>1, <2>2 DEF TypeOK
<1>5. ASSUME NEW r \in Runs, NEW p \in Postings, MarkScored(r, p)
      PROVE  \A q \in Postings : Reopens(q)
  BY <1>5 DEF MarkScored, Goto, WorkIsCurrent, TypeOK
<1>6. ASSUME NEW r \in Runs,
             \/ Start(r) \/ Finish(r) \/ Crash(r) \/ Reassess(r) \/ ReadGold(r)
             \/ EndFetch(r) \/ EndPartition(r) \/ SetPostingCluster(r)
             \/ \E h \in Contexts : ReadSilver(r, h)
             \/ \E p \in Postings : Land(r, p) \/ LookUp(r, p) \/ UpsertCluster(r, p)
             \/ \E p \in Postings : LeaveUnjudged(r, p) \/ \E s \in Scores : Judge(r, p, s)
      PROVE  UNCHANGED status
  BY <1>6 DEF Start, Finish, Crash, Reassess, ReadScored, Rejudge, ReadGold, EndFetch,
     EndPartition, SetPostingCluster, ReadSilver, Land, LookUp, UpsertCluster, LeaveUnjudged,
     Judge, tables
<1>7. CASE Override \/ UNCHANGED vars
  BY <1>1, <1>7 DEF Override, SetScoreOverride, vars, tables
<1> QED
  BY <1>1, <1>2, <1>3, <1>4, <1>5, <1>6, <1>7 DEF Next, Ingest, Gold, Scoring

\* Only a run under another decision context re-opens a rejection, while runs do not
\* overlap: neither a sweep that returns the posting again nor a run of the same context.
THEOREM RejectionsHold ==
  ASSUME ~Overlap
  PROVE  Spec => RejectionHolds
<1>1. TypeOK /\ SerialInv /\ [Next]_vars => [\A p \in Postings : Reopens(p)]_vars
  BY RejectionStep DEF SerialInv
<1>2. RejectionHolds <=> [][\A p \in Postings : Reopens(p)]_vars
  BY DEF RejectionHolds, Reopens
<1> QED
  BY <1>1, <1>2, TypeCorrect, SerialInvHolds, PTL DEF Spec
==============================================================================
