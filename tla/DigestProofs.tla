----------------------------- MODULE DigestProofs -----------------------------
(***************************************************************************)
(* What holds of the digest for every set of postings, every configuration  *)
(* and every bound: first however many runs overlap, then (~Overlap) while   *)
(* they do not, last (Undisturbed) while nothing else disturbs them either.  *)
(***************************************************************************)
EXTENDS Digest, SequenceTheorems, TLAPS

LEMMA BlankIsMail == Blank \in Mail
  BY DEF Blank, Mail

\* The locals of a run that ends keep their types.
LEMMA ForgetType ==
  ASSUME TypeOK, NEW r \in Runs, Forget(r)
  PROVE  /\ pc' \in [Runs -> Stage]
         /\ run_date' \in [Runs -> Days] /\ run_config' \in [Runs -> Configs]
         /\ work' \in [Runs -> SUBSET Postings] /\ item' \in [Runs -> SUBSET Postings]
         /\ old_score' \in [Runs -> [Postings -> Row]]
         /\ partial' \in [Runs -> BOOLEAN]
         /\ bar' \in [Runs -> Int] /\ first' \in [Runs -> BOOLEAN]
         /\ fresh' \in [Runs -> SUBSET Postings]
         /\ mail' \in [Runs -> Mail]
  BY BlankIsMail DEF TypeOK, Forget, Stage, Days, Row

\* What save_score writes is of the right type.
LEMMA SaveScoreType ==
  ASSUME TypeOK, NEW r \in Runs, NEW p \in Postings, NEW s \in Scores,
         NEW previous \in Row, SaveScore(r, p, s, previous)
  PROVE  /\ score' \in [Postings -> Row] /\ previous_score' \in [Postings -> Row]
         /\ lineage' \in [Postings -> Seq(Event)]
         /\ unlisted' \subseteq Postings
         /\ fresh' \in [Runs -> SUBSET Postings]
         /\ announced' \subseteq Postings
<1>1. [profile_hash |-> run_config[r].profile_hash, scoring_model |-> "llm"] \in Event
  BY DEF TypeOK, Event, Hashes
<1>2. lineage' \in [Postings -> Seq(Event)]
  BY <1>1, AppendProperties DEF TypeOK, SaveScore
<1> QED
  BY <1>2 DEF TypeOK, SaveScore, Row

\* What is rendered is a digest.
LEMMA DigestType ==
  ASSUME NEW threshold, NEW never_sent, NEW newer
  PROVE  Digest(threshold, never_sent, newer) \in Mail
  BY DEF Digest, Mail, News, NewOnCards, Surfaced

\* Every variable stays in its type, whatever overlaps and whatever dies.
THEOREM TypeCorrect == Spec => []TypeOK
<1>1. Init => TypeOK
  <2> SUFFICES ASSUME Init PROVE TypeOK
    OBVIOUS
  <2>1. /\ mail \in [Runs -> Mail]
        /\ pc \in [Runs -> Stage]
        /\ lineage \in [Postings -> Seq(Event)]
    BY BlankIsMail DEF Init, Stage
  <2>2. 0 \in 0..MaxDeploys /\ 0 \in 0..MaxCrashes
    BY BoundsAssumption
  <2> QED
    BY <2>1, <2>2 DEF Init, TypeOK, Days, Row
<1>2. TypeOK /\ [Next]_vars => TypeOK'
  <2> SUFFICES ASSUME TypeOK, [Next]_vars PROVE TypeOK'
    OBVIOUS
  <2> USE DEF TypeOK, settings, ledger, log, judging, telling, history
  <2>1. ASSUME NEW r \in Runs, NEW d \in Days, Start(r, d) PROVE TypeOK'
    BY <2>1 DEF Start, Goto, Stage
  <2>2. ASSUME NEW r \in Runs, SyncProfile(r) PROVE TypeOK'
    BY <2>2 DEF SyncProfile, Goto, Stage
  <2>3. ASSUME NEW r \in Runs, NEW p \in Postings, Arrive(r, p) PROVE TypeOK'
    BY <2>3 DEF Arrive
  <2>4. ASSUME NEW r \in Runs, NEW deferred \in BOOLEAN, EndIngest(r, deferred) PROVE TypeOK'
    BY <2>4 DEF EndIngest, Goto, Stage
  <2>5. ASSUME NEW r \in Runs, ReadGold(r) PROVE TypeOK'
    BY <2>5 DEF ReadGold, Goto, Stage
  <2>6. ASSUME NEW r \in Runs, NEW p \in Postings, NEW s \in Scores, Judge(r, p, s)
        PROVE  TypeOK'
    <3>1. NoScore \in Row
      BY DEF Row
    <3> QED
      BY <2>6, <3>1, SaveScoreType DEF Judge, Goto, Stage
  <2>7. ASSUME NEW r \in Runs, NEW p \in Postings, MarkScored(r, p) PROVE TypeOK'
    BY <2>7 DEF MarkScored, Goto, Done, Stage
  <2>8. ASSUME NEW r \in Runs, NEW p \in Postings, NEW deferred \in BOOLEAN,
               LeaveUnjudged(r, p, deferred)
        PROVE  TypeOK'
    BY <2>8 DEF LeaveUnjudged, Done
  <2>9. ASSUME NEW r \in Runs, EndScore(r) PROVE TypeOK'
    BY <2>9 DEF EndScore, Goto, Stage
  <2>10. ASSUME NEW r \in Runs, ReadScored(r) PROVE TypeOK'
    BY <2>10 DEF ReadScored, Goto, Stage
  <2>11. ASSUME NEW r \in Runs, NEW p \in Postings, NEW s \in Scores, Rejudge(r, p, s)
         PROVE  TypeOK'
    <3>1. old_score[r][p] \in Row
      OBVIOUS
    <3> QED
      BY <2>11, <3>1, SaveScoreType DEF Rejudge, Done
  <2>12. ASSUME NEW p \in Postings, SetScoreOverride(p) PROVE TypeOK'
    <3>1. [profile_hash |-> profile.profile_hash, scoring_model |-> "human-override"] \in Event
      BY DEF Event, Hashes
    <3> QED
      BY <2>12, <3>1, AppendProperties DEF SetScoreOverride
  <2>13. ASSUME NEW r \in Runs, SkipNotify(r) \/ EndReassess(r) PROVE TypeOK'
    BY <2>13, ForgetType DEF SkipNotify, EndReassess
  <2>14. ASSUME NEW r \in Runs, BeginNotify(r) PROVE TypeOK'
    BY <2>14 DEF BeginNotify, Goto, Stage
  <2>15. ASSUME NEW r \in Runs, ReadKnobs(r) PROVE TypeOK'
    BY <2>15, ConfigsAssumption DEF ReadKnobs, Goto, Stage
  <2>16. ASSUME NEW r \in Runs, ReadSince(r) PROVE TypeOK'
    BY <2>16 DEF ReadSince, Goto, Stage
  <2>17. ASSUME NEW r \in Runs, ReadShortlist(r) PROVE TypeOK'
    BY <2>17, DigestType DEF ReadShortlist, Goto, Stage
  <2>18. ASSUME NEW r \in Runs, Send(r) PROVE TypeOK'
    BY <2>18 DEF Send, Goto, Stage, Mail
  <2>19. ASSUME NEW r \in Runs, RecordSent(r) PROVE TypeOK'
    BY <2>19, ForgetType DEF RecordSent, Mail
  <2>20. ASSUME NEW r \in Runs, Crash(r) PROVE TypeOK'
    BY <2>20, ForgetType, BoundsAssumption DEF Crash
  <2>21. ASSUME Deploy PROVE TypeOK'
    BY <2>21, BoundsAssumption DEF Deploy
  <2>22. ASSUME NextDay PROVE TypeOK'
    BY <2>22 DEF NextDay, Days
  <2>23. CASE UNCHANGED vars
    BY <2>23 DEF vars
  <2> QED
    BY <2>1, <2>2, <2>3, <2>4, <2>5, <2>6, <2>7, <2>8, <2>9, <2>10, <2>11, <2>12,
       <2>13, <2>14, <2>15, <2>16, <2>17, <2>18, <2>19, <2>20, <2>21, <2>22, <2>23
       DEF Next, Proceed, Judging, Notify
<1> QED
  BY <1>1, <1>2, PTL DEF Spec

(***************************************************************************)
(* The send-once guard never blocks a digest that did not go out.  A run     *)
(* that is about to record its date has sent the e-mail of that date, and    *)
(* the date may have grown a day older in between.                           *)
(***************************************************************************)
SentBeforeRecorded ==
  /\ RecordedWasSent
  /\ \A r \in Runs : pc[r] = "record" => emails[run_date[r]] > 0

\* The end of a run leaves the others where they are.
LEMMA ForgetKeepsOthers ==
  ASSUME TypeOK, NEW r \in Runs, Forget(r), NEW q \in Runs
  PROVE  pc'[q] = "record" => q # r /\ pc[q] = "record" /\ run_date'[q] = run_date[q]
  BY DEF TypeOK, Forget

LEMMA SentBeforeRecordedStep ==
  ASSUME TypeOK, SentBeforeRecorded, [Next]_vars
  PROVE  SentBeforeRecorded'
<1> USE DEF TypeOK, SentBeforeRecorded, RecordedWasSent, Days
<1>1. ASSUME UNCHANGED <<run_log, emails>>,
             \A q \in Runs : pc'[q] = "record" => pc[q] = "record" /\ run_date'[q] = run_date[q]
      PROVE  SentBeforeRecorded'
  BY <1>1
<1>2. ASSUME NEW r \in Runs, NEW d \in Days, Start(r, d) PROVE SentBeforeRecorded'
  BY <1>1, <1>2 DEF Start, Goto, log, history
<1>3. ASSUME NEW r \in Runs, SyncProfile(r) PROVE SentBeforeRecorded'
  BY <1>1, <1>3 DEF SyncProfile, Goto, log, history
<1>4. ASSUME NEW r \in Runs, Judging(r), ~EndReassess(r) PROVE SentBeforeRecorded'
  <2>1. /\ UNCHANGED <<run_log, emails, run_date>>
        /\ \/ UNCHANGED pc
           \/ \E to \in Stage \ {"record"} : pc' = [pc EXCEPT ![r] = to]
    BY <1>4 DEF Judging, Arrive, EndIngest, ReadGold, Judge, MarkScored, LeaveUnjudged,
       EndScore, ReadScored, Rejudge, SaveScore, Goto, Stage, log, history
  <2> QED
    BY <1>1, <2>1
<1>5. ASSUME NEW r \in Runs, EndReassess(r) \/ SkipNotify(r) \/ Crash(r)
      PROVE  SentBeforeRecorded'
  BY <1>1, <1>5, ForgetKeepsOthers DEF EndReassess, SkipNotify, Crash, log, history
<1>6. ASSUME NEW r \in Runs, BeginNotify(r) \/ ReadKnobs(r) \/ ReadSince(r) \/ ReadShortlist(r)
      PROVE  SentBeforeRecorded'
  BY <1>1, <1>6 DEF BeginNotify, ReadKnobs, ReadSince, ReadShortlist, Goto, log, history
<1>7. ASSUME NEW r \in Runs, Send(r) PROVE SentBeforeRecorded'
  <2>1. /\ emails'[run_date[r]] > 0
        /\ \A d \in Days : emails[d] > 0 => emails'[d] > 0
    BY <1>7 DEF Send
  <2>2. /\ run_log' = run_log /\ run_date' = run_date
        /\ \A q \in Runs : pc'[q] = "record" => q = r \/ pc[q] = "record"
    BY <1>7 DEF Send, Goto, log
  <2> QED
    BY <2>1, <2>2
<1>8. ASSUME NEW r \in Runs, RecordSent(r) PROVE SentBeforeRecorded'
  BY <1>8, ForgetKeepsOthers DEF RecordSent
<1>9. ASSUME NEW p \in Postings, SetScoreOverride(p) PROVE SentBeforeRecorded'
  BY <1>1, <1>9 DEF SetScoreOverride, log, history
<1>10. ASSUME Deploy PROVE SentBeforeRecorded'
  BY <1>1, <1>10 DEF Deploy, log, history
<1>11. ASSUME NextDay PROVE SentBeforeRecorded'
  <2>1. \A q \in Runs : run_date[q] = 0
    BY <1>11 DEF NextDay
  <2>2. emails'[1] = emails[0]
    BY <1>11 DEF NextDay
  <2>3. RecordedWasSent'
    BY <1>11, <2>2 DEF NextDay
  <2>4. ASSUME NEW q \in Runs, pc'[q] = "record" PROVE emails'[run_date'[q]] > 0
    <3>1. pc[q] = "record" /\ run_date'[q] = 1
      BY <1>11, <2>4 DEF NextDay
    <3>2. emails[0] > 0
      BY <2>1, <3>1
    <3> QED
      BY <2>2, <3>1, <3>2
  <2> QED
    BY <2>3, <2>4
<1>12. CASE UNCHANGED vars
  BY <1>1, <1>12 DEF vars, log, history
<1>13. ASSUME NEW r \in Runs, Judging(r) \/ Notify(r) PROVE SentBeforeRecorded'
  BY <1>4, <1>5, <1>6, <1>7, <1>8, <1>13 DEF Notify
<1>14. ASSUME NEW r \in Runs, Proceed(r) \/ Crash(r) PROVE SentBeforeRecorded'
  BY <1>2, <1>3, <1>5, <1>13, <1>14 DEF Proceed
<1> QED
  BY <1>9, <1>10, <1>11, <1>12, <1>14 DEF Next

\* A recorded date had its e-mail, whatever overlaps and whatever dies.
THEOREM RecordedDatesWereSent == Spec => []RecordedWasSent
<1>1. Init => SentBeforeRecorded
  BY DEF Init, SentBeforeRecorded, RecordedWasSent
<1>2. TypeOK /\ SentBeforeRecorded /\ [Next]_vars => SentBeforeRecorded'
  BY SentBeforeRecordedStep
<1>3. SentBeforeRecorded => RecordedWasSent
  BY DEF SentBeforeRecorded
<1> QED
  BY <1>1, <1>2, <1>3, TypeCorrect, PTL DEF Spec

(***************************************************************************)
(* What the score row and the lineage of a posting say of each other,       *)
(* however runs overlap.  A previous score stands for an earlier judgement,  *)
(* and whatever a run re-judges or marks has been judged before.             *)
(***************************************************************************)
Judged(p) == score[p] # NoScore

NewestJudgement(p, i) == i \in Judgements(p) /\ \A k \in Judgements(p) : k <= i

LineageTells(p) ==
  /\ ~Judged(p) => Judgements(p) = {} /\ previous_score[p] = NoScore
  /\ Judged(p) => \E i \in Judgements(p) : NewestJudgement(p, i)
  /\ previous_score[p] # NoScore => \E i, j \in Judgements(p) : NewestTwo(p, i, j)

HeldAreJudged ==
  /\ \A p \in Postings : status[p] = "scored" => Judged(p)
  /\ \A r \in Runs : /\ pc[r] = "mark" => \A p \in item[r] : Judged(p)
                     /\ pc[r] = "rescore" => \A p \in work[r] : Judged(p)

LedgerInv == (\A p \in Postings : LineageTells(p)) /\ HeldAreJudged

\* The judgements among the events, after an event has been appended.
LEMMA JudgementsOfAppend ==
  ASSUME TypeOK, NEW p \in Postings, NEW e \in Event,
         lineage'[p] = Append(lineage[p], e)
  PROVE  /\ e.scoring_model = "llm"
              => Judgements(p)' = Judgements(p) \cup {Len(lineage[p]) + 1}
         /\ e.scoring_model # "llm"
              => /\ Judgements(p)' = Judgements(p)
                 /\ Overrides(p)' = Overrides(p) \cup {Len(lineage[p]) + 1}
         /\ \A i \in 1..Len(lineage[p]) : lineage'[p][i] = lineage[p][i]
         /\ Len(lineage[p]) \in Nat
<1>1. lineage[p] \in Seq(Event)
  BY DEF TypeOK
<1>2. Len(lineage[p]) \in Nat
  BY <1>1, LenProperties
<1>3. /\ Len(lineage'[p]) = Len(lineage[p]) + 1
      /\ \A i \in 1..Len(lineage[p]) : lineage'[p][i] = lineage[p][i]
      /\ lineage'[p][Len(lineage[p]) + 1] = e
  BY <1>1, AppendProperties
<1> QED
  BY <1>2, <1>3 DEF Judgements, Overrides

\* A posting whose rows stay keeps what they tell.
LEMMA LineageStays ==
  ASSUME NEW p \in Postings, LineageTells(p),
         score'[p] = score[p], previous_score'[p] = previous_score[p], lineage'[p] = lineage[p]
  PROVE  LineageTells(p)'
  BY DEF LineageTells, Judged, NewestJudgement, NewestTwo, Judgements

\* What save_score does to the rows of a posting: the judgement it appends is the
\* newest, and the one that was newest is the one before it.
LEMMA SaveScoreTells ==
  ASSUME TypeOK, \A q \in Postings : LineageTells(q), NEW r \in Runs, NEW p \in Postings,
         NEW s \in Scores, NEW previous \in Row, SaveScore(r, p, s, previous),
         previous # NoScore => Judged(p)
  PROVE  /\ \A q \in Postings : LineageTells(q)'
         /\ \A q \in Postings : Judged(q)' <=> q = p \/ Judged(q)
<1> DEFINE e == [profile_hash |-> run_config[r].profile_hash, scoring_model |-> "llm"]
<1> PICK n : n = Len(lineage[p]) + 1
  OBVIOUS
<1>1. e \in Event
  BY DEF TypeOK, Event, Hashes
<1>2. /\ lineage'[p] = Append(lineage[p], e)
      /\ score'[p] = s /\ s # NoScore
      /\ previous_score'[p] = IF previous # NoScore THEN previous ELSE score[p]
  BY ScoresAssumption DEF SaveScore, TypeOK
<1>3. /\ Judgements(p)' = Judgements(p) \cup {n}
      /\ \A i \in Judgements(p) : i \in Int /\ i < n
      /\ n \in Int
  BY <1>1, <1>2, JudgementsOfAppend DEF Judgements
<1>4. LineageTells(p)'
  <2>1. Judged(p)' /\ NewestJudgement(p, n)'
    <3>1. \A k \in Judgements(p)' : k <= n
      BY <1>3
    <3> QED
      BY <1>2, <1>3, <3>1 DEF Judged, NewestJudgement
  <2>2. ASSUME previous_score'[p] # NoScore
        PROVE  \E i, j \in Judgements(p)' : NewestTwo(p, i, j)'
    <3>1. PICK j \in Judgements(p) : NewestJudgement(p, j)
      BY <1>2, <2>2 DEF Judged, LineageTells
    <3>2. NewestTwo(p, n, j)'
      BY <1>3, <3>1 DEF NewestTwo, NewestJudgement
    <3> QED
      BY <1>3, <3>2
  <2> QED
    BY <1>3, <2>1, <2>2 DEF LineageTells
<1>5. ASSUME NEW q \in Postings, q # p
      PROVE  LineageTells(q)' /\ (Judged(q)' <=> Judged(q))
  <2>1. /\ score'[q] = score[q] /\ previous_score'[q] = previous_score[q]
        /\ lineage'[q] = lineage[q]
    BY <1>5 DEF SaveScore, TypeOK
  <2> QED
    BY <2>1, LineageStays DEF Judged
<1> QED
  BY <1>2, <1>4, <1>5 DEF Judged

\* An override is no judgement, and leaves the score row as it is.
LEMMA OverrideTells ==
  ASSUME TypeOK, \A q \in Postings : LineageTells(q), NEW p \in Postings, SetScoreOverride(p)
  PROVE  \A q \in Postings : LineageTells(q)' /\ Judgements(q)' = Judgements(q)
<1> DEFINE e == [profile_hash |-> profile.profile_hash, scoring_model |-> "human-override"]
<1>1. e \in Event
  BY DEF TypeOK, Event, Hashes
<1>2. /\ lineage'[p] = Append(lineage[p], e)
      /\ \A q \in Postings : q # p => lineage'[q] = lineage[q]
      /\ UNCHANGED <<score, previous_score>>
  BY DEF SetScoreOverride, TypeOK
<1>3. \A q \in Postings : Judgements(q)' = Judgements(q)
  BY <1>1, <1>2, JudgementsOfAppend DEF Judgements
<1> QED
  BY <1>2, <1>3 DEF LineageTells, Judged, NewestJudgement, NewestTwo

\* Steps that write neither a score row nor an event.
LedgerRead == <<score, previous_score, lineage>>

LEMMA LedgerInvStep ==
  ASSUME TypeOK, LedgerInv, [Next]_vars
  PROVE  LedgerInv'
<1> USE DEF LedgerInv, HeldAreJudged
<1>1. ASSUME UNCHANGED LedgerRead
      PROVE  /\ \A p \in Postings : LineageTells(p)'
             /\ \A p \in Postings : Judged(p)' <=> Judged(p)
  BY <1>1, LineageStays DEF LedgerRead, Judged
<1>2. ASSUME NEW r \in Runs, Forget(r), UNCHANGED LedgerRead, status' = status PROVE LedgerInv'
  BY <1>1, <1>2 DEF Forget, TypeOK
<1>3. ASSUME UNCHANGED LedgerRead, UNCHANGED <<status, work, item>>,
             \A r \in Runs : pc'[r] \in {"mark", "rescore"} => pc'[r] = pc[r]
      PROVE  LedgerInv'
  BY <1>1, <1>3 DEF TypeOK
<1>4. ASSUME NEW r \in Runs, NEW d \in Days, Start(r, d) PROVE LedgerInv'
  BY <1>3, <1>4 DEF Start, Goto, TypeOK, ledger, judging, LedgerRead
<1>5. ASSUME NEW r \in Runs, SyncProfile(r) PROVE LedgerInv'
  BY <1>3, <1>5 DEF SyncProfile, Goto, TypeOK, ledger, judging, LedgerRead
<1>6. ASSUME NEW r \in Runs, NEW p \in Postings, Arrive(r, p) PROVE LedgerInv'
  BY <1>1, <1>6 DEF Arrive, TypeOK, judging, LedgerRead
<1>7. ASSUME NEW r \in Runs, NEW deferred \in BOOLEAN, EndIngest(r, deferred) PROVE LedgerInv'
  BY <1>3, <1>7 DEF EndIngest, Goto, TypeOK, ledger, LedgerRead
<1>8. ASSUME NEW r \in Runs, ReadGold(r) PROVE LedgerInv'
  BY <1>1, <1>8 DEF ReadGold, Goto, TypeOK, ledger, LedgerRead
<1>9. ASSUME NEW r \in Runs, NEW p \in Postings, NEW s \in Scores, Judge(r, p, s)
      PROVE  LedgerInv'
  <2>1. /\ \A q \in Postings : LineageTells(q)'
        /\ \A q \in Postings : Judged(q)' <=> q = p \/ Judged(q)
    BY <1>9, SaveScoreTells DEF Judge, Row
  <2> QED
    BY <1>9, <2>1 DEF Judge, Goto, TypeOK
<1>10. ASSUME NEW r \in Runs, NEW p \in Postings, MarkScored(r, p) PROVE LedgerInv'
  BY <1>1, <1>10 DEF MarkScored, Goto, Done, TypeOK, LedgerRead
<1>11. ASSUME NEW r \in Runs, NEW p \in Postings, NEW deferred \in BOOLEAN,
              LeaveUnjudged(r, p, deferred)
       PROVE  LedgerInv'
  BY <1>1, <1>11 DEF LeaveUnjudged, Done, TypeOK, ledger, LedgerRead
<1>12. ASSUME NEW r \in Runs, EndScore(r) PROVE LedgerInv'
  BY <1>3, <1>12 DEF EndScore, Goto, TypeOK, ledger, judging, LedgerRead
<1>13. ASSUME NEW r \in Runs, ReadScored(r) PROVE LedgerInv'
  BY <1>1, <1>13 DEF ReadScored, Goto, TypeOK, ledger, LedgerRead
<1>14. ASSUME NEW r \in Runs, NEW p \in Postings, NEW s \in Scores, Rejudge(r, p, s)
       PROVE  LedgerInv'
  <2>1. Judged(p) /\ old_score[r][p] \in Row
    BY <1>14 DEF Rejudge, TypeOK
  <2>2. /\ \A q \in Postings : LineageTells(q)'
        /\ \A q \in Postings : Judged(q)' <=> q = p \/ Judged(q)
    BY <1>14, <2>1, SaveScoreTells DEF Rejudge
  <2> QED
    BY <1>14, <2>2 DEF Rejudge, Done, TypeOK
<1>15. ASSUME NEW r \in Runs, EndReassess(r) \/ SkipNotify(r) \/ RecordSent(r) \/ Crash(r)
       PROVE  LedgerInv'
  BY <1>2, <1>15 DEF EndReassess, SkipNotify, RecordSent, Crash, ledger, LedgerRead
<1>16. ASSUME NEW r \in Runs,
              BeginNotify(r) \/ ReadKnobs(r) \/ ReadSince(r) \/ ReadShortlist(r) \/ Send(r)
       PROVE  LedgerInv'
  BY <1>3, <1>16 DEF BeginNotify, ReadKnobs, ReadSince, ReadShortlist, Send, Goto, TypeOK,
     ledger, judging, LedgerRead
<1>17. ASSUME NEW p \in Postings, SetScoreOverride(p) PROVE LedgerInv'
  BY <1>17, OverrideTells DEF SetScoreOverride, Judged, judging
<1>18. CASE Deploy \/ NextDay \/ UNCHANGED vars
  BY <1>3, <1>18 DEF Deploy, NextDay, vars, ledger, judging, LedgerRead
<1> QED
  BY <1>4, <1>5, <1>6, <1>7, <1>8, <1>9, <1>10, <1>11, <1>12, <1>13, <1>14, <1>15, <1>16,
     <1>17, <1>18 DEF Next, Proceed, Judging, Notify

LEMMA LedgerInvHolds == Spec => []LedgerInv
<1>1. Init => LedgerInv
  BY DEF Init, LedgerInv, HeldAreJudged, LineageTells, Judged, Judgements
<1>2. TypeOK /\ LedgerInv /\ [Next]_vars => LedgerInv'
  BY LedgerInvStep
<1> QED
  BY <1>1, <1>2, TypeCorrect, PTL DEF Spec

(***************************************************************************)
(* Runs that do not overlap.                                                *)
(***************************************************************************)
Alone == \A q, r \in Runs : pc[q] # "idle" /\ pc[r] # "idle" => q = r

Telling == {"knobs", "since", "shortlist", "send", "record"}

FirstMatch(p) == JudgedOnce(p) /\ \A c \in Configs : score[p] >= c.threshold

(* What the tables hold has been announced or is still to be, and what a      *)
(* run has read of them is what they hold.                                    *)
NewsTables ==
  /\ ~delivered => announced = {}
  /\ announced \cap unlisted = {}
  /\ \A p \in Postings : FirstMatch(p) => p \in unlisted \cup announced

NewsRun(r) ==
  /\ pc[r] \in Telling => run_date[r] \notin run_log
  /\ pc[r] \in Telling \ {"knobs"} => \E c \in Configs : bar[r] = c.threshold
  /\ pc[r] = "shortlist" => fresh[r] = unlisted /\ first[r] = ~delivered
  /\ pc[r] \in {"send", "record"} =>
       \A p \in Postings : FirstMatch(p) => p \in announced \cup mail[r].news
  /\ pc[r] = "send" => mail[r].news \cap announced = {}

NewsInv == NewsTables /\ \A r \in Runs : NewsRun(r)

\* The steps that move no run into a stage, or leave it, but for the start.
LEMMA AloneStep ==
  ASSUME ~Overlap, TypeOK, Alone, [Next]_vars
  PROVE  Alone'
<1>1. ASSUME NEW r \in Runs, NEW d \in Days, Start(r, d) PROVE Alone'
  BY <1>1 DEF Start, Goto, Alone, TypeOK
<1>2. ASSUME \A q \in Runs : pc'[q] # "idle" => pc[q] # "idle" PROVE Alone'
  BY <1>2 DEF Alone
<1>3. ASSUME NEW r \in Runs, SyncProfile(r) \/ Judging(r) \/ Notify(r) \/ Crash(r)
      PROVE  Alone'
  <2>1. pc[r] # "idle"
    BY <1>3 DEF SyncProfile, Judging, Arrive, EndIngest, ReadGold, Judge, MarkScored,
       LeaveUnjudged, EndScore, ReadScored, Rejudge, EndReassess, Notify, SkipNotify,
       BeginNotify, ReadKnobs, ReadSince, ReadShortlist, Send, RecordSent, Crash, Goto
  <2>2. pc' = pc \/ \E stage : pc' = [pc EXCEPT ![r] = stage]
    BY <1>3 DEF SyncProfile, Judging, Arrive, EndIngest, ReadGold, Judge, MarkScored,
       LeaveUnjudged, EndScore, ReadScored, Rejudge, EndReassess, Notify, SkipNotify,
       BeginNotify, ReadKnobs, ReadSince, ReadShortlist, Send, RecordSent, Crash, Goto, Forget
  <2> QED
    BY <1>2, <2>1, <2>2 DEF TypeOK
<1>4. CASE \/ \E p \in Postings : SetScoreOverride(p)
           \/ Deploy \/ NextDay \/ UNCHANGED vars
  BY <1>2, <1>4 DEF SetScoreOverride, Deploy, NextDay, vars
<1> QED
  BY <1>1, <1>3, <1>4 DEF Next, Proceed

\* A judgement of a posting makes it unlisted, and no first match of another one.
LEMMA SaveScoreNews ==
  ASSUME TypeOK, NewsTables, NEW r \in Runs, NEW p \in Postings, NEW s \in Scores,
         NEW previous \in Row, SaveScore(r, p, s, previous), delivered' = delivered
  PROVE  NewsTables'
<1>1. ASSUME NEW q \in Postings, q # p PROVE FirstMatch(q)' <=> FirstMatch(q)
  <2>1. score'[q] = score[q] /\ lineage'[q] = lineage[q]
    BY <1>1 DEF SaveScore, TypeOK
  <2> QED
    BY <2>1 DEF FirstMatch, JudgedOnce, Judgements
<1>2. announced' = announced \ {p} /\ unlisted' = unlisted \cup {p}
  BY DEF SaveScore
<1> QED
  BY <1>1, <1>2 DEF NewsTables

\* What a first match is to the split: surfaced, and without a previous score.
LEMMA FirstMatchSurfaces ==
  ASSUME LedgerInv, NEW p \in Postings, FirstMatch(p), NEW c \in Configs
  PROVE  p \in Surfaced(c.threshold) /\ previous_score[p] = NoScore
<1>1. PICK i \in Judgements(p) : Judgements(p) = {i}
  BY DEF FirstMatch, JudgedOnce
<1>2. Judged(p)
  BY <1>1 DEF LedgerInv, LineageTells
<1>3. ~ \E k, j \in Judgements(p) : NewestTwo(p, k, j)
  BY <1>1 DEF NewestTwo, Judgements
<1> QED
  BY <1>2, <1>3 DEF LedgerInv, LineageTells, Judged, Surfaced, FirstMatch

LEMMA NewsInvStep ==
  ASSUME ~Overlap, TypeOK, LedgerInv, Alone, NewsInv, [Next]_vars
  PROVE  NewsInv'
<1> USE DEF NewsInv
<1>1. ASSUME UNCHANGED <<score, lineage>>
      PROVE  \A p \in Postings : FirstMatch(p)' <=> FirstMatch(p)
  BY <1>1 DEF FirstMatch, JudgedOnce, Judgements
<1>2. ASSUME NEW r \in Runs, pc[r] # "idle", NewsTables', NewsRun(r)', \A q \in Runs \ {r} : pc'[q] = pc[q]
      PROVE  NewsInv'
  BY <1>2 DEF Alone, NewsRun, Telling
<1>3. ASSUME UNCHANGED <<score, lineage, delivered, announced, unlisted>> PROVE NewsTables'
  BY <1>1, <1>3 DEF NewsTables
<1>4. ASSUME NEW r \in Runs, NEW d \in Days, Start(r, d) PROVE NewsInv'
  <2>1. NewsTables'
    BY <1>3, <1>4 DEF Start, ledger, log, history
  <2>2. \A q \in Runs : pc'[q] \notin Telling
    BY <1>4 DEF Start, Goto, TypeOK, Telling, Alone
  <2> QED
    BY <2>1, <2>2 DEF NewsRun, Telling
<1>5. ASSUME NEW r \in Runs, SyncProfile(r) PROVE NewsInv'
  BY <1>2, <1>3, <1>5 DEF SyncProfile, Goto, TypeOK, NewsRun, Telling, ledger, log, history
<1>6. ASSUME NEW r \in Runs, NEW p \in Postings, Arrive(r, p) PROVE NewsInv'
  BY <1>2, <1>3, <1>6 DEF Arrive, NewsRun, Telling, log, history
<1>7. ASSUME NEW r \in Runs,
             \/ \E deferred \in BOOLEAN : EndIngest(r, deferred)
             \/ ReadGold(r) \/ ReadScored(r)
      PROVE  NewsInv'
  BY <1>2, <1>3, <1>7 DEF EndIngest, ReadGold, ReadScored, Goto, TypeOK, NewsRun, Telling,
     ledger, log, history
<1>8. ASSUME NEW r \in Runs, NEW p \in Postings, NEW s \in Scores,
             Judge(r, p, s) \/ Rejudge(r, p, s)
      PROVE  NewsInv'
  <2>1. NewsTables'
    BY <1>8, SaveScoreNews DEF Judge, Rejudge, Row, TypeOK, log
  <2>2. pc[r] # "idle" /\ pc'[r] \notin Telling /\ \A q \in Runs \ {r} : pc'[q] = pc[q]
    BY <1>8 DEF Judge, Rejudge, Goto, TypeOK, Telling
  <2> QED
    BY <1>2, <2>1, <2>2 DEF NewsRun, Telling
<1>9. ASSUME NEW r \in Runs, NEW p \in Postings, MarkScored(r, p) PROVE NewsInv'
  BY <1>2, <1>3, <1>9 DEF MarkScored, Goto, TypeOK, NewsRun, Telling, log, history
<1>10. ASSUME NEW r \in Runs,
              \/ \E p \in Postings, deferred \in BOOLEAN : LeaveUnjudged(r, p, deferred)
              \/ EndScore(r)
       PROVE  NewsInv'
  BY <1>2, <1>3, <1>10 DEF LeaveUnjudged, EndScore, Goto, TypeOK, NewsRun, Telling, ledger,
     log, history
<1>11. ASSUME NEW r \in Runs, EndReassess(r) \/ SkipNotify(r) \/ Crash(r) PROVE NewsInv'
  <2>1. /\ pc[r] # "idle" /\ pc'[r] = "idle" /\ \A q \in Runs \ {r} : pc'[q] = pc[q]
        /\ UNCHANGED <<ledger, log, announced>>
    BY <1>11 DEF EndReassess, SkipNotify, Crash, Forget, TypeOK, history
  <2>2. NewsTables'
    BY <1>3, <2>1 DEF ledger, log
  <2> QED
    BY <1>2, <2>1, <2>2 DEF NewsRun, Telling
<1>12. ASSUME NEW r \in Runs, BeginNotify(r) PROVE NewsInv'
  BY <1>2, <1>3, <1>12 DEF BeginNotify, WasDigestSent, Goto, TypeOK, NewsRun, Telling, ledger,
     log, history
<1>13. ASSUME NEW r \in Runs, ReadKnobs(r) PROVE NewsInv'
  BY <1>2, <1>3, <1>13 DEF ReadKnobs, Goto, TypeOK, NewsRun, Telling, ledger, log, history
<1>14. ASSUME NEW r \in Runs, ReadSince(r) PROVE NewsInv'
  BY <1>2, <1>3, <1>14 DEF ReadSince, Goto, TypeOK, NewsRun, Telling, ledger, log, history
<1>15. ASSUME NEW r \in Runs, ReadShortlist(r) PROVE NewsInv'
  <2>1. NewsTables'
    BY <1>3, <1>15 DEF ReadShortlist, ledger, log, history
  <2>2. /\ pc[r] = "shortlist" /\ pc'[r] = "send" /\ \A q \in Runs \ {r} : pc'[q] = pc[q]
        /\ UNCHANGED <<run_date, run_log, bar, announced, unlisted, score, lineage>>
        /\ mail'[r].news = News(bar[r], first[r], fresh[r])
    BY <1>15 DEF ReadShortlist, Goto, TypeOK, Digest, ledger, log, history
  <2>3. ASSUME NEW p \in Postings, FirstMatch(p) PROVE p \in announced \cup mail'[r].news
    <3>1. p \in Surfaced(bar[r]) /\ previous_score[p] = NoScore
      BY <2>2, <2>3, FirstMatchSurfaces DEF NewsRun, Telling
    <3> QED
      BY <2>2, <2>3, <3>1 DEF NewsTables, NewsRun, News
  <2>4. mail'[r].news \cap announced = {}
    BY <2>2 DEF NewsTables, NewsRun, News
  <2>5. NewsRun(r)'
    BY <1>1, <2>2, <2>3, <2>4 DEF NewsRun, Telling
  <2> QED
    BY <1>2, <2>1, <2>2, <2>5
<1>16. ASSUME NEW r \in Runs, Send(r) PROVE NewsInv'
  <2>1. NewsTables'
    BY <1>3, <1>16 DEF Send, ledger, log
  <2>2. NewsRun(r)'
    BY <1>1, <1>16 DEF Send, Goto, TypeOK, NewsRun, Telling, ledger, log, telling
  <2> QED
    BY <1>2, <1>16, <2>1, <2>2 DEF Send, Goto, TypeOK
<1>17. ASSUME NEW r \in Runs, RecordSent(r) PROVE NewsInv'
  <2>1. /\ pc[r] = "record" /\ pc'[r] = "idle" /\ \A q \in Runs \ {r} : pc'[q] = pc[q]
        /\ unlisted' = {} /\ announced' = announced \cup mail[r].news /\ delivered' = TRUE
        /\ UNCHANGED <<score, lineage>>
    BY <1>17 DEF RecordSent, Forget, TypeOK, NewsRun, Telling
  <2>2. NewsTables'
    BY <1>1, <2>1 DEF NewsTables, NewsRun
  <2> QED
    BY <1>2, <2>1, <2>2 DEF NewsRun, Telling
<1>18. ASSUME NEW p \in Postings, SetScoreOverride(p) PROVE NewsInv'
  <2>1. \A q \in Postings : FirstMatch(q)' <=> FirstMatch(q)
    BY <1>18, OverrideTells DEF LedgerInv, FirstMatch, JudgedOnce, SetScoreOverride
  <2>2. UNCHANGED <<unlisted, log, pc, run_date, telling, announced>>
    BY <1>18 DEF SetScoreOverride, history
  <2> QED
    BY <2>1, <2>2 DEF NewsTables, NewsRun, Telling, log, telling
<1>19. CASE Deploy
  BY <1>1, <1>3, <1>19 DEF Deploy, NewsRun, Telling, ledger, log, telling, history
<1>20. CASE NextDay
  <2>1. NewsTables'
    BY <1>3, <1>20 DEF NextDay, ledger
  <2>2. ASSUME NEW r \in Runs, pc[r] \in Telling PROVE run_date'[r] \notin run_log'
    BY <1>20, <2>2 DEF NextDay, NewsRun, Telling, Days
  <2>3. UNCHANGED <<pc, telling, unlisted, announced, delivered, score, lineage>>
    BY <1>20 DEF NextDay, ledger
  <2> QED
    BY <1>1, <2>1, <2>2, <2>3 DEF NewsRun, Telling, telling
<1>21. CASE UNCHANGED vars
  BY <1>1, <1>3, <1>21 DEF vars, NewsRun, Telling, ledger, log, telling, history
<1> QED
  BY <1>4, <1>5, <1>6, <1>7, <1>8, <1>9, <1>10, <1>11, <1>12, <1>13, <1>14, <1>15, <1>16,
     <1>17, <1>18, <1>19, <1>20, <1>21 DEF Next, Proceed, Judging, Notify

(* A date whose e-mail is neither recorded nor about to be has been mailed    *)
(* only by runs that died.                                                    *)
RepeatInv ==
  /\ RepeatOnlyAfterDeath
  /\ \A d \in Days :
       d \notin run_log /\ (\A r \in Runs : pc[r] = "record" => run_date[r] # d)
         => emails[d] <= crashes

LEMMA RepeatInvStep ==
  ASSUME ~Overlap, TypeOK, Alone, NewsInv, RepeatInv, [Next]_vars
  PROVE  RepeatInv'
<1> USE DEF RepeatInv, RepeatOnlyAfterDeath
<1>0. crashes \in Nat /\ emails \in [Days -> Nat]
  BY DEF TypeOK
<1>1. ASSUME UNCHANGED <<run_log, emails, crashes, run_date>>,
             \A q \in Runs : pc[q] = "record" => pc'[q] = "record"
      PROVE  RepeatInv'
  BY <1>1
<1>2. ASSUME NEW r \in Runs, pc[r] # "record",
             UNCHANGED <<run_log, emails>>, crashes' \in {crashes, crashes + 1},
             \A q \in Runs \ {r} : pc'[q] = pc[q] /\ run_date'[q] = run_date[q]
      PROVE  RepeatInv'
  BY <1>0, <1>2
<1>3. ASSUME NEW r \in Runs, NEW d \in Days, Start(r, d) PROVE RepeatInv'
  BY <1>2, <1>3 DEF Start, Goto, TypeOK, log, history
<1>4. ASSUME NEW r \in Runs, SyncProfile(r) \/ (Judging(r) /\ ~EndReassess(r)) PROVE RepeatInv'
  <2>1. UNCHANGED <<run_log, emails, crashes, run_date>>
    BY <1>4 DEF SyncProfile, Judging, Arrive, EndIngest, ReadGold, Judge, MarkScored,
       LeaveUnjudged, EndScore, ReadScored, Rejudge, log, history
  <2>2. \/ UNCHANGED pc
        \/ pc[r] # "record" /\ \E stage : pc' = [pc EXCEPT ![r] = stage]
    BY <1>4 DEF SyncProfile, Judging, Arrive, EndIngest, ReadGold, Judge, MarkScored,
       LeaveUnjudged, EndScore, ReadScored, Rejudge, Goto
  <2> QED
    BY <1>1, <1>2, <2>1, <2>2 DEF TypeOK
<1>5. ASSUME NEW r \in Runs, EndReassess(r) \/ SkipNotify(r) PROVE RepeatInv'
  BY <1>2, <1>5 DEF EndReassess, SkipNotify, Forget, TypeOK, log, history
<1>6. ASSUME NEW r \in Runs, BeginNotify(r) \/ ReadKnobs(r) \/ ReadSince(r) \/ ReadShortlist(r)
      PROVE  RepeatInv'
  BY <1>2, <1>6 DEF BeginNotify, ReadKnobs, ReadSince, ReadShortlist, Goto, TypeOK, log, history
<1>7. ASSUME NEW r \in Runs, Send(r) PROVE RepeatInv'
  <2>1. /\ pc[r] = "send" /\ run_date[r] \in Days /\ run_date[r] \notin run_log
        /\ \A q \in Runs : pc[q] # "record"
    BY <1>7 DEF Send, Goto, TypeOK, Alone, NewsInv, NewsRun, Telling
  <2>2. emails[run_date[r]] <= crashes
    BY <2>1
  <2>3. /\ emails' = [emails EXCEPT ![run_date[r]] = @ + 1]
        /\ UNCHANGED <<run_log, crashes, run_date>>
        /\ pc'[r] = "record"
    BY <1>7 DEF Send, Goto, TypeOK, log
  <2> QED
    BY <1>0, <2>1, <2>2, <2>3
<1>8. ASSUME NEW r \in Runs, RecordSent(r) PROVE RepeatInv'
  <2>1. /\ UNCHANGED <<emails, crashes>> /\ run_log' = run_log \cup {run_date[r]}
        /\ \A q \in Runs \ {r} : pc'[q] = pc[q] /\ run_date'[q] = run_date[q]
    BY <1>8 DEF RecordSent, Forget, TypeOK
  <2> QED
    BY <2>1
<1>9. ASSUME NEW r \in Runs, Crash(r) PROVE RepeatInv'
  <2>1. /\ UNCHANGED <<run_log, emails>> /\ crashes' = crashes + 1
    BY <1>9 DEF Crash, log, history
  <2> QED
    BY <1>0, <2>1
<1>10. CASE (\E p \in Postings : SetScoreOverride(p)) \/ Deploy \/ UNCHANGED vars
  BY <1>1, <1>10 DEF SetScoreOverride, Deploy, vars, log, history
<1>11. CASE NextDay
  <2>1. /\ pc' = pc /\ crashes' = crashes
        /\ emails'[0] = 0 /\ emails'[1] = emails[0]
        /\ 1 \in run_log' <=> 0 \in run_log
        /\ \A q \in Runs : pc[q] = "record" => run_date[q] = 0 /\ run_date'[q] = 1
    BY <1>11 DEF NextDay, Days, TypeOK
  <2>2. emails[0] <= 1 + crashes
    BY DEF Days
  <2>3. 1 \notin run_log' /\ (\A r \in Runs : pc'[r] = "record" => run_date'[r] # 1)
          => emails[0] <= crashes
    BY <2>1 DEF Days
  <2> QED
    BY <1>0, <2>1, <2>2, <2>3 DEF Days
<1> QED
  BY <1>3, <1>4, <1>5, <1>6, <1>7, <1>8, <1>9, <1>10, <1>11 DEF Next, Proceed, Notify

(***************************************************************************)
(* The badge.  The two newest events are the two newest judgements unless an  *)
(* override has been appended since.                                         *)
(***************************************************************************)

\* Two judgements with no override since the older one are the last two events.
LEMMA LastTwoEvents ==
  ASSUME TypeOK, NEW p \in Postings, NEW i \in Judgements(p), NEW j \in Judgements(p),
         NewestTwo(p, i, j), \A k \in Overrides(p) : k < j
  PROVE  ProfileChanged(p) <=> lineage[p][i].profile_hash # lineage[p][j].profile_hash
<1> DEFINE n == Len(lineage[p])
<1>1. lineage[p] \in Seq(Event) /\ n \in Nat
  BY LenProperties DEF TypeOK
<1>2. i \in 1..n /\ j \in 1..n /\ j < i
  BY DEF Judgements, NewestTwo
<1>3. \A k \in 1..n : k <= j \/ k = i
  BY <1>1, <1>2 DEF NewestTwo, Overrides, Judgements
<1>4. i = n /\ j = n - 1
  <2>1. n = i
    BY <1>1, <1>2, <1>3
  <2>2. n - 1 \in 1..n
    BY <1>1, <1>2
  <2> QED
    BY <1>1, <1>2, <1>3, <2>1, <2>2
<1>5. Len(Front(lineage[p])) = n - 1 /\ Front(lineage[p])[n - 1] = lineage[p][n - 1]
  <2>1. \A k \in 1..(n - 1) : lineage[p][k] \in Event
    BY <1>1, ElementOfSeq
  <2>2. 1 <= n - 1 /\ n - 1 \in Int
    BY <1>1, <1>2, <1>4
  <2>3. /\ Len(SubSeq(lineage[p], 1, n - 1)) = n - 1
        /\ \A k \in 1..(n - 1) : SubSeq(lineage[p], 1, n - 1)[k] = lineage[p][k]
    BY <2>1, <2>2, SubSeqProperties
  <2> QED
    BY <2>2, <2>3 DEF Front
<1> QED
  BY <1>2, <1>4, <1>5 DEF ProfileChanged, Last

LEMMA BadgeStep ==
  ASSUME ~Overlap, TypeOK, LedgerInv, Alone, BadgeTellsProfile, [Next]_vars
  PROVE  BadgeTellsProfile'
<1> USE DEF BadgeTellsProfile
<1>1. ASSUME UNCHANGED LedgerRead,
             \A r \in Runs : pc'[r] = "send" =>
               pc[r] = "send" /\ mail'[r] = mail[r] /\ bar'[r] = bar[r]
      PROVE  BadgeTellsProfile'
  <2>1. /\ UNCHANGED <<score, previous_score, lineage>>
        /\ \A p \in Postings, threshold \in Int :
             (Represents(p, threshold) /\ Crossed(p, threshold))'
               <=> Represents(p, threshold) /\ Crossed(p, threshold)
    BY <1>1 DEF LedgerRead, Represents, Before, Surfaced, Crossed
  <2>2. \A r \in Runs : mail[r].new \subseteq Postings /\ bar[r] \in Int
    BY DEF TypeOK, Mail
  <2> QED
    BY <1>1, <2>1, <2>2 DEF NewestTwo, Judgements, Overrides
<1>2. ASSUME NEW r \in Runs, NEW d \in Days, Start(r, d) PROVE BadgeTellsProfile'
  BY <1>1, <1>2 DEF Start, Goto, TypeOK, ledger, telling, LedgerRead
<1>3. ASSUME NEW r \in Runs, NEW p \in Postings, NEW s \in Scores,
             Judge(r, p, s) \/ Rejudge(r, p, s)
      PROVE  BadgeTellsProfile'
  <2>1. \A q \in Runs : pc'[q] # "send"
    BY <1>3 DEF Judge, Rejudge, Goto, TypeOK, Alone
  <2> QED
    BY <2>1
<1>4. ASSUME NEW r \in Runs,
             \/ SyncProfile(r)
             \/ \E p \in Postings : Arrive(r, p) \/ MarkScored(r, p)
             \/ \E deferred \in BOOLEAN :
                  EndIngest(r, deferred) \/ \E p \in Postings : LeaveUnjudged(r, p, deferred)
             \/ ReadGold(r) \/ ReadScored(r) \/ EndScore(r)
      PROVE  BadgeTellsProfile'
  <2>1. /\ UNCHANGED LedgerRead /\ UNCHANGED <<mail, bar>>
        /\ pc' = pc \/ \E stage \in Stage \ {"send"} : pc' = [pc EXCEPT ![r] = stage]
    BY <1>4 DEF SyncProfile, Arrive, MarkScored, EndIngest, LeaveUnjudged, ReadGold, ReadScored,
       EndScore, Goto, Stage, ledger, telling, LedgerRead
  <2> QED
    BY <1>1, <2>1 DEF TypeOK
<1>5. ASSUME NEW r \in Runs, EndReassess(r) \/ SkipNotify(r) \/ RecordSent(r) \/ Crash(r)
      PROVE  BadgeTellsProfile'
  BY <1>1, <1>5 DEF EndReassess, SkipNotify, RecordSent, Crash, Forget, TypeOK, ledger, LedgerRead
<1>6. ASSUME NEW r \in Runs, BeginNotify(r) \/ ReadKnobs(r) \/ ReadSince(r) \/ Send(r)
      PROVE  BadgeTellsProfile'
  BY <1>1, <1>6 DEF BeginNotify, ReadKnobs, ReadSince, Send, Goto, TypeOK, ledger, telling,
     LedgerRead
<1>7. ASSUME NEW r \in Runs, ReadShortlist(r) PROVE BadgeTellsProfile'
  <2>1. /\ \A q \in Runs \ {r} : pc'[q] # "send"
        /\ UNCHANGED LedgerRead /\ bar' = bar
        /\ mail'[r] = Digest(bar[r], first[r], fresh[r])
    BY <1>7 DEF ReadShortlist, Goto, TypeOK, Alone, ledger, LedgerRead
  <2>2. ASSUME NEW p \in mail'[r].new, Represents(p, bar[r]), Crossed(p, bar[r])
        PROVE  \E i, j \in Judgements(p) :
                 /\ NewestTwo(p, i, j)
                 /\ (\A k \in Overrides(p) : k < j)
                      => (p \in mail'[r].badges
                            <=> lineage[p][i].profile_hash # lineage[p][j].profile_hash)
    <3>1. p \in Postings
      BY <2>1, <2>2 DEF Digest, NewOnCards, Surfaced
    <3>2. PICK i \in Judgements(p), j \in Judgements(p) : NewestTwo(p, i, j)
      BY <2>2, <3>1 DEF Crossed, LedgerInv, LineageTells
    <3>3. p \in mail'[r].badges <=> ProfileChanged(p)
      BY <2>1, <2>2 DEF Digest, Graduated
    <3>4. (\A k \in Overrides(p) : k < j)
            => (p \in mail'[r].badges
                  <=> lineage[p][i].profile_hash # lineage[p][j].profile_hash)
      BY <3>1, <3>2, <3>3, LastTwoEvents
    <3> QED
      BY <3>2, <3>4
  <2>3. ASSUME NEW p \in mail'[r].new, ~(Represents(p, bar[r]) /\ Crossed(p, bar[r]))
        PROVE  p \notin mail'[r].badges
    BY <2>1, <2>3 DEF Digest, Graduated
  <2>4. UNCHANGED <<score, previous_score, lineage>>
    BY <2>1 DEF LedgerRead
  <2>5. mail'[r].new \subseteq Postings /\ bar[r] \in Int
    BY <2>1 DEF TypeOK, Digest, NewOnCards, Surfaced
  <2>6. \A p \in Postings :
          (Represents(p, bar[r]) /\ Crossed(p, bar[r]))'
            <=> Represents(p, bar[r]) /\ Crossed(p, bar[r])
    BY <2>1, <2>4 DEF Represents, Before, Surfaced, Crossed
  <2> QED
    BY <2>1, <2>2, <2>3, <2>4, <2>5, <2>6 DEF NewestTwo, Judgements, Overrides
<1>8. ASSUME NEW p \in Postings, SetScoreOverride(p) PROVE BadgeTellsProfile'
  <2> DEFINE e == [profile_hash |-> profile.profile_hash, scoring_model |-> "human-override"]
  <2>1. /\ e \in Event /\ e.scoring_model # "llm"
        /\ lineage'[p] = Append(lineage[p], e)
        /\ \A q \in Postings : q # p => lineage'[q] = lineage[q]
        /\ UNCHANGED <<score, previous_score, pc, telling>>
    BY <1>8 DEF SetScoreOverride, TypeOK, Event, Hashes
  <2> HIDE DEF e
  <2>2. /\ Judgements(p)' = Judgements(p)
        /\ Overrides(p) \subseteq Overrides(p)'
        /\ \A k \in Judgements(p) : lineage'[p][k] = lineage[p][k]
    BY <2>1, JudgementsOfAppend DEF Judgements
  <2>3. ASSUME NEW q \in Postings
        PROVE  /\ Judgements(q)' = Judgements(q) /\ Overrides(q) \subseteq Overrides(q)'
               /\ \A k \in Judgements(q) : lineage'[q][k] = lineage[q][k]
    BY <2>1, <2>2 DEF Judgements, Overrides
  <2>4. \A r \in Runs : mail[r].new \subseteq Postings
    BY DEF TypeOK, Mail
  <2>5. ASSUME NEW r \in Runs, pc[r] = "send", NEW q \in mail[r].new,
               Represents(q, bar[r]), Crossed(q, bar[r])
        PROVE  \E i, j \in Judgements(q)' :
                 /\ NewestTwo(q, i, j)'
                 /\ (\A k \in Overrides(q)' : k < j)
                      => (q \in mail[r].badges
                            <=> lineage'[q][i].profile_hash # lineage'[q][j].profile_hash)
    <3>1. PICK i \in Judgements(q), j \in Judgements(q) :
            /\ NewestTwo(q, i, j)
            /\ (\A k \in Overrides(q) : k < j)
                 => (q \in mail[r].badges
                       <=> lineage[q][i].profile_hash # lineage[q][j].profile_hash)
      BY <2>5
    <3>2. NewestTwo(q, i, j)'
      BY <2>3, <2>4, <3>1 DEF NewestTwo
    <3> QED
      BY <2>3, <2>4, <3>1, <3>2
  <2>6. ASSUME NEW r \in Runs, NEW q \in Postings
        PROVE  (Represents(q, bar[r]) /\ Crossed(q, bar[r]))'
                 <=> Represents(q, bar[r]) /\ Crossed(q, bar[r])
    BY <2>1 DEF Represents, Before, Surfaced, Crossed, telling
  <2>7. UNCHANGED <<pc, mail, bar>>
    BY <2>1 DEF telling
  <2> QED
    BY <2>4, <2>5, <2>6, <2>7
<1>9. CASE Deploy \/ NextDay \/ UNCHANGED vars
  BY <1>1, <1>9 DEF Deploy, NextDay, vars, ledger, telling, LedgerRead
<1> QED
  BY <1>2, <1>3, <1>4, <1>5, <1>6, <1>7, <1>8, <1>9 DEF Next, Proceed, Judging, Notify

(***************************************************************************)
(* While runs do not overlap.                                               *)
(***************************************************************************)
SerialInv == Alone /\ NewsInv /\ RepeatInv /\ BadgeTellsProfile

LEMMA SerialInvHolds ==
  ASSUME ~Overlap
  PROVE  Spec => []SerialInv
<1>1. Init => SerialInv
  <2> SUFFICES ASSUME Init PROVE SerialInv
    OBVIOUS
  <2>1. \A p \in Postings : ~FirstMatch(p)
    BY DEF Init, FirstMatch, JudgedOnce, Judgements
  <2>2. Alone /\ NewsInv /\ BadgeTellsProfile
    BY <2>1 DEF Init, Alone, NewsInv, NewsTables, NewsRun, Telling, BadgeTellsProfile
  <2>3. RepeatInv
    BY DEF Init, RepeatInv, RepeatOnlyAfterDeath
  <2> QED
    BY <2>2, <2>3 DEF SerialInv
<1>2. TypeOK /\ LedgerInv /\ SerialInv /\ [Next]_vars => SerialInv'
  BY AloneStep, NewsInvStep, RepeatInvStep, BadgeStep DEF SerialInv
<1> QED
  BY <1>1, <1>2, TypeCorrect, LedgerInvHolds, PTL DEF Spec

\* A match that was judged once, is above every bar and is older than the newest
\* recorded digest was news in a recorded digest, whatever dies.
THEOREM FirstMatchesAreNews ==
  ASSUME ~Overlap
  PROVE  Spec => []FirstMatchIsNews
<1>1. SerialInv => FirstMatchIsNews
  BY DEF SerialInv, NewsInv, NewsTables, FirstMatch, FirstMatchIsNews
<1> QED
  BY <1>1, SerialInvHolds, PTL

\* What a recorded digest announced is not news again before it is judged again.
THEOREM NewsIsAnnouncedOnce ==
  ASSUME ~Overlap
  PROVE  Spec => []AnnouncedOnce
<1>1. SerialInv => AnnouncedOnce
  BY DEF SerialInv, NewsInv, NewsRun, AnnouncedOnce
<1> QED
  BY <1>1, SerialInvHolds, PTL

\* An e-mail is repeated only for a run that died between sending and recording.
THEOREM RepeatsAreDeaths ==
  ASSUME ~Overlap
  PROVE  Spec => []RepeatOnlyAfterDeath
<1>1. SerialInv => RepeatOnlyAfterDeath
  BY DEF SerialInv, RepeatInv
<1> QED
  BY <1>1, SerialInvHolds, PTL

\* The badge of a card tells of a change of profile between the two newest judgements
\* of the posting that stands for it, unless an override has come since the older one
\* (repository_postgres.py:721-746); a repost behind that posting shows none
\* (notifier.py:117-144, 495-497, 556).
THEOREM BadgesTellProfiles ==
  ASSUME ~Overlap
  PROVE  Spec => []BadgeTellsProfile
<1>1. SerialInv => BadgeTellsProfile
  BY DEF SerialInv
<1> QED
  BY <1>1, SerialInvHolds, PTL

(***************************************************************************)
(* Runs that neither overlap nor die nor judge anything twice, under one     *)
(* configuration.                                                            *)
(***************************************************************************)
Undisturbed == ~Overlap /\ MaxCrashes = 0 /\ MaxDeploys = 0 /\ Modes = {"daily"}

OneConfig == profile = config /\ \A r \in Runs : run_config[r] = config

(* What is judged stays out of the work of later runs: it is marked, or is     *)
(* about to be.                                                               *)
JudgedAreMarked ==
  \A p \in Postings :
    /\ previous_score[p] = NoScore
    /\ Judged(p) => \/ status[p] = "scored"
                    \/ \E r \in Runs : pc[r] = "mark" /\ item[r] = {p}

WorkIsUnjudged(r) ==
  /\ pc[r] \notin {"resync", "targets", "rescore"}
  /\ pc[r] = "mark" => \E p \in Postings : item[r] = {p}
  /\ pc[r] \in {"score", "mark"} =>
       \A p \in work[r] : Judged(p) => pc[r] = "mark" /\ item[r] = {p}

OneJudgement == JudgedAreMarked /\ \A r \in Runs : WorkIsUnjudged(r)

(* What the reader is owed, and what a run that tells has made of it.          *)
owed == News(profile.threshold, ~delivered, unlisted)

ContractRun(r) ==
  /\ pc[r] \in Telling \ {"knobs"} => bar[r] = profile.threshold
  /\ pc[r] = "send" => mail[r].news = owed
  /\ pc[r] = "record" => letter = owed

(* What is above the bar has been shown, or was judged since the last digest.  *)
ListedTables == \A p \in Surfaced(profile.threshold) : p \notin unlisted => p \in listed

ListedRun(r) ==
  /\ pc[r] = "send" =>
       /\ mail[r].new \cup mail[r].still_open = Surfaced(bar[r])
       /\ mail[r].still_open \subseteq listed
  /\ pc[r] = "record" => Surfaced(bar[r]) \subseteq listed

ContractInv == ListedTables /\ \A r \in Runs : ContractRun(r) /\ ListedRun(r)

LEMMA NothingDisturbs ==
  ASSUME Undisturbed, TypeOK, [Next]_vars
  PROVE  /\ config' = config
         /\ ~Deploy /\ \A r \in Runs : ~Crash(r)
<1>1. deploys = 0 /\ crashes = 0
  BY DEF Undisturbed, TypeOK
<1>2. ~Deploy /\ \A r \in Runs : ~Crash(r)
  BY <1>1 DEF Undisturbed, Deploy, Crash
<1>3. ASSUME NEW r \in Runs, Proceed(r) PROVE config' = config
  BY <1>3 DEF Proceed, Start, SyncProfile, Judging, Arrive, EndIngest, ReadGold, Judge,
     MarkScored, LeaveUnjudged, EndScore, ReadScored, Rejudge, EndReassess, Notify, SkipNotify,
     BeginNotify, ReadKnobs, ReadSince, ReadShortlist, Send, RecordSent, settings
<1>4. ASSUME (\E p \in Postings : SetScoreOverride(p)) \/ NextDay \/ UNCHANGED vars
      PROVE  config' = config
  BY <1>4 DEF SetScoreOverride, NextDay, vars, settings
<1> QED
  BY <1>2, <1>3, <1>4 DEF Next

LEMMA OneConfigStep ==
  ASSUME Undisturbed, TypeOK, OneConfig, [Next]_vars
  PROVE  OneConfig'
<1> USE DEF OneConfig, TypeOK
<1>1. config' = config /\ ~Deploy /\ \A r \in Runs : ~Crash(r)
  BY NothingDisturbs
<1>2. ASSUME NEW r \in Runs, NEW d \in Days, Start(r, d) PROVE OneConfig'
  BY <1>1, <1>2 DEF Start, settings
<1>3. ASSUME NEW r \in Runs, SyncProfile(r) PROVE OneConfig'
  BY <1>1, <1>3 DEF SyncProfile
<1>4. ASSUME NEW r \in Runs, Judging(r) \/ Notify(r) PROVE OneConfig'
  BY <1>1, <1>4 DEF Judging, Arrive, EndIngest, ReadGold, Judge,
     MarkScored, LeaveUnjudged, EndScore, ReadScored, Rejudge, EndReassess, Notify, SkipNotify,
     BeginNotify, ReadKnobs, ReadSince, ReadShortlist, Send, RecordSent, settings, Forget
<1>5. CASE (\E p \in Postings : SetScoreOverride(p)) \/ NextDay \/ UNCHANGED vars
  BY <1>1, <1>5 DEF SetScoreOverride, NextDay, vars, settings
<1> QED
  BY <1>1, <1>2, <1>3, <1>4, <1>5 DEF Next, Proceed

LEMMA OneJudgementStep ==
  ASSUME Undisturbed, TypeOK, Alone, OneJudgement, [Next]_vars
  PROVE  OneJudgement'
<1> USE DEF OneJudgement
<1>0. \A r \in Runs : ~Crash(r)
  BY NothingDisturbs
<1>1. ASSUME UNCHANGED <<score, previous_score, status, work, item>>,
             \A r \in Runs : /\ pc[r] = "mark" <=> pc'[r] = "mark"
                             /\ pc'[r] = "score" => pc[r] = "score"
                             /\ pc'[r] \notin {"resync", "targets", "rescore"}
      PROVE  OneJudgement'
  BY <1>1 DEF JudgedAreMarked, WorkIsUnjudged, Judged
<1>2. ASSUME NEW r \in Runs, pc[r] \notin {"idle", "mark"}, Forget(r),
             UNCHANGED <<score, previous_score, status>>
      PROVE  OneJudgement'
  BY <1>2 DEF JudgedAreMarked, WorkIsUnjudged, Judged, Forget, TypeOK
<1>3. ASSUME NEW r \in Runs, NEW d \in Days, Start(r, d) PROVE OneJudgement'
  <2>1. pc[r] = "idle" /\ pc' = [pc EXCEPT ![r] = "sync"]
    BY <1>3 DEF Start, Goto, Undisturbed
  <2> QED
    BY <1>1, <1>3, <2>1 DEF Start, TypeOK, WorkIsUnjudged, ledger, judging
<1>4. ASSUME NEW r \in Runs, SyncProfile(r) PROVE OneJudgement'
  <2>1. pc[r] = "sync" /\ pc' = [pc EXCEPT ![r] = "ingest"]
    BY <1>4 DEF SyncProfile, Goto, WorkIsUnjudged
  <2> QED
    BY <1>1, <1>4, <2>1 DEF SyncProfile, TypeOK, WorkIsUnjudged, ledger, judging
<1>5. ASSUME NEW r \in Runs, NEW p \in Postings, Arrive(r, p) PROVE OneJudgement'
  BY <1>5 DEF Arrive, TypeOK, JudgedAreMarked, WorkIsUnjudged, Judged, judging
<1>6. ASSUME NEW r \in Runs, \E deferred \in BOOLEAN : EndIngest(r, deferred)
      PROVE  OneJudgement'
  BY <1>1, <1>6 DEF EndIngest, Goto, TypeOK, WorkIsUnjudged, ledger
<1>7. ASSUME NEW r \in Runs, ReadGold(r) PROVE OneJudgement'
  <2>1. /\ pc[r] = "gold" /\ pc' = [pc EXCEPT ![r] = "score"]
        /\ work' = [work EXCEPT ![r] = {p \in Postings : status[p] = "gold_candidate"}]
        /\ UNCHANGED <<score, previous_score, status, item>>
    BY <1>7 DEF ReadGold, Goto, ledger
  <2>2. \A q \in Runs : pc[q] # "mark"
    BY <2>1 DEF Alone
  <2>3. \A p \in Postings : Judged(p) => status[p] = "scored"
    BY <2>2 DEF JudgedAreMarked
  <2> QED
    BY <2>1, <2>2, <2>3 DEF JudgedAreMarked, WorkIsUnjudged, Judged, TypeOK
<1>8. ASSUME NEW r \in Runs, NEW p \in Postings, NEW s \in Scores, Judge(r, p, s)
      PROVE  OneJudgement'
  <2>1. /\ pc[r] = "score" /\ pc' = [pc EXCEPT ![r] = "mark"]
        /\ p \in work[r] /\ item' = [item EXCEPT ![r] = {p}]
        /\ score' = [score EXCEPT ![p] = s]
        /\ previous_score' = [previous_score EXCEPT ![p] = score[p]]
        /\ UNCHANGED <<status, work>>
    BY <1>8 DEF Judge, SaveScore, Goto
  <2>2. \A q \in Runs : pc[q] # "mark"
    BY <2>1 DEF Alone
  <2>3. \A q \in work[r] : ~Judged(q)
    BY <2>1 DEF WorkIsUnjudged
  <2>4. score[p] = NoScore
    BY <2>1, <2>3 DEF Judged
  <2>5. \A q \in Postings : q # p => (Judged(q)' <=> Judged(q))
    BY <2>1 DEF Judged, TypeOK
  <2>6. JudgedAreMarked'
    <3>1. pc'[r] = "mark" /\ item'[r] = {p}
      BY <2>1 DEF TypeOK
    <3>2. \A q \in Postings : q # p /\ Judged(q) => status[q] = "scored"
      BY <2>2 DEF JudgedAreMarked
    <3>3. \A q \in Postings : previous_score'[q] = NoScore
      BY <2>1, <2>4 DEF JudgedAreMarked, TypeOK
    <3> QED
      BY <2>1, <2>5, <3>1, <3>2, <3>3 DEF JudgedAreMarked
  <2>7. ASSUME NEW q \in Runs PROVE WorkIsUnjudged(q)'
    <3>1. CASE q = r
      BY <2>1, <2>3, <2>5, <3>1 DEF WorkIsUnjudged, TypeOK
    <3>2. CASE q # r
      BY <2>1, <3>2 DEF WorkIsUnjudged, TypeOK, Alone
    <3> QED
      BY <3>1, <3>2
  <2> QED
    BY <2>6, <2>7
<1>9. ASSUME NEW r \in Runs, NEW p \in Postings, MarkScored(r, p) PROVE OneJudgement'
  <2>1. /\ pc[r] = "mark" /\ pc' = [pc EXCEPT ![r] = "score"]
        /\ p \in item[r] /\ item' = [item EXCEPT ![r] = {}]
        /\ status' = [status EXCEPT ![p] = "scored"]
        /\ work' = [work EXCEPT ![r] = @ \ {p}]
        /\ UNCHANGED <<score, previous_score>>
    BY <1>9 DEF MarkScored, Goto, Done
  <2>2. item[r] = {p} /\ \A q \in Runs \ {r} : pc[q] # "mark"
    BY <2>1 DEF WorkIsUnjudged, Alone
  <2>3. JudgedAreMarked'
    <3>1. ASSUME NEW q \in Postings, Judged(q) PROVE status[q] = "scored" \/ q = p
      <4>1. CASE \E t \in Runs : pc[t] = "mark" /\ item[t] = {q}
        BY <2>2, <4>1
      <4> QED
        BY <3>1, <4>1 DEF JudgedAreMarked
    <3>2. \A q \in Postings : Judged(q) => status'[q] = "scored"
      BY <2>1, <3>1 DEF TypeOK
    <3> QED
      BY <2>1, <3>2 DEF JudgedAreMarked, Judged
  <2>4. ASSUME NEW q \in Runs PROVE WorkIsUnjudged(q)'
    <3>1. CASE q = r
      <4>1. \A x \in work'[r] : x \in work[r] /\ x # p
        BY <2>1 DEF TypeOK
      <4>2. \A x \in work'[r] : ~Judged(x)
        BY <2>1, <2>2, <4>1 DEF WorkIsUnjudged
      <4> QED
        BY <2>1, <3>1, <4>2 DEF WorkIsUnjudged, Judged, TypeOK
    <3>2. CASE q # r
      BY <2>1, <2>2, <3>2 DEF WorkIsUnjudged, Judged, TypeOK
    <3> QED
      BY <3>1, <3>2
  <2> QED
    BY <2>3, <2>4
<1>10. ASSUME NEW r \in Runs, NEW p \in Postings, NEW deferred \in BOOLEAN,
              LeaveUnjudged(r, p, deferred)
       PROVE  OneJudgement'
  BY <1>10 DEF LeaveUnjudged, Done, JudgedAreMarked, WorkIsUnjudged, Judged, TypeOK, ledger
<1>11. ASSUME NEW r \in Runs, EndScore(r) PROVE OneJudgement'
  BY <1>1, <1>11 DEF EndScore, Goto, TypeOK, WorkIsUnjudged, ledger, judging
<1>12. ASSUME NEW r \in Runs PROVE ~ReadScored(r) /\ ~EndReassess(r)
                               /\ \A p \in Postings, s \in Scores : ~Rejudge(r, p, s)
  BY DEF ReadScored, EndReassess, Rejudge, Goto, WorkIsUnjudged
<1>13. ASSUME NEW r \in Runs, SkipNotify(r) \/ RecordSent(r) PROVE OneJudgement'
  BY <1>2, <1>13 DEF SkipNotify, RecordSent, ledger
<1>14. ASSUME NEW r \in Runs,
              BeginNotify(r) \/ ReadKnobs(r) \/ ReadSince(r) \/ ReadShortlist(r) \/ Send(r)
       PROVE  OneJudgement'
  BY <1>1, <1>14 DEF BeginNotify, ReadKnobs, ReadSince, ReadShortlist, Send, Goto, TypeOK,
     WorkIsUnjudged, ledger, judging
<1>15. CASE \/ \E p \in Postings : SetScoreOverride(p)
            \/ Deploy \/ NextDay \/ UNCHANGED vars
  BY <1>1, <1>15 DEF SetScoreOverride, Deploy, NextDay, vars, WorkIsUnjudged, ledger, judging
<1> QED
  BY <1>0, <1>3, <1>4, <1>5, <1>6, <1>7, <1>8, <1>9, <1>10, <1>11, <1>12, <1>13, <1>14, <1>15
     DEF Next, Proceed, Judging, Notify

\* What is owed follows from the tables alone: nothing has a previous score.
LEMMA OwedStays ==
  ASSUME JudgedAreMarked, JudgedAreMarked', profile' = profile,
         UNCHANGED <<score, unlisted, delivered>>
  PROVE  owed' = owed
  BY DEF owed, News, Surfaced, Crossed, Graduated, JudgedAreMarked

LEMMA ContractInvStep ==
  ASSUME Undisturbed, TypeOK, Alone, NewsInv, OneConfig, OneConfig', OneJudgement,
         OneJudgement', ContractInv, [Next]_vars
  PROVE  ContractInv'
<1> USE DEF ContractInv
<1>0. profile' = profile /\ \A r \in Runs : ~Crash(r)
  BY NothingDisturbs DEF OneConfig
<1>1. ASSUME UNCHANGED <<score, unlisted, delivered>>
      PROVE  owed' = owed
  BY <1>0, <1>1, OwedStays DEF OneJudgement
<1>2. ASSUME UNCHANGED <<score, unlisted, delivered, listed, letter>>, UNCHANGED telling,
             \A r \in Runs : pc'[r] \in Telling \ {"knobs"} => pc'[r] = pc[r]
      PROVE  ContractInv'
  BY <1>0, <1>1, <1>2 DEF ListedTables, ContractRun, ListedRun, Telling, Surfaced, telling
<1>3. ASSUME NEW r \in Runs, pc[r] # "idle", UNCHANGED <<score, unlisted, delivered, listed, letter>>,
             pc'[r] \notin Telling \ {"knobs"}, \A q \in Runs \ {r} : pc'[q] = pc[q]
      PROVE  ContractInv'
  BY <1>0, <1>3 DEF ListedTables, ContractRun, ListedRun, Telling, Surfaced, Alone
<1>4. ASSUME NEW r \in Runs, NEW d \in Days, Start(r, d) PROVE ContractInv'
  BY <1>2, <1>4 DEF Start, Goto, TypeOK, Telling, ledger, log, history
<1>5. ASSUME NEW r \in Runs, SyncProfile(r) PROVE ContractInv'
  BY <1>3, <1>5 DEF SyncProfile, Goto, TypeOK, Telling, ledger, log, history
<1>6. ASSUME NEW r \in Runs, Judging(r), \A p \in Postings, s \in Scores : ~Judge(r, p, s) /\ ~Rejudge(r, p, s)
      PROVE  ContractInv'
  <2>1. /\ UNCHANGED <<score, unlisted, delivered, listed, letter>>
        /\ pc[r] \notin Telling \cup {"idle"}
        /\ pc' = pc \/ \E stage \in Stage \ {"since", "shortlist", "send", "record"} :
                         pc' = [pc EXCEPT ![r] = stage]
    BY <1>6 DEF Judging, Arrive, EndIngest, ReadGold, MarkScored, LeaveUnjudged, EndScore,
       ReadScored, EndReassess, Forget, Goto, Stage, Telling, ledger, log, history
  <2> QED
    BY <1>3, <2>1 DEF TypeOK, Telling
<1>7. ASSUME NEW r \in Runs, NEW p \in Postings, NEW s \in Scores, Judge(r, p, s)
      PROVE  ContractInv'
  <2>1. /\ pc[r] = "score" /\ pc' = [pc EXCEPT ![r] = "mark"]
        /\ score' = [score EXCEPT ![p] = s]
        /\ unlisted' = unlisted \cup {p}
        /\ listed' = listed
    BY <1>7 DEF Judge, SaveScore, Goto
  <2>2. ListedTables'
    BY <1>0, <2>1 DEF ListedTables, Surfaced, TypeOK
  <2>3. \A q \in Runs : pc'[q] \notin Telling
    BY <2>1 DEF Alone, Telling, TypeOK
  <2> QED
    BY <2>2, <2>3 DEF ContractRun, ListedRun, Telling
<1>8. ASSUME NEW r \in Runs, NEW p \in Postings, NEW s \in Scores PROVE ~Rejudge(r, p, s)
  BY DEF Rejudge, OneJudgement, WorkIsUnjudged
<1>9. ASSUME NEW r \in Runs, SkipNotify(r) \/ BeginNotify(r) PROVE ContractInv'
  BY <1>3, <1>9 DEF SkipNotify, BeginNotify, Forget, Goto, TypeOK, Telling, ledger, log, history
<1>10. ASSUME NEW r \in Runs, pc[r] # "idle", UNCHANGED ledger, UNCHANGED log,
              \A q \in Runs \ {r} : pc'[q] = pc[q],
              ListedTables', ContractRun(r)', ListedRun(r)'
       PROVE  ContractInv'
  BY <1>10 DEF ContractRun, ListedRun, Telling, Alone
<1>11. ASSUME NEW r \in Runs, ReadKnobs(r) \/ ReadSince(r) PROVE ContractInv'
  <2>1. /\ UNCHANGED ledger /\ UNCHANGED log /\ UNCHANGED history
        /\ bar'[r] = profile'.threshold
        /\ pc[r] # "idle" /\ pc'[r] \in {"since", "shortlist"}
        /\ \A q \in Runs \ {r} : pc'[q] = pc[q]
    BY <1>0, <1>11 DEF ReadKnobs, ReadSince, Goto, TypeOK, ContractRun, Telling
  <2>2. ListedTables'
    BY <1>0, <2>1 DEF ListedTables, Surfaced, ledger, history
  <2> QED
    BY <1>10, <2>1, <2>2 DEF ContractRun, ListedRun, Telling
<1>12. ASSUME NEW r \in Runs, ReadShortlist(r) PROVE ContractInv'
  <2>1. /\ pc[r] = "shortlist" /\ pc'[r] = "send"
        /\ \A q \in Runs \ {r} : pc'[q] = pc[q]
        /\ mail'[r] = Digest(bar[r], first[r], fresh[r])
        /\ UNCHANGED ledger /\ UNCHANGED log /\ UNCHANGED history /\ bar' = bar
    BY <1>12 DEF ReadShortlist, Goto, TypeOK
  <2>2. bar[r] = profile.threshold /\ first[r] = ~delivered /\ fresh[r] = unlisted
    BY <2>1 DEF ContractRun, NewsInv, NewsRun, Telling
  <2>3. owed' = owed
    BY <1>1, <2>1 DEF ledger, log
  <2>4. mail'[r].news = owed
    BY <2>1, <2>2 DEF Digest, owed
  <2>5. ListedTables'
    BY <1>0, <2>1 DEF ListedTables, Surfaced, ledger, history
  <2>6. /\ mail'[r].new \subseteq Surfaced(bar[r])
        /\ mail'[r].still_open = Surfaced(bar[r]) \ mail'[r].new
        /\ owed \subseteq mail'[r].new
    BY <2>1, <2>4 DEF Digest, News, NewOnCards
  <2>7. ASSUME NEW p \in mail'[r].still_open PROVE p \in listed
    <3>1. p \in Surfaced(profile.threshold) /\ p \notin owed
      BY <2>2, <2>6
    <3>2. delivered /\ p \notin unlisted
      BY <3>1 DEF owed, News, Surfaced, OneJudgement, JudgedAreMarked
    <3> QED
      BY <3>1, <3>2 DEF ListedTables
  <2>8. Surfaced(bar[r])' = Surfaced(bar[r])
    BY <2>1 DEF Surfaced, ledger
  <2>9. ContractRun(r)' /\ ListedRun(r)'
    BY <1>0, <2>1, <2>2, <2>3, <2>4, <2>6, <2>7, <2>8 DEF ContractRun, ListedRun, history
  <2> QED
    BY <1>10, <2>1, <2>5, <2>9
<1>13. ASSUME NEW r \in Runs, Send(r) PROVE ContractInv'
  <2>1. /\ pc[r] = "send" /\ pc'[r] = "record"
        /\ \A q \in Runs \ {r} : pc'[q] = pc[q]
        /\ listed' = listed \cup mail[r].new \cup mail[r].still_open
        /\ letter' = mail[r].news
        /\ UNCHANGED ledger /\ UNCHANGED log /\ bar' = bar
    BY <1>13 DEF Send, Goto, TypeOK, telling
  <2>2. owed' = owed
    BY <1>1, <2>1 DEF ledger, log
  <2>3. ListedTables'
    BY <1>0, <2>1 DEF ListedTables, Surfaced, ledger
  <2>4. Surfaced(bar[r])' = Surfaced(bar[r])
    BY <2>1 DEF Surfaced, ledger
  <2>5. ContractRun(r)' /\ ListedRun(r)'
    BY <1>0, <2>1, <2>2, <2>4 DEF ContractRun, ListedRun, Telling
  <2> QED
    BY <1>10, <2>1, <2>3, <2>5
<1>14. ASSUME NEW r \in Runs, RecordSent(r) PROVE ContractInv'
  <2>1. /\ pc[r] = "record" /\ pc'[r] = "idle" /\ \A q \in Runs \ {r} : pc'[q] = pc[q]
        /\ UNCHANGED <<score, listed>>
    BY <1>14 DEF RecordSent, Forget, TypeOK
  <2>2. Surfaced(profile.threshold) \subseteq listed
    BY <2>1 DEF ContractRun, ListedRun, Telling
  <2>3. ListedTables'
    BY <1>0, <2>1, <2>2 DEF ListedTables, Surfaced
  <2> QED
    BY <2>1, <2>3 DEF ContractRun, ListedRun, Telling, Alone
<1>15. CASE (\E p \in Postings : SetScoreOverride(p)) \/ Deploy \/ NextDay \/ UNCHANGED vars
  BY <1>2, <1>15 DEF SetScoreOverride, Deploy, NextDay, vars, ledger, log, history
<1>16. ASSUME NEW r \in Runs, Judging(r) \/ Notify(r) PROVE ContractInv'
  BY <1>6, <1>7, <1>8, <1>9, <1>11, <1>12, <1>13, <1>14, <1>16 DEF Notify
<1> QED
  BY <1>0, <1>4, <1>5, <1>15, <1>16 DEF Next, Proceed

(***************************************************************************)
(* The steps of the contract.  A judgement puts a posting in debt if it is   *)
(* above the bar, the e-mail carries the debt, the run_log row strikes it.   *)
(***************************************************************************)
ContractStep == [Contract!Next]_<<owed, letter>>

LEMMA ContractStepHolds ==
  ASSUME Undisturbed, TypeOK, Alone, NewsInv, OneConfig, OneConfig', OneJudgement,
         OneJudgement', ContractInv, [Next]_vars
  PROVE  ContractStep
<1>0. profile' = profile /\ \A r \in Runs : ~Crash(r)
  BY NothingDisturbs DEF OneConfig
<1>1. ASSUME UNCHANGED <<score, unlisted, delivered, letter>>
      PROVE  ContractStep
  BY <1>0, <1>1, OwedStays DEF OneJudgement, ContractStep
<1>2. ASSUME NEW r \in Runs, NEW p \in Postings, NEW s \in Scores, Judge(r, p, s)
      PROVE  ContractStep
  <2>1. /\ pc[r] = "score" /\ p \in work[r] /\ work[r] \subseteq Postings
        /\ score' = [score EXCEPT ![p] = s]
        /\ unlisted' = unlisted \cup {p}
        /\ UNCHANGED <<delivered, letter>>
    BY <1>2 DEF Judge, SaveScore, Goto, TypeOK, log
  <2>2. score[p] = NoScore
    BY <2>1 DEF OneJudgement, WorkIsUnjudged, Judged
  <2>3. p \notin owed
    BY <2>2 DEF owed, News, Surfaced
  <2>4. \A q \in Postings : previous_score[q] = NoScore /\ previous_score'[q] = NoScore
    BY DEF OneJudgement, JudgedAreMarked
  <2>5. \A q \in Postings : q # p => (q \in owed' <=> q \in owed)
    BY <1>0, <2>1, <2>4 DEF owed, News, Surfaced, TypeOK
  <2>6. owed \subseteq Postings /\ owed' \subseteq Postings
    BY DEF owed, News, Surfaced
  <2>7. owed' = owed \/ owed' = owed \cup {p}
    BY <2>3, <2>5, <2>6
  <2> QED
    BY <2>1, <2>3, <2>7 DEF ContractStep, Contract!Next, Contract!Owe, owed
<1>3. ASSUME NEW r \in Runs, Send(r) PROVE ContractStep
  <2>1. letter' = owed /\ UNCHANGED <<score, unlisted, delivered>>
    BY <1>3 DEF Send, Goto, ContractInv, ContractRun, ledger, log
  <2>2. owed' = owed
    BY <1>0, <2>1, OwedStays DEF OneJudgement
  <2> QED
    BY <2>1, <2>2 DEF ContractStep, Contract!Next, Contract!Write, owed
<1>4. ASSUME NEW r \in Runs, RecordSent(r) PROVE ContractStep
  <2>1. letter = owed /\ letter' = letter
    BY <1>4 DEF RecordSent, ContractInv, ContractRun
  <2>2. unlisted' = {} /\ delivered' = TRUE
    BY <1>4 DEF RecordSent, NewsInv, NewsRun, Telling
  <2>3. owed' = {}
    BY <2>2 DEF owed, News
  <2> QED
    BY <2>1, <2>3 DEF ContractStep, Contract!Next, Contract!Settle, owed
<1>5. ASSUME NEW r \in Runs, Judging(r), \A p \in Postings, s \in Scores : ~Judge(r, p, s)
      PROVE  ContractStep
  <2>1. \A p \in Postings, s \in Scores : ~Rejudge(r, p, s)
    BY DEF Rejudge, OneJudgement, WorkIsUnjudged
  <2> QED
    BY <1>1, <1>5, <2>1 DEF Judging, Arrive, EndIngest, ReadGold, MarkScored, LeaveUnjudged,
       EndScore, ReadScored, EndReassess, ledger, log, history
<1>6. ASSUME NEW r \in Runs,
             \/ \E d \in Days : Start(r, d)
             \/ SyncProfile(r) \/ SkipNotify(r) \/ BeginNotify(r) \/ ReadKnobs(r)
             \/ ReadSince(r) \/ ReadShortlist(r)
      PROVE  ContractStep
  BY <1>1, <1>6 DEF Start, SyncProfile, SkipNotify, BeginNotify, ReadKnobs, ReadSince,
     ReadShortlist, ledger, log, history
<1>7. CASE (\E p \in Postings : SetScoreOverride(p)) \/ Deploy \/ NextDay \/ UNCHANGED vars
  BY <1>1, <1>7 DEF SetScoreOverride, Deploy, NextDay, vars, ledger, log, history
<1> QED
  BY <1>0, <1>2, <1>3, <1>4, <1>5, <1>6, <1>7 DEF Next, Proceed, Notify

UndisturbedInv == OneConfig /\ OneJudgement /\ ContractInv

LEMMA UndisturbedInvHolds ==
  ASSUME Undisturbed
  PROVE  Spec => []UndisturbedInv
<1>1. Init => UndisturbedInv
  BY DEF Init, UndisturbedInv, OneConfig, OneJudgement, JudgedAreMarked, WorkIsUnjudged, Judged,
     ContractInv, ListedTables, ContractRun, ListedRun, Telling, Surfaced
<1>2. TypeOK /\ SerialInv /\ UndisturbedInv /\ [Next]_vars => UndisturbedInv'
  BY OneConfigStep, OneJudgementStep, ContractInvStep DEF UndisturbedInv, SerialInv
<1>3. ~Overlap
  BY DEF Undisturbed
<1> QED
  BY <1>1, <1>2, <1>3, TypeCorrect, SerialInvHolds, PTL DEF Spec

\* While nothing disturbs the runs, a card of the still-open section has been shown by an
\* earlier e-mail (notifier.py:627).
THEOREM StillOpenCardsWereListed ==
  ASSUME Undisturbed
  PROVE  Spec => []StillOpenWasListed
<1>1. TypeOK /\ UndisturbedInv => StillOpenWasListed
  BY DEF UndisturbedInv, ContractInv, ListedRun, StillOpenWasListed, TypeOK
<1> QED
  BY <1>1, TypeCorrect, UndisturbedInvHolds, PTL

\* While nothing disturbs the runs, the digest implements the delivery contract: each
\* e-mail carries exactly the news the reader is owed, and a debt is struck off only by
\* the run_log row of an e-mail that carried it.
THEOREM DigestImplementsContract ==
  ASSUME Undisturbed
  PROVE  Spec => KeepsContract
<1>1. Init => Contract!Init
  BY DEF Init, Contract!Init, News, Surfaced
<1>2. TypeOK /\ SerialInv /\ UndisturbedInv /\ UndisturbedInv' /\ [Next]_vars
        => [Contract!Next]_<<owed, letter>>
  BY ContractStepHolds DEF UndisturbedInv, SerialInv, ContractStep
<1>3. ~Overlap
  BY DEF Undisturbed
<1>4. KeepsContract <=> Contract!Init /\ [][Contract!Next]_<<owed, letter>>
  BY DEF KeepsContract, Contract!Spec, owed
<1> QED
  BY <1>1, <1>2, <1>3, <1>4, TypeCorrect, SerialInvHolds, UndisturbedInvHolds, PTL DEF Spec
===============================================================================
