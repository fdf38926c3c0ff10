------------------------------- MODULE Digest -------------------------------
(***************************************************************************)
(* From judgements to the reader's inbox: the score rows and their lineage, *)
(* the runs that judge, the split of the shortlist into news and "still     *)
(* open", the e-mail, and the run_log that makes it go out once per date.   *)
(*                                                                          *)
(* Every repository method is one step.  A run that dies leaves the tables  *)
(* as they are.  Time appears in two places only: the run date, kept as its *)
(* age in days, and scored_at > since, kept as the set of postings that     *)
(* were judged after the instant a reader's `since` stands for.             *)
(***************************************************************************)
EXTENDS Integers, Sequences, SequencesExt, FiniteSets

CONSTANTS
  Postings,       (* the postings that reach gold; also their clusters       *)
  Fingerprint,    (* the repost fingerprint of a posting                     *)
  Id,             (* posting_id, by its place in the order of the ids        *)
  Runs,           (* invocations of the Lambda that may be in flight at once *)
  Modes,          (* the run modes that are invoked: daily, reassess         *)
  Scores,         (* the scores a judgement may carry                        *)
  NoScore,        (* SQL NULL in score.previous_score; no score row          *)
  Configs,        (* deployable configurations: a profile hash and a bar     *)
  Overlap,        (* may a run start while another is in flight?             *)
  MaxJudgements,  (* bound: model judgements of each posting                 *)
  MaxOverrides,   (* bound: human overrides of each posting                  *)
  MaxDeploys,     (* bound: changes of the deployed configuration            *)
  MaxCrashes      (* bound: runs that die part-way                           *)

ASSUME FingerprintAssumption == DOMAIN Fingerprint = Postings
ASSUME IdAssumption          == /\ Id \in [Postings -> Int]
                                /\ \A p, q \in Postings : Id[p] = Id[q] => p = q
ASSUME ScoresAssumption      == Scores \subseteq Int /\ NoScore \notin Scores
ASSUME ConfigsAssumption     == \A c \in Configs : c.threshold \in Int
ASSUME BoundsAssumption      == /\ Overlap \in BOOLEAN
                                /\ {MaxJudgements, MaxOverrides} \subseteq [Postings -> Nat]
                                /\ {MaxDeploys, MaxCrashes} \subseteq Nat

VARIABLES
  config,          (* the configuration packaged with the Lambda             *)
  profile,         (* the profile row: the configuration of the last sync    *)
  status,          (* posting.status, from gold_candidate on                 *)
  score,           (* score.score, NoScore while there is no row             *)
  previous_score,  (* score.previous_score                                   *)
  lineage,         (* score_event: who wrote it, under which profile hash    *)
  unlisted,        (* postings scored after the newest run_log row           *)
  run_log,         (* the dates that have a row, by age: today 0, yesterday 1 *)
  delivered,       (* has run_log ever had a row?                            *)
  pc,              (* the stage a run is in, "idle" when it is not running   *)
  run_date,        (* the age of a run's date                                *)
  run_config,      (* the configuration a run was started with               *)
  work,            (* the postings a run has still to judge                  *)
  item,            (* the posting a run has judged and not yet marked        *)
  old_score,       (* the scores a reassess run read when it began           *)
  partial,         (* has the deadline deferred any of a run's work?         *)
  bar,             (* the threshold a run's notify works with                *)
  first,           (* did a run read that no digest was ever sent?           *)
  fresh,           (* postings scored after the `since` a run read           *)
  mail,            (* the digest a run has rendered                          *)
  emails,          (* history: the e-mails sent for each date, by age        *)
  listed,          (* history: the postings any e-mail has shown             *)
  announced,       (* history: shown as news by a recorded digest and not    *)
                   (* judged again since                                     *)
  letter,          (* history: the news of the latest e-mail                 *)
  deploys, crashes

settings == <<config, profile, deploys>>
ledger   == <<status, score, previous_score, lineage, unlisted>>
log      == <<run_log, delivered>>
judging  == <<work, item, old_score, partial>>
telling  == <<bar, first, fresh, mail>>
history  == <<emails, listed, announced, letter>>
vars     == <<settings, ledger, log, pc, run_date, run_config, judging, telling,
              history, crashes>>

Days  == {0, 1}
Mail  == [news : SUBSET Postings, new : SUBSET Postings, still_open : SUBSET Postings,
          badges : SUBSET Postings]
Blank == [news |-> {}, new |-> {}, still_open |-> {}, badges |-> {}]
Stage == {"idle", "sync", "resync", "ingest", "gold", "score", "mark", "targets", "rescore",
          "check", "knobs", "since", "shortlist", "send", "record"}
Hashes == {c.profile_hash : c \in Configs}
Event == [profile_hash : Hashes, scoring_model : {"llm", "human-override"}]
Row   == Scores \cup {NoScore}

TypeOK ==
  /\ config \in Configs /\ profile \in Configs
  /\ status \in [Postings -> {"absent", "gold_candidate", "scored"}]
  /\ score \in [Postings -> Row] /\ previous_score \in [Postings -> Row]
  /\ lineage \in [Postings -> Seq(Event)]
  /\ unlisted \subseteq Postings
  /\ run_log \subseteq Days /\ delivered \in BOOLEAN
  /\ pc \in [Runs -> Stage]
  /\ run_date \in [Runs -> Days] /\ run_config \in [Runs -> Configs]
  /\ work \in [Runs -> SUBSET Postings] /\ item \in [Runs -> SUBSET Postings]
  /\ old_score \in [Runs -> [Postings -> Row]]
  /\ partial \in [Runs -> BOOLEAN]
  /\ bar \in [Runs -> Int] /\ first \in [Runs -> BOOLEAN]
  /\ fresh \in [Runs -> SUBSET Postings]
  /\ mail \in [Runs -> Mail]
  /\ emails \in [Days -> Nat]
  /\ listed \subseteq Postings /\ announced \subseteq Postings /\ letter \subseteq Postings
  /\ deploys \in 0..MaxDeploys /\ crashes \in 0..MaxCrashes

\* The profile row is written by every run before anything reads it.
Init ==
  /\ config \in Configs /\ profile = config
  /\ status = [p \in Postings |-> "absent"]
  /\ score = [p \in Postings |-> NoScore]
  /\ previous_score = [p \in Postings |-> NoScore]
  /\ lineage = [p \in Postings |-> <<>>]
  /\ unlisted = {}
  /\ run_log = {} /\ delivered = FALSE
  /\ pc = [r \in Runs |-> "idle"]
  /\ run_date = [r \in Runs |-> 0] /\ run_config = [r \in Runs |-> config]
  /\ work = [r \in Runs |-> {}] /\ item = [r \in Runs |-> {}]
  /\ old_score = [r \in Runs |-> [p \in Postings |-> NoScore]]
  /\ partial = [r \in Runs |-> FALSE]
  /\ bar = [r \in Runs |-> 0] /\ first = [r \in Runs |-> FALSE]
  /\ fresh = [r \in Runs |-> {}] /\ mail = [r \in Runs |-> Blank]
  /\ emails = [d \in Days |-> 0]
  /\ listed = {} /\ announced = {} /\ letter = {}
  /\ deploys = 0 /\ crashes = 0

Goto(r, from, to) == pc[r] = from /\ pc' = [pc EXCEPT ![r] = to]

Done(r, p) == work' = [work EXCEPT ![r] = @ \ {p}]

Forget(r) ==
  /\ pc' = [pc EXCEPT ![r] = "idle"]
  /\ run_date' = [run_date EXCEPT ![r] = 0]
  /\ work' = [work EXCEPT ![r] = {}] /\ item' = [item EXCEPT ![r] = {}]
  /\ old_score' = [old_score EXCEPT ![r] = [p \in Postings |-> NoScore]]
  /\ partial' = [partial EXCEPT ![r] = FALSE]
  /\ bar' = [bar EXCEPT ![r] = 0] /\ first' = [first EXCEPT ![r] = FALSE]
  /\ fresh' = [fresh EXCEPT ![r] = {}] /\ mail' = [mail EXCEPT ![r] = Blank]
  /\ UNCHANGED run_config

(***************************************************************************)
(* The invocation and its first write, the profile sync.  The date of a run  *)
(* is today's unless the event names another one; a re-run for yesterday is  *)
(* modelled, and a run is over before its date is two days old.              *)
(***************************************************************************)
Start(r, d) ==
  /\ Overlap \/ \A q \in Runs : pc[q] = "idle"
  /\ \E mode \in Modes : Goto(r, "idle", IF mode = "daily" THEN "sync" ELSE "resync")
  /\ run_date' = [run_date EXCEPT ![r] = d]
  /\ run_config' = [run_config EXCEPT ![r] = config]
  /\ UNCHANGED <<settings, ledger, log, judging, telling, history, crashes>>

SyncProfile(r) ==
  /\ Goto(r, "sync", "ingest") \/ Goto(r, "resync", "targets")
  /\ profile' = run_config[r]
  /\ UNCHANGED <<config, deploys, ledger, log, run_date, run_config, judging, telling,
                 history, crashes>>

(***************************************************************************)
(* What Medallion models in full: postings that pass the gold filter, and    *)
(* whether the deadline cut the stage that finds them.                       *)
(***************************************************************************)
Arrive(r, p) ==
  /\ pc[r] = "ingest"
  /\ status[p] = "absent"
  /\ status' = [status EXCEPT ![p] = "gold_candidate"]
  /\ UNCHANGED <<settings, score, previous_score, lineage, unlisted, log, pc, run_date,
                 run_config, judging, telling, history, crashes>>

EndIngest(r, deferred) ==
  /\ Goto(r, "ingest", "gold")
  /\ partial' = [partial EXCEPT ![r] = deferred]
  /\ UNCHANGED <<settings, ledger, log, run_date, run_config, work, item, old_score,
                 telling, history, crashes>>

(***************************************************************************)
(* Judging.  save_score writes the row and its event in one transaction and  *)
(* stamps the row with the time: it is then newer than every digest recorded *)
(* so far, and than the `since` of a run that has read it and not the list.  *)
(***************************************************************************)
Judgements(p) == {i \in 1..Len(lineage[p]) : lineage[p][i].scoring_model = "llm"}

Overrides(p) == 1..Len(lineage[p]) \ Judgements(p)

SaveScore(r, p, s, previous) ==
  /\ Cardinality(Judgements(p)) < MaxJudgements[p]
  /\ score' = [score EXCEPT ![p] = s]
  /\ previous_score' =
       [previous_score EXCEPT ![p] = IF previous # NoScore THEN previous ELSE score[p]]
  /\ lineage' = [lineage EXCEPT ![p] =
       Append(@, [profile_hash |-> run_config[r].profile_hash, scoring_model |-> "llm"])]
  /\ unlisted' = unlisted \cup {p}
  /\ fresh' = [q \in Runs |-> IF pc[q] = "shortlist" THEN fresh[q] \cup {p} ELSE fresh[q]]
  /\ announced' = announced \ {p}

ReadGold(r) ==
  /\ Goto(r, "gold", "score")
  /\ work' = [work EXCEPT ![r] = {p \in Postings : status[p] = "gold_candidate"}]
  /\ UNCHANGED <<settings, ledger, log, run_date, run_config, item, old_score, partial,
                 telling, history, crashes>>

Judge(r, p, s) ==
  /\ Goto(r, "score", "mark")
  /\ p \in work[r]
  /\ SaveScore(r, p, s, NoScore)
  /\ item' = [item EXCEPT ![r] = {p}]
  /\ UNCHANGED <<settings, status, log, run_date, run_config, work, old_score, partial,
                 bar, first, mail, emails, listed, letter, crashes>>

\* Mutant: the posting is marked with a status outside the vocabulary.
MarkDone(r, p) ==
  /\ Goto(r, "mark", "score")
  /\ p \in item[r]
  /\ status' = [status EXCEPT ![p] = "done"]
  /\ item' = [item EXCEPT ![r] = {}]
  /\ Done(r, p)
  /\ UNCHANGED <<settings, score, previous_score, lineage, unlisted, log, run_date,
                 run_config, old_score, partial, telling, history, crashes>>

MarkScored(r, p) ==
  /\ Goto(r, "mark", "score")
  /\ p \in item[r]
  /\ status' = [status EXCEPT ![p] = "scored"]
  /\ item' = [item EXCEPT ![r] = {}]
  /\ Done(r, p)
  /\ UNCHANGED <<settings, score, previous_score, lineage, unlisted, log, run_date,
                 run_config, old_score, partial, telling, history, crashes>>

\* The judgement failed or was refused for lack of credit, or the deadline had
\* passed: only the last of these makes the run partial.
LeaveUnjudged(r, p, deferred) ==
  /\ pc[r] \in {"score", "rescore"}
  /\ p \in work[r]
  /\ Done(r, p)
  /\ partial' = [partial EXCEPT ![r] = @ \/ deferred]
  /\ UNCHANGED <<settings, ledger, log, pc, run_date, run_config, item, old_score,
                 telling, history, crashes>>

EndScore(r) ==
  /\ work[r] = {}
  /\ Goto(r, "score", "check")
  /\ UNCHANGED <<settings, ledger, log, run_date, run_config, judging, telling, history,
                 crashes>>

ReadScored(r) ==
  /\ Goto(r, "targets", "rescore")
  /\ work' = [work EXCEPT ![r] = {p \in Postings : status[p] = "scored"}]
  /\ old_score' = [old_score EXCEPT ![r] = score]
  /\ UNCHANGED <<settings, ledger, log, run_date, run_config, item, partial, telling,
                 history, crashes>>

Rejudge(r, p, s) ==
  /\ pc[r] = "rescore"
  /\ p \in work[r]
  /\ SaveScore(r, p, s, old_score[r][p])
  /\ Done(r, p)
  /\ UNCHANGED <<settings, status, log, pc, run_date, run_config, item, old_score, partial,
                 bar, first, mail, emails, listed, letter, crashes>>

\* A human override: an event in the same lineage, the score row keeps its score.
SetScoreOverride(p) ==
  /\ score[p] # NoScore
  /\ Cardinality(Overrides(p)) < MaxOverrides[p]
  /\ lineage' = [lineage EXCEPT ![p] =
       Append(@, [profile_hash |-> profile.profile_hash, scoring_model |-> "human-override"])]
  /\ UNCHANGED <<settings, status, score, previous_score, unlisted, log, pc, run_date,
                 run_config, judging, telling, history, crashes>>

(***************************************************************************)
(* The digest: what is news, and what it shares a card with.                *)
(***************************************************************************)
ProfileChanged(p) ==
  /\ Len(lineage[p]) > 1
  /\ Last(lineage[p]).profile_hash # Last(Front(lineage[p])).profile_hash

Crossed(p, threshold) ==
  /\ previous_score[p] # NoScore
  /\ previous_score[p] < threshold
  /\ threshold <= score[p]

Graduated(p, threshold) == Crossed(p, threshold) /\ ProfileChanged(p)

Surfaced(threshold) == {p \in Postings : score[p] # NoScore /\ score[p] >= threshold}

News(threshold, never_sent, newer) ==
  {p \in Surfaced(threshold) :
     \/ never_sent
     \/ p \in newer /\ (previous_score[p] = NoScore \/ Graduated(p, threshold))}

\* The shortlist is sorted by score, then by posting_id, and the first of the reposts
\* on a card stands for it.
Before(p, q) == score[p] > score[q] \/ (score[p] = score[q] /\ Id[p] < Id[q])

Represents(p, threshold) ==
  \A q \in Surfaced(threshold) \ {p} : Fingerprint[q] = Fingerprint[p] => Before(p, q)

\* Mutant: only the news is rendered.
NewsOnly(threshold, never_sent, newer) ==
  LET news == News(threshold, never_sent, newer)
  IN  [news |-> news, new |-> news, still_open |-> {}, badges |-> {}]

\* A card is new if any of the reposts it stands for is.
NewOnCards(news, threshold) ==
  {p \in Surfaced(threshold) : \E q \in news : Fingerprint[p] = Fingerprint[q]}

\* Mutant: a card shows the badge of any repost it stands for.
BadgeEveryRepost(threshold, never_sent, newer) ==
  LET news == News(threshold, never_sent, newer)
      new  == NewOnCards(news, threshold)
  IN  [news |-> news, new |-> new, still_open |-> Surfaced(threshold) \ new,
       badges |-> {p \in new : Graduated(p, threshold)}]

\* A card shows the badge of the posting that stands for it, and no other's.
Digest(threshold, never_sent, newer) ==
  LET news == News(threshold, never_sent, newer)
      new  == NewOnCards(news, threshold)
  IN  [news |-> news, new |-> new, still_open |-> Surfaced(threshold) \ new,
       badges |-> {p \in new : Represents(p, threshold) /\ Graduated(p, threshold)}]

(***************************************************************************)
(* notify, behind the send-once guard.                                      *)
(***************************************************************************)
\* Mutant: the guard is not asked.
NeverAsked(r) == r \notin Runs

WasDigestSent(r) == run_date[r] \in run_log

\* Mutant: a run that skips its digest records its date like the others.
SkipAndRecord(r) ==
  /\ pc[r] = "check"
  /\ partial[r] \/ WasDigestSent(r)
  /\ run_log' = run_log \cup {run_date[r]}
  /\ delivered' = TRUE
  /\ unlisted' = IF run_date[r] \in run_log THEN unlisted ELSE {}
  /\ Forget(r)
  /\ UNCHANGED <<settings, status, score, previous_score, lineage, history, crashes>>

SkipNotify(r) ==
  /\ pc[r] = "check"
  /\ partial[r] \/ WasDigestSent(r)
  /\ Forget(r)
  /\ UNCHANGED <<settings, ledger, log, history, crashes>>

\* Mutant: the date is recorded before the e-mail goes out.
RecordThenSend(r) ==
  /\ Goto(r, "check", "knobs")
  /\ ~partial[r]
  /\ ~WasDigestSent(r)
  /\ run_log' = run_log \cup {run_date[r]}
  /\ delivered' = TRUE
  /\ unlisted' = {}
  /\ UNCHANGED <<settings, status, score, previous_score, lineage, run_date, run_config,
                 judging, telling, history, crashes>>

BeginNotify(r) ==
  /\ Goto(r, "check", "knobs")
  /\ ~partial[r]
  /\ ~WasDigestSent(r)
  /\ UNCHANGED <<settings, ledger, log, run_date, run_config, judging, telling, history,
                 crashes>>

ReadKnobs(r) ==
  /\ Goto(r, "knobs", "since")
  /\ bar' = [bar EXCEPT ![r] = profile.threshold]
  /\ UNCHANGED <<settings, ledger, log, run_date, run_config, judging, first, fresh, mail,
                 history, crashes>>

ReadSince(r) ==
  /\ Goto(r, "since", "shortlist")
  /\ first' = [first EXCEPT ![r] = ~delivered]
  /\ fresh' = [fresh EXCEPT ![r] = unlisted]
  /\ UNCHANGED <<settings, ledger, log, run_date, run_config, judging, bar, mail, history,
                 crashes>>

ReadShortlist(r) ==
  /\ Goto(r, "shortlist", "send")
  /\ mail' = [mail EXCEPT ![r] = Digest(bar[r], first[r], fresh[r])]
  /\ UNCHANGED <<settings, ledger, log, run_date, run_config, judging, bar, first, fresh,
                 history, crashes>>

\* Mutant: a failed send is logged and swallowed.
SwallowSendError(r) ==
  /\ Goto(r, "send", "record")
  /\ UNCHANGED <<settings, ledger, log, run_date, run_config, judging, telling, history,
                 crashes>>

\* A send that fails is a run that dies before this step.
Send(r) ==
  /\ Goto(r, "send", "record")
  /\ emails' = [emails EXCEPT ![run_date[r]] = @ + 1]
  /\ listed' = listed \cup mail[r].new \cup mail[r].still_open
  /\ letter' = mail[r].news
  /\ UNCHANGED <<settings, ledger, log, run_date, run_config, judging, telling, announced,
                 crashes>>

\* Mutant: `since` is the first digest's time and not the latest one's.
SinceTheFirst(r) ==
  /\ pc[r] = "record"
  /\ run_log' = run_log \cup {run_date[r]}
  /\ delivered' = TRUE
  /\ unlisted' = IF delivered THEN unlisted ELSE {}
  /\ announced' = announced \cup mail[r].news
  /\ Forget(r)
  /\ UNCHANGED <<settings, status, score, previous_score, lineage, emails, listed, letter,
                 crashes>>

\* mark_digest_sent: a row that exists keeps the time it was written.
RecordSent(r) ==
  /\ pc[r] = "record"
  /\ run_log' = run_log \cup {run_date[r]}
  /\ delivered' = TRUE
  /\ unlisted' = IF run_date[r] \in run_log THEN unlisted ELSE {}
  /\ announced' = announced \cup mail[r].news
  /\ Forget(r)
  /\ UNCHANGED <<settings, status, score, previous_score, lineage, emails, listed, letter,
                 crashes>>

EndReassess(r) ==
  /\ pc[r] = "rescore"
  /\ work[r] = {}
  /\ Forget(r)
  /\ UNCHANGED <<settings, ledger, log, history, crashes>>

Crash(r) ==
  /\ pc[r] # "idle"
  /\ crashes < MaxCrashes
  /\ crashes' = crashes + 1
  /\ Forget(r)
  /\ UNCHANGED <<settings, ledger, log, history>>

(***************************************************************************)
(* The world: a new configuration is deployed, and the days go by.          *)
(***************************************************************************)
Deploy ==
  /\ deploys < MaxDeploys
  /\ deploys' = deploys + 1
  /\ config' \in Configs \ {config}
  /\ UNCHANGED <<profile, ledger, log, pc, run_date, run_config, judging, telling, history,
                 crashes>>

NextDay ==
  /\ \A r \in Runs : run_date[r] = 0
  /\ run_log' = {d \in Days : d = 1 /\ 0 \in run_log}
  /\ emails' = [d \in Days |-> IF d = 0 THEN 0 ELSE emails[0]]
  /\ run_date' = [r \in Runs |-> IF pc[r] = "idle" THEN 0 ELSE 1]
  /\ UNCHANGED <<settings, ledger, delivered, pc, run_config, judging, telling, listed,
                 announced, letter, crashes>>

Judging(r) ==
  \/ \E p \in Postings : Arrive(r, p) \/ MarkScored(r, p)
  \/ \E deferred \in BOOLEAN :
       \/ EndIngest(r, deferred)
       \/ \E p \in Postings : LeaveUnjudged(r, p, deferred)
  \/ ReadGold(r)
  \/ ReadScored(r)
  \/ \E p \in Postings, s \in Scores : Judge(r, p, s) \/ Rejudge(r, p, s)
  \/ EndScore(r)
  \/ EndReassess(r)

Notify(r) ==
  \/ SkipNotify(r)
  \/ BeginNotify(r)
  \/ ReadKnobs(r)
  \/ ReadSince(r)
  \/ ReadShortlist(r)
  \/ Send(r)
  \/ RecordSent(r)

Proceed(r) == (\E d \in Days : Start(r, d)) \/ SyncProfile(r) \/ Judging(r) \/ Notify(r)

Next ==
  \/ \E r \in Runs : Proceed(r) \/ Crash(r)
  \/ \E p \in Postings : SetScoreOverride(p)
  \/ Deploy
  \/ NextDay

Spec == Init /\ [][Next]_vars

(***************************************************************************)
(* Fairness.  Runs are invoked and take their steps, days go by, the        *)
(* deadline does not cut the ingest of every run, and the model does not    *)
(* refuse one posting in every run that offers it.  Nothing is said of      *)
(* deaths, deploys, operators or arrivals.                                   *)
(***************************************************************************)
FairSpec ==
  /\ Spec
  /\ \A r \in Runs : WF_vars(Proceed(r))
  /\ SF_vars(NextDay)
  /\ SF_vars(\E r \in Runs : EndIngest(r, FALSE))
  /\ \A p \in Postings : SF_vars(\E r \in Runs, s \in Scores : Judge(r, p, s))

(***************************************************************************)
(* Safety.                                                                  *)
(***************************************************************************)

\* A date that is recorded had its e-mail: the guard never blocks a digest that
\* did not go out.  Whatever overlaps and whatever dies.
RecordedWasSent == \A d \in run_log : emails[d] > 0

\* What a recorded digest announced as news is not announced again before it
\* is judged again.
AnnouncedOnce ==
  \A r \in Runs : pc[r] = "send" => mail[r].news \cap announced = {}

\* A match that was judged once, at or above every bar, and before the newest
\* recorded digest, was news in a recorded digest: none slips between the
\* judgement and the split.
JudgedOnce(p) == \E i \in Judgements(p) : Judgements(p) = {i}

FirstMatchIsNews ==
  \A p \in Postings :
    /\ JudgedOnce(p)
    /\ \A c \in Configs : score[p] >= c.threshold
    /\ p \notin unlisted
    => p \in announced

\* A badge tells of a profile change: a new match that stands for its card and has
\* crossed the bar has one if its newest judgement and the one before it were made under
\* different profiles, and no other match has one.  Only an override since the one
\* before may hide it.
NewestTwo(p, i, j) ==
  /\ {i, j} \subseteq Judgements(p) /\ j < i
  /\ \A k \in Judgements(p) : k <= j \/ k = i

BadgeTellsProfile ==
  \A r \in Runs : pc[r] = "send" =>
    \A p \in mail[r].new :
      IF Represents(p, bar[r]) /\ Crossed(p, bar[r])
      THEN \E i, j \in Judgements(p) :
             /\ NewestTwo(p, i, j)
             /\ (\A k \in Overrides(p) : k < j)
                  => (p \in mail[r].badges
                        <=> lineage[p][i].profile_hash # lineage[p][j].profile_hash)
      ELSE p \notin mail[r].badges

\* An e-mail is repeated only for a run that died between sending and recording.
RepeatOnlyAfterDeath == \A d \in Days : emails[d] <= 1 + crashes

\* "these already surfaced in an earlier digest" (notifier.py:627): a card of the
\* still-open section stands for a posting some e-mail has shown.
StillOpenWasListed ==
  \A r \in Runs : pc[r] = "send" =>
    \A p \in mail[r].still_open : \E q \in listed : Fingerprint[q] = Fingerprint[p]

\* The digest keeps what DeliveryContract promises, while runs neither overlap
\* nor die and nothing is judged twice.
Contract == INSTANCE DeliveryContract
  WITH owed <- News(profile.threshold, ~delivered, unlisted)

KeepsContract == Contract!Spec

(***************************************************************************)
(* Liveness, under FairSpec.                                                *)
(***************************************************************************)

\* No match is lost: what is above the bar is shown, as news or as still open; and
\* one that was judged once and is not yet listed is announced as news by a recorded
\* digest, unless it is judged again first.
MatchIsDelivered ==
  \A p \in Postings :
    /\ p \in Surfaced(profile.threshold)
         ~> p \in listed \/ p \notin Surfaced(profile.threshold)
    /\ p \in unlisted /\ p \in Surfaced(profile.threshold) /\ JudgedOnce(p)
         ~> p \in announced \/ ~JudgedOnce(p)
=============================================================================
