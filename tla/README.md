# jobfetcher in TLA+

Specifications of jobfetcher, the pipeline under `src/src/jobfetcher`: what its
runs, tables, sweeps, worker threads and e-mails do, checked with TLC on small
instances and, where it matters most, proved with TLAPS for every size. Line
numbers below are of that source tree; `PROJECT.json` maps each definition to
its lines.

## 1. The system

One scheduled Lambda (`handlers/pipeline.py`) runs every day. It sweeps a job
API, lands raw postings (bronze), has a language model dissect them (silver),
filters them (gold candidates), has a model score them, and e-mails a digest. A
`reassess` invocation scores everything again, a `smoke` one looks at the
database only. A second Lambda (`handlers/capture.py`) records "applied" clicks.
An operator deploys configuration and overrides scores with `scripts/track.py`.

Nothing serialises invocations: there is no reserved concurrency
(`terraform/lambda.tf`), a scheduled run and a manual one can overlap, the
Lambda is killed at 900 s, and a failed run is not retried
(`maximum_retry_attempts = 0`). Every repository method is one transaction; a run
is a sequence of them with nothing held in between.

| component | state | operations | hard behaviour |
|---|---|---|---|
| medallion store: `adapters/repository_postgres.py`, `db/tables.py` | bronze_posting, posting, cluster, score, score_event | upserts, status marks, keyset reads, `save_score`, `set_score_override` | overlapping runs, death between two transactions, statuses written over |
| stages: `core/ingest.py` | snapshots held in memory between reads and writes | ingest, gold filter, score, reassess, notify | stale snapshots, deferral by the deadline, failures of one item |
| digest: `core/notifier.py`, `ingest.notify` | run_log, the rendered mail | shortlist, split into news and still open, repost cards, badges, send, record | send and record are two steps; news is decided from timestamps and a carried score |
| sweep: `adapters/jsearch_source.py` | counters, stop reason, failed queries | fetch over queries and pages | budget, 429, 401, half-failed queries, counters of an earlier sweep |
| intake alert: `core/intake.py`, `pipeline.py`, `adapters/s3_audit.py` | run summaries in S3 per date | cadence, verdict of a day, alert | runs that crash at any point, summaries lost, repeated and back-dated runs |
| worker pool and model client: `ingest.score_gold`, `core/scorer.py`, `adapters/llm_openai.py` | a queue, threads, the deadline | resampling, re-prompt, retries, collection of results | time limits, exceptions in one thread or the writer |
| ingestion check: `scripts/check_ingestion.py` | none; reads the bucket | verdict of each run, freshness, droughts, streaks, an exit code | days without a summary, summaries that cannot be read, a cutoff in the past, agreement with the digest's alert |
| fit bands: `ingest.derive_fit_category` | none | score to band | boundaries, any threshold and floor |
| keyset reads: `repository_postgres.py:102-130` | a cursor | pages under a row limit | rows that enter, change and leave between two pages |
| database resume: `db/engine.py`, `scripts/track.py` | time waited | wait for Aurora to resume | budget arithmetic, several waiting callers, a platform limit below the budget |
| capture: `handlers/capture.py`, `core/capture_token.py` | application_event, keys cached per container | sign and verify a link, record the click | clicked twice, acknowledgement lost, key changed, database paused |
| credit alert: `core/credit.py`, `pipeline.py:402-459` | none | an alert from one run's counts and one balance | a balance that reads high or not at all, precedence over the other alerts |
| S3 stores, e-mail adapter, report, cleaning, infrastructure, tools | objects, text | I/O, rendering | not modelled, see section 7 |

What makes each correct:

- *store*: rows refer to rows, a candidate has its cluster and a scored posting
  its judgement; the score row is the newest model event; done work is not done
  again; a rejection is re-opened only by a changed filter context.
- *digest*: an e-mail is repeated only for a death, a recorded date was sent, no
  match goes untold, none is told twice, "still open" was shown before, a badge
  means a change of profile; every match is on one card or counted.
- *sweep and alert*: a sweep that says it was complete was; the alert leads
  every digest from a failed sweep to the next fine one, and no other.
- *pool*: a bounded tail after the deadline, a row that follows the majority of
  its samples, a stage that is left with nothing still running, one failure that
  costs one posting.
- *ingestion check*: no failure on a calm bucket, no all-clear that is not earned,
  the same opinion as the digest's alert, and no eye for what is dated after the cutoff.
- *keyset reads*: every row that stays is read, once, within the limit.
- *database resume*: a caller gives up only on a resume that outlasts its budget.
- *capture*: what a reader is told is what the table holds; a row goes back to a
  link that was mailed, whole and live.
- *credit alert*: refused calls head the letter, and it never cries wolf.

## 2. Modules

| module | models | checked in | proved in |
|---|---|---|---|
| `Medallion` | tables and stage writes of ingest, gold, score, reassess, override | `MCMedallion` | `MedallionProofs` |
| `Digest` | judgements, profile sync, news split, send-once guard | `MCDigest` | `DigestProofs` |
| `DeliveryContract` | abstract: what is owed to the reader is what a letter carries | refined by `Digest` | |
| `Sweep` | one `fetch` of the search adapter | through `Intake` | `SweepProofs` |
| `Cadence` | fetch days, and what a day's summaries say of its sweep | through `Intake`, `IngestionCheck` | |
| `Intake` (extends `Sweep`, `Cadence`) | runs, summaries, verdicts, the alert | `MCIntake` | `IntakeProofs` |
| `IngestionCheck` (extends `Cadence`) | the bucket and the operator's check of it | `MCIngestionCheck` | `IngestionCheckProofs` |
| `ScoringPool` | threads, calls, deadline and writer of one scoring stage | `MCScoring` | `ScoringProofs` |
| `ScoringStage` | abstract: candidates are settled one at a time, each once | refined by `ScoringPool` | |
| `KeysetRead` | a read in pages and the writes of others between them | through `Letter` | in `LetterProofs` |
| `Letter` (extends `KeysetRead`) | the account, the balance, the shortlist and the letter of one run | `MCLetter` | `LetterProofs` |
| `DbResume` | a cluster that sleeps and its waiting callers | through `Capture` | in `CaptureProofs` |
| `Capture` (extends `DbResume`) | links, keys, clicks, commands and `application_event` | `MCCapture` | `CaptureProofs` |

They overlap on purpose and meet at named points. `Digest` keeps of the stages
what decides the news (`Arrive`, `Judge`, `MarkScored`, `partial`); `Medallion`
has them in full. `Medallion` and `Digest` let an item be judged, fail or be
deferred in any order; `ScoringPool` says how a pool of threads brings that
about, and implements `ScoringStage`, the stage as the other two take it. `Intake` composes `Sweep` with the runs around it by sharing its
variables, and `IntakeProofs!SweepsAreSweeps` shows that it does so as `Sweep`
allows, so what is proved of `Sweep` holds in it. `Letter` composes the walk of
`KeysetRead` with the account and the renderer, `Capture` the wait of `DbResume`
with its three kinds of caller, in the same way: the lower module gives actions
and a predicate of its own, the upper one joins them and adds `UNCHANGED`.
`Cadence` is one module because it is one in the code: the digest's alert and
the check both import `core/intake.py`. `Digest` says when a letter is due and
what becomes of it, `Letter` what stands in it.

### Medallion

One step per repository transaction. `status`, `gold_filter_hash`, `cluster`,
`cluster_id`, `score`, `previous_score` and `score_event` are the columns of
`db/tables.py` with their data reduced to model values; `landed`, `work`, `item`,
`filter_hash` and `old_score` are what a run holds in memory between two
transactions. Promotion is the code's three transactions (`UpsertCluster`,
`SetPostingCluster`, `MarkGoldCandidate`), judging its two (`Judge`,
`MarkScored`). `Crash` ends a run anywhere. The model's answer, the filter's
verdict, the deadline and what a sweep returns are nondeterministic.

### Digest and DeliveryContract

Time is abstracted to what the code compares: a run date is its age in days, and
`scored_at > since` is the set `unlisted` of postings judged after the newest
`run_log` row, or `fresh` for a run that has read its `since`. `Digest(...)` is
`split_new_and_still_open` with the repost cards and badges: a card is new if any of its
reposts is (`NewOnCards`), and shows the badge of the one that stands for it
(`Represents`), by score and then by the order of the ids, and no other's. The guard, the
three reads of `notify`, the send and the record are steps of their own, so a
death or a judgement fits between any two. A send that fails is a run that dies
before `Send`.

`DeliveryContract` is three steps: a judgement makes a posting owed, a letter
carries what is owed, and what a letter carried is struck off. `KeepsContract`
maps `owed` to the news a digest would render now.

### Sweep and Intake

`Sweep` walks queries and pages as `JSearchSourceAdapter.fetch` does, with its
budget check before each request, its stop reasons, and the failed queries whose
other pages are skipped; `FetchStopped` is what `ingest` records of it. In
`Intake` a run writes its summary (or its put is swallowed, or it dies), later
runs of the cycle read the summaries of the fetch day, and `ProblemOnDay` decides
what the digest leads with. Runs are sequential; the cadence is a constant.

The object `runs/{date}/{run_id}.json` is overwritten, and an event may name the `run_id` of
an earlier run (`pipeline.py:201-206`). `Cadence!Written` is a run's put under a fresh id or
under any that the date has: it adds a summary, or replaces one. A day's summaries are a set, so
two equal ones count as one and a put that replaces one of them takes both; that allows a little
more than the bucket does. The history `erased` keeps what became of a date's sweeps that no
summary tells any more.

### IngestionCheck

The variables are the bucket (`runs/{date}/`, `raw/{source}/{date}/`) and what fills it:
a run that sweeps, skips or crashes, a reassess, a summary that is lost or replaced, a day
without a run, and a cadence deployed to a value that never sweeps and back. Each run
has a date of its own (`RunDate`): today's, one that its event names (`pipeline.py:227-232`), or
yesterday's if it began before midnight. Its summary goes under that date, its postings under
the day on which they land (`Land`: `ingest.py:278` gives `put_raw` no date). `odd`
counts what is not as it should be, so that a bucket is mostly healthy. `Check`
changes nothing, hence the report is a function, `Exit(c, unread)`, of the bucket, of
the cutoff `c` and of the summaries that cannot be read or judged, and the properties
quantify over every set of those. `Verdict`, `Fresh`, `AwaitingTodaysRun`, `RunDrought`,
`CadenceAnomaly` and `FailureStreak` are the script's functions of those names.

### ScoringPool

The queue is first in, first out, so one number, `next`, is all of it. A worker
is idle, waits for an answer, or waits to retry; `due` is when its wait ends at
the latest, and `Tick` does not pass it. The failures of `llm_openai.py` are
actions by the way they reach the stage: retried (`TransientFailure`), an
`LlmError` (`CallRefused`), a 402 (`BillingRefused`), a reply that is re-prompted
once (`InvalidReply`), and what is no `LlmError` (`UnexpectedError`). The main
thread takes finished tasks in any order, which allows a little more than
`as_completed` does, and writes. Leaving the `with` block (`Leave`) waits for the
queued tasks too: `shutdown(wait=True)` cancels nothing.

`AttemptTime` is an assumption: the timeout of urllib bounds each wait for bytes,
not the whole attempt. The main thread's writes may take any time. `ingest` and
`reassess` drive the same kind of pool; `ingest` with one sample and an exception
path of its own (`_prepare_silver`).

`ScoringStage` is what a run relies on: a candidate is passed over, or its row is written
and then marked before the next one is settled; a stage returns when all are settled, with
counts that partition them; one that breaks off leaves one row at most that is not
marked, which is the case `Medallion` and `Digest` allow a death to make. `SettlesInTurn`
maps a candidate's fate to what the main thread has done with its result, not to what the
threads have done.

### KeysetRead and Letter

A page is a statement of its own: `NextPage` takes the least rows above the last key
from the table as it then is, `Write` is any other run's insertion, re-judgement or
removal between two pages, and `seen` remembers what the table held of a key. In
`Letter`, `Call`, `CallRefused` and `TopUp` move the account; the reading may be
anything between what is left and what was there before this run's calls, or fail.
`Compose` is `render_digest` with its banners: `collapse_duplicates`, the split by
card, the top-N with its overflow line, the badges and the precedence of the four alerts.

### DbResume and Capture

A call takes no time; a tick is a unit of every budget, interval and limit, and time
passes when nobody has anything to do but sleep. `GiveUp` raises the resume signal,
`Broken` any other error, `Die` is the platform's kill or any other end. In `Capture` a
pipeline run lands postings and mails links signed with the key its container holds; a
click carries a link that may be mangled or expired to a container with a cached key of
its own; `Track` is one transaction that looks the posting up and appends;
`TrackUnheard` commits and loses the acknowledgement. `ChangeSecret` and `Recycle` are
the operator's rotation and the platform's new containers. A `Link` has no date: a match mailed again
under the same key is the same value, and stays expired if its first link is; the fresh link of
such a match is not modelled, only the first of each key.

## 3. Runs

Sizes are the distinct states TLC reports; each run takes under three minutes.

| run | instance | states | shows |
|---|---|---|---|
| `medallion_overlap` | 1 posting, 2 runs of either mode, `Overlap`, 3 judgements, 2 filter contexts, 1 override, 1 death | 415,527 | `TypeOK`, `TablesAreWhole`, `LedgerAgrees`, `PreviousWasGiven`. Two runs of either mode, under either of two filter contexts, overlap at every transaction around one posting, one of them dies, and an operator overrides: the tables still refer only to rows that exist, every candidate has its cluster, every scored posting its judgement, the score row is the newest model event, and its previous score is one an earlier judgement gave, NULL for a first scoring only. |
| `medallion_daily` | 1 posting, 1 run at a time, fair, 2 filter contexts, 4 judgements, 1 override, 2 deaths | 78,255 | `PreviousIsPredecessor`, `JudgedOncePerDeath`, `RejectionHolds`, `LandedIsDecided`. Runs one after the other, fairly scheduled, with deaths, re-runs, reassessments, overrides and a changed filter context: done work is not done again, a rejection holds under its context, previous_score is the preceding judgement, and a landed posting is rejected or scored in the end if sweeps keep returning it. |
| `digest_contract` | 3 postings, 2 of them reposts, 1 override, no death | 197,796 | `StillOpenWasListed`, `KeepsContract`. Daily runs that neither overlap nor die, three postings of which two are reposts: the still-open section holds only what was shown, and the digest implements DeliveryContract. |
| `digest_deaths` | 2 reposts of one job, both modes, 2 judgements and 1 override of one, 1 judgement of the other, 2 configurations, 1 death | 7,629,066 | `TypeOK`, `RecordedWasSent`, `AnnouncedOnce`, `FirstMatchIsNews`, `BadgeTellsProfile`, `RepeatOnlyAfterDeath`. Daily and reassess runs one after the other over two reposts of one job, one death, one deployed change of profile and bar: what is recorded was sent, announced once, badged honestly on the one posting that stands for a card, and repeated only for a death. |
| `digest_delivery` | 2 postings, fair, 1 death | 57,896 | `MatchIsDelivered`. Under fair scheduling and with one death, a match judged once is announced as news, and no match is lost. |
| `digest_still_open` | 1 posting, 1 death | - | **violated**: `StillOpenWasListed`. A run that dies between save_score and mark_scored makes the next digest list a match as still open that no digest has shown. |
| `intake` | 2 queries of 2 pages, budget 3, 4 days, 3 runs, 1 loss | 2,206,117 | `TypeOK`, `VerdictIsHonest`, `AlertHasCause`, `AlertUntilSweep`, `FineSweepSilences`. Four days on a two-day cadence, sweeps of two queries by two pages under a budget of three, three runs that may be repeated, back-dated, reassess, raise or die, and one S3 failure or death: the verdict tells what was searched, and the alert leads every digest from a failed sweep to the next fine one and no other, but for records that are lost or replaced by a run with the same run_id. |
| `scoring` | 2 candidates, 2 threads, 3 samples, 1 retry, deadline 2, kill 9 | 621,192 | `TypeOK`, `TailIsBounded`, `MajoritySurfaces`, `LeftQuietly`, `SettlesInTurn`. Two candidates and two threads, scores on both sides of the cut, up to three samples, a re-prompt, a retry, every failure, the deadline at two and the kill at nine ticks: the tail after the deadline is bounded, a row follows the majority of its samples, a stage is left with no thread at work, and seen from outside it settles its candidates one after the other (ScoringStage). |
| `scoring_failure` | the same | - | **violated**: `FailureIsIsolated`. A model call whose answer is not read in time raises an exception no one catches: it aborts the stage, and the run, although the database has refused nothing. |
| `ingestion_check` | 8 days on a 2-day cadence, window 3, 2 odd runs or days | 40,855 | `TypeOK`, `NoFalseAlarm`, `OkIsEarned`, `AgreesWithDigest`, `LaterIsInvisible`. Daily, repeated, back-dated, missing, crashed and reassess runs on a two-day cadence, lost and replaced summaries, a cadence that is deployed wrong, and summaries that cannot be read, judged by the check on every day: it fails no calm bucket, passes no dead one, agrees with the digest's alert, and for an earlier cutoff reads nothing that is dated after it. |
| `capture` | 1 click, 1 command, 1 run, 1 posting, 2 keys, 1 change of the secret | 1,396,064 | `TypeOK`, `AnswersAreTrue`, `RecordedWasAsked`, `ResumeIsAbsorbed`. A click, an operator's command and a pipeline run meet a paused database, with a change of the signing secret, recycled containers, expiring and mangled links, lost acknowledgements and deaths: answers are true, rows go back to requests, and a caller gives up only on a resume that outlasts its budget. |
| `letter` | 4 keys in pages of 2, 6 start tables, 1 write, credit 2, 1 call a stage | 334,488 | `TypeOK`, `ReadIsWhole`, `EveryMatchOnOneCard`, `CreditIsTold`. A run spends the account, reads its balance late or not at all, walks the shortlist in pages of two while another run writes, and renders it: the walk is whole, every match is on one card or counted, and the alerts tell the truth of the account. |

**Why the bounds are enough.** Two runs suffice for an overlap: every hazard of
the store is a pair of steps of two runs around one row, so `medallion_overlap` gives one
posting all that can happen to it rather than two postings less; that a step touches the
rows of its own posting only is what the theorems add, for every set of postings. In the
digest two postings tell "this one" from "another one"; a repost card relates two and
leaves a third, hence three in `digest_contract`. Two scores are
the two sides of the bar; two filter contexts, one that rejected and one that
re-opens. One override in `digest_deaths` can fall
before, between and after judgements. `MaxJudgements` is 2 to 4 so that there is a judgement, one after it,
and (for `previous_score`) one or two after that. `digest_deaths` has two reposts of one job, the
one later in the order of the ids judged twice and the other once: the first can graduate in
front of the other, behind it, or level with it, where the id decides; a third judgement of one
posting is left to the theorem. Three judgements, two of them by runs
that overlap, are the fewest with which a previous score can be a stale one. One death per behaviour (two in
`medallion_daily`) is the case that distinguishes the code's ordering of two transactions from the other one;
properties count deaths (`1 + crashes`) instead of excluding them. Two dates are
kept: a re-run is for today or yesterday. In `intake` two queries of two pages
under a budget of three make the budget end a sweep inside a query; days 0 to
`MaxDay = 3` of a two-day cadence are two cycles; three runs let a crash, a retry and a third
run meet. In `scoring` two candidates on two threads let one thread go idle, one
candidate be queued past the deadline, and an exception meet a running task;
scores 2, 3 and 9 with the cut at 3 are just below, at and far above it; the kill
at 9 leaves the tail room to end before it.

In `ingestion_check` eight days hold the old cadence, a first clean cycle, and the four
days after which a landing is stale; the window of three is one more than the two days a
drought, a cadence and a streak each need, so that it can cut them; `MaxOdd = 2` allows
two lost, failed or missing things in one history, the least that makes two adjacent
failures. In `letter` four keys in pages of two need a second full page, the one that
may come back empty; a limit of three ends inside a page; the six start tables have
all rows, gaps at either end, a graduation, a score below the bar, and reposts on both
sides of the split; one write is one row that moves at any point of the walk. The
account holds 0 to 2 with `Low = 2`, so it is empty, low and fine; one call a stage lets
either stage, or both, be refused. In `capture` sleeps of 2 meet budgets of 4, 3 and 2
(spent exactly, with a rest, and after one sleep), the click's limit of 3 is below its
budget as in `terraform/capture.tf:97`, and two keys with one change are an old key and a
new one, or a secret that is missing at first or at last.

**Deadlock** is checked in every run but `letter` and `capture`, which end when the letter
is rendered, and when every caller is done. Elsewhere the system always has a next run, and a stage that was
left stutters in `Ended`.

**Fairness** (`FairSpec` of `Medallion` in `medallion_daily`, of `Digest` in
`digest_delivery`). Weak fairness of a run's own steps: the Lambda executes. In `Medallion`, strong
fairness of the start of a daily run: the schedule invokes one, whatever runs an
operator starts besides. Strong fairness of `Judge` and `SavePosting` per posting: the
model does not refuse the same posting in every run that offers it. Strong fairness
of `LandAgain` per posting: sweeps return what they have returned before, for as long as
it is undecided. This is the one assumption a reader may dispute, and it is needed
(section 4). Strong fairness of an ingest that is not deferred, and of the days going
by: the deadline does not cut every run. Nothing is assumed of deaths, deploys or
operators. The assumptions on the model, the sweeps and the deadline are
environmental; without them nothing is promised, and a posting that is refused for
ever stays a candidate.

## 4. Disagreements

- **A match that is filed as "still open" though no digest has shown it**
  (`digest_still_open`). A death between `save_score` and `mark_scored` makes the
  next run judge again; `save_score` carries the first score into
  `previous_score`, and the split takes the match for an old one.
- **An unanswered model call aborts the run** (`scoring_failure`).
  `_request_with_retries` catches `URLError` as "connection / timeout", but only
  what fails while a request is sent is wrapped in one. A timeout while the
  answer is awaited or read is a bare `TimeoutError`: not retried, not isolated.

Known limits, which are no runs of their own:

*Store and stages.* A posting whose dissection was deferred or failed is dissected only
if a later sweep returns it: the docstring of `ingest` promises that the next run picks
it up (`ingest.py:406-407`), and nothing reads bronze rows; without the fairness of
`LandAgain`, `LandedIsDecided` fails. With overlapping runs done work may be done
again: a stale gold stage takes a scored posting back, and it is judged twice.
`ports.py:305-306` promises that `save_score` carries the prior score; `reassess` passes the
one it read with its targets, which a run that overlaps may have replaced. What is recorded
is then a score that was given once, but stood no more (`PreviousWasGiven`).
The comment on the counts (`ingest.py:819-822`) leaves out `billing_blocked`, and
`search_spec.py:114` calls every score below `hard_floor` misaligned, while one within the
near-miss band is a near miss first.

*Digest.* `FirstMatchIsNews` fails with overlapping runs: a match saved between another
run's shortlist and its record is older than the next `since`. `pipeline.py:12` promises at
most one e-mail for two runs of a date; the guard is read before the shortlist and its row
written after the e-mail, so two runs that overlap both send, as do two with a death
between the two steps (`RepeatOnlyAfterDeath` allows that one). An override between a graduation and the digest takes the badge away
(`repository_postgres.py:729-733` accepts this): `BadgeTellsProfile` excuses an override
that is newer than the second newest judgement, and no other. A repost group that is news for one member shows its best member,
with the badge of a graduation that may have been announced before; a member that graduated
behind a better-placed one makes the card new and has no badge on it (`BadgeTellsProfile` says so).

*Intake.* A run of a fetch day that dies before the audit store exists leaves no
summary, although the comments say it is bound first for that reason
(`pipeline.py:483-485`), and raises no alert. A run that dies inside `ingest` after a
fine sweep has no ingest block and is reported as a failed run. A fine sweep whose
summary cannot be read does not silence an alert on the fetch day itself. Giving a run the
`run_id` of an earlier one replaces its summary (`s3_audit.py:23-24`), whatever it told: a
reassess under the failed run's id erases the alert that `pipeline.py:346-347` promises "EVERY day
until a sweep succeeds", and a run that fails under the id of one that swept finely brings an
alert back. `AlertUntilSweep` and `FineSweepSilences` excuse exactly what `erased` holds.

*Ingestion check.* `--today` promises that what is dated later is invisible
(`check_ingestion.py:459`), but whether the bucket has any data is asked of all dates
(`check_ingestion.py:519`): the answer for a past before the first summary may change. A run for an earlier date, or one that
ends after midnight, writes under a day that is over and does change the answer for it;
`LaterIsInvisible` says that nothing dated after the cutoff does.

*Pool.* The tail after the deadline is two calls, the prompt and the re-prompt, with up
to four attempts each: `pipeline.py:145` counts one call, and the margin of 200 s
covers one attempt.

*Capture.* A click waits up to 90 s for the database (`capture.py:230-231`) while the
platform ends its Lambda after 30 (`terraform/capture.tf:97`): a resume that takes
longer is not waited out, and the reader is told nothing. A click whose commit is not
acknowledged is told that nothing was recorded. A warm container refuses good links,
or signs links others refuse, from a rotation until it is recycled
(`capture.py:76-77` accepts this).

## 5. What is proved

TLAPS checks these for every value of the constants, under the named `ASSUME`s
of the modules (types of the knobs, `HardFloor <= Threshold`, a matrix with
pages, a cadence of at least one day, a first clean cycle that begins on a fetch day, a
finite set of keys and a page of at least one row, sleeps of at least one unit) and, where
the table says so, one hypothesis of the theorem, which a run satisfies:

- *no overlap*: `~Overlap`, a run starts when no other is in flight. The deployment does
  not enforce it, but the schedule alone keeps it: one run a day, of 900 s at most, with no
  retry. It excludes an operator's invocation during a run, for which these properties are
  false. Deaths, deploys, re-runs, reassessments and overrides are all allowed.
- *undisturbed*: `Undisturbed` of `DigestProofs`, no overlap, no death, no deploy, daily
  runs only. Each of the four breaks both properties on its own: a match that is judged
  again before its first digest (after a death, by a reassess, or by a run that overlaps)
  comes with a previous score above the bar, and one that a lowered bar lets in is older
  than the last digest; either is filed as still open without having been listed.

| theorem | states |
|---|---|
| `TypeCorrect` of `MedallionProofs`, `DigestProofs`, `IntakeProofs`, `ScoringProofs`, `IngestionCheckProofs`, `LetterProofs`, `CaptureProofs` | `Spec => []TypeOK` |
| `MedallionProofs!IntegrityHolds` | `TablesAreWhole` (`Referential`, `CandidatesAreClustered`, `ScoredIsJudged`), with any number of overlapping and dying runs |
| `MedallionProofs!LedgerNeverDiverges` | `LedgerAgrees` |
| `MedallionProofs!PreviousScoreWasGiven` | `PreviousWasGiven`, whatever overlaps |
| `MedallionProofs!PreviousScoreIsPredecessor`, `DailyRunsSkipDoneWork`, `RejectionsHold` | no overlap: `PreviousIsPredecessor`, `JudgedOncePerDeath`, and the action property `RejectionHolds` |
| `DigestProofs!RecordedDatesWereSent` | `RecordedWasSent` |
| `DigestProofs!FirstMatchesAreNews`, `NewsIsAnnouncedOnce`, `RepeatsAreDeaths`, `BadgesTellProfiles` | no overlap: `FirstMatchIsNews`, `AnnouncedOnce`, `RepeatOnlyAfterDeath`, `BadgeTellsProfile` |
| `DigestProofs!StillOpenCardsWereListed`, `DigestImplementsContract` | undisturbed: `StillOpenWasListed`, and the refinement `KeepsContract` |
| `SweepProofs!VerdictsAreHonest`, `BudgetIsKept` | `VerdictIsHonest`, and the request budget |
| `IntakeProofs!SweepsAreSweeps` | `Intake` implements `Sweep` |
| `IntakeProofs!AlertsHaveCauses`, `RecordedVerdictsAreHonest` | `AlertHasCause`, `VerdictIsHonest` |
| `IntakeProofs!AlertsLastUntilSweep`, `FineSweepsSilence` | `AlertUntilSweep`, `FineSweepSilences` |
| `ScoringProofs!NoTaskOutlivesItsTail` | `TailIsBounded`, whatever the retries, the samples and the times |
| `ScoringProofs!MajoritiesSurface`, with `MedianIsMajority` | `MajoritySurfaces`, for any number of samples |
| `ScoringProofs!StagesEndQuietly` | `LeftQuietly` |
| `ScoringProofs!PoolImplementsStage` | the refinement `SettlesInTurn` |
| `ScoringProofs!BetterScoresBetterBands` | the fit bands are monotone |
| `IngestionCheckProofs!NeverCriesWolf`, `OkIsAlwaysEarned` | `NoFalseAlarm`, `OkIsEarned`, for every set of unreadable summaries |
| `IngestionCheckProofs!ReportsAgree`, `LaterStaysInvisible` | `AgreesWithDigest`, `LaterIsInvisible` |
| `LetterProofs!WalksAreWhole` | `ReadIsWhole`, for any page size, limit and writes |
| `LetterProofs!LettersAreComplete`, `CreditIsAlwaysTold` | `EveryMatchOnOneCard`, `CreditIsTold` |
| `CaptureProofs!RowsAreAsked`, `NobodyIsMisled` | `RecordedWasAsked`, `AnswersAreTrue` |
| `CaptureProofs!ResumesAreAbsorbed` | `ResumeIsAbsorbed`, for any number of callers that wait at once |

The inductive invariants, and why the properties need them:

- *Medallion*: `Integrity` adds `HeldRowsExist` to `TablesAreWhole`. A run writes rows
  that refer to what it read minutes ago; that those rows still exist, because nothing
  deletes them and no status goes back to absent, must be carried for every run in
  flight. `LedgerAgrees` is inductive, with lemmas on what `Append` does to the
  newest model event. `GivenInv` follows a score from the row through a reassess run's
  memory: what it holds was given, also when it no longer stands. Without overlap,
  `WorkIsCurrent` says that a run's snapshot is still true of the tables when it acts on
  it; `PreviousIsPredecessor` and `RejectionHolds` need no more. For `JudgedOncePerDeath`,
  `FirstsBounded` counts: before a posting is marked it has a judgement for each death at
  most, so the one that is being written makes one more.
- *Digest*: `SentBeforeRecorded`. A run that is about to record has sent for its
  date, also after the day has changed under it. Without overlap (`SerialInv`): `LedgerInv`
  ties rows to the lineage; `NewsInv` says what a run between reading its `since` and
  recording its date knows of `unlisted`, `fresh` and the judgements it may have missed;
  `RepeatInv` counts a date's e-mails, one of which may still lack its record; and a badge is
  a function of the two newest judgements of the posting that stands for its card when no override
  has come since.
  Undisturbed (`UndisturbedInv`): one configuration, one judgement a posting
  (`OneJudgement`), hence whatever is above the bar is owed or was listed (`ContractInv`).
  A run that judges owes, one that sends writes what is owed, one that records settles it,
  and every other step leaves the debt.
- *Sweep*: `SweepInv` ties the position of the loop to what was searched: as
  long as nothing stopped or failed, everything before the position was.
- *Intake*: `StageInv` says in which stages a sweep is alive; `VerdictCause`,
  `BlockCause` and `RecordCause` follow a failure from the sweep through the
  run's memory and the S3 object to the digest. `ToldInv` follows a sweep the other way:
  what the summaries of a fetch day can tell (`Told`) knows of each of its sweeps, unless a
  record was lost or replaced, and a digest's decision is what they tell.
- *ScoringPool*: `PoolInv` (the queue, one task per busy thread, only finished
  tasks collected), `SavedInv` (a row is the median of its task's samples), and
  `TimeInv`: the end of the present wait plus everything that may follow it in
  this sample stays below the bound. `TailIsBounded` alone is not inductive,
  since a retry extends the wait; `RestOfSample` is what a retry uses up.
  `MedianIsMajority` counts: ranks are an injection, so a bijection, and the
  samples below the median number `(n - 1) \div 2`. For the refinement, `TurnInv` says
  that every result taken is counted or has its row, and every row but the one in hand is
  marked, and `CountInv` that the counts are the sizes of those sets.
- *IngestionCheck*: the report is a function of the bucket, so the invariant is small
  (`BucketInv`: types, and `Recorded`, that what is in the bucket is of days that have
  come and was left by runs that could leave it) and the work is in lemmas about days:
  `CadenceHasFetchDay` (any `EveryNDays` adjacent days hold one), from which a cadence that is
  skipped whole has passed a fetch day over, and `CalmIsFresh`. `LaterStaysInvisible`
  needs no invariant: every part of the report looks at dates up to its cutoff, and a past with a
  summary is data whatever the rest of the bucket holds.
- *Letter*: three invariants for three questions. `WalkInv`: what has been read is all that
  lies behind the cursor, so a walk that finds nothing beyond it is whole. `Account`:
  a refusal, or a reading of nothing, means that the account was empty at some time of
  the run (`poorest`), a low reading that it was low. `LetterOK` holds of a letter when it is
  rendered, and what it speaks of does not change afterwards (`Sent`).
- *Capture*: `CaptureInv` has a conjunct per question. `Waits`: while the cluster resumes, what a
  caller has slept counts in `down`, since a caller sleeps only after it has touched the
  cluster; this is what `ResumeIsAbsorbed` needs. `Requests` and `Log` follow a row back
  to its link. `KeysHeld`: until the secret changes, every cached key is the secret's and
  every link bears it, hence `Answers`.

## 6. Model-checked only

Liveness (`LandedIsDecided`, `MatchIsDelivered`),
which TLAPS does not reach: fairness is stated with `ENABLED`. Every invariant and every
action property of the passing runs is a theorem. That the hypotheses of section 5 cannot be
dropped is known from TLC only, from instances with `Overlap = TRUE`, or with the
disturbance added, that are not kept as runs (`digest_still_open` is).

## 7. Not modelled

Text: prompts, JSON extraction, token matching of the filters, profile and
posting normalisation, layout, the full-list report. Pure I/O: the report and
configuration buckets, the audit copies of rows (best-effort writes that nothing
reads; `_guarded_put` swallows their failures). Connection pools and the signature's
arithmetic, which are a library's. Terraform, which enters as assumptions: no retry, no
reserved concurrency, a hard timeout. Documentation tools and probes. Listing and
exporting in the operator's tools only read. Within `Digest` and `Letter`: the age cut-off of
the still-open list. Within `IngestionCheck` and `Intake`: run dates after today, which an event may
name too.

What is left of the code is of these kinds: pure functions over text, which a model
would repeat and not abstract, and glue that changes no state.

## 8. Plan

Done, in this order: `Medallion`; `Digest` over `DeliveryContract`; `Sweep` and
`Intake`; `ScoringPool`; `KeysetRead` and `Letter`; `Cadence` and `IngestionCheck`;
`DbResume` and `Capture`; the proofs of their invariants, with and without overlap;
`ScoringStage`, and the proofs that the digest and the pool implement their abstract
specifications.

Next:

1. `_prepare_silver`, the pool of the ingest stage, with its exception path of its own, as
   another implementation of `ScoringStage`.
2. The scoring stage of a run of `Medallion` as an implementation of `ScoringStage`, so that
   pool and store meet in a theorem and not only in the text above.
3. The weakest hypotheses under which `StillOpenWasListed` and `KeepsContract` hold: a death
   outside the scoring stage, and a deploy that keeps the bar, do no harm.
