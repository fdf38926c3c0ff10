------------------------------- MODULE Letter -------------------------------
(***************************************************************************)
(* One daily run on its way to one letter: it spends the credit of the LLM    *)
(* account, reads its balance, walks the shortlist, and renders the matches   *)
(* into cards under the alerts the reader must see first (core/notifier.py,   *)
(* core/credit.py).  When a letter is due, and what becomes of it, is Digest. *)
(***************************************************************************)
EXTENDS KeysetRead

CONSTANTS
  Fingerprint,  (* the repost fingerprint of a posting                       *)
  Blank,        (* a posting without one                                     *)
  Threshold,    (* the profile's bar                                         *)
  NoScore,      (* SQL NULL in score.previous_score                          *)
  TopN,         (* _STILL_OPEN_TOP_N                                         *)
  StaleDays,    (* DIGEST_STALENESS_WARN_DAYS                                *)
  Low,          (* LLM_LOW_CREDIT_USD, in calls                              *)
  MaxCredit,    (* bound: what the account holds                             *)
  MaxCalls      (* bound: calls of each stage                                *)

ASSUME LetterAssumption ==
  /\ DOMAIN Fingerprint = Keys
  /\ {Threshold, TopN, StaleDays, Low, MaxCredit, MaxCalls} \subseteq Nat
  /\ Rows \subseteq [score : Nat, previous : Nat \cup {NoScore}, changed : BOOLEAN,
                     judged : {"before", "after", "unknown"}]

VARIABLES
  stage,     (* what the run is doing                                        *)
  credit,    (* what the account holds                                       *)
  spent,     (* calls of this run that the balance may not show yet          *)
  calls,     (* calls of this stage                                          *)
  refused,   (* billing_blocked of each stage                                *)
  balance,   (* the reading, a set of one or of none                         *)
  poorest,   (* history: the least the account has held during the run       *)
  first,     (* since is None: no digest was ever sent                       *)
  letter     (* the letter, a set of one once it is rendered                 *)

creditVars == <<credit, spent, calls, refused, balance, poorest>>
vars       == <<readVars, stage, creditVars, first, letter>>

Alerts  == {"out_of_credit", "intake", "low_credit", "stale"}
Reading == [usd : Nat, available : BOOLEAN]
Mail    == [lead : Alerts \cup {"none"}, alerts : SUBSET Alerts, news : SUBSET SUBSET Keys,
            open : SUBSET SUBSET Keys, more : Nat, below : Nat, badges : SUBSET Keys]

TypeOK ==
  /\ ReadTypeOK
  /\ stage \in {"ingest", "score", "balance", "read", "over"}
  /\ credit \in Nat /\ spent \in Nat /\ calls \in 0..MaxCalls
  /\ refused \in [{"ingest", "score"} -> Nat]
  /\ balance \in SUBSET Reading /\ poorest \in Nat
  /\ first \in BOOLEAN /\ letter \in SUBSET Mail
  /\ poorest <= credit

Init ==
  /\ ReadInit
  /\ stage = "ingest" /\ first \in BOOLEAN /\ letter = {}
  /\ credit \in 0..MaxCredit /\ poorest = credit
  /\ spent = 0 /\ calls = 0
  /\ refused = [s \in {"ingest", "score"} |-> 0]
  /\ balance = {}

(***************************************************************************)
(* The account.                                                            *)
(***************************************************************************)
Judging == stage \in {"ingest", "score"}

Call ==
  /\ Judging /\ calls < MaxCalls /\ credit > 0
  /\ calls' = calls + 1 /\ spent' = spent + 1
  /\ credit' = credit - 1
  /\ poorest' = IF credit' < poorest THEN credit' ELSE poorest
  /\ UNCHANGED <<readVars, stage, refused, balance, first, letter>>

\* HTTP 402
CallRefused ==
  /\ Judging /\ calls < MaxCalls /\ credit = 0
  /\ calls' = calls + 1
  /\ refused' = [refused EXCEPT ![stage] = @ + 1]
  /\ UNCHANGED <<readVars, stage, credit, spent, balance, poorest, first, letter>>

\* Money that comes after the reading makes no difference to the letter.
TopUp(n) ==
  /\ stage \in {"ingest", "score", "balance"} /\ credit < n
  /\ credit' = n
  /\ UNCHANGED <<readVars, stage, spent, calls, refused, balance, poorest, first, letter>>

EndStage ==
  /\ Judging
  /\ stage' = IF stage = "ingest" THEN "score" ELSE "balance"
  /\ calls' = 0
  /\ UNCHANGED <<readVars, credit, spent, refused, balance, poorest, first, letter>>

\* The balance settles late and reads high; is_available is FALSE only of an empty
\* account (None counts as TRUE).
ReadBalance(usd, available) ==
  /\ stage = "balance" /\ stage' = "read"
  /\ usd \in credit..(credit + spent)
  /\ credit > 0 => available
  /\ balance' = {[usd |-> usd, available |-> available]}
  /\ UNCHANGED <<readVars, credit, spent, calls, refused, poorest, first, letter>>

BalanceUnknown ==
  /\ stage = "balance" /\ stage' = "read"
  /\ UNCHANGED <<readVars, creditVars, first, letter>>

\* Mutant: only the stage that scores is asked for refusals.
BlockedScoring ==
  refused["score"]

\* _blocked, of both stages
Blocked ==
  refused["ingest"] + refused["score"]

CreditProblem ==
  IF Blocked > 0 \/ \E b \in balance : b.usd <= 0 \/ ~b.available THEN {"out_of_credit"}
  ELSE IF \E b \in balance : b.usd < Low THEN {"low_credit"}
  ELSE {}

(***************************************************************************)
(* The cards.                                                              *)
(***************************************************************************)
Surfaced == {k \in Gotten : got[k].score >= Threshold}

\* score DESC, posting_id
Before(j, k) == got[j].score > got[k].score \/ (got[j].score = got[k].score /\ j < k)
\* The representative of a card is its first member; cards stand in that order.
Represents(k, card) == k \in card /\ \A j \in card \ {k} : Before(k, j)
Ahead(other, card)  == \E k \in other : \A j \in card : Before(k, j)

Graduated(row) == /\ row.changed /\ row.previous # NoScore
                  /\ row.previous < Threshold /\ Threshold <= row.score

News(row) == \/ first \/ row.judged = "unknown"
             \/ row.judged = "after" /\ (row.previous = NoScore \/ Graduated(row))

\* Mutant: postings without a fingerprint are taken for one posting.
SamePrint(k) ==
  {j \in Surfaced : Fingerprint[j] = Fingerprint[k]}

\* collapse_duplicates
Group(k) ==
  IF Fingerprint[k] = Blank THEN {k} ELSE {j \in Surfaced : Fingerprint[j] = Fingerprint[k]}

Cards == {Group(k) : k \in Surfaced}
NewCards == {card \in Cards : \E k \in card : News(got[k])}
OpenCards == Cards \ NewCards

(***************************************************************************)
(* The letter.                                                             *)
(***************************************************************************)
\* Mutant: what is not listed is counted, also when everything is.
Rest == Cardinality(OpenCards) - TopN

Listed ==
  {card \in OpenCards : Cardinality({other \in OpenCards : Ahead(other, card)}) < TopN}
More ==
  IF Cardinality(OpenCards) > TopN THEN Cardinality(OpenCards) - TopN ELSE 0

\* _with_banners: a present failure, then intake, then the forecast, then staleness.
Lead(alerts) ==
  IF "out_of_credit" \in alerts THEN "out_of_credit"
  ELSE IF "intake" \in alerts THEN "intake"
  ELSE IF "low_credit" \in alerts THEN "low_credit"
  ELSE IF "stale" \in alerts THEN "stale" ELSE "none"

\* _staleness_banner: silent below the threshold.
Stale(days) == {a \in {"stale"} : days >= StaleDays}

Banners(intake, days) == CreditProblem \cup {a \in {"intake"} : intake} \cup Stale(days)

\* A card of the news shows the badge of its representative, if that graduated.
Badges == {k \in Surfaced : Graduated(got[k]) /\ \E card \in NewCards : Represents(k, card)}

\* render_digest; both of its paths carry the alerts.
Render(intake, days) ==
  [lead |-> Lead(Banners(intake, days)), alerts |-> Banners(intake, days),
   news |-> NewCards, open |-> Listed, more |-> More,
   below |-> Cardinality(Gotten \ Surfaced), badges |-> Badges]

Compose(intake, days) ==
  /\ stage = "read" /\ reading = "done" /\ limit = NoLimit
  /\ first => days = 0
  /\ letter' = {Render(intake, days)}
  /\ stage' = "over"
  /\ UNCHANGED <<readVars, creditVars, first>>

Read ==
  /\ stage = "read" /\ ReadStep
  /\ UNCHANGED <<stage, creditVars, first, letter>>

Next ==
  \/ Call \/ CallRefused \/ EndStage \/ BalanceUnknown
  \/ \E n \in 1..MaxCredit : TopUp(n)
  \/ \E usd \in 0..(MaxCredit + 2 * MaxCalls), available \in BOOLEAN : ReadBalance(usd, available)
  \/ Read
  \/ \E intake \in BOOLEAN, days \in 0..StaleDays : Compose(intake, days)

Spec == Init /\ [][Next]_vars

(***************************************************************************)
(* Properties.                                                             *)
(***************************************************************************)
\* Every match that was on the shortlist all along is on exactly one card of the
\* letter, and on a card of the news if it is news, or it is an older match that
\* the overflow line counts; a card holds reposts of one job and no two cards do,
\* postings of which no fingerprint is known being jobs of their own.
EveryMatchOnOneCard == \A m \in letter :
  /\ \A k \in Keys, row \in Rows : seen[k] = {row} /\ row.score >= Threshold =>
       \/ \E card \in m.news : k \in card
       \/ ~News(row) /\ (m.more > 0 \/ \E card \in m.open : k \in card)
  /\ \A card, other \in m.news \cup m.open : \A j \in card, k \in other :
       (Fingerprint[j] = Fingerprint[k] /\ Fingerprint[j] # Blank) \/ j = k <=> card = other

\* The letter tells the truth of the account: calls that were refused head it,
\* whatever else is wrong and although the balance could not be read; and it
\* cries wolf neither of an empty account nor of a low one.
CreditIsTold == \A m \in letter :
  /\ refused["ingest"] > 0 \/ refused["score"] > 0 => m.lead = "out_of_credit"
  /\ m.lead = "out_of_credit" => poorest = 0
  /\ "low_credit" \in m.alerts => poorest < Low
  /\ m.lead = "none" <=> m.alerts = {}
=============================================================================
