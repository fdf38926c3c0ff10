----------------------------- MODULE LetterProofs -----------------------------
(***************************************************************************)
(* A walk by pages is whole and a letter is complete and truthful, for every  *)
(* set of keys, page size, limit, threshold and account, and whatever other   *)
(* runs write meanwhile.                                                     *)
(***************************************************************************)
EXTENDS Letter, FiniteSetTheorems, TLAPS

(***************************************************************************)
(* The walk.                                                               *)
(***************************************************************************)
\* What has been read so far is all that lies behind the walk.
Behind ==
  /\ reading = "off" => after = 0
  /\ reading # "off" => \A k \in Keys : table[k] \in seen[k]
  /\ \A k \in Gotten : k <= after /\ got[k] \in seen[k]
  /\ \A k \in Present : k <= after => k \in Gotten
  /\ taken = Cardinality(Gotten)
  /\ limit # NoLimit => taken <= limit

Whole == reading = "done" => Present \subseteq Gotten \/ (limit # NoLimit /\ taken = limit)

WalkInv == ReadTypeOK /\ Behind /\ Whole

LEMMA KeysAreFinite == \A S \in SUBSET Keys : IsFiniteSet(S) /\ Cardinality(S) \in Nat
BY KeyAssumption, FS_Subset, FS_CardinalityType

LEMMA WalkBegins == ReadInit => WalkInv
<1> SUFFICES ASSUME ReadInit PROVE WalkInv
  OBVIOUS
<1>1. ReadTypeOK
  BY TableAssumption, PageAssumption DEF ReadInit, ReadTypeOK, Cell
<1>2. Gotten = {}
  BY DEF ReadInit, Gotten
<1>3. \A k \in Present : ~(k <= after)
  BY KeyAssumption DEF ReadInit, Present
<1>4. limit # NoLimit => taken <= limit
  BY LimitAssumption DEF ReadInit
<1>5. Behind
  BY <1>2, <1>3, <1>4, FS_EmptySet DEF ReadInit, Behind
<1>6. QED
  BY <1>1, <1>5 DEF ReadInit, Whole, WalkInv

LEMMA WalkIsWhole == WalkInv => ReadIsWhole
<1> SUFFICES ASSUME WalkInv, reading = "done"
             PROVE  /\ taken = Cardinality(Gotten)
                    /\ \A k \in Gotten : got[k] \in seen[k]
                    /\ limit # NoLimit => taken <= limit
                    /\ \A k \in Present \ Gotten : taken = limit /\ \A j \in Gotten : j < k
  BY DEF ReadIsWhole
<1>1. \A k \in Present \ Gotten : taken = limit /\ \A j \in Gotten : j < k
  <2> TAKE k \in Present \ Gotten
  <2>1. taken = limit /\ ~(k <= after)
    BY DEF WalkInv, Behind, Whole
  <2>2. k \in Nat /\ after \in Nat /\ \A j \in Gotten : j \in Nat /\ j <= after
    BY KeyAssumption DEF WalkInv, ReadTypeOK, Behind, Present, Gotten
  <2>3. QED
    BY <2>1, <2>2
<1>2. QED
  BY <1>1 DEF WalkInv, Behind

LEMMA TurnKeepsWalk ==
  ASSUME WalkInv, NEW page \in SUBSET Keys, NextPage(page)
  PROVE  WalkInv'
<1> DEFINE n == IF Cardinality(Beyond) < Page THEN Cardinality(Beyond) ELSE Page
<1>1. /\ ReadTypeOK /\ reading = "on" /\ page \subseteq Beyond
      /\ got' = [k \in Keys |-> IF k \in page THEN table[k] ELSE got[k]]
      /\ taken' = taken + Cardinality(page)
      /\ table' = table /\ reading' = reading /\ limit' = limit /\ writes' = writes
      /\ seen' = seen
  BY DEF NextPage, WalkInv
<1>2. PICK last \in page : (\A k \in page : k <= last) /\ after' = last
  BY DEF NextPage
<1>3. last \in Nat /\ last > after /\ after \in Nat
  BY <1>1, <1>2, KeyAssumption DEF Beyond, ReadTypeOK
<1>4. /\ IsFiniteSet(page) /\ Cardinality(page) \in Nat
      /\ IsFiniteSet(Gotten) /\ Cardinality(Gotten) \in Nat
  BY KeysAreFinite DEF Gotten
<1>5. ReadTypeOK'
  BY <1>1, <1>3, <1>2, <1>4 DEF ReadTypeOK, Cell
<1>6. Gotten' = Gotten \cup page /\ Gotten \cap page = {}
  <2>1. \A k \in page : k \in Keys /\ table[k] # NoRow /\ k > after /\ k \in Nat
    BY <1>1, KeyAssumption DEF Beyond
  <2>2. \A k \in Gotten : k <= after /\ k \in Keys /\ k \in Nat
    BY KeyAssumption DEF WalkInv, Behind, Gotten
  <2>3. Gotten \cap page = {}
    BY <2>1, <2>2, <1>3
  <2>4. \A k \in Keys : got'[k] = IF k \in page THEN table[k] ELSE got[k]
    BY <1>1
  <2>5. QED
    BY <2>1, <2>3, <2>4 DEF Gotten
<1>7. Present' = Present
  BY <1>1 DEF Present
<1>8. taken' = Cardinality(Gotten')
  <2>1. Cardinality(Gotten \cup page)
          = Cardinality(Gotten) + Cardinality(page) - Cardinality(Gotten \cap page)
    BY <1>4, FS_Union
  <2>2. Cardinality(Gotten \cap page) = 0
    BY <1>6, FS_EmptySet
  <2>3. QED
    BY <1>1, <1>4, <1>6, <2>1, <2>2 DEF WalkInv, Behind
<1>9. \A k \in Gotten' : k <= after' /\ got'[k] \in seen'[k]
  <2> TAKE k \in Gotten'
  <2>1. CASE k \in page
    BY <1>1, <1>2, <2>1 DEF WalkInv, Behind, Beyond
  <2>2. CASE k \in Gotten /\ k \notin page
    BY <1>1, <1>2, <1>3, <2>2, KeyAssumption DEF WalkInv, Behind, Gotten
  <2>3. QED
    BY <1>6, <2>1, <2>2
<1>10. \A k \in Present' : k <= after' => k \in Gotten'
  <2> SUFFICES ASSUME NEW k \in Present, k <= last PROVE k \in Gotten \cup page
    BY <1>2, <1>6, <1>7
  <2>1. k \in Keys /\ k \in Nat /\ table[k] # NoRow
    BY <1>1, KeyAssumption DEF WalkInv, Behind, Present
  <2>2. CASE k <= after
    BY <2>2 DEF WalkInv, Behind
  <2>3. CASE ~(k <= after)
    <3>1. k \in Beyond
      BY <2>1, <2>3, <1>3 DEF Beyond
    <3>2. k = last \/ k < last
      BY <2>1, <1>3
    <3>3. QED
      BY <3>1, <3>2, <1>2 DEF NextPage
  <2>4. QED
    BY <2>2, <2>3
<1>11. limit' # NoLimit => taken' <= limit'
  <2> SUFFICES ASSUME limit # NoLimit PROVE taken + Cardinality(page) <= limit
    BY <1>1
  <2>1. limit \in Nat /\ taken \in Nat /\ taken <= limit
    BY LimitAssumption DEF WalkInv, ReadTypeOK, Behind
  <2>2. Cardinality(Beyond) \in Nat
    BY KeysAreFinite DEF Beyond
  <2>3. Page <= limit - taken /\ Page \in Int
    BY <2>1, PageAssumption DEF Page
  <2>4. Cardinality(page) <= Page
    BY <2>2, <2>3 DEF NextPage
  <2>5. QED
    BY <1>4, <2>1, <2>3, <2>4
<1>12. \A k \in Keys : table'[k] \in seen'[k]
  BY <1>1 DEF WalkInv, Behind
<1>13. QED
  BY <1>1, <1>5, <1>8, <1>9, <1>10, <1>11, <1>12 DEF WalkInv, Behind, Whole

LEMMA EndKeepsWalk ==
  ASSUME WalkInv, EndRead
  PROVE  WalkInv'
<1>1. /\ reading = "on" /\ reading' = "done" /\ (Page <= 0 \/ Beyond = {})
      /\ table' = table /\ limit' = limit /\ after' = after /\ got' = got /\ taken' = taken
      /\ writes' = writes /\ seen' = seen
  BY DEF EndRead
<1>2. ReadTypeOK' /\ Behind'
  BY <1>1 DEF WalkInv, ReadTypeOK, Behind, Gotten, Present
<1>3. Present \subseteq Gotten \/ (limit # NoLimit /\ taken = limit)
  <2>1. CASE Page <= 0
    BY <2>1, PageAssumption, LimitAssumption DEF Page, WalkInv, ReadTypeOK, Behind
  <2>2. CASE Beyond = {}
    <3> SUFFICES ASSUME NEW k \in Present PROVE k \in Gotten
      OBVIOUS
    <3>1. k \in Keys /\ table[k] # NoRow /\ k \in Nat /\ after \in Nat
      BY <1>1, KeyAssumption DEF WalkInv, ReadTypeOK, Behind, Present
    <3>2. k <= after
      BY <2>2, <3>1 DEF Beyond
    <3>3. QED
      BY <3>2 DEF WalkInv, Behind
  <2>3. QED
    BY <1>1, <2>1, <2>2
<1>4. Whole'
  BY <1>1, <1>3 DEF Whole, Present, Gotten
<1>5. QED
  BY <1>2, <1>4 DEF WalkInv

LEMMA WriteKeepsWalk ==
  ASSUME WalkInv, NEW k \in Keys, NEW row \in Cell, Write(k, row)
  PROVE  WalkInv'
<1>1. /\ ReadTypeOK /\ reading = "on" /\ writes < MaxWrites
      /\ table' = [table EXCEPT ![k] = row]
      /\ seen' = [seen EXCEPT ![k] = @ \cup {row}]
      /\ writes' = writes + 1
      /\ reading' = reading /\ limit' = limit /\ after' = after /\ got' = got /\ taken' = taken
  BY DEF Write, WalkInv
<1>2. ReadTypeOK'
  BY <1>1, PageAssumption DEF ReadTypeOK
<1>3. Gotten' = Gotten
  BY <1>1 DEF Gotten
<1>4. \A j \in Keys : seen[j] \subseteq seen'[j] /\ table'[j] \in seen'[j]
  BY <1>1 DEF ReadTypeOK, WalkInv, Behind
<1>5. Present' \subseteq Present
  BY <1>4 DEF Present
<1>6. Behind'
  BY <1>1, <1>3, <1>4, <1>5 DEF WalkInv, Behind, Gotten
<1>7. QED
  BY <1>1, <1>2, <1>6 DEF WalkInv, Whole

LEMMA BeginKeepsWalk ==
  ASSUME WalkInv, Begin
  PROVE  WalkInv'
<1>1. /\ ReadTypeOK /\ reading = "off" /\ reading' = "on"
      /\ seen' = [k \in Keys |-> {table[k]}]
      /\ table' = table /\ limit' = limit /\ after' = after /\ got' = got /\ taken' = taken
      /\ writes' = writes
  BY DEF Begin, WalkInv
<1>2. ReadTypeOK'
  BY <1>1 DEF ReadTypeOK
<1>3. \A k \in Keys : ~(k <= after)
  <2>1. after = 0
    BY <1>1 DEF WalkInv, Behind
  <2>2. QED
    BY <2>1, KeyAssumption
<1>4. Gotten = {} /\ Gotten' = Gotten
  BY <1>1, <1>3 DEF WalkInv, Behind, Gotten
<1>5. \A k \in Keys : table'[k] \in seen'[k]
  BY <1>1
<1>6. Behind'
  BY <1>1, <1>3, <1>4, <1>5 DEF WalkInv, Behind, Present
<1>7. QED
  BY <1>1, <1>2, <1>6 DEF WalkInv, Whole

LEMMA ReadKeepsWalk == WalkInv /\ ReadStep => WalkInv'
<1> SUFFICES ASSUME WalkInv, ReadStep PROVE WalkInv'
  OBVIOUS
<1>1. CASE Begin
  BY <1>1, BeginKeepsWalk
<1>2. CASE EndRead
  BY <1>2, EndKeepsWalk
<1>3. ASSUME NEW page \in SUBSET Keys, NextPage(page) PROVE WalkInv'
  BY <1>3, TurnKeepsWalk
<1>4. ASSUME NEW k \in Keys, NEW row \in Cell, Write(k, row) PROVE WalkInv'
  BY <1>4, WriteKeepsWalk
<1>5. QED
  BY <1>1, <1>2, <1>3, <1>4 DEF ReadStep

LEMMA StutterKeepsWalk == WalkInv /\ UNCHANGED readVars => WalkInv'
BY DEF WalkInv, ReadTypeOK, Behind, Whole, Gotten, Present, readVars

(***************************************************************************)
(* The account.                                                            *)
(***************************************************************************)
CreditTypeOK ==
  /\ stage \in {"ingest", "score", "balance", "read", "over"}
  /\ credit \in Nat /\ spent \in Nat /\ calls \in 0..MaxCalls
  /\ refused \in [{"ingest", "score"} -> Nat]
  /\ balance \in SUBSET Reading /\ poorest \in Nat
  /\ poorest <= credit

\* Whatever the alerts are drawn from was so.
Felt ==
  /\ refused["ingest"] > 0 \/ refused["score"] > 0 => poorest = 0
  /\ \A b \in balance : poorest <= b.usd /\ (b.available \/ poorest = 0)

Account == CreditTypeOK /\ Felt

LEMMA AccountStep ==
  ASSUME Account, Next
  PROVE  Account'
<1>0. MaxCalls \in Nat
  BY LetterAssumption
<1>1. CASE Call
  <2>1. CreditTypeOK'
    BY <1>0, <1>1 DEF Call, Judging, Account, CreditTypeOK
  <2>2. Felt'
    BY <1>1 DEF Call, Account, CreditTypeOK, Felt, Reading
  <2>3. QED
    BY <2>1, <2>2 DEF Account
<1>2. CASE CallRefused
  <2>1. stage \in {"ingest", "score"} /\ credit = 0 /\ poorest = 0
    BY <1>2 DEF CallRefused, Judging, Account, CreditTypeOK
  <2>2. CreditTypeOK'
    BY <1>0, <1>2, <2>1 DEF CallRefused, Account, CreditTypeOK
  <2>3. Felt'
    BY <1>2, <2>1 DEF CallRefused, Account, Felt
  <2>4. QED
    BY <2>2, <2>3 DEF Account
<1>3. CASE EndStage
  BY <1>3, LetterAssumption DEF EndStage, Judging, Account, CreditTypeOK, Felt
<1>4. CASE BalanceUnknown
  BY <1>4 DEF BalanceUnknown, creditVars, Account, CreditTypeOK, Felt
<1>5. ASSUME NEW n \in 1..MaxCredit, TopUp(n) PROVE Account'
  BY <1>5, LetterAssumption DEF TopUp, Account, CreditTypeOK, Felt
<1>6. ASSUME NEW usd \in 0..(MaxCredit + 2 * MaxCalls), NEW available \in BOOLEAN,
             ReadBalance(usd, available)
      PROVE  Account'
  <2>1. usd \in Nat /\ usd >= credit /\ (credit > 0 => available)
        /\ balance' = {[usd |-> usd, available |-> available]} /\ stage' = "read"
        /\ UNCHANGED <<credit, spent, calls, refused, poorest>>
    BY <1>6, LetterAssumption DEF ReadBalance, Account, CreditTypeOK
  <2>2. poorest <= usd /\ (available \/ poorest = 0)
    BY <2>1 DEF Account, CreditTypeOK
  <2>3. CreditTypeOK'
    BY <2>1 DEF Account, CreditTypeOK, Reading
  <2>4. Felt'
    BY <2>1, <2>2 DEF Account, Felt
  <2>5. QED
    BY <2>3, <2>4 DEF Account
<1>7. CASE Read
  BY <1>7 DEF Read, creditVars, Account, CreditTypeOK, Felt
<1>8. ASSUME NEW intake \in BOOLEAN, NEW days \in 0..StaleDays, Compose(intake, days)
      PROVE  Account'
  BY <1>8 DEF Compose, creditVars, Account, CreditTypeOK, Felt
<1>9. QED
  BY <1>1, <1>2, <1>3, <1>4, <1>5, <1>6, <1>7, <1>8 DEF Next

(***************************************************************************)
(* The cards.                                                              *)
(***************************************************************************)
LEMMA GroupsAreTyped == Surfaced \subseteq Keys /\ Cards \subseteq SUBSET Keys
<1>1. Surfaced \subseteq Keys
  BY DEF Surfaced, Gotten
<1>2. QED
  BY <1>1 DEF Cards, Group

LEMMA GroupsAreFinite ==
  \A cards \in SUBSET Cards : IsFiniteSet(cards) /\ Cardinality(cards) \in Nat
<1>1. IsFiniteSet(SUBSET Keys)
  BY KeyAssumption, FS_SUBSET
<1>2. QED
  BY <1>1, GroupsAreTyped, FS_Subset, FS_CardinalityType

\* A card is a job: two postings share one exactly when they are reposts.
LEMMA CardsAreJobs ==
  ASSUME NEW card \in Cards, NEW other \in Cards, NEW j \in card, NEW k \in other
  PROVE  (Fingerprint[j] = Fingerprint[k] /\ Fingerprint[j] # Blank) \/ j = k
           <=> card = other
<1>1. PICK a \in Surfaced : card = Group(a)
  BY DEF Cards
<1>2. PICK b \in Surfaced : other = Group(b)
  BY DEF Cards
<1>3. CASE Fingerprint[a] = Blank
  BY <1>1, <1>2, <1>3 DEF Group
<1>4. CASE Fingerprint[a] # Blank
  BY <1>1, <1>2, <1>4 DEF Group
<1>5. QED
  BY <1>3, <1>4

\* What is not listed is counted.
LEMMA UnlistedIsCounted ==
  ASSUME WalkInv, NEW card \in OpenCards, card \notin Listed
  PROVE  More > 0
<1> DEFINE ahead == {other \in OpenCards : Ahead(other, card)}
<1>1. IsFiniteSet(OpenCards) /\ Cardinality(OpenCards) \in Nat
  BY GroupsAreFinite DEF OpenCards
<1>2. TopN \in Nat
  BY LetterAssumption
<1>3. ~Ahead(card, card)
  <2> SUFFICES ASSUME NEW k \in card, Before(k, k) PROVE FALSE
    BY DEF Ahead
  <2>1. k \in Surfaced
    BY DEF OpenCards, Cards, Group
  <2>2. k \in Nat /\ got[k].score \in Nat
    BY <2>1, KeyAssumption, LetterAssumption DEF Surfaced, Gotten, WalkInv, ReadTypeOK, Cell
  <2>3. QED
    BY <2>2 DEF Before
<1>4. Cardinality(ahead) < Cardinality(OpenCards)
  BY <1>1, <1>3, FS_Subset, FS_CardinalityType
<1>5. Cardinality(ahead) \in Nat /\ ~(Cardinality(ahead) < TopN)
  BY <1>1, FS_Subset, FS_CardinalityType DEF Listed
<1>6. QED
  BY <1>1, <1>2, <1>4, <1>5 DEF More

LEMMA MatchesAreShown ==
  ASSUME WalkInv, reading = "done", limit = NoLimit,
         NEW k \in Keys, NEW row \in Rows, seen[k] = {row}, row.score >= Threshold
  PROVE  \/ \E card \in NewCards : k \in card
         \/ ~News(row) /\ (More > 0 \/ \E card \in Listed : k \in card)
<1>1. k \in Gotten
  BY RowAssumption DEF WalkInv, Whole, Present
<1>2. got[k] = row
  BY <1>1 DEF WalkInv, Behind
<1>3. k \in Surfaced
  BY <1>1, <1>2 DEF Surfaced
<1>4. Group(k) \in Cards /\ k \in Group(k)
  BY <1>3 DEF Cards, Group
<1>5. CASE Group(k) \in NewCards
  BY <1>4, <1>5
<1>6. CASE Group(k) \notin NewCards
  <2>1. Group(k) \in OpenCards /\ ~News(row)
    BY <1>2, <1>4, <1>6 DEF OpenCards, NewCards
  <2>2. QED
    BY <1>4, <2>1, UnlistedIsCounted
<1>7. QED
  BY <1>5, <1>6

(***************************************************************************)
(* The letter.                                                             *)
(***************************************************************************)
Sent == letter # {} => stage = "over"

LetterOK == letter \in SUBSET Mail /\ EveryMatchOnOneCard /\ CreditIsTold

LetterInv == WalkInv /\ Account /\ first \in BOOLEAN /\ Sent /\ LetterOK

LEMMA RenderIsTyped ==
  ASSUME WalkInv, Account, NEW intake \in BOOLEAN, NEW days \in Nat
  PROVE  Render(intake, days) \in Mail
<1> DEFINE alerts == Banners(intake, days)
<1>1. alerts \in SUBSET Alerts /\ Lead(alerts) \in Alerts \cup {"none"}
  BY DEF Banners, Stale, CreditProblem, Alerts, Lead
<1>2. NewCards \in SUBSET SUBSET Keys /\ Listed \in SUBSET SUBSET Keys
  BY GroupsAreTyped DEF NewCards, OpenCards, Listed
<1>3. More \in Nat
  BY GroupsAreFinite, LetterAssumption DEF More, OpenCards
<1>4. Cardinality(Gotten \ Surfaced) \in Nat
  BY KeysAreFinite DEF Gotten
<1>5. Badges \in SUBSET Keys
  BY GroupsAreTyped DEF Badges
<1> HIDE DEF alerts
<1>6. QED
  BY <1>1, <1>2, <1>3, <1>4, <1>5 DEF Render, Mail, alerts

LEMMA RenderTellsCredit ==
  ASSUME Account, NEW intake \in BOOLEAN, NEW days \in Nat, NEW m, m = Render(intake, days)
  PROVE  /\ refused["ingest"] > 0 \/ refused["score"] > 0 => m.lead = "out_of_credit"
         /\ m.lead = "out_of_credit" => poorest = 0
         /\ "low_credit" \in m.alerts => poorest < Low
         /\ m.lead = "none" <=> m.alerts = {}
<1> DEFINE alerts == Banners(intake, days)
<1>1. m.alerts = alerts /\ m.lead = Lead(alerts)
  BY DEF Render
<1>2. Low \in Nat /\ poorest \in Nat /\ refused["ingest"] \in Nat /\ refused["score"] \in Nat
      /\ \A b \in balance : b.usd \in Nat
  BY LetterAssumption DEF Account, CreditTypeOK, Reading
<1>3. refused["ingest"] > 0 \/ refused["score"] > 0 => CreditProblem = {"out_of_credit"}
  BY <1>2 DEF CreditProblem, Blocked
<1>4. CreditProblem = {"out_of_credit"} => poorest = 0
  <2> SUFFICES ASSUME CreditProblem = {"out_of_credit"} PROVE poorest = 0
    OBVIOUS
  <2>1. Blocked > 0 \/ \E b \in balance : b.usd <= 0 \/ ~b.available
    BY DEF CreditProblem
  <2>2. QED
    BY <1>2, <2>1 DEF Blocked, Account, Felt
<1>5. CreditProblem = {"low_credit"} => poorest < Low
  <2> SUFFICES ASSUME CreditProblem = {"low_credit"} PROVE poorest < Low
    OBVIOUS
  <2>1. PICK b \in balance : b.usd < Low
    BY DEF CreditProblem
  <2>2. QED
    BY <1>2, <2>1 DEF Account, Felt
<1>6. CreditProblem \in {{}, {"out_of_credit"}, {"low_credit"}}
  BY DEF CreditProblem
<1>7. QED
  BY <1>1, <1>3, <1>4, <1>5, <1>6 DEF Lead, Banners, Stale

LEMMA LetterBegins == Init => LetterInv
<1> SUFFICES ASSUME Init PROVE LetterInv
  OBVIOUS
<1>1. WalkInv
  BY WalkBegins DEF Init
<1>2. Account
  BY LetterAssumption DEF Init, Account, CreditTypeOK, Felt
<1>3. first \in BOOLEAN /\ Sent /\ LetterOK
  BY DEF Init, Sent, LetterOK, EveryMatchOnOneCard, CreditIsTold
<1>4. QED
  BY <1>1, <1>2, <1>3 DEF LetterInv

LEMMA ComposeTellsAll ==
  ASSUME LetterInv, NEW intake \in BOOLEAN, NEW days \in 0..StaleDays, Compose(intake, days)
  PROVE  LetterOK'
<1> DEFINE m == Render(intake, days)
<1>1. /\ reading = "done" /\ limit = NoLimit /\ letter' = {m}
      /\ UNCHANGED readVars /\ refused' = refused /\ poorest' = poorest /\ first' = first
  BY DEF Compose, creditVars
<1>2. WalkInv /\ Account /\ days \in Nat
  BY LetterAssumption DEF LetterInv
<1>3. m \in Mail
  BY <1>2, RenderIsTyped
<1>4. m.news = NewCards /\ m.open = Listed /\ m.more = More
  BY DEF Render
<1>5. NewCards \cup Listed \subseteq Cards
  BY DEF NewCards, Listed, OpenCards
<1>6. CreditIsTold'
  <2>1. /\ refused["ingest"] > 0 \/ refused["score"] > 0 => m.lead = "out_of_credit"
        /\ m.lead = "out_of_credit" => poorest = 0
        /\ "low_credit" \in m.alerts => poorest < Low
        /\ m.lead = "none" <=> m.alerts = {}
    BY <1>2, RenderTellsCredit
  <2>2. QED
    BY <1>1, <2>1 DEF CreditIsTold
<1>7. EveryMatchOnOneCard'
  <2>1. \A k \in Keys, row \in Rows : seen[k] = {row} /\ row.score >= Threshold =>
          \/ \E card \in m.news : k \in card
          \/ ~News(row) /\ (m.more > 0 \/ \E card \in m.open : k \in card)
    BY <1>1, <1>2, <1>4, MatchesAreShown
  <2>2. \A card, other \in m.news \cup m.open : \A j \in card, k \in other :
          (Fingerprint[j] = Fingerprint[k] /\ Fingerprint[j] # Blank) \/ j = k <=> card = other
    BY <1>4, <1>5, CardsAreJobs
  <2>3. seen' = seen /\ \A row \in Rows : News(row)' <=> News(row)
    BY <1>1 DEF readVars, News
  <2> HIDE DEF m
  <2>4. QED
    BY <1>1, <2>1, <2>2, <2>3 DEF EveryMatchOnOneCard, News
<1>8. QED
  BY <1>1, <1>3, <1>6, <1>7 DEF LetterOK

\* A letter, once rendered, ends the run.
LEMMA LetterStep == LetterInv /\ [Next]_vars => LetterInv'
<1> SUFFICES ASSUME LetterInv, [Next]_vars PROVE LetterInv'
  OBVIOUS
<1>1. CASE UNCHANGED vars
  BY <1>1, StutterKeepsWalk
    DEF vars, creditVars, readVars, LetterInv, WalkInv, Account, CreditTypeOK, Felt, Sent,
        LetterOK, EveryMatchOnOneCard, CreditIsTold, News, Graduated
<1>2. CASE Next
  <2>1. WalkInv'
    <3>1. CASE UNCHANGED readVars
      BY <3>1, StutterKeepsWalk DEF LetterInv
    <3>2. CASE Read
      BY <3>2, ReadKeepsWalk DEF Read, LetterInv
    <3>3. QED
      BY <1>2, <3>1, <3>2
        DEF Next, Call, CallRefused, EndStage, BalanceUnknown, TopUp, ReadBalance, Compose
  <2>2. Account'
    BY <1>2, AccountStep DEF LetterInv
  <2>3. CASE \E intake \in BOOLEAN, days \in 0..StaleDays : Compose(intake, days)
    <3>1. first' = first /\ stage' = "over"
      BY <2>3 DEF Compose
    <3>2. LetterOK'
      BY <2>3, ComposeTellsAll
    <3>3. QED
      BY <2>1, <2>2, <3>1, <3>2 DEF LetterInv, Sent
  <2>4. CASE ~\E intake \in BOOLEAN, days \in 0..StaleDays : Compose(intake, days)
    <3>1. stage # "over" /\ letter' = letter /\ first' = first
      BY <1>2, <2>4
        DEF Next, Call, CallRefused, EndStage, BalanceUnknown, TopUp, ReadBalance, Read, Judging
    <3>2. letter' = {}
      BY <3>1 DEF LetterInv, Sent
    <3>3. Sent' /\ LetterOK'
      BY <3>2 DEF Sent, LetterOK, EveryMatchOnOneCard, CreditIsTold
    <3>4. QED
      BY <2>1, <2>2, <3>1, <3>3 DEF LetterInv
  <2>5. QED
    BY <2>3, <2>4
<1>3. QED
  BY <1>1, <1>2

LEMMA LetterAlways == Spec => []LetterInv
BY LetterBegins, LetterStep, PTL DEF Spec

\* Every variable of a run and of its letter keeps its type, and the account has
\* never held less than the run has felt.
THEOREM TypeCorrect == Spec => []TypeOK
<1>1. LetterInv => TypeOK
  BY DEF LetterInv, WalkInv, Account, CreditTypeOK, LetterOK, TypeOK
<1>2. QED
  BY <1>1, LetterAlways, PTL

\* A read by pages has every row that was there all along, each row once and as
\* it was at some time of the walk, and respects its limit, for every page size
\* and whatever is written between two pages (_read_paginated).
THEOREM WalksAreWhole == Spec => []ReadIsWhole
<1>1. LetterInv => ReadIsWhole
  BY WalkIsWhole DEF LetterInv
<1>2. QED
  BY <1>1, LetterAlways, PTL

\* Every match that was there all along is on one card of the letter or counted
\* by its overflow line, and cards are jobs (collapse_duplicates, render_digest).
THEOREM LettersAreComplete == Spec => []EveryMatchOnOneCard
<1>1. LetterInv => EveryMatchOnOneCard
  BY DEF LetterInv, LetterOK
<1>2. QED
  BY <1>1, LetterAlways, PTL

\* Refused calls head the letter and no alert is false, although the balance is
\* read late, reads high or is not read at all (credit_problem, _with_banners).
THEOREM CreditIsAlwaysTold == Spec => []CreditIsTold
<1>1. LetterInv => CreditIsTold
  BY DEF LetterInv, LetterOK
<1>2. QED
  BY <1>1, LetterAlways, PTL
=============================================================================
