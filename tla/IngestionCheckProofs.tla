------------------------- MODULE IngestionCheckProofs -------------------------
(***************************************************************************)
(* The ingestion check neither cries wolf nor gives a false all-clear, agrees *)
(* with the digest, and does not look past its cutoff: for every cadence,    *)
(* window, first clean cycle and history of the bucket.                      *)
(***************************************************************************)
EXTENDS IngestionCheck, TLAPS

(***************************************************************************)
(* Arithmetic of the cadence.                                               *)
(***************************************************************************)

\* d - d % n is a multiple of n.
LEMMA MultipleBelow ==
  ASSUME NEW n \in Nat, n > 0, NEW d \in Nat
  PROVE  /\ d - (d % n) \in Nat /\ d - (d % n) <= d /\ d - (d % n) > d - n
         /\ (d - (d % n)) % n = 0
<1> DEFINE q == d \div n
           r == d % n
<1>1. q \in Nat /\ r \in 0..(n - 1) /\ d = n * q + r
  BY SMT
<1>2. (n * q) % n = 0
  <2>1. CASE n = 1
    BY <1>1, <2>1, SMT
  <2>2. CASE n > 1
    BY <1>1, <2>2, SMT
  <2>3. QED
    BY <2>1, <2>2, SMT
<1>3. QED
  BY <1>1, <1>2, SMT

\* As many adjacent days as the cadence has contain a fetch day.
LEMMA CadenceHasFetchDay ==
  ASSUME NEW d \in Nat
  PROVE  \E k \in d..(d + EveryNDays - 1) : IsFetchDay(k)
<1> DEFINE last == d + EveryNDays - 1
           k    == last - (last % EveryNDays)
<1>1. EveryNDays \in Nat /\ EveryNDays > 0 /\ last \in Nat
  BY CadenceAssumption
<1>2. k \in Nat /\ k <= last /\ k > last - EveryNDays /\ k % EveryNDays = 0
  <2> HIDE DEF last
  <2>1. QED
    BY <1>1, MultipleBelow
<1>3. IsFetchDay(k)
  BY <1>2 DEF IsFetchDay
<1>4. QED
  BY <1>1, <1>2, <1>3

(***************************************************************************)
(* What a bucket holds.                                                     *)
(***************************************************************************)
Recorded ==
  /\ \A d \in Days : runs[d] # {} => d <= today
  /\ \A d \in raw : d <= today
  /\ \A d \in Days : \A s \in runs[d] :
       s.ingest = "not_a_fetch_day" /\ IsFetchDay(d) => d \in passed_over

BucketInv == TypeOK /\ Recorded

\* What a run may leave: a summary of its date, or nothing.
Left(d, s) ==
  \/ runs' = runs
  \/ \E day \in SUBSET (runs[d] \cup {s}) : runs' = [runs EXCEPT ![d] = day]

LEMMA LeaveKeepsType ==
  ASSUME TypeOK, NEW d \in RunDate, NEW summary \in RunRecord, NEW cost \in Nat,
         Leave(d, summary, cost)
  PROVE  runs' \in [Days -> SUBSET RunRecord] /\ odd' \in 0..MaxOdd /\ Left(d, summary)
<1>1. runs[d] \in SUBSET RunRecord
  BY DEF TypeOK, RunDate
<1>2. Left(d, summary)
  BY DEF Left, Leave, Written
<1>3. runs' \in [Days -> SUBSET RunRecord]
  BY <1>1, <1>2 DEF Left, TypeOK
<1>4. QED
  BY <1>2, <1>3, CheckBounds DEF TypeOK, Leave, Odd

\* Postings land today, or yesterday.
LEMMA LandKeepsType ==
  ASSUME TypeOK, NEW d \in RunDate, NEW fetched, Land(d, fetched)
  PROVE  raw' \subseteq Days /\ \A k \in raw' : k \in raw \/ k <= today
<1>1. d \in Days /\ today \in Days /\ d <= today /\ today <= today
  BY CheckBounds DEF TypeOK, RunDate, Days
<1>2. PICK on \in SUBSET {d, today} : raw' = raw \cup on
  BY DEF Land
<1>3. QED
  BY <1>1, <1>2 DEF TypeOK

\* A run adds to the bucket's past and to its present only.
LEMMA RecordedStep ==
  ASSUME TypeOK, Recorded, NEW d \in RunDate, NEW s \in RunRecord, today' = today,
         \A k \in raw' : k \in raw \/ k <= today,
         passed_over \subseteq passed_over', Left(d, s),
         s.ingest = "not_a_fetch_day" /\ IsFetchDay(d) => d \in passed_over'
  PROVE  Recorded'
<1>1. d \in Days /\ d <= today /\ runs \in [Days -> SUBSET RunRecord]
  BY DEF TypeOK, RunDate
<1>2. ASSUME NEW k \in Days
      PROVE  runs'[k] = runs[k] \/ (k = d /\ runs'[k] \subseteq runs[k] \cup {s})
  BY <1>1 DEF Left
<1>3. \A k \in Days : runs'[k] # {} => k <= today'
  BY <1>1, <1>2 DEF Recorded
<1>4. \A k \in raw' : k <= today'
  BY DEF Recorded
<1>5. ASSUME NEW k \in Days, NEW r \in runs'[k], r.ingest = "not_a_fetch_day", IsFetchDay(k)
      PROVE  k \in passed_over'
  BY <1>2, <1>5 DEF Recorded
<1>6. (\A k \in Days : \A r \in runs[k] :
         r.ingest = "not_a_fetch_day" /\ IsFetchDay(k) => k \in passed_over)'
  BY <1>5
<1>7. QED
  BY <1>3, <1>4, <1>6 DEF Recorded

\* Every variable of the ingestion check's bucket keeps its type, and what lies in
\* the bucket is of a past day or of today.
LEMMA BucketStep ==
  ASSUME BucketInv, [Next]_vars
  PROVE  BucketInv'
<1>1. TypeOK /\ Recorded /\ today \in Days
  BY DEF BucketInv, TypeOK
<1>2. ASSUME NEW d \in RunDate, NEW status \in {200, 500}, SkipSweep(d, status)
      PROVE  BucketInv'
  <2> DEFINE s == [ingest |-> "not_a_fetch_day", statusCode |-> status, mode |-> "daily",
                   fetched |-> FALSE]
  <2>1. s \in RunRecord
    BY DEF RunRecord, Block
  <2>2. PICK cost \in Nat : Leave(d, s, cost)
    BY <1>2 DEF SkipSweep, Again, Cost
  <2> HIDE DEF s
  <2>3. runs' \in [Days -> SUBSET RunRecord] /\ odd' \in 0..MaxOdd /\ Left(d, s)
    BY <2>1, <2>2, <1>1, LeaveKeepsType
  <2>4. TypeOK'
    BY <1>1, <1>2, <2>3 DEF SkipSweep, Ran, RunDate, TypeOK
  <2>5. Recorded'
    BY <1>1, <1>2, <2>1, <2>3, RecordedStep DEF SkipSweep, Recorded
  <2>6. QED
    BY <2>4, <2>5 DEF BucketInv
<1>3. ASSUME NEW d \in RunDate, NEW stopped \in {b \in Block : IsSweep(b)},
             NEW fetched \in BOOLEAN, NEW status \in {200, 500},
             RunSweep(d, stopped, fetched, status)
      PROVE  BucketInv'
  <2> DEFINE s == [ingest |-> stopped, statusCode |-> status, mode |-> "daily",
                   fetched |-> fetched]
  <2>1. s \in RunRecord /\ s.ingest # "not_a_fetch_day"
    BY DEF RunRecord, IsSweep
  <2>2. PICK cost \in Nat : Leave(d, s, cost)
    BY <1>3 DEF RunSweep, Again, Cost
  <2> HIDE DEF s
  <2>3. runs' \in [Days -> SUBSET RunRecord] /\ odd' \in 0..MaxOdd /\ Left(d, s)
    BY <2>1, <2>2, <1>1, LeaveKeepsType
  <2>4. TypeOK'
    BY <1>1, <1>3, <2>3, LandKeepsType DEF RunSweep, Ran, TypeOK
  <2>5. Recorded'
    BY <1>1, <1>3, <2>1, <2>3, LandKeepsType, RecordedStep DEF RunSweep
  <2>6. QED
    BY <2>4, <2>5 DEF BucketInv
<1>4. ASSUME NEW d \in RunDate, NEW fetched \in BOOLEAN, CrashEarly(d, fetched)
      PROVE  BucketInv'
  <2> DEFINE s == [ingest |-> "no_block", statusCode |-> 500, mode |-> "daily",
                   fetched |-> FALSE]
  <2>1. s \in RunRecord /\ s.ingest # "not_a_fetch_day"
    BY DEF RunRecord, Block
  <2>2. PICK cost \in Nat : Leave(d, s, cost)
    BY <1>4 DEF CrashEarly, Again, Cost
  <2> HIDE DEF s
  <2>3. runs' \in [Days -> SUBSET RunRecord] /\ odd' \in 0..MaxOdd /\ Left(d, s)
    BY <2>1, <2>2, <1>1, LeaveKeepsType
  <2>4. TypeOK'
    BY <1>1, <1>4, <2>3, LandKeepsType DEF CrashEarly, Ran, TypeOK
  <2>5. Recorded'
    BY <1>1, <1>4, <2>1, <2>3, LandKeepsType, RecordedStep DEF CrashEarly
  <2>6. QED
    BY <2>4, <2>5 DEF BucketInv
<1>5. ASSUME NEW d \in RunDate, NEW status \in {200, 500}, Reassess(d, status)
      PROVE  BucketInv'
  <2> DEFINE s == [ingest |-> "no_block", statusCode |-> status, mode |-> "reassess",
                   fetched |-> FALSE]
  <2>1. s \in RunRecord /\ s.ingest # "not_a_fetch_day"
    BY DEF RunRecord, Block
  <2>2. Leave(d, s, 1)
    BY <1>5 DEF Reassess
  <2> HIDE DEF s
  <2>3. runs' \in [Days -> SUBSET RunRecord] /\ odd' \in 0..MaxOdd /\ Left(d, s)
    BY <2>1, <2>2, <1>1, LeaveKeepsType
  <2>4. TypeOK'
    BY <1>1, <1>5, <2>3 DEF Reassess, TypeOK
  <2>5. Recorded'
    BY <1>1, <1>5, <2>1, <2>3, RecordedStep DEF Reassess, Recorded
  <2>6. QED
    BY <2>4, <2>5 DEF BucketInv
<1>6. CASE Deploy
  BY <1>1, <1>6, CheckBounds DEF Deploy, Odd, TypeOK, Recorded, BucketInv
<1>7. CASE NextDay
  <2>1. today' \in Days /\ today' >= today /\ odd' \in 0..MaxOdd
    BY <1>1, <1>7, CheckBounds DEF NextDay, Odd, Cost, TypeOK, Days
  <2>2. TypeOK'
    BY <1>1, <1>7, <2>1 DEF NextDay, TypeOK
  <2>3. Recorded'
    BY <1>1, <1>7, <2>1, CheckBounds DEF NextDay, TypeOK, Recorded, Days
  <2>4. QED
    BY <2>2, <2>3 DEF BucketInv
<1>8. CASE UNCHANGED vars
  BY <1>1, <1>8 DEF vars, TypeOK, Recorded, BucketInv
<1>9. CASE Next
  BY <1>2, <1>3, <1>4, <1>5, <1>6, <1>7, <1>8, <1>9 DEF Next, Check
<1>10. QED
  BY <1>8, <1>9

LEMMA BucketAlways == Spec => []BucketInv
<1>1. ASSUME Init PROVE BucketInv
  <2>1. 0 \in Days /\ 0 \in 0..MaxOdd
    BY CheckBounds DEF Days
  <2>2. TypeOK
    BY <1>1, <2>1 DEF Init, TypeOK
  <2>3. Recorded
    BY <1>1 DEF Init, Recorded
  <2>4. QED
    BY <2>2, <2>3 DEF BucketInv
<1>2. QED
  BY <1>1, BucketStep, PTL DEF Spec

\* The bucket and its environment keep their types (the variables of the module).
THEOREM TypeCorrect == Spec => []TypeOK
<1>1. BucketInv => TypeOK
  BY DEF BucketInv
<1>2. QED
  BY <1>1, BucketAlways, PTL

(***************************************************************************)
(* What the report sees.                                                    *)
(***************************************************************************)

\* The runs that are judged lie in the bucket, at wanted dates.
LEMMA JudgedAreRuns ==
  ASSUME NEW c, NEW unread, NEW r \in Judged(c, unread)
  PROVE  /\ r = <<r[1], r[2]>> /\ r[1] \in Wanted(c) /\ r[2] \in runs[r[1]]
         /\ r[1] \in Days /\ r[1] <= c /\ r \notin unread
<1>1. PICK d \in Wanted(c) : r \in {<<d, s>> : s \in runs[d]}
  BY DEF Judged
<1>2. PICK s \in runs[d] : r = <<d, s>>
  BY <1>1
<1>3. d \in Days /\ d <= c
  BY DEF Wanted, RunDates
<1>4. r \notin unread
  BY DEF Judged
<1>5. QED
  BY <1>2, <1>3, <1>4

\* No cadence is anomalous while none of its fetch days was passed over.
LEMMA NoAnomaly ==
  ASSUME Recorded, passed_over = {}, NEW c, NEW unread
  PROVE  ~CadenceAnomaly(Judged(c, unread))
<1> DEFINE judged == Judged(c, unread)
<1>1. SUFFICES ASSUME NEW d \in SkippedDays(judged),
                      d..(d + EveryNDays - 1) \subseteq SkippedDays(judged)
               PROVE  FALSE
  BY DEF CadenceAnomaly, LongestRunReaches
<1>2. \A k \in SkippedDays(judged) : k \in Days /\ \E s \in runs[k] : s.ingest = "not_a_fetch_day"
  <2>1. TAKE k \in SkippedDays(judged)
  <2>2. PICK r \in judged : r[1] = k /\ r[2].ingest = "not_a_fetch_day"
    BY DEF SkippedDays
  <2>3. QED
    BY <2>2, JudgedAreRuns
<1>3. d \in Nat
  BY <1>2 DEF Days
<1>4. PICK k \in d..(d + EveryNDays - 1) : IsFetchDay(k)
  BY <1>3, CadenceHasFetchDay
<1>5. QED
  BY <1>1, <1>2, <1>4 DEF Recorded

\* The verdict fails a run only if it failed or was refused by the new cycle's quota.
LEMMA FailedOrRefused ==
  ASSUME NEW s \in RunRecord, NEW d \in Nat, Verdict(s, d) = "FAIL"
  PROVE  s.statusCode = 500 \/ (s.ingest = "rate_limited" /\ d >= FirstCleanCycle)
BY CadenceAssumption DEF Verdict, RunRecord, Block

\* On a calm bucket something has landed lately, or today's sweep is awaited.
LEMMA CalmIsFresh ==
  ASSUME BucketInv, Calm
  PROVE  ~NothingHasLanded(today)
<1>1. SUFFICES ASSUME today > FirstCleanCycle, ~AwaitingTodaysRun(today)
               PROVE  Fresh(today)
  BY DEF NothingHasLanded
<1> DEFINE k == today - (today % EveryNDays)
<1>2. /\ today \in Nat /\ today \in Days /\ FirstCleanCycle \in Nat /\ EveryNDays \in Nat
      /\ EveryNDays > 0
  BY CadenceAssumption, CheckBounds DEF BucketInv, TypeOK, Days
<1>3. k \in Nat /\ k <= today /\ k > today - EveryNDays /\ k % EveryNDays = 0
  BY <1>2, MultipleBelow
<1>4. IsFetchDay(k)
  BY <1>3 DEF IsFetchDay
<1>5. PICK d \in Days : runs[d] # {} /\ today - d <= RunDroughtDays /\ d <= today
  BY DEF Calm, BucketInv, Recorded
<1>6. k = today => runs[k] # {}
  BY <1>1, <1>2, <1>4, <1>5 DEF AwaitingTodaysRun, RunDates
<1>7. k \in FirstCleanCycle..today => k \in raw
  BY <1>2, <1>3, <1>4, <1>6 DEF Calm
<1>8. CASE k >= FirstCleanCycle
  BY <1>2, <1>3, <1>7, <1>8 DEF Fresh, RawDates, StaleAfter
<1>9. CASE k < FirstCleanCycle
  <2>1. FirstCleanCycle \in raw
    BY <1>1, <1>2, CycleAssumption DEF Calm
  <2>2. QED
    BY <1>1, <1>2, <1>3, <1>9, <2>1 DEF Fresh, RawDates, StaleAfter
<1>10. QED
  BY <1>2, <1>3, <1>8, <1>9

\* The check never cries wolf (NoFalseAlarm): with nothing wrong it does not fail,
\* for any cadence and window, whatever is missing, repeated or unreadable.
THEOREM NeverCriesWolf == Spec => []NoFalseAlarm
<1>1. ASSUME BucketInv PROVE NoFalseAlarm
  <2>1. SUFFICES ASSUME Calm, NEW unread \in Unreadable
                 PROVE  Exit(today, unread) # "FAIL"
    BY DEF NoFalseAlarm
  <2> DEFINE judged == Judged(today, unread)
  <2>2. ~NothingHasLanded(today)
    BY <1>1, <2>1, CalmIsFresh
  <2>3. \A r \in judged : r[1] \in Nat /\ r[1] \in Days /\ r[2] \in RunRecord /\ r[2] \in runs[r[1]]
    BY <1>1, JudgedAreRuns DEF BucketInv, TypeOK, Days
  <2>4. \A r \in judged : r[2].statusCode # 500
    BY <2>1, <2>3 DEF Calm
  <2>5. \A r \in judged : Verdict(r[2], r[1]) # "FAIL"
    BY <2>1, <2>3, <2>4, FailedOrRefused, CadenceAssumption DEF Calm
  <2>6. ~RunDrought(today)
    <3>1. PICK d \in Days : runs[d] # {} /\ today - d <= RunDroughtDays /\ d <= today
      BY <1>1, <2>1 DEF Calm, BucketInv, Recorded
    <3>2. d \in RunDates(today) /\ ~(today - d > RunDroughtDays)
      BY <1>1, <3>1, WindowAssumption, CheckBounds DEF RunDates, BucketInv, TypeOK, Days
    <3>3. QED
      BY <3>2 DEF RunDrought
  <2>7. ~CadenceAnomaly(judged)
    BY <1>1, <2>1, NoAnomaly DEF Calm, BucketInv
  <2>8. ~FailureStreak(judged)
    BY <2>4 DEF FailureStreak, LongestRunReaches, FailedDays
  <2>9. QED
    BY <2>2, <2>5, <2>6, <2>7, <2>8 DEF Exit, Failing
<1>2. QED
  BY <1>1, BucketAlways, PTL

\* An OK is always earned (OkIsEarned): everything was read, runs and landings are
\* recent, nothing failed, and no cadence of adjacent days went without a sweep.
THEOREM OkIsAlwaysEarned == Spec => []OkIsEarned
<1>1. ASSUME BucketInv PROVE OkIsEarned
  <2>1. SUFFICES ASSUME NEW unread \in Unreadable, Exit(today, unread) = "OK"
                 PROVE  /\ unread = {}
                        /\ \E d \in Days : runs[d] # {} /\ today - d <= RunDroughtDays
                        /\ \/ \E d \in raw : today - d <= 2 * EveryNDays
                           \/ today < FirstCleanCycle
                           \/ today = FirstCleanCycle /\ runs[today] # {}
                        /\ \A d \in Wanted(today) : \A s \in runs[d] : s.statusCode = 200
                        /\ \A d \in Wanted(today) :
                             EveryNDays > 1 /\ d..(d + EveryNDays - 1) \subseteq Wanted(today)
                               => \E e \in d..(d + EveryNDays - 1) :
                                    \E s \in runs[e] : s.ingest # "not_a_fetch_day"
    BY DEF OkIsEarned
  <2> DEFINE judged == Judged(today, unread)
  <2>2. /\ Wanted(today) # {} /\ ~Failing(today, judged) /\ ~CannotJudge(today)
        /\ Judged(today, {}) = judged
    BY <2>1 DEF Exit
  <2>3. unread = {}
    <3>1. ASSUME NEW r \in unread PROVE FALSE
      <4>1. r \in Judged(today, {})
        BY <2>1 DEF Unreadable
      <4>2. r \notin judged
        BY JudgedAreRuns
      <4>3. QED
        BY <2>2, <4>1, <4>2
    <3>2. QED
      BY <3>1
  <2>4. today \in Nat /\ FirstCleanCycle \in Nat /\ EveryNDays \in Nat /\ RunDroughtDays \in Nat
    BY <1>1, CadenceAssumption, CheckBounds, WindowAssumption DEF BucketInv, TypeOK, Days
  <2>5. Wanted(today) \subseteq RunDates(today) /\ RunDates(today) \subseteq Days
        /\ \A d \in RunDates(today) : runs[d] # {} /\ d \in Nat
    BY DEF Wanted, RunDates, Days
  <2>6. \E d \in Days : runs[d] # {} /\ today - d <= RunDroughtDays
    <3>1. ~RunDrought(today)
      BY <2>2 DEF Failing
    <3>2. PICK d \in RunDates(today) : ~(today - d > RunDroughtDays)
      BY <2>4, <2>5, <3>1 DEF RunDrought, AwaitingTodaysRun
    <3>3. QED
      BY <2>4, <2>5, <3>2
  <2>7. \/ \E d \in raw : today - d <= 2 * EveryNDays
        \/ today < FirstCleanCycle
        \/ today = FirstCleanCycle /\ runs[today] # {}
    <3>1. ~NothingHasLanded(today) /\ BucketHasData
      BY <2>2, <2>5 DEF Failing, BucketHasData
    <3>2. CASE Fresh(today)
      BY <3>2 DEF Fresh, RawDates, StaleAfter
    <3>3. CASE ~Fresh(today)
      <4>1. ~AwaitingTodaysRun(today) /\ ~(today > FirstCleanCycle)
        BY <2>2, <3>1, <3>3 DEF CannotJudge, NothingHasLanded
      <4>2. today = FirstCleanCycle => runs[today] # {}
        <5>1. PICK d \in RunDates(today) : ~(today - d > RunDroughtDays)
          BY <2>2, <4>1 DEF Failing, RunDrought
        <5>2. QED
          BY <2>4, <2>5, <4>1, <5>1, CycleAssumption DEF AwaitingTodaysRun
      <4>3. QED
        BY <2>4, <4>1, <4>2
    <3>4. QED
      BY <3>2, <3>3
  <2>8. \A d \in Wanted(today) : \A s \in runs[d] : <<d, s>> \in judged
    BY <2>2, <2>3 DEF Judged
  <2>9. \A d \in Wanted(today) :
           EveryNDays > 1 /\ d..(d + EveryNDays - 1) \subseteq Wanted(today)
             => \E e \in d..(d + EveryNDays - 1) :
                  \E s \in runs[e] : s.ingest # "not_a_fetch_day"
    <3> SUFFICES ASSUME NEW d \in Wanted(today), EveryNDays > 1,
                        d..(d + EveryNDays - 1) \subseteq Wanted(today)
                 PROVE  \E e \in d..(d + EveryNDays - 1) :
                          \E s \in runs[e] : s.ingest # "not_a_fetch_day"
      OBVIOUS
    <3>1. d \in d..(d + EveryNDays - 1)
      BY <2>4, <2>5
    <3>2. \E e \in d..(d + EveryNDays - 1) : e \notin SkippedDays(judged)
      <4>1. ~LongestRunReaches(EveryNDays, SkippedDays(judged))
        BY <2>2 DEF Failing, CadenceAnomaly
      <4>2. QED
        BY <3>1, <4>1 DEF LongestRunReaches
    <3>3. PICK e \in d..(d + EveryNDays - 1) : e \notin SkippedDays(judged)
      BY <3>2
    <3>4. PICK s \in runs[e] : <<e, s>> \in judged
      BY <2>5, <2>8
    <3>5. PICK r \in judged : r[1] = e /\ r[2].ingest # "not_a_fetch_day"
      BY <3>3, <3>4 DEF SkippedDays
    <3>6. QED
      BY <3>5, JudgedAreRuns
  <2>10. \A d \in Wanted(today) : \A s \in runs[d] : s.statusCode = 200
    <3>1. TAKE d \in Wanted(today)
    <3>2. TAKE s \in runs[d]
    <3>3. s \in RunRecord
      BY <1>1, <2>5 DEF BucketInv, TypeOK
    <3>4. Verdict(<<d, s>>[2], <<d, s>>[1]) # "FAIL"
      BY <2>2, <2>8 DEF Failing
    <3>5. s.statusCode # 500
      BY <3>4 DEF Verdict
    <3>6. QED
      BY <3>3, <3>5 DEF RunRecord
  <2>11. QED
    BY <2>3, <2>6, <2>7, <2>9, <2>10, Zenon
<1>2. QED
  BY <1>1, BucketAlways, PTL

\* The check and the digest's alert agree on every day (AgreesWithDigest).
THEOREM ReportsAgree == Spec => []AgreesWithDigest
<1>1. ASSUME BucketInv PROVE AgreesWithDigest
  <2>1. SUFFICES ASSUME NEW d \in Wanted(today)
                 PROVE  /\ ProblemOnDay(runs[d], d) # "none"
                            => \E s \in runs[d] : Verdict(s, d) \in {"FAIL", "WARN"}
                        /\ (\E s \in runs[d] : Verdict(s, d) = "PASS")
                            => ProblemOnDay(runs[d], d) = "none"
    BY DEF AgreesWithDigest
  <2>2. d \in Nat /\ \A s \in runs[d] : s \in RunRecord
    BY <1>1 DEF BucketInv, TypeOK, Wanted, RunDates, Days
  <2>3. ASSUME NEW s \in RunRecord, IsSweep(s.ingest), SweepProblem(s.ingest, d)
        PROVE  Verdict(s, d) \in {"FAIL", "WARN"}
    BY <2>2, <2>3, CadenceAssumption DEF Verdict, SweepProblem, IsSweep, RunRecord, Block
  <2>4. ASSUME NEW s \in RunRecord, Verdict(s, d) = "PASS"
        PROVE  IsSweep(s.ingest) /\ ~SweepProblem(s.ingest, d)
    BY <2>4 DEF Verdict, SweepProblem, IsSweep, RunRecord, Block
  <2>5. ASSUME NEW s \in RunRecord, s.statusCode = 500
        PROVE  Verdict(s, d) = "FAIL"
    BY <2>5 DEF Verdict
  <2>6. QED
    BY <2>2, <2>3, <2>4, <2>5 DEF ProblemOnDay
<1>2. QED
  BY <1>1, BucketAlways, PTL

(***************************************************************************)
(* The past.                                                                *)
(***************************************************************************)

\* The answer for a cutoff changes only with what is dated up to it (LaterIsInvisible),
\* whatever else runs, redeploys and new days do to the bucket.
THEOREM LaterStaysInvisible == Spec => LaterIsInvisible
<1>1. ASSUME NEW c \in Days, SettledUpTo(c), RunDates(c) # {}
      PROVE  Exit(c, {})' = Exit(c, {})
  <2>1. c \in Nat
    BY CheckBounds DEF Days
  <2>2. \A d \in Days : d <= c => runs'[d] = runs[d]
    BY <1>1, <2>1 DEF SettledUpTo, Days
  <2>3. RunDates(c)' = RunDates(c)
    BY <2>2 DEF RunDates
  <2>4. RawDates(c)' = RawDates(c)
    BY <1>1 DEF RawDates, SettledUpTo
  <2>5. Wanted(c)' = Wanted(c) /\ Wanted(c) \subseteq RunDates(c)
    BY <2>3 DEF Wanted
  <2>6. \A d \in Wanted(c) : runs'[d] = runs[d]
    BY <2>2, <2>5 DEF RunDates
  <2>7. Judged(c, {})' = Judged(c, {})
    BY <2>5, <2>6 DEF Judged
  <2>8. Fresh(c)' = Fresh(c)
    BY <2>4 DEF Fresh
  <2>9. AwaitingTodaysRun(c)' = AwaitingTodaysRun(c)
    BY <2>1, <2>2, <2>3 DEF AwaitingTodaysRun
  <2>10. BucketHasData /\ BucketHasData'
    BY <1>1, <2>3 DEF BucketHasData, RunDates
  <2>11. NothingHasLanded(c)' = NothingHasLanded(c) /\ CannotJudge(c)' = CannotJudge(c)
    BY <2>8, <2>9, <2>10 DEF NothingHasLanded, CannotJudge
  <2>12. RunDrought(c)' = RunDrought(c)
    BY <2>3, <2>9 DEF RunDrought
  <2>13. Failing(c, Judged(c, {}))' = Failing(c, Judged(c, {}))
    <3> DEFINE judged == Judged(c, {})
    <3>1. (\E r \in judged : Verdict(r[2], r[1]) = "FAIL")'
            = \E r \in judged : Verdict(r[2], r[1]) = "FAIL"
      BY <2>7 DEF Verdict
    <3>2. SkippedDays(judged)' = SkippedDays(judged) /\ FailedDays(judged)' = FailedDays(judged)
      BY <2>7 DEF SkippedDays, FailedDays
    <3>3. CadenceAnomaly(judged)' = CadenceAnomaly(judged)
          /\ FailureStreak(judged)' = FailureStreak(judged)
      BY <3>2 DEF CadenceAnomaly, FailureStreak, LongestRunReaches
    <3>4. QED
      BY <2>11, <2>12, <3>1, <3>3 DEF Failing
  <2>14. QED
    BY <2>5, <2>7, <2>11, <2>13 DEF Exit
<1>2. [\A c \in Days : SettledUpTo(c) /\ RunDates(c) # {} => Exit(c, {})' = Exit(c, {})]_vars
  BY <1>1
<1>3. QED
  BY <1>2, PTL DEF Spec, LaterIsInvisible
==============================================================================
