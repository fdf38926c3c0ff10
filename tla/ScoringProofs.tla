---------------------------- MODULE ScoringProofs ----------------------------
(***************************************************************************)
(* What holds of a scoring stage for any number of candidates and threads,   *)
(* any knobs, retries and times: how long a task outlives the deadline, and   *)
(* that a stage is left with no thread at work.                              *)
(***************************************************************************)
EXTENDS ScoringPool, TLAPS, FiniteSetTheorems

(***************************************************************************)
(* The bands.                                                               *)
(***************************************************************************)

Band(category) ==
  CASE category = "strong_fit" -> 3
    [] category = "near_miss" -> 2
    [] category = "stretch" -> 1
    [] OTHER -> 0

\* derive_fit_category (ingest.py:691-715) is monotone: whatever the threshold, the
\* floor and the width of the near-miss band, a better score never gets a lower band.
THEOREM BetterScoresBetterBands ==
  ASSUME NEW s \in Int, NEW t \in Int, s <= t
  PROVE  Band(FitCategory(s)) <= Band(FitCategory(t))
BY KnobsAssumption DEF Band, FitCategory

(***************************************************************************)
(* The median.                                                              *)
(***************************************************************************)
Before(q, i) == {j \in DOMAIN q : q[j] < q[i] \/ (q[j] = q[i] /\ j < i)}

\* Samples are integers, numbered from 1.
LEMMA SamplesAreInts ==
  ASSUME NEW q \in Seq(Scores)
  PROVE  /\ Len(q) \in Nat /\ DOMAIN q = 1..Len(q) /\ Threshold \in Int
         /\ \A i \in DOMAIN q : q[i] \in Int
<1>1. Len(q) \in Nat /\ DOMAIN q = 1..Len(q)
  OBVIOUS
<1>2. \A i \in 1..Len(q) : q[i] \in Scores
  OBVIOUS
<1>3. Scores \subseteq Int /\ Threshold \in Int
  BY KnobsAssumption
<1>4. QED
  BY <1>1, <1>2, <1>3

\* The ranks of n samples are the numbers from 0 to n - 1, each once.
LEMMA Ranks ==
  ASSUME NEW q \in Seq(Scores)
  PROVE  /\ \A i \in DOMAIN q : Rank(q, i) \in 0..(Len(q) - 1)
         /\ \A k \in 0..(Len(q) - 1) : \E i \in DOMAIN q : Rank(q, i) = k
<1> DEFINE n == Len(q)
           D == DOMAIN q
           K == 0..(n - 1)
           rank == [i \in D |-> Cardinality(Before(q, i))]
<1>1. n \in Nat /\ D = 1..n /\ \A i \in D : q[i] \in Int
  BY SamplesAreInts
<1>2. IsFiniteSet(D) /\ Cardinality(D) = n
  BY <1>1, FS_Interval
<1>3. IsFiniteSet(K) /\ Cardinality(K) = n
  BY <1>1, FS_Interval
<1>4. ASSUME NEW i \in D
      PROVE  /\ IsFiniteSet(Before(q, i)) /\ Cardinality(Before(q, i)) \in K
             /\ Rank(q, i) = Cardinality(Before(q, i))
  <2>1. Before(q, i) \subseteq D \ {i}
    BY <1>1 DEF Before
  <2>2. IsFiniteSet(D \ {i}) /\ Cardinality(D \ {i}) = n - 1
    BY <1>2, FS_RemoveElement
  <2>3. IsFiniteSet(Before(q, i)) /\ Cardinality(Before(q, i)) <= n - 1
    BY <2>1, <2>2, FS_Subset
  <2>4. Cardinality(Before(q, i)) \in Nat
    BY <2>3, FS_CardinalityType
  <2>5. QED
    BY <1>1, <2>3, <2>4 DEF Rank, Before
<1>5. ASSUME NEW i \in D, NEW j \in D, i # j PROVE rank[i] # rank[j]
  <2>1. ASSUME NEW x \in D, NEW y \in D, x \in Before(q, y)
        PROVE  Cardinality(Before(q, x)) # Cardinality(Before(q, y))
    <3>1. Before(q, x) \subseteq Before(q, y) /\ x \notin Before(q, x)
      BY <1>1, <2>1 DEF Before
    <3>2. QED
      BY <1>4, <2>1, <3>1, FS_Subset
  <2>2. i \in Before(q, j) \/ j \in Before(q, i)
    BY <1>1, <1>5 DEF Before
  <2>3. QED
    BY <2>1, <2>2
<1>6. rank \in Injection(D, K)
  BY <1>4, <1>5 DEF Injection, IsInjective
<1>7. rank \in Surjection(D, K)
  BY <1>2, <1>3, <1>6, FS_Injection
<1>8. \A k \in K : \E i \in D : rank[i] = k
  BY <1>7 DEF Surjection
<1>9. QED
  BY <1>4, <1>8

\* The median is one of the samples, with (n - 1) \div 2 of them before it.
LEMMA MedianIsASample ==
  ASSUME NEW q \in Seq(Scores), Len(q) > 0
  PROVE  \E i \in DOMAIN q : /\ MedianSample(q) = q[i]
                              /\ Cardinality(Before(q, i)) = (Len(q) - 1) \div 2
<1>1. Len(q) \in Nat /\ (Len(q) - 1) \div 2 \in 0..(Len(q) - 1)
  BY SMT
<1>2. \E i \in DOMAIN q : Rank(q, i) = (Len(q) - 1) \div 2
  BY <1>1, Ranks
<1>3. QED
  BY <1>2 DEF MedianSample, Rank, Before

\* _median_sample (ingest.py:734-742): the median is at or above a bar exactly when
\* more than half of the samples are, for any number of samples.
THEOREM MedianIsMajority ==
  ASSUME NEW q \in Seq(Scores), Len(q) > 0
  PROVE  MedianSample(q) >= Threshold
           <=> 2 * Cardinality({i \in DOMAIN q : q[i] >= Threshold}) > Len(q)
<1> DEFINE n == Len(q)
           D == DOMAIN q
           for == {i \in D : q[i] >= Threshold}
           k == (n - 1) \div 2
<1>1. PICK m \in D : MedianSample(q) = q[m] /\ Cardinality(Before(q, m)) = k
  BY MedianIsASample
<1>2. n \in Nat /\ D = 1..n /\ Threshold \in Int /\ \A i \in D : q[i] \in Int
  BY SamplesAreInts
<1>3. k \in Nat /\ 2 * k <= n - 1 /\ 2 * k >= n - 2
  BY <1>2, SMT
<1>4. IsFiniteSet(D) /\ Cardinality(D) = n
  BY <1>2, FS_Interval
<1>5. IsFiniteSet(Before(q, m))
  BY <1>4, FS_Subset DEF Before
<1>6. IsFiniteSet(for) /\ Cardinality(for) \in Nat
  BY <1>4, FS_Subset, FS_CardinalityType
<1>7. CASE q[m] >= Threshold
  <2>1. D \ for \subseteq Before(q, m)
    BY <1>2, <1>7 DEF Before
  <2>2. IsFiniteSet(D \ for) /\ Cardinality(D \ for) <= k
    BY <1>1, <1>5, <2>1, FS_Subset
  <2>3. Cardinality(D \ for) = n - Cardinality(for)
    <3>1. D \cap for = for
      OBVIOUS
    <3>2. QED
      BY <1>4, <3>1, FS_Difference
  <2>4. 2 * Cardinality(for) > n
    BY <1>2, <1>3, <1>6, <2>2, <2>3
  <2>5. QED
    BY <1>1, <1>7, <2>4
<1>8. CASE q[m] < Threshold
  <2> DEFINE low == Before(q, m) \cup {m}
  <2>1. for \subseteq D \ low /\ low \subseteq D /\ m \notin Before(q, m)
    BY <1>2, <1>8 DEF Before
  <2>2. IsFiniteSet(low) /\ Cardinality(low) = k + 1
    BY <1>1, <1>5, <2>1, FS_AddElement
  <2>3. Cardinality(D \ low) = n - (k + 1) /\ IsFiniteSet(D \ low)
    <3>1. D \cap low = low
      BY <2>1
    <3> HIDE DEF low, D, n, k
    <3>2. IsFiniteSet(D \ low) /\ Cardinality(D \ low) = Cardinality(D) - Cardinality(D \cap low)
      BY <1>4, FS_Difference
    <3>3. QED
      BY <1>4, <2>2, <3>1, <3>2
  <2>4. Cardinality(for) <= n - (k + 1)
    <3>1. for \in SUBSET (D \ low)
      BY <2>1
    <3> HIDE DEF for, low, D, n, k
    <3>2. QED
      BY <2>3, <3>1, FS_Subset
  <2>5. ~(2 * Cardinality(for) > n)
    BY <1>2, <1>3, <1>6, <2>4
  <2>6. QED
    BY <1>1, <1>2, <1>8, <2>5
<1>9. QED
  BY <1>2, <1>7, <1>8

(***************************************************************************)
(* The invariant.                                                           *)
(***************************************************************************)

\* What was queued is not begun; a busy thread has a running task of its own; and
\* the main thread has taken finished tasks only.
PoolInv ==
  /\ \A c \in Ids : outcome[c] = "queued" <=> c >= next
  /\ \A w \in Workers : Busy(w) => outcome[task[w]] = "running"
  /\ \A v, w \in Workers : Busy(v) /\ task[v] = task[w] => v = w
  /\ \A c \in handled : Finished(c)

\* A judged task has a sample, a score row is the median of its samples, and what
\* is to be marked is a candidate.
SavedInv ==
  /\ main = "mark" => item # 0
  /\ \A c \in Ids : outcome[c] = "judged" => Len(samples[c]) > 0
  /\ \A c \in Ids : saved[c] # NoScore =>
       outcome[c] = "judged" /\ saved[c] = MedianSample(samples[c])

RetryTime == BackoffTime + AttemptTime

\* The longest a call may still last when its present wait is over.
RestOfCall(w) ==
  IF phase[w] = "calling" THEN (MaxRetries - tried[w]) * RetryTime
  ELSE AttemptTime + (MaxRetries - tried[w]) * RetryTime

\* The longest a sample may.
RestOfSample(w) == RestOfCall(w) + (IF prompted[w] THEN 0 ELSE CallTime)

\* No wait is overdue, and what may follow it stays within the tail.
TimeInv ==
  \A w \in Workers : Busy(w) =>
    /\ now <= due[w]
    /\ due[w] + RestOfSample(w) < Wall + 2 * CallTime

ScoringInv == TypeOK /\ PoolInv /\ SavedInv /\ TimeInv /\ LeftQuietly

\* The times add up in Nat.
LEMMA Times ==
  /\ MaxRetries \in Nat /\ AttemptTime \in Nat /\ BackoffTime \in Nat /\ Wall \in Nat
  /\ RetryTime \in Nat /\ CallTime \in Nat
  /\ CallTime = AttemptTime + MaxRetries * RetryTime
BY PoolAssumption, TimeAssumption, SMT DEF RetryTime, CallTime

\* One retry less.
LEMMA OneRetry ==
  ASSUME NEW a \in 0..MaxRetries
  PROVE  /\ (MaxRetries - a) * RetryTime \in Nat
         /\ a < MaxRetries =>
              (MaxRetries - a) * RetryTime = RetryTime + (MaxRetries - (a + 1)) * RetryTime
<1>1. ASSUME NEW k \in Nat, NEW r \in Nat PROVE k * r \in Nat /\ (k + 1) * r = r + k * r
  BY SMT
<1>2. MaxRetries - a \in Nat /\ (a < MaxRetries => MaxRetries - (a + 1) \in Nat)
  BY Times
<1>3. (MaxRetries - a) * RetryTime \in Nat
  BY <1>1, <1>2, Times
<1>4. ASSUME a < MaxRetries
      PROVE  (MaxRetries - a) * RetryTime = RetryTime + (MaxRetries - (a + 1)) * RetryTime
  <2>1. MaxRetries - a = (MaxRetries - (a + 1)) + 1
    BY Times
  <2>2. QED
    BY <1>1, <1>2, <1>4, <2>1, Times
<1>5. QED
  BY <1>3, <1>4

\* What follows a wait takes no negative time.
LEMMA RestIsNat ==
  ASSUME TypeOK, NEW w \in Workers
  PROVE  RestOfCall(w) \in Nat /\ RestOfSample(w) \in Nat
<1>1. tried[w] \in 0..MaxRetries
  BY DEF TypeOK
<1>2. (MaxRetries - tried[w]) * RetryTime \in Nat
  BY <1>1, OneRetry
<1>3. RestOfCall(w) \in Nat
  BY <1>2, Times DEF RestOfCall
<1>4. QED
  BY <1>3, Times DEF RestOfSample

\* A stage begins with every candidate queued and every thread idle.
LEMMA ScoringInvInit == Init => ScoringInv
<1> SUFFICES ASSUME Init PROVE ScoringInv
  OBVIOUS
<1>1. TypeOK
  <2>1. 0 \in 0..HardTimeout /\ 1 \in 1..(Candidates + 1) /\ 0 \in 0..Candidates
        /\ 0 \in 0..MaxRetries
    BY PoolAssumption, TimeAssumption
  <2>2. <<>> \in Seq(Scores)
    OBVIOUS
  <2>3. QED
    BY <2>1, <2>2 DEF Init, TypeOK
<1>2. PoolInv /\ SavedInv /\ TimeInv /\ LeftQuietly
  BY DEF Init, PoolInv, SavedInv, TimeInv, LeftQuietly, Busy, Ids
<1>3. QED
  BY <1>1, <1>2 DEF ScoringInv

(***************************************************************************)
(* The types.                                                               *)
(***************************************************************************)

\* A call that begins keeps the worker's types.
LEMMA CallTypes ==
  ASSUME TypeOK, NEW w \in Workers, NEW again \in BOOLEAN, BeginCall(w, again)
  PROVE  /\ phase' \in [Workers -> {"calling", "backoff"}] /\ due' \in [Workers -> Nat]
         /\ tried' \in [Workers -> 0..MaxRetries] /\ prompted' \in [Workers -> BOOLEAN]
BY PoolAssumption, TimeAssumption DEF TypeOK, BeginCall, Wait

\* A task that is resolved, and its worker's fields that go back, keep their types.
LEMMA ResolveTypes ==
  ASSUME TypeOK, NEW w \in Workers, Busy(w),
         NEW as \in Failure \cup {"judged", "raised"}, Resolve(w, as)
  PROVE  /\ outcome' \in [Ids -> Failure \cup {"queued", "running", "judged", "raised"}]
         /\ task' \in [Workers -> 0..Candidates]
         /\ phase' \in [Workers -> {"calling", "backoff"}] /\ due' \in [Workers -> Nat]
         /\ tried' \in [Workers -> 0..MaxRetries] /\ prompted' \in [Workers -> BOOLEAN]
<1>1. 0 \in 0..MaxRetries /\ 0 \in 0..Candidates
  BY PoolAssumption
<1>2. outcome' \in [Ids -> Failure \cup {"queued", "running", "judged", "raised"}]
  BY DEF TypeOK, Resolve
<1>3. QED
  BY <1>1, <1>2 DEF TypeOK, Resolve, Release

\* What a step of one worker leaves alone, whatever it does.
WorkerOnly(w) ==
  /\ UNCHANGED <<now, writer>>
  /\ \A v \in Workers \ {w} :
       /\ task'[v] = task[v] /\ phase'[v] = phase[v] /\ tried'[v] = tried[v]
       /\ prompted'[v] = prompted[v] /\ due'[v] = due[v]

\* The types of the pool, one step per action of a worker.
LEMMA WorkTypes ==
  ASSUME TypeOK, NEW w \in Workers, Work(w)
  PROVE  TypeOK' /\ WorkerOnly(w)
<1> USE DEF writer
<1>1. CASE StartTask(w)
  <2>1. next \in Ids /\ next' \in 1..(Candidates + 1)
    BY <1>1, PoolAssumption DEF StartTask, TypeOK, Ids
  <2>2. CASE Expired
    BY <1>1, <2>1, <2>2 DEF StartTask, TypeOK, Failure, WorkerOnly
  <2>3. CASE ~Expired
    <3>1. /\ phase' \in [Workers -> {"calling", "backoff"}] /\ due' \in [Workers -> Nat]
          /\ tried' \in [Workers -> 0..MaxRetries] /\ prompted' \in [Workers -> BOOLEAN]
      BY <1>1, <2>3, CallTypes DEF StartTask
    <3>2. task' \in [Workers -> 0..Candidates]
      <4>1. next \in 0..Candidates
        BY <2>1, PoolAssumption DEF Ids
      <4>2. task' = [task EXCEPT ![w] = next]
        BY <1>1, <2>3 DEF StartTask
      <4>3. QED
        BY <4>1, <4>2 DEF TypeOK
    <3>3. outcome' \in [Ids -> Failure \cup {"queued", "running", "judged", "raised"}]
      BY <1>1, <2>1, <2>3 DEF StartTask, TypeOK
    <3>4. WorkerOnly(w)
      BY <1>1, <2>3 DEF StartTask, TypeOK, WorkerOnly, BeginCall, Wait
    <3>5. QED
      BY <1>1, <2>1, <3>1, <3>2, <3>3, <3>4 DEF StartTask, TypeOK
  <2>4. QED
    BY <2>2, <2>3
<1>2. ASSUME NEW s \in Scores, ValidReply(w, s) PROVE TypeOK' /\ WorkerOnly(w)
  <2>1. Busy(w) /\ task[w] \in Ids
    BY <1>2 DEF ValidReply, Answered, Busy, TypeOK, Ids
  <2>2. samples' \in [Ids -> Seq(Scores)]
    BY <1>2, <2>1 DEF ValidReply, Sample, TypeOK
  <2>3. CASE BeginCall(w, FALSE) /\ UNCHANGED <<outcome, task>>
    <3>1. /\ phase' \in [Workers -> {"calling", "backoff"}] /\ due' \in [Workers -> Nat]
          /\ tried' \in [Workers -> 0..MaxRetries] /\ prompted' \in [Workers -> BOOLEAN]
      BY <2>3, CallTypes
    <3>2. QED
      BY <1>2, <2>2, <2>3, <3>1 DEF ValidReply, TypeOK, WorkerOnly, BeginCall, Wait
  <2>4. CASE Resolve(w, "judged")
    BY <1>2, <2>1, <2>2, <2>4, ResolveTypes
       DEF ValidReply, TypeOK, WorkerOnly, Resolve, Release
  <2>5. QED
    BY <1>2, <2>3, <2>4 DEF ValidReply, Sample
<1>3. CASE InvalidReply(w)
  <2>1. CASE Resolve(w, "failed")
    BY <1>3, <2>1, ResolveTypes
       DEF InvalidReply, Answered, TypeOK, WorkerOnly, Resolve, Release, Failure
  <2>2. CASE BeginCall(w, TRUE) /\ UNCHANGED <<outcome, task>>
    BY <1>3, <2>2, CallTypes DEF InvalidReply, TypeOK, WorkerOnly, BeginCall, Wait
  <2>3. QED
    BY <1>3, <2>1, <2>2 DEF InvalidReply
<1>4. CASE TransientFailure(w)
  <2>1. CASE Resolve(w, "failed")
    BY <1>4, <2>1, ResolveTypes
       DEF TransientFailure, Answered, TypeOK, WorkerOnly, Resolve, Release, Failure
  <2>2. CASE ~(tried[w] = MaxRetries)
    <3>1. tried[w] + 1 \in 0..MaxRetries /\ now + BackoffTime \in Nat
      BY <2>2, PoolAssumption, TimeAssumption DEF TypeOK
    <3>2. QED
      BY <1>4, <2>2, <3>1 DEF TransientFailure, TypeOK, WorkerOnly, Wait
  <2>3. QED
    BY <1>4, <2>1, <2>2 DEF TransientFailure
<1>5. CASE Retry(w)
  <2>1. now + AttemptTime \in Nat
    BY TimeAssumption DEF TypeOK
  <2>2. QED
    BY <1>5, <2>1 DEF Retry, TypeOK, WorkerOnly, Wait
<1>6. CASE CallRefused(w) \/ BillingRefused(w) \/ UnexpectedError(w)
  <2>1. PICK as \in Failure \cup {"judged", "raised"} : Resolve(w, as)
    BY <1>6 DEF CallRefused, BillingRefused, UnexpectedError, Failure
  <2>2. Busy(w) /\ UNCHANGED <<now, next, samples, writer>>
    BY <1>6 DEF CallRefused, BillingRefused, UnexpectedError, Answered
  <2>3. QED
    BY <2>1, <2>2, ResolveTypes DEF TypeOK, WorkerOnly, Resolve, Release
<1>7. QED
  BY <1>1, <1>2, <1>3, <1>4, <1>5, <1>6 DEF Work

\* The types, one step per action.
LEMMA TypeStep == TypeOK /\ SavedInv /\ [Next]_vars => TypeOK'
<1> SUFFICES ASSUME TypeOK, SavedInv, [Next]_vars PROVE TypeOK'
  OBVIOUS
<1> USE DEF pool, writer
<1>1. ASSUME NEW w \in Workers, Work(w) PROVE TypeOK'
  BY <1>1, WorkTypes
<1>2. ASSUME NEW kinds \in SUBSET Kinds, Count(kinds) PROVE counts' \in [Kinds -> Nat]
  BY <1>2 DEF Count, TypeOK
<1>3. ASSUME NEW c \in Ids, CountUnscored(c) PROVE TypeOK'
  <2>1. {outcome[c]} \in SUBSET Kinds
    BY <1>3 DEF CountUnscored, Kinds
  <2>2. counts' \in [Kinds -> Nat]
    BY <1>2, <1>3, <2>1 DEF CountUnscored
  <2>3. QED
    BY <1>3, <2>2 DEF CountUnscored, TypeOK
<1>4. ASSUME NEW c \in Ids, SaveScore(c) PROVE TypeOK'
  <2>1. samples[c] \in Seq(Scores) /\ Len(samples[c]) > 0
    BY <1>4 DEF SaveScore, SavedInv, TypeOK
  <2>2. MedianSample(samples[c]) \in Scores
    <3>1. PICK i \in DOMAIN samples[c] : MedianSample(samples[c]) = samples[c][i]
      BY <2>1, MedianIsASample
    <3>2. QED
      BY <2>1, <3>1
  <2>3. saved' \in [Ids -> Scores \cup {NoScore}] /\ item' \in 0..Candidates
    BY <1>4, <2>2, PoolAssumption DEF SaveScore, TypeOK, Ids
  <2>4. QED
    BY <1>4, <2>3 DEF SaveScore, TypeOK
<1>5. CASE MarkScored
  <2>1. item \in Ids /\ marked' \subseteq Ids
    BY <1>5, PoolAssumption DEF MarkScored, SavedInv, TypeOK, Ids
  <2>2. counts' \in [Kinds -> Nat]
    BY <1>2, <1>5 DEF MarkScored, Kinds
  <2>3. QED
    BY <1>5, <2>1, <2>2, PoolAssumption DEF MarkScored, TypeOK
<1>6. ASSUME NEW c \in Ids, TaskRaised(c) PROVE TypeOK'
  BY <1>6 DEF TaskRaised, TypeOK
<1>7. CASE Leave \/ Finish \/ Ended \/ UNCHANGED vars
  BY <1>7 DEF Leave, Finish, Ended, vars, TypeOK
<1>8. CASE WriteRefused \/ Kill
  <2>1. 0 \in 0..Candidates
    BY PoolAssumption
  <2>2. CASE WriteRefused
    BY <2>1, <2>2 DEF WriteRefused, TypeOK
  <2>3. CASE Kill
    BY <2>1, <2>3 DEF Kill, TypeOK
  <2>4. QED
    BY <1>8, <2>2, <2>3
<1>9. CASE Tick
  BY <1>9, TimeAssumption DEF Tick, TypeOK
<1>10. QED
  BY <1>1, <1>3, <1>4, <1>5, <1>6, <1>7, <1>8, <1>9 DEF Next, Collect

(***************************************************************************)
(* The pool and the score rows.                                             *)
(***************************************************************************)

\* A busy worker's task is running, so it is no other worker's, has no row, and is
\* not yet the main thread's.
LEMMA BusyTask ==
  ASSUME TypeOK, PoolInv, SavedInv, NEW w \in Workers, Busy(w)
  PROVE  /\ task[w] \in Ids /\ outcome[task[w]] = "running" /\ task[w] < next
         /\ task[w] \notin handled /\ saved[task[w]] = NoScore
<1>1. task[w] \in Ids
  BY PoolAssumption DEF TypeOK, Busy, Ids
<1>2. outcome[task[w]] = "running"
  BY DEF PoolInv
<1>3. task[w] < next
  BY <1>1, <1>2, PoolAssumption DEF PoolInv, TypeOK, Ids
<1>4. QED
  BY <1>1, <1>2, <1>3 DEF PoolInv, SavedInv, Finished, Failure

\* A worker that resolves its task leaves the pool and the rows in order.
LEMMA ResolvePool ==
  ASSUME TypeOK, PoolInv, SavedInv, NEW w \in Workers, Busy(w),
         NEW as \in Failure \cup {"judged", "raised"}, Resolve(w, as),
         UNCHANGED <<next, writer>>,
         \A c \in Ids \ {task[w]} : samples'[c] = samples[c],
         as = "judged" => Len(samples'[task[w]]) > 0
  PROVE  PoolInv' /\ SavedInv'
<1> USE DEF writer
<1>1. /\ task[w] \in Ids /\ outcome[task[w]] = "running" /\ task[w] < next
      /\ task[w] \notin handled /\ saved[task[w]] = NoScore
  BY BusyTask
<1>2. /\ outcome'[task[w]] = as
      /\ \A c \in Ids \ {task[w]} : outcome'[c] = outcome[c]
  BY <1>1 DEF Resolve, TypeOK
<1>3. /\ task'[w] = 0
      /\ \A v \in Workers \ {w} : task'[v] = task[v]
  BY DEF Resolve, Release, TypeOK
<1>4. \A c \in Ids : outcome'[c] = "queued" <=> c >= next'
  <2>1. as # "queued"
    BY DEF Failure
  <2>2. ~(task[w] >= next)
    BY <1>1, PoolAssumption DEF TypeOK, Ids
  <2>3. QED
    BY <1>1, <1>2, <2>1, <2>2 DEF PoolInv
<1>5. ASSUME NEW v \in Workers, Busy(v)'
      PROVE  v # w /\ Busy(v) /\ task'[v] = task[v] /\ task[v] \in Ids \ {task[w]}
  <2>1. v # w /\ task'[v] = task[v] /\ Busy(v)
    BY <1>3, <1>5 DEF Busy
  <2>2. QED
    BY <2>1, BusyTask DEF PoolInv
<1>6. \A v \in Workers : Busy(v)' => outcome'[task'[v]] = "running"
  BY <1>2, <1>5 DEF PoolInv
<1>7. \A u, v \in Workers : Busy(u)' /\ task'[v] = task'[u] => u = v
  <2> SUFFICES ASSUME NEW u \in Workers, NEW v \in Workers, Busy(u)', task'[v] = task'[u]
               PROVE  u = v
    OBVIOUS
  <2>1. Busy(v)'
    BY DEF Busy
  <2>2. QED
    BY <1>5, <2>1 DEF PoolInv
<1>8. \A c \in handled' : Finished(c)'
  BY <1>1, <1>2 DEF PoolInv, TypeOK, Finished
<1>9. SavedInv'
  BY <1>1, <1>2 DEF SavedInv
<1>10. QED
  BY <1>4, <1>6, <1>7, <1>8, <1>9 DEF PoolInv

\* So does one that goes on with it.
LEMMA ContinuePool ==
  ASSUME TypeOK, PoolInv, SavedInv, NEW w \in Workers, Busy(w),
         UNCHANGED <<next, outcome, task, writer>>,
         \A c \in Ids \ {task[w]} : samples'[c] = samples[c]
  PROVE  PoolInv' /\ SavedInv'
<1> USE DEF writer
<1>1. outcome[task[w]] = "running" /\ saved[task[w]] = NoScore
  BY BusyTask
<1>2. PoolInv'
  BY DEF PoolInv, Busy, Finished
<1>3. SavedInv'
  BY <1>1 DEF SavedInv
<1>4. QED
  BY <1>2, <1>3

\* The pool and the rows, one step per action of a worker.
LEMMA WorkPool ==
  ASSUME TypeOK, PoolInv, SavedInv, NEW w \in Workers, Work(w)
  PROVE  PoolInv' /\ SavedInv'
<1>1. CASE StartTask(w)
  <2>1. next \in Ids /\ next' = next + 1 /\ outcome[next] = "queued"
    BY <1>1, PoolAssumption DEF StartTask, TypeOK, Ids, PoolInv
  <2>2. PICK as \in {"deferred", "running"} :
          /\ outcome' = [outcome EXCEPT ![next] = as]
          /\ as = "deferred" => task' = task
          /\ as = "running" => task' = [task EXCEPT ![w] = next]
    BY <1>1 DEF StartTask
  <2>3. outcome'[next] = as /\ \A c \in Ids \ {next} : outcome'[c] = outcome[c]
    BY <2>1, <2>2 DEF TypeOK
  <2>4. UNCHANGED <<samples, main, item, handled, saved>>
    BY <1>1 DEF StartTask, writer
  <2>5. \A c \in Ids : outcome'[c] = "queued" <=> c >= next'
    <3>1. as # "queued"
      OBVIOUS
    <3>2. \A c \in Ids \ {next} : c >= next <=> c >= next + 1
      BY <2>1 DEF Ids
    <3>3. ~(next >= next + 1)
      BY <2>1 DEF Ids
    <3>4. QED
      BY <2>1, <2>3, <3>1, <3>2, <3>3 DEF PoolInv
  <2>6. \A v \in Workers : task'[v] = task[v] \/ (v = w /\ as = "running" /\ task'[v] = next)
    BY <2>2 DEF TypeOK
  <2>7. \A v \in Workers : Busy(v) => task[v] \in Ids \ {next} /\ outcome[task[v]] = "running"
    BY <2>1, BusyTask
  <2>8. \A v \in Workers : Busy(v)' => outcome'[task'[v]] = "running"
    BY <2>3, <2>6, <2>7 DEF Busy
  <2>9. \A u, v \in Workers : Busy(u)' /\ task'[v] = task'[u] => u = v
    <3> SUFFICES ASSUME NEW u \in Workers, NEW v \in Workers, Busy(u)', task'[v] = task'[u]
                 PROVE  u = v
      OBVIOUS
    <3>1. task'[u] # 0 /\ task'[v] # 0
      BY DEF Busy
    <3>2. QED
      BY <2>6, <2>7, <3>1 DEF Busy, PoolInv
  <2>10. \A c \in handled' : Finished(c)'
    <3>1. next \notin handled
      BY <2>1 DEF PoolInv, Finished, Failure
    <3>2. QED
      BY <2>3, <2>4, <3>1 DEF PoolInv, Finished, TypeOK
  <2>11. SavedInv'
    BY <2>1, <2>3, <2>4 DEF SavedInv
  <2>12. QED
    BY <2>5, <2>8, <2>9, <2>10, <2>11 DEF PoolInv
<1>2. ASSUME NEW s \in Scores, ValidReply(w, s) PROVE PoolInv' /\ SavedInv'
  <2>1. Busy(w) /\ task[w] \in Ids /\ UNCHANGED <<next, writer>>
    BY <1>2, BusyTask DEF ValidReply, Answered
  <2>2. samples' = [samples EXCEPT ![task[w]] = Append(samples[task[w]], s)]
    BY <1>2 DEF ValidReply, Sample
  <2>3. /\ \A c \in Ids \ {task[w]} : samples'[c] = samples[c]
        /\ Len(samples'[task[w]]) > 0
    <3>1. samples[task[w]] \in Seq(Scores)
      BY <2>1 DEF TypeOK
    <3>2. Len(Append(samples[task[w]], s)) = Len(samples[task[w]]) + 1
          /\ Len(samples[task[w]]) \in Nat
      BY <3>1
    <3>3. QED
      BY <2>1, <2>2, <3>2 DEF TypeOK
  <2>4. CASE Resolve(w, "judged")
    BY <2>1, <2>3, <2>4, ResolvePool
  <2>5. CASE UNCHANGED <<outcome, task>>
    BY <2>1, <2>3, <2>5, ContinuePool
  <2>6. QED
    BY <1>2, <2>4, <2>5 DEF ValidReply, Sample
<1>3. ASSUME Answered(w), UNCHANGED <<next, samples, writer>>,
             \/ \E as \in Failure \cup {"raised"} : Resolve(w, as)
             \/ UNCHANGED <<outcome, task>>
      PROVE  PoolInv' /\ SavedInv'
  <2>1. Busy(w)
    BY <1>3 DEF Answered
  <2>2. CASE UNCHANGED <<outcome, task>>
    BY <1>3, <2>1, <2>2, ContinuePool
  <2>3. ASSUME NEW as \in Failure \cup {"raised"}, Resolve(w, as) PROVE PoolInv' /\ SavedInv'
    <3>1. as \in Failure \cup {"judged", "raised"} /\ as # "judged"
      BY DEF Failure
    <3>2. QED
      BY <1>3, <2>1, <2>3, <3>1, ResolvePool
  <2>4. QED
    BY <1>3, <2>2, <2>3
<1>4. CASE InvalidReply(w) \/ TransientFailure(w) \/ CallRefused(w)
           \/ BillingRefused(w) \/ UnexpectedError(w)
  BY <1>3, <1>4
     DEF InvalidReply, TransientFailure, CallRefused, BillingRefused, UnexpectedError, Failure
<1>5. CASE Retry(w)
  BY <1>5, ContinuePool DEF Retry
<1>6. QED
  BY <1>1, <1>2, <1>4, <1>5 DEF Work

\* The pool and the rows, one step per action: the main thread takes finished tasks
\* only, and saves the median of one that was judged.
LEMMA PoolStep ==
  TypeOK /\ PoolInv /\ SavedInv /\ [Next]_vars => PoolInv' /\ SavedInv'
<1> SUFFICES ASSUME TypeOK, PoolInv, SavedInv, [Next]_vars PROVE PoolInv' /\ SavedInv'
  OBVIOUS
<1>1. ASSUME NEW w \in Workers, Work(w) PROVE PoolInv' /\ SavedInv'
  BY <1>1, WorkPool
<1>2. ASSUME UNCHANGED pool, \A c \in handled' : c \in handled \/ Finished(c)
      PROVE  PoolInv'
  BY <1>2 DEF pool, PoolInv, Busy, Finished
<1>3. ASSUME UNCHANGED <<pool, saved>>, main' = "mark" => item' # 0 PROVE SavedInv'
  BY <1>3 DEF pool, SavedInv
<1>4. ASSUME NEW c \in Ids, CountUnscored(c) \/ TaskRaised(c) PROVE PoolInv' /\ SavedInv'
  BY <1>2, <1>3, <1>4 DEF CountUnscored, TaskRaised, Ready
<1>5. ASSUME NEW c \in Ids, SaveScore(c) PROVE PoolInv' /\ SavedInv'
  <2>1. PoolInv'
    BY <1>2, <1>5 DEF SaveScore, Ready
  <2>2. c # 0 /\ UNCHANGED pool /\ outcome[c] = "judged" /\ item' = c
        /\ saved' = [saved EXCEPT ![c] = MedianSample(samples[c])]
    BY <1>5, PoolAssumption DEF SaveScore, Ids
  <2>3. SavedInv'
    BY <2>2 DEF SavedInv, TypeOK, pool
  <2>4. QED
    BY <2>1, <2>3
<1>6. CASE MarkScored \/ WriteRefused \/ Leave \/ Finish \/ Kill
  <2>1. UNCHANGED <<pool, handled, saved>> /\ main' # "mark"
    BY <1>6 DEF MarkScored, WriteRefused, Leave, Finish, Kill
  <2>2. QED
    BY <1>2, <1>3, <2>1
<1>7. CASE Tick \/ Ended \/ UNCHANGED vars
  <2>1. UNCHANGED <<pool, writer>>
    BY <1>7 DEF Tick, Ended, vars
  <2>2. QED
    BY <1>2, <1>3, <2>1 DEF writer, SavedInv
<1>8. QED
  BY <1>1, <1>4, <1>5, <1>6, <1>7 DEF Next, Collect

(***************************************************************************)
(* Time.                                                                    *)
(***************************************************************************)
Bound == Wall + 2 * CallTime

OnTime(w) == now <= due[w] /\ due[w] + RestOfSample(w) < Bound

\* A call that begins has all of a call before it, and of its re-prompt if it is the
\* first prompt.
LEMMA BeginTime ==
  ASSUME TypeOK, NEW w \in Workers, NEW again \in BOOLEAN, BeginCall(w, again),
         now + CallTime + (IF again THEN 0 ELSE CallTime) < Bound, now' = now
  PROVE  OnTime(w)'
<1>1. /\ phase'[w] = "calling" /\ due'[w] = now + AttemptTime
      /\ tried'[w] = 0 /\ prompted'[w] = again
  BY DEF BeginCall, Wait, TypeOK
<1>2. RestOfCall(w)' = MaxRetries * RetryTime
  BY <1>1, Times DEF RestOfCall, RetryTime
<1>3. RestOfSample(w)' = MaxRetries * RetryTime + (IF again THEN 0 ELSE CallTime)
  BY <1>1, <1>2 DEF RestOfSample, CallTime
<1>4. MaxRetries * RetryTime \in Nat /\ now \in Nat /\ Bound' = Bound
  <2>1. 0 \in 0..MaxRetries /\ MaxRetries - 0 = MaxRetries
    BY Times
  <2>2. (MaxRetries - 0) * RetryTime \in Nat
    BY <2>1, OneRetry
  <2>3. QED
    BY <2>1, <2>2 DEF TypeOK, Bound, CallTime
<1>5. QED
  BY <1>1, <1>3, <1>4, Times DEF OnTime

\* Every worker's time, one step per action of a worker.
LEMMA WorkTime ==
  ASSUME TypeOK, TimeInv, NEW w \in Workers, Work(w)
  PROVE  TimeInv'
<1> DEFINE rest == IF prompted[w] THEN 0 ELSE CallTime
<1>1. WorkerOnly(w)
  BY WorkTypes
<1>2. now \in Nat /\ due[w] \in Nat /\ tried[w] \in 0..MaxRetries /\ rest \in Nat
  BY Times DEF TypeOK
<1>3. \A v \in Workers : Busy(v) => OnTime(v)
  BY DEF TimeInv, OnTime, Bound
<1>4. SUFFICES Busy(w)' => OnTime(w)'
  <2>1. ASSUME NEW v \in Workers \ {w}, Busy(v)' PROVE OnTime(v)'
    BY <1>1, <1>3, <2>1
       DEF WorkerOnly, Busy, OnTime, RestOfSample, RestOfCall, Bound, CallTime, RetryTime
  <2>2. QED
    BY <1>4, <2>1 DEF TimeInv, OnTime, Bound
<1>5. now' = now
  BY <1>1 DEF WorkerOnly
<1>6. CASE StartTask(w)
  <2>1. CASE Expired
    BY <1>6, <2>1 DEF StartTask, Busy
  <2>2. CASE ~Expired
    <3>1. now + CallTime + CallTime < Bound
      BY <1>2, <2>2, Times DEF Expired, Bound
    <3>2. BeginCall(w, FALSE)
      BY <1>6, <2>2 DEF StartTask
    <3>3. QED
      BY <1>5, <3>1, <3>2, BeginTime
  <2>3. QED
    BY <2>1, <2>2
<1>7. Release(w) => ~Busy(w)'
  BY DEF Release, Busy, TypeOK
<1>8. ASSUME NEW s \in Scores, ValidReply(w, s) PROVE Busy(w)' => OnTime(w)'
  <2>1. CASE Resolve(w, "judged")
    BY <1>7, <2>1 DEF Resolve
  <2>2. CASE ~Expired /\ BeginCall(w, FALSE)
    <3>1. now + CallTime + CallTime < Bound
      BY <1>2, <2>2, Times DEF Expired, Bound
    <3>2. QED
      BY <1>5, <2>2, <3>1, BeginTime
  <2>3. QED
    BY <1>8, <2>1, <2>2 DEF ValidReply, Sample
<1>9. CASE InvalidReply(w)
  <2>1. CASE Resolve(w, "failed")
    BY <1>7, <2>1 DEF Resolve
  <2>2. CASE ~prompted[w] /\ BeginCall(w, TRUE)
    <3>1. RestOfSample(w) >= CallTime
      BY <2>2, RestIsNat, Times DEF RestOfSample
    <3>2. OnTime(w)
      BY <1>3, <1>9 DEF InvalidReply, Answered
    <3>3. now + CallTime + 0 < Bound
      BY <1>2, <3>1, <3>2, RestIsNat, Times DEF OnTime, Bound
    <3>4. QED
      BY <1>5, <2>2, <3>3, BeginTime
  <2>3. QED
    BY <1>9, <2>1, <2>2 DEF InvalidReply
<1>10. CASE TransientFailure(w)
  <2>1. CASE Resolve(w, "failed")
    BY <1>7, <2>1 DEF Resolve
  <2>2. CASE tried[w] # MaxRetries
    <3>1. /\ tried'[w] = tried[w] + 1 /\ phase'[w] = "backoff"
          /\ due'[w] = now + BackoffTime /\ prompted'[w] = prompted[w]
      BY <1>10, <2>2 DEF TransientFailure, Wait, TypeOK
    <3>2. OnTime(w) /\ phase[w] = "calling"
      BY <1>3, <1>10 DEF TransientFailure, Answered
    <3>3. (MaxRetries - tried[w]) * RetryTime
            = RetryTime + (MaxRetries - (tried[w] + 1)) * RetryTime
      BY <1>2, <2>2, OneRetry, Times
    <3>4. RestOfSample(w) = (MaxRetries - tried[w]) * RetryTime + rest
      BY <3>2 DEF RestOfSample, RestOfCall
    <3>5. RestOfSample(w)' = AttemptTime + (MaxRetries - (tried[w] + 1)) * RetryTime + rest
      BY <3>1 DEF RestOfSample, RestOfCall, CallTime, RetryTime
    <3>6. (MaxRetries - tried[w]) * RetryTime \in Nat
          /\ (MaxRetries - (tried[w] + 1)) * RetryTime \in Nat
      <4>1. tried[w] + 1 \in 0..MaxRetries
        BY <1>2, <2>2, Times
      <4>2. QED
        BY <1>2, <4>1, OneRetry
    <3>7. RetryTime = BackoffTime + AttemptTime /\ Bound' = Bound /\ Bound \in Nat
      BY Times DEF RetryTime, Bound, CallTime
    <3> DEFINE a == (MaxRetries - tried[w]) * RetryTime
               b == (MaxRetries - (tried[w] + 1)) * RetryTime
    <3>8. a \in Nat /\ b \in Nat /\ a = RetryTime + b /\ RestOfSample(w) = a + rest
          /\ RestOfSample(w)' = AttemptTime + b + rest
      BY <3>3, <3>4, <3>5, <3>6
    <3>9. now <= due[w] /\ due[w] + RestOfSample(w) < Bound
      BY <3>2 DEF OnTime
    <3> HIDE DEF a, b, rest
    <3>10. now <= due'[w] /\ due'[w] + RestOfSample(w)' < Bound
      BY <1>2, <3>1, <3>7, <3>8, <3>9, Times
    <3>11. QED
      BY <1>5, <3>7, <3>10 DEF OnTime
  <2>3. QED
    BY <1>10, <2>1, <2>2 DEF TransientFailure
<1>11. CASE Retry(w)
  <2>1. /\ tried'[w] = tried[w] /\ phase'[w] = "calling"
        /\ due'[w] = now + AttemptTime /\ prompted'[w] = prompted[w]
    BY <1>11 DEF Retry, Wait, TypeOK
  <2>2. OnTime(w) /\ phase[w] = "backoff"
    BY <1>3, <1>11 DEF Retry
  <2> DEFINE a == (MaxRetries - tried[w]) * RetryTime
  <2>3. a \in Nat
    BY <1>2, OneRetry
  <2>4. RestOfSample(w) = AttemptTime + a + rest
    BY <2>2 DEF RestOfSample, RestOfCall
  <2>5. RestOfSample(w)' = a + rest
    BY <2>1 DEF RestOfSample, RestOfCall, CallTime, RetryTime
  <2>6. Bound' = Bound /\ Bound \in Nat
    BY Times DEF Bound, CallTime
  <2>7. now <= due[w] /\ due[w] + RestOfSample(w) < Bound
    BY <2>2 DEF OnTime
  <2> HIDE DEF a, rest
  <2>8. now <= due'[w] /\ due'[w] + RestOfSample(w)' < Bound
    BY <1>2, <2>1, <2>3, <2>4, <2>5, <2>6, <2>7, Times
  <2>9. QED
    BY <1>5, <2>6, <2>8 DEF OnTime
<1>12. CASE CallRefused(w) \/ BillingRefused(w) \/ UnexpectedError(w)
  BY <1>7, <1>12 DEF CallRefused, BillingRefused, UnexpectedError, Resolve
<1>13. QED
  BY <1>6, <1>8, <1>9, <1>10, <1>11, <1>12 DEF Work

\* Every worker's time: the clock does not pass the end of a wait, and the main
\* thread touches none.
LEMMA TimeStep == TypeOK /\ TimeInv /\ [Next]_vars => TimeInv'
<1> SUFFICES ASSUME TypeOK, TimeInv, [Next]_vars PROVE TimeInv'
  OBVIOUS
<1>1. ASSUME NEW w \in Workers, Work(w) PROVE TimeInv'
  BY <1>1, WorkTime
<1>2. ASSUME UNCHANGED pool, \A w \in Workers : Busy(w) => now' <= due[w] PROVE TimeInv'
  BY <1>2 DEF pool, TimeInv, Busy, RestOfSample, RestOfCall, RetryTime, CallTime
<1>3. CASE Tick
  <2>1. \A w \in Workers : Busy(w) => now + 1 <= due[w]
    BY <1>3 DEF Tick, TypeOK
  <2>2. QED
    BY <1>2, <1>3, <2>1 DEF Tick
<1>4. ASSUME UNCHANGED <<now, pool>> PROVE TimeInv'
  BY <1>2, <1>4 DEF TimeInv
<1>5. ASSUME Collect PROVE UNCHANGED <<now, pool>>
  BY <1>5 DEF Collect, CountUnscored, SaveScore, TaskRaised, MarkScored, Leave, Finish
<1>6. ASSUME WriteRefused \/ Kill \/ Ended \/ UNCHANGED vars PROVE UNCHANGED <<now, pool>>
  BY <1>6 DEF WriteRefused, Kill, Ended, vars
<1>7. QED
  BY <1>1, <1>3, <1>4, <1>5, <1>6 DEF Next

(***************************************************************************)
(* Leaving.                                                                 *)
(***************************************************************************)

\* When every task is finished nothing is queued and no thread is busy.
LEMMA NothingLeft ==
  ASSUME TypeOK, PoolInv, SavedInv, \A c \in Ids : Finished(c)
  PROVE  next > Candidates /\ \A w \in Workers : ~Busy(w)
<1>1. next > Candidates
  <2>1. ~(next > Candidates) => next \in Ids
    BY PoolAssumption DEF TypeOK, Ids
  <2>2. next \in Ids => outcome[next] = "queued"
    BY DEF PoolInv, Ids
  <2>3. QED
    BY <2>1, <2>2 DEF Finished, Failure
<1>2. ASSUME NEW w \in Workers PROVE ~Busy(w)
  BY BusyTask DEF Finished, Failure
<1>3. QED
  BY <1>1, <1>2

\* A stage is left when nothing is left to do, and no thread does a thing afterwards.
LEMMA QuietStep ==
  TypeOK /\ PoolInv /\ SavedInv /\ LeftQuietly /\ [Next]_vars => LeftQuietly'
<1> SUFFICES ASSUME TypeOK, PoolInv, SavedInv, LeftQuietly, [Next]_vars,
                    main' \in {"over", "aborted"}
             PROVE  next' > Candidates /\ \A w \in Workers : ~Busy(w)'
  BY DEF LeftQuietly
<1>1. ASSUME NEW w \in Workers, Work(w) PROVE FALSE
  <2>1. main' = main
    BY <1>1, WorkTypes DEF WorkerOnly, writer
  <2>2. Alive
    BY <1>1 DEF Work, StartTask, ValidReply, InvalidReply, TransientFailure, Retry,
                CallRefused, BillingRefused, UnexpectedError, Answered
  <2>3. QED
    BY <2>1, <2>2 DEF Alive
<1>2. CASE Leave \/ Finish
  <2>1. \A c \in Ids : Finished(c)
    BY <1>2 DEF Leave, Finish, PoolInv
  <2>2. UNCHANGED pool
    BY <1>2 DEF Leave, Finish
  <2>3. QED
    BY <2>1, <2>2, NothingLeft DEF pool, Busy
<1>3. CASE Ended \/ UNCHANGED vars
  BY <1>3 DEF Ended, vars, pool, writer, LeftQuietly, Busy
<1>4. CASE Tick
  BY <1>4 DEF Tick, Alive, writer
<1>5. ASSUME NEW c \in Ids, CountUnscored(c) \/ SaveScore(c) \/ TaskRaised(c) PROVE FALSE
  BY <1>5 DEF CountUnscored, SaveScore, TaskRaised, Ready
<1>6. CASE MarkScored \/ WriteRefused \/ Kill
  BY <1>6 DEF MarkScored, WriteRefused, Kill
<1>7. QED
  BY <1>1, <1>2, <1>3, <1>4, <1>5, <1>6 DEF Next, Collect

(***************************************************************************)
(* The theorems.                                                            *)
(***************************************************************************)

\* The invariant is one.
THEOREM StageInvariant == Spec => []ScoringInv
<1>1. Init => ScoringInv
  BY ScoringInvInit
<1>2. ScoringInv /\ [Next]_vars => ScoringInv'
  BY TypeStep, PoolStep, TimeStep, QuietStep DEF ScoringInv
<1>3. QED
  BY <1>1, <1>2, PTL DEF Spec

\* Every variable of a stage keeps its type.
THEOREM TypeCorrect == Spec => []TypeOK
<1>1. ScoringInv => TypeOK
  BY DEF ScoringInv
<1>2. QED
  BY <1>1, StageInvariant, PTL

\* The deadline's tail (pipeline.py:124-150): whatever the retries, the attempts'
\* times and the samples, no task begun before the deadline outlives it by more
\* than two calls.
THEOREM NoTaskOutlivesItsTail == Spec => []TailIsBounded
<1>1. ScoringInv => TailIsBounded
  <2> SUFFICES ASSUME ScoringInv, NEW w \in Workers, Busy(w)
               PROVE  now < Wall + 2 * CallTime
    BY DEF TailIsBounded
  <2>1. now \in Nat /\ due[w] \in Nat /\ RestOfSample(w) \in Nat
    BY RestIsNat DEF ScoringInv, TypeOK
  <2>2. now <= due[w] /\ due[w] + RestOfSample(w) < Wall + 2 * CallTime
    BY DEF ScoringInv, TimeInv
  <2>3. QED
    BY <2>1, <2>2, Times
<1>2. QED
  BY <1>1, StageInvariant, PTL

\* The score row of a resampled candidate (ingest.py:734-766) is above the cut
\* exactly when most of its samples are, however many the deadline left it.
THEOREM MajoritiesSurface == Spec => []MajoritySurfaces
<1>1. ScoringInv => MajoritySurfaces
  <2> SUFFICES ASSUME ScoringInv, NEW c \in Ids, saved[c] # NoScore
               PROVE  saved[c] >= Threshold
                        <=> 2 * Cardinality({i \in DOMAIN samples[c] :
                                               samples[c][i] >= Threshold}) > Len(samples[c])
    BY DEF MajoritySurfaces
  <2>1. samples[c] \in Seq(Scores) /\ Len(samples[c]) > 0
        /\ saved[c] = MedianSample(samples[c])
    BY DEF ScoringInv, TypeOK, SavedInv
  <2>2. QED
    BY <2>1, MedianIsMajority
<1>2. QED
  BY <1>1, StageInvariant, PTL

\* Leaving score_gold's `with` block (ingest.py:863), by an exception too, leaves no
\* thread at work and no task to begin.
THEOREM StagesEndQuietly == Spec => []LeftQuietly
<1>1. ScoringInv => LeftQuietly
  BY DEF ScoringInv
<1>2. QED
  BY <1>1, StageInvariant, PTL

(***************************************************************************)
(* The stage as the run around it sees it: the candidates are settled one at  *)
(* a time.                                                                  *)
(***************************************************************************)
FateMap == [c \in Ids |-> Fate(c)]
Rows    == {c \in Ids : saved[c] # NoScore}
Report  == IF main = "over" THEN [k \in Failure \cup {"scored"} |-> counts[k]] ELSE <<>>

(* Who has been counted as what.                                              *)
Settled(k) == {c \in handled : outcome[c] = k}

CountInv ==
  /\ \A k \in Failure : counts[k] = Cardinality(Settled(k))
  /\ counts["scored"] = Cardinality(marked)

\* What has been taken is counted as a failure, or has a row; and the rows are those
\* that are marked, but for the one in hand.
TurnInv ==
  /\ marked \subseteq Rows /\ Rows \subseteq handled
  /\ main \in {"collect", "mark"} =>
       \A c \in handled : outcome[c] \in Failure \/ c \in marked \/ (main = "mark" /\ c = item)
  /\ main = "mark" => item \in Rows /\ item \notin marked

\* The sets that are counted are finite.
LEMMA IdsAreFinite ==
  ASSUME NEW S \in SUBSET Ids
  PROVE  /\ IsFiniteSet(S) /\ Cardinality(S) \in Nat
         /\ \A c \in Ids : c \notin S => Cardinality(S \cup {c}) = Cardinality(S) + 1
<1>1. IsFiniteSet(Ids)
  BY PoolAssumption, FS_Interval DEF Ids
<1>2. IsFiniteSet(S) /\ Cardinality(S) \in Nat
  BY <1>1, FS_Subset, FS_CardinalityType
<1>3. QED
  BY <1>2, FS_AddElement

\* A worker's step leaves the outcomes that are final, and writes nothing.
LEMMA WorkLeavesResults ==
  ASSUME TypeOK, PoolInv, SavedInv, NEW w \in Workers, Work(w)
  PROVE  /\ UNCHANGED writer
         /\ \A c \in handled : outcome'[c] = outcome[c]
<1>1. UNCHANGED writer
  BY WorkTypes DEF WorkerOnly
<1>2. ASSUME NEW c \in Ids, Finished(c) PROVE outcome'[c] = outcome[c]
  <2>1. c # next /\ (Busy(w) => c # task[w])
    BY <1>2 DEF PoolInv, Finished, Failure, TypeOK, Ids
  <2>2. CASE StartTask(w)
    BY <2>1, <2>2 DEF StartTask, TypeOK
  <2>3. ASSUME NEW s \in Scores, ValidReply(w, s) PROVE outcome'[c] = outcome[c]
    BY <2>1, <2>3 DEF ValidReply, Answered, Sample, Resolve, TypeOK
  <2>4. CASE \/ InvalidReply(w) \/ TransientFailure(w) \/ Retry(w)
             \/ CallRefused(w) \/ BillingRefused(w) \/ UnexpectedError(w)
    BY <2>1, <2>4 DEF InvalidReply, TransientFailure, Retry, CallRefused, BillingRefused,
       UnexpectedError, Answered, Resolve, TypeOK
  <2>5. QED
    BY <2>2, <2>3, <2>4 DEF Work
<1>3. QED
  BY <1>1, <1>2 DEF PoolInv, TypeOK

\* A row holds a score.
LEMMA SaveWritesRow ==
  ASSUME TypeOK, SavedInv, NEW c \in Ids, SaveScore(c)
  PROVE  Rows' = Rows \cup {c}
<1>1. samples[c] \in Seq(Scores) /\ Len(samples[c]) > 0
  BY DEF SaveScore, SavedInv, TypeOK
<1>2. MedianSample(samples[c]) \in Scores
  BY <1>1, MedianIsASample
<1>3. MedianSample(samples[c]) # NoScore
  BY <1>2, KnobsAssumption
<1>4. saved' = [saved EXCEPT ![c] = MedianSample(samples[c])]
  BY DEF SaveScore
<1>5. QED
  BY <1>3, <1>4 DEF Rows, TypeOK


\* A result that is counted is counted once, since it is taken once.
LEMMA CountStep ==
  ASSUME TypeOK, PoolInv, SavedInv, TurnInv, CountInv, [Next]_vars
  PROVE  CountInv'
<1>1. ASSUME UNCHANGED <<counts, marked>>,
             \A k \in Failure : Settled(k)' = Settled(k)
      PROVE  CountInv'
  BY <1>1 DEF CountInv
<1>2. ASSUME UNCHANGED <<handled, outcome, counts, marked>> PROVE CountInv'
  BY <1>1, <1>2 DEF Settled
<1>3. ASSUME NEW w \in Workers, Work(w) PROVE CountInv'
  <2>1. UNCHANGED writer /\ \A c \in handled : outcome'[c] = outcome[c]
    BY <1>3, WorkLeavesResults
  <2>2. \A k \in Failure : Settled(k)' = Settled(k)
    BY <2>1 DEF writer, Settled
  <2>3. QED
    BY <1>1, <2>1, <2>2 DEF writer
<1>4. ASSUME NEW c \in Ids, CountUnscored(c) PROVE CountInv'
  <2>1. /\ c \notin handled /\ outcome[c] \in Failure
        /\ UNCHANGED <<outcome, marked>> /\ handled' = handled \cup {c}
        /\ counts' = [k \in Kinds |-> IF k = outcome[c] THEN counts[k] + 1 ELSE counts[k]]
    BY <1>4 DEF CountUnscored, Ready, Count, pool
  <2>2. "scored" \notin Failure /\ Failure \subseteq Kinds /\ "scored" \in Kinds
    BY DEF Failure, Kinds
  <2>3. counts'["scored"] = Cardinality(marked')
    BY <2>1, <2>2 DEF CountInv
  <2>4. ASSUME NEW k \in Failure, k # outcome[c] PROVE counts'[k] = Cardinality(Settled(k)')
    <3>1. Settled(k)' = Settled(k)
      BY <2>1, <2>4 DEF Settled
    <3>2. QED
      BY <2>1, <2>2, <2>4, <3>1 DEF CountInv
  <2>5. ASSUME NEW k \in Failure, k = outcome[c] PROVE counts'[k] = Cardinality(Settled(k)')
    <3>1. Settled(k)' = Settled(k) \cup {c} /\ c \notin Settled(k) /\ Settled(k) \in SUBSET Ids
      BY <2>1, <2>5 DEF Settled, TypeOK
    <3>2. Cardinality(Settled(k)') = Cardinality(Settled(k)) + 1
      BY <3>1, IdsAreFinite
    <3>3. QED
      BY <2>1, <2>2, <2>5, <3>2 DEF CountInv
  <2>6. QED
    BY <2>3, <2>4, <2>5 DEF CountInv
<1>5. ASSUME NEW c \in Ids, SaveScore(c) \/ TaskRaised(c) PROVE CountInv'
  <2>1. /\ outcome[c] \notin Failure
        /\ UNCHANGED <<outcome, counts, marked>> /\ handled' = handled \cup {c}
    BY <1>5 DEF SaveScore, TaskRaised, Failure, pool
  <2>2. \A k \in Failure : Settled(k)' = Settled(k)
    BY <2>1 DEF Settled
  <2>3. QED
    BY <1>1, <2>1, <2>2
<1>6. CASE MarkScored
  <2>1. /\ item \in Ids /\ item \notin marked
        /\ UNCHANGED <<outcome, handled>> /\ marked' = marked \cup {item}
        /\ \A k \in Failure : counts'[k] = counts[k]
        /\ counts'["scored"] = counts["scored"] + 1
    BY <1>6 DEF MarkScored, TurnInv, Rows, Count, Failure, Kinds, pool
  <2>2. Cardinality(marked') = Cardinality(marked) + 1
    BY <2>1, IdsAreFinite DEF TypeOK
  <2>3. QED
    BY <2>1, <2>2 DEF CountInv, Settled
<1>7. CASE WriteRefused \/ Leave \/ Finish \/ Kill \/ Tick \/ Ended \/ UNCHANGED vars
  BY <1>2, <1>7 DEF WriteRefused, Leave, Finish, Kill, Tick, Ended, vars, pool, writer
<1>8. QED
  BY <1>3, <1>4, <1>5, <1>6, <1>7 DEF Next, Collect

\* The main thread has one candidate in hand: it marks it before it takes another.
LEMMA TurnStep ==
  ASSUME TypeOK, PoolInv, SavedInv, TurnInv, [Next]_vars
  PROVE  TurnInv'
<1>1. ASSUME NEW w \in Workers, Work(w) PROVE TurnInv'
  <2>1. UNCHANGED writer /\ \A c \in handled : outcome'[c] = outcome[c]
    BY <1>1, WorkLeavesResults
  <2>2. QED
    BY <2>1 DEF writer, TurnInv, Rows
<1>2. ASSUME NEW c \in Ids, CountUnscored(c) PROVE TurnInv'
  <2>1. /\ main = "collect" /\ main' = "collect" /\ outcome[c] \in Failure
        /\ UNCHANGED <<outcome, marked, saved>> /\ handled' = handled \cup {c}
    BY <1>2 DEF CountUnscored, Ready, pool
  <2>2. Rows' = Rows
    BY <2>1 DEF Rows
  <2>3. QED
    BY <2>1, <2>2 DEF TurnInv
<1>3. ASSUME NEW c \in Ids, SaveScore(c) PROVE TurnInv'
  <2>1. Rows' = Rows \cup {c}
    BY <1>3, SaveWritesRow
  <2>2. c \notin marked
    BY <1>3 DEF SaveScore, Ready, TurnInv
  <2>3. /\ main = "collect" /\ main' = "mark" /\ item' = c
        /\ UNCHANGED <<outcome, marked>> /\ handled' = handled \cup {c}
    BY <1>3 DEF SaveScore, Ready, pool
  <2>4. QED
    BY <2>1, <2>2, <2>3 DEF TurnInv
<1>4. CASE MarkScored
  <2>1. /\ main = "mark" /\ main' = "collect" /\ marked' = marked \cup {item}
        /\ UNCHANGED <<outcome, handled, saved>>
    BY <1>4 DEF MarkScored, pool
  <2>2. Rows' = Rows
    BY <2>1 DEF Rows
  <2>3. QED
    BY <2>1, <2>2 DEF TurnInv
<1>5. ASSUME NEW c \in Ids, TaskRaised(c) PROVE TurnInv'
  BY <1>5 DEF TaskRaised, TurnInv, Rows
<1>6. CASE WriteRefused \/ Leave \/ Finish \/ Kill
  BY <1>6 DEF WriteRefused, Leave, Finish, Kill, TurnInv, Rows
<1>7. CASE Tick \/ Ended \/ UNCHANGED vars
  BY <1>7 DEF Tick, Ended, vars, pool, writer, TurnInv, Rows
<1>8. QED
  BY <1>1, <1>2, <1>3, <1>4, <1>5, <1>6, <1>7 DEF Next, Collect

OutsideStep == [Outside!Next]_<<Stage, FateMap, Rows, Report>>

\* Seen from outside, each step of the pool settles one candidate, or nothing.
LEMMA OutsideStepHolds ==
  ASSUME TypeOK, PoolInv, SavedInv, TurnInv, CountInv, [Next]_vars
  PROVE  OutsideStep
<1> USE DEF OutsideStep
<1>1. ASSUME UNCHANGED <<main, marked, saved, counts>>, FateMap' = FateMap PROVE OutsideStep
  BY <1>1 DEF Stage, Rows, Report
<1>2. ASSUME NEW w \in Workers, Work(w) PROVE OutsideStep
  <2>1. UNCHANGED writer /\ \A c \in handled : outcome'[c] = outcome[c]
    BY <1>2, WorkLeavesResults
  <2>2. FateMap' = FateMap
    BY <2>1 DEF FateMap, Fate, writer
  <2>3. QED
    BY <1>1, <2>1, <2>2 DEF writer
<1>3. ASSUME NEW c \in Ids, CountUnscored(c) PROVE OutsideStep
  <2>1. /\ main = "collect" /\ main' = main
        /\ c \notin handled /\ outcome[c] \in Failure
        /\ UNCHANGED <<outcome, marked, saved>> /\ handled' = handled \cup {c}
    BY <1>3 DEF CountUnscored, Ready, pool
  <2>2. c \notin Rows /\ c \notin marked
    BY <2>1 DEF TurnInv
  <2>3. FateMap[c] = "open" /\ FateMap' = [FateMap EXCEPT ![c] = outcome[c]]
    BY <2>1, <2>2 DEF FateMap, Fate
  <2>4. Stage = "settling" /\ Stage' = Stage /\ Rows' = Rows /\ Report' = Report
    BY <2>1 DEF Stage, Rows, Report
  <2>5. Outside!Pass(c, outcome[c])
    BY <2>2, <2>3, <2>4 DEF Outside!Pass, Outside!Settle, FateMap, Rows, Report
  <2>6. QED
    BY <2>1, <2>5 DEF Outside!Next
<1>4. ASSUME NEW c \in Ids, SaveScore(c) PROVE OutsideStep
  <2>1. /\ main = "collect" /\ main' = "mark"
        /\ c \notin handled /\ outcome[c] = "judged"
        /\ UNCHANGED <<outcome, marked>> /\ handled' = handled \cup {c}
    BY <1>4 DEF SaveScore, Ready, pool
  <2>2. Rows' = Rows \cup {c}
    BY <1>4, SaveWritesRow
  <2>3. FateMap[c] = "open" /\ FateMap' = FateMap
    BY <2>1 DEF FateMap, Fate, Failure, TurnInv
  <2>4. Stage = "settling" /\ Stage' = "writing" /\ Report' = Report
    BY <2>1 DEF Stage, Report
  <2>5. Outside!Judge(c)
    BY <2>2, <2>3, <2>4 DEF Outside!Judge, FateMap, Rows, Report
  <2>6. QED
    BY <2>5 DEF Outside!Next
<1>5. CASE MarkScored
  <2>1. /\ main = "mark" /\ main' = "collect"
        /\ item \in Rows /\ item \notin marked /\ item \in Ids
        /\ UNCHANGED <<outcome, handled, saved>> /\ marked' = marked \cup {item}
    BY <1>5 DEF MarkScored, TurnInv, Rows, pool
  <2>2. FateMap[item] = "open" /\ FateMap' = [FateMap EXCEPT ![item] = "scored"]
    BY <2>1 DEF FateMap, Fate, Failure, SavedInv, Rows
  <2>3. Stage = "writing" /\ Stage' = "settling" /\ Rows' = Rows /\ Report' = Report
    BY <2>1 DEF Stage, Rows, Report
  <2>4. Outside!Mark(item)
    BY <2>1, <2>2, <2>3 DEF Outside!Mark, Outside!Settle, FateMap, Rows, Report
  <2>5. QED
    BY <2>1, <2>4 DEF Outside!Next
<1>6. ASSUME NEW c \in Ids, TaskRaised(c) PROVE OutsideStep
  <2>1. /\ main = "collect" /\ main' = "leaving" /\ outcome[c] = "raised"
        /\ UNCHANGED <<outcome, marked, saved>> /\ handled' = handled \cup {c}
    BY <1>6 DEF TaskRaised, Ready, pool
  <2>2. FateMap' = FateMap /\ Rows' = Rows /\ Report' = Report
    BY <2>1 DEF FateMap, Fate, Failure, Rows, Report
  <2>3. Stage = "settling" /\ Stage' = "broken"
    BY <2>1 DEF Stage
  <2>4. QED
    BY <2>2, <2>3 DEF Outside!Next, Outside!Break, FateMap, Rows, Report
<1>7. CASE WriteRefused \/ Kill \/ Leave
  <2>1. /\ UNCHANGED <<outcome, handled, marked, saved>>
        /\ main \in {"collect", "mark", "leaving"} /\ main' \in {"leaving", "aborted", "killed"}
    BY <1>7 DEF WriteRefused, Kill, Leave, Ready, Alive, TypeOK, pool
  <2>2. FateMap' = FateMap /\ Rows' = Rows /\ Report' = Report
    BY <2>1 DEF FateMap, Fate, Rows, Report
  <2>3. Stage' = "broken" /\ Stage \in {"settling", "writing", "broken"}
    BY <2>1 DEF Stage
  <2>4. QED
    BY <2>2, <2>3 DEF Outside!Next, Outside!Break, FateMap, Rows, Report
<1>8. CASE Finish
  <2>1. /\ main = "collect" /\ main' = "over" /\ handled = Ids
        /\ UNCHANGED <<outcome, handled, marked, saved, counts>>
    BY <1>8 DEF Finish, pool
  <2>2. FateMap' = FateMap /\ Rows' = Rows
    BY <2>1 DEF FateMap, Fate, Rows
  <2>3. Stage = "settling" /\ Stage' = "returned"
    BY <2>1 DEF Stage
  <2>4. \A c \in Ids : FateMap[c] # "open"
    BY <2>1 DEF FateMap, Fate, Failure, TurnInv
  <2>5. ASSUME NEW k \in Failure \cup {"scored"}
        PROVE  counts'[k] = Cardinality({c \in Ids : FateMap[c] = k})
    <3>1. CASE k = "scored"
      <4>1. {c \in Ids : FateMap[c] = k} = marked
        BY <3>1 DEF FateMap, Fate, Failure, TypeOK
      <4>2. QED
        BY <2>1, <3>1, <4>1 DEF CountInv
    <3>2. CASE k \in Failure
      <4>1. \A c \in marked : outcome[c] \notin Failure
        BY DEF TurnInv, SavedInv, Rows, Failure
      <4>2. {c \in Ids : FateMap[c] = k} = Settled(k)
        BY <2>1, <3>2, <4>1 DEF FateMap, Fate, Failure, Settled
      <4>3. QED
        BY <2>1, <3>2, <4>2 DEF CountInv
    <3>3. QED
      BY <3>1, <3>2
  <2>6. Report' = [k \in Failure \cup {"scored"} |-> Cardinality({c \in Ids : FateMap[c] = k})]
    BY <2>1, <2>5 DEF Report
  <2>7. Outside!Return
    <3>1. \A S : Outside!Cardinality(S) = Cardinality(S)
      BY DEF Outside!Cardinality, Cardinality
    <3>2. QED
      BY <2>2, <2>3, <2>4, <2>6, <3>1 DEF Outside!Return, FateMap, Rows, Report
  <2>8. QED
    BY <2>7 DEF Outside!Next
<1>9. CASE Tick \/ Ended \/ UNCHANGED vars
  BY <1>1, <1>9 DEF Tick, Ended, vars, pool, writer, FateMap, Fate
<1>10. QED
  BY <1>2, <1>3, <1>4, <1>5, <1>6, <1>7, <1>8, <1>9 DEF Next, Collect

\* score_gold's pool of threads (ingest.py:863-903) is, for any number of candidates and
\* threads and whatever fails, a stage that settles its candidates one after the other.
THEOREM PoolImplementsStage == Spec => SettlesInTurn
<1>1. Init => Outside!Init /\ TurnInv /\ CountInv
  <2> SUFFICES ASSUME Init PROVE Outside!Init /\ TurnInv /\ CountInv
    OBVIOUS
  <2>1. \A k \in Failure : Settled(k) = {}
    BY DEF Init, Settled
  <2>2. CountInv
    BY <2>1, FS_EmptySet DEF Init, CountInv, Kinds, Failure
  <2>3. TurnInv
    BY DEF Init, TurnInv, Rows
  <2>4. Outside!Init
    BY DEF Init, Outside!Init, Stage, Fate
  <2>5. QED
    BY <2>2, <2>3, <2>4
<1>2. ScoringInv /\ TurnInv /\ CountInv /\ [Next]_vars => TurnInv' /\ CountInv'
  BY TurnStep, CountStep DEF ScoringInv
<1>3. ScoringInv /\ TurnInv /\ CountInv /\ [Next]_vars
        => [Outside!Next]_<<Stage, FateMap, Rows, Report>>
  BY OutsideStepHolds DEF ScoringInv, OutsideStep
<1>4. SettlesInTurn <=> Outside!Init /\ [][Outside!Next]_<<Stage, FateMap, Rows, Report>>
  BY DEF SettlesInTurn, Outside!Spec, FateMap, Rows, Report
<1>5. QED
  BY <1>1, <1>2, <1>3, <1>4, StageInvariant, PTL DEF Spec

=============================================================================
