---------------------------- MODULE CaptureProofs ----------------------------
(***************************************************************************)
(* Answers of the capture Lambda and of the operator's commands are true,     *)
(* rows of application_event stand for requests, and a resume that ends in    *)
(* time is absorbed: for every number of callers, budget, interval and time   *)
(* limit, and whatever pauses, dies, expires or is rotated meanwhile.         *)
(*                                                                          *)
(* CaptureInv is the inductive invariant, one conjunct per question; each has *)
(* a lemma with one step per action.                                        *)
(***************************************************************************)
EXTENDS Capture, SequenceTheorems, TLAPS

\* While the cluster resumes, whatever a caller has slept so far counts in `down`:
\* a caller begins to sleep only after it has touched the cluster.
Waits ==
  /\ \A c \in Callers :
       /\ stage[c] \in {"idle", "verify"} => waited[c] = 0
       /\ stage[c] = "nap" => nap[c] > 0 /\ cluster # "paused"
       /\ stage[c] = "nap" /\ cluster # "up" => waited[c] - nap[c] <= down
       /\ stage[c] = "touch" /\ cluster # "up" => waited[c] <= down
  /\ cluster # "resuming" => down = 0

(***************************************************************************)
(* The types.                                                              *)
(***************************************************************************)
LEMMA RecordAppends ==
  ASSUME TypeOK, NEW c \in Callers, Record(c)
  PROVE  \E p \in Named(c) \cap posting :
           LET n == Len(application_event) + 1 IN
           /\ application_event' \in Seq(Event)
           /\ DOMAIN application_event' = DOMAIN application_event \cup {n}
           /\ n \notin DOMAIN application_event
           /\ application_event'[n] = [by |-> c, posting |-> p]
           /\ \A i \in DOMAIN application_event : application_event'[i] = application_event[i]
           /\ RowsOf(c)' = RowsOf(c) \cup {n}
           /\ \A d \in Callers \ {c} : RowsOf(d)' = RowsOf(d)
<1>1. PICK p \in Named(c) \cap posting :
        application_event' = Append(application_event, [by |-> c, posting |-> p])
  BY DEF Record
<1> DEFINE n == Len(application_event) + 1
           row == [by |-> c, posting |-> p]
<1>2. application_event \in Seq(Event) /\ row \in Event
  BY DEF TypeOK, Event
<1>3. /\ application_event' \in Seq(Event) /\ Len(application_event') = n
      /\ application_event'[n] = row
      /\ \A i \in 1..Len(application_event) : application_event'[i] = application_event[i]
  BY <1>1, <1>2, AppendProperties
<1>4. /\ DOMAIN application_event = 1..Len(application_event) /\ Len(application_event) \in Nat
      /\ DOMAIN application_event' = 1..n
  BY <1>2, <1>3, LenProperties
<1>5. DOMAIN application_event' = DOMAIN application_event \cup {n}
      /\ n \notin DOMAIN application_event
  BY <1>4
<1>6. row.by = c
  OBVIOUS
<1> HIDE DEF n, row
<1>7. \A d \in Callers : RowsOf(d)' = RowsOf(d) \cup (IF d = c THEN {n} ELSE {})
  BY <1>3, <1>4, <1>5, <1>6 DEF RowsOf
<1>8. QED
  BY <1>3, <1>4, <1>5, <1>7 DEF n, row

LEMMA TypeStep ==
  ASSUME TypeOK, Waits, Next
  PROVE  TypeOK'
<1> USE KindAssumption, CallerAssumption
    DEF TypeOK, Stage, Answer, dbVars, waitVars, keyVars, logVars, Containers, Link, Request
<1>1. ASSUME NEW r \in Invocations, BeginRun(r) PROVE TypeOK'
  BY <1>1 DEF BeginRun, Goto
<1>2. ASSUME NEW r \in Invocations, NEW p \in Postings, Land(r, p) PROVE TypeOK'
  BY <1>2 DEF Land
<1>3. ASSUME NEW r \in Invocations, NEW w \in PipelineContainers, NEW m \in SUBSET Postings,
             Mail(r, w, m)
      PROVE  TypeOK'
  BY <1>3 DEF Mail, KeyFor, Tell
<1>4. ASSUME NEW c \in Clicks, NEW l \in links, NEW intact \in BOOLEAN,
             Click(c, l, intact)
      PROVE  TypeOK'
  BY <1>4 DEF Click, Goto
<1>5. ASSUME NEW c \in Clicks, NEW w \in CaptureContainers, Accept(c, w) PROVE TypeOK'
  BY <1>5 DEF Accept, KeyFor, Goto
<1>6. ASSUME NEW c \in Clicks, NEW w \in CaptureContainers, Refuse(c, w) PROVE TypeOK'
  BY <1>6 DEF Refuse, KeyFor, Tell
<1>7. ASSUME NEW c \in Clicks, NEW w \in CaptureContainers,
             NoSigningKey(c, w)
      PROVE  TypeOK'
  BY <1>7 DEF NoSigningKey, Tell
<1>8. ASSUME NEW c \in Clicks, RefuseBlank(c) PROVE TypeOK'
  BY <1>8 DEF RefuseBlank, Tell
<1>9. ASSUME NEW c \in Commands, NotFound(c) PROVE TypeOK'
  BY <1>9 DEF NotFound, Tell
<1>10. ASSUME NEW c \in Commands, NEW p \in Postings, Type(c, p) PROVE TypeOK'
  BY <1>10 DEF Type, Goto
<1>11. ASSUME NEW c \in Callers, Reach(c) PROVE TypeOK'
  BY <1>11 DEF Reach, Answered, Goto, Untouched
<1>12. ASSUME NEW c \in Callers, Wait(c) PROVE TypeOK'
  BY <1>12 DEF Wait, Doze, Touched, Spent, Goto, Untouched
<1>13. ASSUME NEW c \in Callers, Fail(c) PROVE TypeOK'
  BY <1>13 DEF Fail, GiveUp, Broken, Touched, Goto, Untouched
<1>14. ASSUME NEW c \in Callers, Track(c) PROVE TypeOK'
  <2>1. application_event' \in Seq(Event)
    BY <1>14, RecordAppends DEF Track
  <2>2. QED
    BY <1>14, <2>1 DEF Track, Goto
<1>15. ASSUME NEW c \in Callers, TrackRolledBack(c) PROVE TypeOK'
  BY <1>15 DEF TrackRolledBack, Tell
<1>16. ASSUME NEW c \in Callers, TrackUnheard(c) PROVE TypeOK'
  <2>1. application_event' \in Seq(Event)
    BY <1>16, RecordAppends DEF TrackUnheard
  <2>2. QED
    BY <1>16, <2>1 DEF TrackUnheard, Tell
<1>17. ASSUME NEW c \in Callers, Reply(c) PROVE TypeOK'
  BY <1>17 DEF Reply, Tell
<1>18. ASSUME NEW c \in Callers, Die(c) PROVE TypeOK'
  BY <1>18 DEF Die, Busy
<1>19. ASSUME NEW key \in Keys \cup {NoKey}, ChangeSecret(key) PROVE TypeOK'
  BY <1>19, SecretAssumption DEF ChangeSecret
<1>20. ASSUME NEW w \in Containers, Recycle(w) PROVE TypeOK'
  BY <1>20 DEF Recycle
<1>21. ASSUME NEW l \in links, Expire(l) PROVE TypeOK'
  BY <1>21 DEF Expire
<1>22. ASSUME Resume /\ Elsewhere PROVE TypeOK'
  BY <1>22 DEF Resume, Elsewhere
<1>23. ASSUME Pause(Busy) /\ Elsewhere PROVE TypeOK'
  BY <1>23 DEF Pause, Busy, Elsewhere
<1>24. ASSUME Tick(Busy) /\ Elsewhere PROVE TypeOK'
  <2>1. \A c \in Callers : nap'[c] \in Nat /\ age'[c] \in Nat /\ stage'[c] \in Stage
    BY <1>24 DEF Tick, Waits, Asleep
  <2>2. down' \in Nat
    BY <1>24 DEF Tick
  <2>3. nap' \in [Callers -> Nat] /\ age' \in [Callers -> Nat] /\ stage' \in [Callers -> Stage]
    <3> HIDE DEF Stage
    <3>1. QED
      BY <1>24, <2>1 DEF Tick
  <2>4. QED
    BY <1>24, <2>2, <2>3 DEF Tick, Elsewhere
<1> HIDE DEF TypeOK, Stage, Answer, dbVars, waitVars, keyVars, logVars, Request
<1> QED
  BY <1>1, <1>2, <1>3, <1>4, <1>5, <1>6, <1>7, <1>8, <1>9, <1>10, <1>11, <1>12, <1>13, <1>14,
     <1>15, <1>16, <1>17, <1>18, <1>19, <1>20, <1>21, <1>22, <1>23, <1>24 DEF Next

(***************************************************************************)
(* The waits.                                                              *)
(***************************************************************************)
LEMMA WaitStep ==
  ASSUME TypeOK, Waits, Next
  PROVE  Waits'
<1> USE KindAssumption, CallerAssumption DEF TypeOK, Stage, Waits, dbVars, waitVars
<1>1. ASSUME NEW r \in Invocations, BeginRun(r) PROVE Waits'
  BY <1>1 DEF BeginRun, Goto
<1>2. ASSUME NEW r \in Invocations, NEW p \in Postings, Land(r, p) PROVE Waits'
  BY <1>2 DEF Land
<1>3. ASSUME NEW r \in Invocations, NEW w \in PipelineContainers, NEW m \in SUBSET Postings,
             Mail(r, w, m)
      PROVE  Waits'
  BY <1>3 DEF Mail, KeyFor, Tell
<1>4. ASSUME NEW c \in Clicks, NEW l \in links, NEW intact \in BOOLEAN,
             Click(c, l, intact)
      PROVE  Waits'
  BY <1>4 DEF Click, Goto
<1>5. ASSUME NEW c \in Clicks, NEW w \in CaptureContainers, Accept(c, w) PROVE Waits'
  BY <1>5 DEF Accept, KeyFor, Goto
<1>6. ASSUME NEW c \in Clicks, NEW w \in CaptureContainers, Refuse(c, w) PROVE Waits'
  BY <1>6 DEF Refuse, KeyFor, Tell
<1>7. ASSUME NEW c \in Clicks, NEW w \in CaptureContainers,
             NoSigningKey(c, w)
      PROVE  Waits'
  BY <1>7 DEF NoSigningKey, Tell
<1>8. ASSUME NEW c \in Clicks, RefuseBlank(c) PROVE Waits'
  BY <1>8 DEF RefuseBlank, Tell
<1>9. ASSUME NEW c \in Commands, NotFound(c) PROVE Waits'
  BY <1>9 DEF NotFound, Tell
<1>10. ASSUME NEW c \in Commands, NEW p \in Postings, Type(c, p) PROVE Waits'
  BY <1>10 DEF Type, Goto
<1>11. ASSUME NEW c \in Callers, Reach(c) PROVE Waits'
  BY <1>11 DEF Reach, Answered, Goto, Untouched
<1>12. ASSUME NEW c \in Callers, Wait(c) PROVE Waits'
  BY <1>12 DEF Wait, Doze, Touched, Spent, Goto, Untouched
<1>13. ASSUME NEW c \in Callers, Fail(c) PROVE Waits'
  BY <1>13 DEF Fail, GiveUp, Broken, Touched, Goto, Untouched
<1>14. ASSUME NEW c \in Callers, Track(c) PROVE Waits'
  BY <1>14 DEF Track, Goto
<1>15. ASSUME NEW c \in Callers, TrackRolledBack(c) PROVE Waits'
  BY <1>15 DEF TrackRolledBack, Tell
<1>16. ASSUME NEW c \in Callers, TrackUnheard(c) PROVE Waits'
  BY <1>16 DEF TrackUnheard, Tell
<1>17. ASSUME NEW c \in Callers, Reply(c) PROVE Waits'
  BY <1>17 DEF Reply, Tell
<1>18. ASSUME NEW c \in Callers, Die(c) PROVE Waits'
  BY <1>18 DEF Die, Busy
<1>19. ASSUME NEW key \in Keys \cup {NoKey}, ChangeSecret(key) PROVE Waits'
  BY <1>19 DEF ChangeSecret
<1>20. ASSUME NEW w \in Containers, Recycle(w) PROVE Waits'
  BY <1>20 DEF Recycle
<1>21. ASSUME NEW l \in links, Expire(l) PROVE Waits'
  BY <1>21 DEF Expire
<1>22. ASSUME Resume /\ Elsewhere PROVE Waits'
  BY <1>22 DEF Resume, Elsewhere
<1>23. ASSUME Pause(Busy) /\ Elsewhere PROVE Waits'
  BY <1>23 DEF Pause, Busy, Elsewhere
<1>24. ASSUME Tick(Busy) /\ Elsewhere PROVE Waits'
  BY <1>24 DEF Tick, Asleep, Busy, Elsewhere
<1> HIDE DEF TypeOK, Stage, Waits, dbVars, waitVars
<1> QED
  BY <1>1, <1>2, <1>3, <1>4, <1>5, <1>6, <1>7, <1>8, <1>9, <1>10, <1>11, <1>12, <1>13, <1>14,
     <1>15, <1>16, <1>17, <1>18, <1>19, <1>20, <1>21, <1>22, <1>23, <1>24 DEF Next

(***************************************************************************)
(* The requests and the rows.                                              *)
(***************************************************************************)
\* What a click asks is what its link says, from the moment it is verified.
Requests == \A c \in Clicks : \A q \in request[c] :
  /\ LinkOf(q) \in links /\ (q.live \/ LinkOf(q) \in expired)
  /\ stage[c] \in {"touch", "nap", "track", "reply"} => q.intact /\ q.live

LEMMA RequestStep ==
  ASSUME TypeOK, Requests, Next
  PROVE  Requests'
<1> USE KindAssumption DEF TypeOK, Requests, LinkOf, dbVars, waitVars, keyVars, logVars
<1>1. ASSUME NEW r \in Invocations, BeginRun(r) PROVE Requests'
  BY <1>1 DEF BeginRun, Goto
<1>2. ASSUME NEW r \in Invocations, NEW p \in Postings, Land(r, p) PROVE Requests'
  BY <1>2 DEF Land
<1>3. ASSUME NEW r \in Invocations, NEW w \in PipelineContainers, NEW m \in SUBSET Postings,
             Mail(r, w, m)
      PROVE  Requests'
  BY <1>3 DEF Mail, KeyFor, Tell
<1>4. ASSUME NEW c \in Clicks, NEW l \in links, NEW intact \in BOOLEAN,
             Click(c, l, intact)
      PROVE  Requests'
  <2>1. l = [posting |-> l.posting, key |-> l.key] /\ l \in links
    BY <1>4 DEF Link
  <2>2. PICK q : q = [posting |-> l.posting, key |-> l.key, intact |-> intact,
                      live |-> l \notin expired]
    OBVIOUS
  <2>3. LinkOf(q) = l /\ (q.live \/ l \in expired)
    BY <2>1, <2>2
  <2>4. /\ request' = [request EXCEPT ![c] = {q}] /\ stage' = [stage EXCEPT ![c] = "verify"]
        /\ links' = links /\ expired' = expired
    BY <1>4, <2>2 DEF Click, Goto
  <2>5. QED
    BY <2>1, <2>3, <2>4
<1>5. ASSUME NEW c \in Clicks, NEW w \in CaptureContainers, Accept(c, w) PROVE Requests'
  BY <1>5 DEF Accept, Verified, Goto
<1>6. ASSUME NEW c \in Clicks, NEW w \in CaptureContainers, Refuse(c, w) PROVE Requests'
  BY <1>6 DEF Refuse, KeyFor, Tell
<1>7. ASSUME NEW c \in Clicks, NEW w \in CaptureContainers,
             NoSigningKey(c, w)
      PROVE  Requests'
  BY <1>7 DEF NoSigningKey, Tell
<1>8. ASSUME NEW c \in Clicks, RefuseBlank(c) PROVE Requests'
  BY <1>8 DEF RefuseBlank, Tell
<1>9. ASSUME NEW c \in Commands, NotFound(c) PROVE Requests'
  BY <1>9 DEF NotFound, Tell
<1>10. ASSUME NEW c \in Commands, NEW p \in Postings, Type(c, p) PROVE Requests'
  BY <1>10 DEF Type, Goto
<1>11. ASSUME NEW c \in Callers, Reach(c) PROVE Requests'
  BY <1>11 DEF Reach, Answered, Goto, Untouched
<1>12. ASSUME NEW c \in Callers, Wait(c) PROVE Requests'
  BY <1>12 DEF Wait, Doze, Touched, Spent, Goto, Untouched
<1>13. ASSUME NEW c \in Callers, Fail(c) PROVE Requests'
  BY <1>13 DEF Fail, GiveUp, Broken, Touched, Goto, Untouched
<1>14. ASSUME NEW c \in Callers, Track(c) PROVE Requests'
  BY <1>14 DEF Track, Goto
<1>15. ASSUME NEW c \in Callers, TrackRolledBack(c) PROVE Requests'
  BY <1>15 DEF TrackRolledBack, Tell
<1>16. ASSUME NEW c \in Callers, TrackUnheard(c) PROVE Requests'
  BY <1>16 DEF TrackUnheard, Tell
<1>17. ASSUME NEW c \in Callers, Reply(c) PROVE Requests'
  BY <1>17 DEF Reply, Tell
<1>18. ASSUME NEW c \in Callers, Die(c) PROVE Requests'
  BY <1>18 DEF Die, Busy
<1>19. ASSUME NEW key \in Keys \cup {NoKey}, ChangeSecret(key) PROVE Requests'
  BY <1>19 DEF ChangeSecret
<1>20. ASSUME NEW w \in Containers, Recycle(w) PROVE Requests'
  BY <1>20 DEF Recycle
<1>21. ASSUME NEW l \in links, Expire(l) PROVE Requests'
  BY <1>21 DEF Expire
<1>22. ASSUME Resume /\ Elsewhere PROVE Requests'
  BY <1>22 DEF Resume, Elsewhere
<1>23. ASSUME Pause(Busy) /\ Elsewhere PROVE Requests'
  BY <1>23 DEF Pause, Busy, Elsewhere
<1>24. ASSUME Tick(Busy) /\ Elsewhere PROVE Requests'
  BY <1>24 DEF Tick, Asleep, Busy, Elsewhere
<1> HIDE DEF TypeOK, Requests, LinkOf, dbVars, waitVars, keyVars, logVars
<1> QED
  BY <1>1, <1>2, <1>3, <1>4, <1>5, <1>6, <1>7, <1>8, <1>9, <1>10, <1>11, <1>12, <1>13, <1>14,
     <1>15, <1>16, <1>17, <1>18, <1>19, <1>20, <1>21, <1>22, <1>23, <1>24 DEF Next

\* Nobody has a row before the statement that writes it has committed.
Log ==
  /\ \A n \in DOMAIN application_event : stage[application_event[n].by] \in {"reply", "over"}
  /\ \A c \in Callers : stage[c] = "reply" => RowsOf(c) # {}
  /\ RecordedWasAsked

LEMMA RowsAreTyped ==
  TypeOK => \A n \in DOMAIN application_event : application_event[n].by \in Callers
<1>1. TypeOK => \A n \in DOMAIN application_event : application_event[n] \in Event
  BY ElementOfSeq, LenProperties DEF TypeOK
<1>2. QED
  BY <1>1 DEF Event

LEMMA LogKept ==
  ASSUME TypeOK, Log,
         application_event' = application_event, posting \subseteq posting', links \subseteq links',
         \A c \in Callers :
           /\ stage[c] \in {"reply", "over"} =>
                stage'[c] \in {"reply", "over"} /\ request'[c] = request[c]
           /\ stage'[c] = "reply" => stage[c] = "reply"
  PROVE  Log'
<1>1. \A c : RowsOf(c)' = RowsOf(c)
  BY DEF RowsOf
<1>2. \A n \in DOMAIN application_event : application_event[n].by \in Callers
  BY RowsAreTyped
<1>3. RecordedWasAsked'
  BY <1>1, <1>2 DEF Log, RecordedWasAsked, LinkOf
<1>4. QED
  BY <1>1, <1>2, <1>3 DEF Log

LEMMA NoRowYet ==
  ASSUME TypeOK, Log, NEW c \in Callers, stage[c] \notin {"reply", "over"}
  PROVE  RowsOf(c) = {}
BY DEF Log, RowsOf

LEMMA LogGrows ==
  ASSUME TypeOK, Requests, Log, NEW c \in Callers, stage[c] = "track", Record(c),
         NEW s \in {"reply", "over"}, stage' = [stage EXCEPT ![c] = s],
         posting' = posting, links' = links, request' = request
  PROVE  Log'
<1> DEFINE n == Len(application_event) + 1
<1>1. PICK p \in Named(c) \cap posting :
        /\ DOMAIN application_event' = DOMAIN application_event \cup {n}
        /\ application_event'[n] = [by |-> c, posting |-> p]
        /\ \A i \in DOMAIN application_event : application_event'[i] = application_event[i]
        /\ RowsOf(c)' = RowsOf(c) \cup {n}
        /\ \A d \in Callers \ {c} : RowsOf(d)' = RowsOf(d)
  BY RecordAppends
<1> HIDE DEF n
<1>2. RowsOf(c) = {}
  BY NoRowYet
<1>3. \A i \in DOMAIN application_event :
        application_event[i].by \in Callers \ {c}
  BY <1>2, RowsAreTyped DEF RowsOf
<1>4. PICK q \in request[c] : q.posting = p
  BY DEF Named
<1>5. c \in Clicks => LinkOf(q) \in links /\ q.intact /\ q.live
  BY <1>4 DEF Requests
<1>6. RecordedWasAsked'
  <2> SUFFICES ASSUME NEW i \in DOMAIN application_event'
               PROVE  LET row == application_event[i] IN
                      (/\ RowsOf(row.by) = {i}
                       /\ row.posting \in posting
                       /\ \E r \in request[row.by] :
                            /\ r.posting = row.posting
                            /\ row.by \in Clicks => LinkOf(r) \in links /\ r.intact /\ r.live)'
    BY DEF RecordedWasAsked
  <2>1. CASE i = n
    BY <1>1, <1>2, <1>4, <1>5, <2>1 DEF LinkOf
  <2>2. CASE i \in DOMAIN application_event
    BY <1>1, <1>3, <2>2 DEF Log, RecordedWasAsked, LinkOf
  <2>3. QED
    BY <1>1, <2>1, <2>2
<1>7. \A i \in DOMAIN application_event' : stage'[application_event'[i].by] \in {"reply", "over"}
  BY <1>1, <1>3 DEF Log, TypeOK
<1>8. \A d \in Callers : stage'[d] = "reply" => RowsOf(d)' # {}
  BY <1>1 DEF Log, TypeOK
<1>9. QED
  BY <1>6, <1>7, <1>8 DEF Log

LEMMA LogStep ==
  ASSUME TypeOK, Requests, Log, Next
  PROVE  Log'
<1> USE KindAssumption, LogKept DEF TypeOK, dbVars, waitVars, keyVars, logVars
<1>1. ASSUME NEW r \in Invocations, BeginRun(r) PROVE Log'
  BY <1>1 DEF BeginRun, Goto
<1>2. ASSUME NEW r \in Invocations, NEW p \in Postings, Land(r, p) PROVE Log'
  BY <1>2 DEF Land
<1>3. ASSUME NEW r \in Invocations, NEW w \in PipelineContainers, NEW m \in SUBSET Postings,
             Mail(r, w, m)
      PROVE  Log'
  BY <1>3 DEF Mail, KeyFor, Tell
<1>4. ASSUME NEW c \in Clicks, NEW l \in links, NEW intact \in BOOLEAN,
             Click(c, l, intact)
      PROVE  Log'
  BY <1>4 DEF Click, Goto
<1>5. ASSUME NEW c \in Clicks, NEW w \in CaptureContainers, Accept(c, w) PROVE Log'
  BY <1>5 DEF Accept, KeyFor, Goto
<1>6. ASSUME NEW c \in Clicks, NEW w \in CaptureContainers, Refuse(c, w) PROVE Log'
  BY <1>6 DEF Refuse, KeyFor, Tell
<1>7. ASSUME NEW c \in Clicks, NEW w \in CaptureContainers, NoSigningKey(c, w) PROVE Log'
  BY <1>7 DEF NoSigningKey, Tell
<1>8. ASSUME NEW c \in Clicks, RefuseBlank(c) PROVE Log'
  BY <1>8 DEF RefuseBlank, Tell
<1>9. ASSUME NEW c \in Commands, NotFound(c) PROVE Log'
  BY <1>9 DEF NotFound, Tell
<1>10. ASSUME NEW c \in Commands, NEW p \in Postings, Type(c, p) PROVE Log'
  BY <1>10 DEF Type, Goto
<1>11. ASSUME NEW c \in Callers, Reach(c) PROVE Log'
  BY <1>11 DEF Reach, Answered, Goto, Untouched
<1>12. ASSUME NEW c \in Callers, Wait(c) PROVE Log'
  BY <1>12 DEF Wait, Doze, Touched, Spent, Goto, Untouched
<1>13. ASSUME NEW c \in Callers, Fail(c) PROVE Log'
  BY <1>13 DEF Fail, GiveUp, Broken, Touched, Goto, Untouched
<1>14. ASSUME NEW c \in Callers, Track(c) PROVE Log'
  BY <1>14, LogGrows DEF Track, Goto
<1>15. ASSUME NEW c \in Callers, TrackRolledBack(c) PROVE Log'
  BY <1>15 DEF TrackRolledBack, Tell
<1>16. ASSUME NEW c \in Callers, TrackUnheard(c) PROVE Log'
  BY <1>16, LogGrows DEF TrackUnheard, Tell
<1>17. ASSUME NEW c \in Callers, Reply(c) PROVE Log'
  BY <1>17 DEF Reply, Tell
<1>18. ASSUME NEW c \in Callers, Die(c) PROVE Log'
  BY <1>18 DEF Die, Busy
<1>19. ASSUME NEW key \in Keys \cup {NoKey}, ChangeSecret(key) PROVE Log'
  BY <1>19 DEF ChangeSecret
<1>20. ASSUME NEW w \in Containers, Recycle(w) PROVE Log'
  BY <1>20 DEF Recycle
<1>21. ASSUME NEW l \in links, Expire(l) PROVE Log'
  BY <1>21 DEF Expire
<1>22. ASSUME Resume /\ Elsewhere PROVE Log'
  BY <1>22 DEF Resume, Elsewhere
<1>23. ASSUME Pause(Busy) /\ Elsewhere PROVE Log'
  BY <1>23 DEF Pause, Busy, Elsewhere
<1>24. ASSUME Tick(Busy) /\ Elsewhere PROVE Log'
  BY <1>24 DEF Tick, Asleep, Busy, Elsewhere
<1> HIDE DEF TypeOK, dbVars, waitVars, keyVars, logVars
<1> QED
  BY <1>1, <1>2, <1>3, <1>4, <1>5, <1>6, <1>7, <1>8, <1>9, <1>10, <1>11, <1>12, <1>13, <1>14,
     <1>15, <1>16, <1>17, <1>18, <1>19, <1>20, <1>21, <1>22, <1>23, <1>24 DEF Next

(***************************************************************************)
(* The key.                                                                *)
(***************************************************************************)
\* Until the secret changes, all that is cached or signed is this secret's.
KeysHeld == secrets = 0 =>
  /\ \A w \in Containers : held[w] \in {NoKey, secret}
  /\ \A l \in links : l.key = secret

LEMMA KeyStep ==
  ASSUME TypeOK, KeysHeld, Next
  PROVE  KeysHeld'
<1> USE KindAssumption DEF TypeOK, KeysHeld, Containers, dbVars, waitVars, keyVars, logVars
<1>1. ASSUME NEW r \in Invocations, BeginRun(r) PROVE KeysHeld'
  BY <1>1 DEF BeginRun, Goto
<1>2. ASSUME NEW r \in Invocations, NEW p \in Postings, Land(r, p) PROVE KeysHeld'
  BY <1>2 DEF Land
<1>3. ASSUME NEW r \in Invocations, NEW w \in PipelineContainers, NEW m \in SUBSET Postings,
             Mail(r, w, m)
      PROVE  KeysHeld'
  BY <1>3 DEF Mail, KeyFor, Tell
<1>4. ASSUME NEW c \in Clicks, NEW l \in links, NEW intact \in BOOLEAN,
             Click(c, l, intact)
      PROVE  KeysHeld'
  BY <1>4 DEF Click, Goto
<1>5. ASSUME NEW c \in Clicks, NEW w \in CaptureContainers, Accept(c, w) PROVE KeysHeld'
  BY <1>5 DEF Accept, KeyFor, Goto
<1>6. ASSUME NEW c \in Clicks, NEW w \in CaptureContainers, Refuse(c, w) PROVE KeysHeld'
  BY <1>6 DEF Refuse, KeyFor, Tell
<1>7. ASSUME NEW c \in Clicks, NEW w \in CaptureContainers,
             NoSigningKey(c, w)
      PROVE  KeysHeld'
  BY <1>7 DEF NoSigningKey, Tell
<1>8. ASSUME NEW c \in Clicks, RefuseBlank(c) PROVE KeysHeld'
  BY <1>8 DEF RefuseBlank, Tell
<1>9. ASSUME NEW c \in Commands, NotFound(c) PROVE KeysHeld'
  BY <1>9 DEF NotFound, Tell
<1>10. ASSUME NEW c \in Commands, NEW p \in Postings, Type(c, p) PROVE KeysHeld'
  BY <1>10 DEF Type, Goto
<1>11. ASSUME NEW c \in Callers, Reach(c) PROVE KeysHeld'
  BY <1>11 DEF Reach, Answered, Goto, Untouched
<1>12. ASSUME NEW c \in Callers, Wait(c) PROVE KeysHeld'
  BY <1>12 DEF Wait, Doze, Touched, Spent, Goto, Untouched
<1>13. ASSUME NEW c \in Callers, Fail(c) PROVE KeysHeld'
  BY <1>13 DEF Fail, GiveUp, Broken, Touched, Goto, Untouched
<1>14. ASSUME NEW c \in Callers, Track(c) PROVE KeysHeld'
  BY <1>14 DEF Track, Goto
<1>15. ASSUME NEW c \in Callers, TrackRolledBack(c) PROVE KeysHeld'
  BY <1>15 DEF TrackRolledBack, Tell
<1>16. ASSUME NEW c \in Callers, TrackUnheard(c) PROVE KeysHeld'
  BY <1>16 DEF TrackUnheard, Tell
<1>17. ASSUME NEW c \in Callers, Reply(c) PROVE KeysHeld'
  BY <1>17 DEF Reply, Tell
<1>18. ASSUME NEW c \in Callers, Die(c) PROVE KeysHeld'
  BY <1>18 DEF Die, Busy
<1>19. ASSUME NEW key \in Keys \cup {NoKey}, ChangeSecret(key) PROVE KeysHeld'
  BY <1>19 DEF ChangeSecret
<1>20. ASSUME NEW w \in Containers, Recycle(w) PROVE KeysHeld'
  BY <1>20 DEF Recycle
<1>21. ASSUME NEW l \in links, Expire(l) PROVE KeysHeld'
  BY <1>21 DEF Expire
<1>22. ASSUME Resume /\ Elsewhere PROVE KeysHeld'
  BY <1>22 DEF Resume, Elsewhere
<1>23. ASSUME Pause(Busy) /\ Elsewhere PROVE KeysHeld'
  BY <1>23 DEF Pause, Busy, Elsewhere
<1>24. ASSUME Tick(Busy) /\ Elsewhere PROVE KeysHeld'
  BY <1>24 DEF Tick, Asleep, Busy, Elsewhere
<1> HIDE DEF TypeOK, KeysHeld, dbVars, waitVars, keyVars, logVars
<1> QED
  BY <1>1, <1>2, <1>3, <1>4, <1>5, <1>6, <1>7, <1>8, <1>9, <1>10, <1>11, <1>12, <1>13, <1>14,
     <1>15, <1>16, <1>17, <1>18, <1>19, <1>20, <1>21, <1>22, <1>23, <1>24 DEF Next

(***************************************************************************)
(* The answers.                                                            *)
(***************************************************************************)
TrueTo(c) ==
  /\ answer[c] # "none" => stage[c] = "over"
  /\ answer[c] = "recorded" => RowsOf(c) # {}
  /\ answer[c] \in {"invalid", "not_found", "error"} => RowsOf(c) = {} \/ c \in unheard
  /\ answer[c] = "invalid" /\ secrets = 0 =>
       \E q \in request[c] : ~q.intact \/ LinkOf(q) \in expired

Answers == \A c \in Callers : TrueTo(c)

LEMMA StaysTrue ==
  ASSUME Answers, NEW c \in Callers, answer'[c] = answer[c],
         stage[c] = "over" => /\ stage'[c] = "over" /\ request'[c] = request[c]
                              /\ RowsOf(c)' = RowsOf(c),
         unheard \subseteq unheard', expired \subseteq expired', secrets' = 0 => secrets = 0
  PROVE  TrueTo(c)'
BY DEF Answers, TrueTo, LinkOf

LEMMA NobodyIsTold ==
  ASSUME Answers, answer' = answer, application_event' = application_event,
         \A c \in Callers : stage[c] = "over" => stage'[c] = "over" /\ request'[c] = request[c],
         unheard \subseteq unheard', expired \subseteq expired', secrets' = 0 => secrets = 0
  PROVE  Answers'
<1>1. \A c : RowsOf(c)' = RowsOf(c)
  BY DEF RowsOf
<1>2. QED
  BY <1>1, StaysTrue DEF Answers

LEMMA OneIsTold ==
  ASSUME TypeOK, Answers, NEW c \in Callers, NEW what \in Answer, Tell(c, what), TrueTo(c)',
         request' = request, \A d \in Callers \ {c} : RowsOf(d)' = RowsOf(d),
         unheard \subseteq unheard', expired \subseteq expired', secrets' = 0 => secrets = 0
  PROVE  Answers'
<1>1. \A d \in Callers \ {c} : answer'[d] = answer[d] /\ stage'[d] = stage[d]
  BY DEF Tell, TypeOK
<1>2. QED
  BY <1>1, StaysTrue DEF Answers

\* Whoever is told that nothing was recorded, without having written, is told the truth.
LEMMA DeniedIsTrue ==
  ASSUME TypeOK, Log, Answers, NEW c \in Callers, stage[c] \notin {"reply", "over"},
         NEW what \in {"none", "not_found", "error"},
         Tell(c, what), application_event' = application_event,
         request' = request, unheard' = unheard, expired' = expired, secrets' = secrets
  PROVE  Answers'
<1>1. \A d : RowsOf(d)' = RowsOf(d)
  BY DEF RowsOf
<1>2. RowsOf(c)' = {} /\ stage'[c] = "over" /\ answer'[c] = what
  BY <1>1, NoRowYet DEF Tell, TypeOK
<1>3. TrueTo(c)'
  BY <1>2 DEF TrueTo
<1>4. what \in Answer
  BY DEF Answer
<1>5. QED
  BY <1>1, <1>3, <1>4, OneIsTold

LEMMA AnswerStep ==
  ASSUME TypeOK, Requests, Log, KeysHeld, Answers, Next
  PROVE  Answers'
<1> USE KindAssumption, NobodyIsTold DEF TypeOK, dbVars, waitVars, keyVars, logVars
<1>1. ASSUME NEW r \in Invocations, BeginRun(r) PROVE Answers'
  BY <1>1 DEF BeginRun, Goto
<1>2. ASSUME NEW r \in Invocations, NEW p \in Postings, Land(r, p) PROVE Answers'
  BY <1>2 DEF Land
<1>3. ASSUME NEW r \in Invocations, NEW w \in PipelineContainers, NEW m \in SUBSET Postings,
             Mail(r, w, m)
      PROVE  Answers'
  BY <1>3, DeniedIsTrue DEF Mail, KeyFor
<1>4. ASSUME NEW c \in Clicks, NEW l \in links, NEW intact \in BOOLEAN,
             Click(c, l, intact)
      PROVE  Answers'
  BY <1>4 DEF Click, Goto
<1>5. ASSUME NEW c \in Clicks, NEW w \in CaptureContainers, Accept(c, w) PROVE Answers'
  BY <1>5 DEF Accept, KeyFor, Goto
<1>6. ASSUME NEW c \in Clicks, NEW w \in CaptureContainers, Refuse(c, w) PROVE Answers'
  <2>1. \A d : RowsOf(d)' = RowsOf(d)
    BY <1>6 DEF Refuse, RowsOf
  <2>2. RowsOf(c) = {}
    BY <1>6, NoRowYet DEF Refuse
  <2>3. PICK key \in Keys, q \in request[c] : KeyFor(w, key) /\ ~Verified(q, key)
    BY <1>6 DEF Refuse
  <2>4. secrets = 0 => ~q.intact \/ LinkOf(q) \in expired
    BY <2>3, KeyAssumption DEF KeyFor, Verified, KeysHeld, Requests, LinkOf, Containers
  <2>5. TrueTo(c)'
    BY <1>6, <2>1, <2>2, <2>3, <2>4 DEF Refuse, Tell, TrueTo, LinkOf
  <2>6. QED
    BY <1>6, <2>1, <2>5, OneIsTold DEF Refuse, Answer
<1>7. ASSUME NEW c \in Clicks, NEW w \in CaptureContainers,
             NoSigningKey(c, w)
      PROVE  Answers'
  BY <1>7, DeniedIsTrue DEF NoSigningKey
<1>8. ASSUME NEW c \in Clicks, RefuseBlank(c) PROVE Answers'
  <2>1. RowsOf(c)' = RowsOf(c) /\ \A d : RowsOf(d)' = RowsOf(d)
    BY <1>8 DEF RefuseBlank, RowsOf
  <2>2. RowsOf(c) = {}
    BY <1>8, NoRowYet DEF RefuseBlank
  <2>3. TrueTo(c)'
    BY <1>8, <2>1, <2>2 DEF RefuseBlank, Tell, TrueTo
  <2>4. QED
    BY <1>8, <2>1, <2>3, OneIsTold DEF RefuseBlank, Answer
<1>9. ASSUME NEW c \in Commands, NotFound(c) PROVE Answers'
  BY <1>9, DeniedIsTrue DEF NotFound
<1>10. ASSUME NEW c \in Commands, NEW p \in Postings, Type(c, p) PROVE Answers'
  BY <1>10 DEF Type, Goto
<1>11. ASSUME NEW c \in Callers, Reach(c) PROVE Answers'
  BY <1>11 DEF Reach, Answered, Goto, Untouched
<1>12. ASSUME NEW c \in Callers, Wait(c) PROVE Answers'
  BY <1>12 DEF Wait, Doze, Touched, Spent, Goto, Untouched
<1>13. ASSUME NEW c \in Callers, Fail(c) PROVE Answers'
  BY <1>13, DeniedIsTrue DEF Fail, GiveUp, Broken, Goto, Tell, Untouched
<1>14. ASSUME NEW c \in Callers, Track(c) PROVE Answers'
  <2>1. \A d \in Callers \ {c} : RowsOf(d)' = RowsOf(d)
    BY <1>14, RecordAppends DEF Track
  <2>2. QED
    BY <1>14, <2>1, StaysTrue DEF Track, Goto, Answers
<1>15. ASSUME NEW c \in Callers, TrackRolledBack(c) PROVE Answers'
  BY <1>15, DeniedIsTrue DEF TrackRolledBack
<1>16. ASSUME NEW c \in Callers, TrackUnheard(c) PROVE Answers'
  <2>1. \A d \in Callers \ {c} : RowsOf(d)' = RowsOf(d)
    BY <1>16, RecordAppends DEF TrackUnheard
  <2>2. PICK what \in {"not_found", "error"} : Tell(c, what)
    BY <1>16 DEF TrackUnheard
  <2>3. TrueTo(c)'
    BY <1>16, <2>2 DEF TrackUnheard, Tell, TrueTo
  <2>4. QED
    BY <1>16, <2>1, <2>2, <2>3, OneIsTold DEF TrackUnheard, Answer
<1>17. ASSUME NEW c \in Callers, Reply(c) PROVE Answers'
  <2>1. \A d : RowsOf(d)' = RowsOf(d)
    BY <1>17 DEF Reply, RowsOf
  <2>2. TrueTo(c)'
    BY <1>17, <2>1 DEF Reply, Tell, TrueTo, Log
  <2>3. QED
    BY <1>17, <2>1, <2>2, OneIsTold DEF Reply, Answer
<1>18. ASSUME NEW c \in Callers, Die(c) PROVE Answers'
  BY <1>18 DEF Die, Busy
<1>19. ASSUME NEW key \in Keys \cup {NoKey}, ChangeSecret(key) PROVE Answers'
  BY <1>19 DEF ChangeSecret
<1>20. ASSUME NEW w \in Containers, Recycle(w) PROVE Answers'
  BY <1>20 DEF Recycle
<1>21. ASSUME NEW l \in links, Expire(l) PROVE Answers'
  BY <1>21 DEF Expire
<1>22. ASSUME Resume /\ Elsewhere PROVE Answers'
  BY <1>22 DEF Resume, Elsewhere
<1>23. ASSUME Pause(Busy) /\ Elsewhere PROVE Answers'
  BY <1>23 DEF Pause, Busy, Elsewhere
<1>24. ASSUME Tick(Busy) /\ Elsewhere PROVE Answers'
  BY <1>24 DEF Tick, Asleep, Busy, Elsewhere
<1> HIDE DEF TypeOK, dbVars, waitVars, keyVars, logVars
<1> QED
  BY <1>1, <1>2, <1>3, <1>4, <1>5, <1>6, <1>7, <1>8, <1>9, <1>10, <1>11, <1>12, <1>13, <1>14,
     <1>15, <1>16, <1>17, <1>18, <1>19, <1>20, <1>21, <1>22, <1>23, <1>24 DEF Next

(***************************************************************************)
(* The theorems.                                                           *)
(***************************************************************************)
CaptureInv == TypeOK /\ Waits /\ Requests /\ Log /\ KeysHeld /\ Answers

LEMMA CaptureBegins == Init => CaptureInv
<1> SUFFICES ASSUME Init PROVE CaptureInv
  OBVIOUS
<1>1. application_event \in Seq(Event) /\ DOMAIN application_event = {}
  BY EmptySeq DEF Init
<1>2. TypeOK
  BY <1>1, SecretAssumption DEF Init, ResumeInit, TypeOK, Stage, Answer, Link, Request
<1>3. Waits
  BY DEF Init, ResumeInit, Waits
<1>4. Requests /\ KeysHeld
  <2>1. \A l \in links : l.key = secret
    BY DEF Init
  <2>2. (\A w \in Containers : held[w] = NoKey) /\ \A c \in Callers : request[c] = {}
    BY DEF Init
  <2>3. QED
    BY <2>1, <2>2, KindAssumption DEF Requests, KeysHeld
<1>5. Log /\ Answers
  BY <1>1 DEF Init, Log, RecordedWasAsked, Answers, TrueTo
<1>6. QED
  BY <1>2, <1>3, <1>4, <1>5 DEF CaptureInv

LEMMA CaptureStep == CaptureInv /\ [Next]_vars => CaptureInv'
<1> SUFFICES ASSUME CaptureInv, [Next]_vars PROVE CaptureInv'
  OBVIOUS
<1>1. CASE Next
  BY <1>1, TypeStep, WaitStep, RequestStep, LogStep, KeyStep, AnswerStep DEF CaptureInv
<1>2. CASE UNCHANGED vars
  <2>1. TypeOK' /\ Waits' /\ Requests' /\ KeysHeld'
    BY <1>2 DEF CaptureInv, vars, dbVars, waitVars, keyVars, logVars, TypeOK, Waits, Requests,
                KeysHeld, LinkOf
  <2>2. Log' /\ Answers'
    BY <1>2, LogKept, NobodyIsTold DEF CaptureInv, vars, dbVars, waitVars, keyVars, logVars
  <2>3. QED
    BY <2>1, <2>2 DEF CaptureInv
<1>3. QED
  BY <1>1, <1>2

LEMMA CaptureAlways == Spec => []CaptureInv
BY CaptureBegins, CaptureStep, PTL DEF Spec

\* Every variable keeps its type; no sleep is left running below zero.
THEOREM TypeCorrect == Spec => []TypeOK
BY CaptureAlways, PTL DEF CaptureInv

\* A row of application_event stands for one request, names the posting that was
\* asked for, and if a click wrote it, goes back to a link that was mailed and was
\* whole and live when it was followed (_capture, track_application_event).
THEOREM RowsAreAsked == Spec => []RecordedWasAsked
<1>1. CaptureInv => RecordedWasAsked
  BY DEF CaptureInv, Log
<1>2. QED
  BY <1>1, CaptureAlways, PTL

\* A caller that is told "recorded" has a row, one that is told otherwise has none
\* unless its commit went unheard, and no good link is refused before the secret
\* changes (_capture, cmd_status).
THEOREM NobodyIsMisled == Spec => []AnswersAreTrue
<1>1. CaptureInv => AnswersAreTrue
  BY DEF CaptureInv, Answers, TrueTo, AnswersAreTrue
<1>2. QED
  BY <1>1, CaptureAlways, PTL

\* A caller gives up only if the resume has outlasted its budget less an interval
\* (wait_for_db_resume, _fetch).
THEOREM ResumesAreAbsorbed == Spec => ResumeIsAbsorbed
<1>1. CaptureInv /\ [Next]_vars =>
        [\A c \in Callers : GiveUp(c, "over") => down > Budget[c] - Interval[c]]_vars
  <2> SUFFICES ASSUME CaptureInv, NEW c \in Callers, GiveUp(c, "over")
               PROVE  down > Budget[c] - Interval[c]
    OBVIOUS
  <2>1. waited[c] + Interval[c] > Budget[c] /\ waited[c] <= down
    BY DEF CaptureInv, Waits, GiveUp, Spent, Touched, Goto
  <2>2. QED
    BY <2>1, CallerAssumption DEF CaptureInv, TypeOK
<1>2. QED
  BY <1>1, CaptureAlways, PTL DEF Spec, ResumeIsAbsorbed
=============================================================================
