------------------------------- MODULE Capture -------------------------------
(***************************************************************************)
(* Application events.  A pipeline run signs a link for every match of its   *)
(* letter (core/capture_token.py); a click on one invokes the capture Lambda *)
(* (handlers/capture.py), which verifies the link, waits for the database    *)
(* and appends a row to application_event.  An operator's command             *)
(* (scripts/track.py) appends to the same table.                            *)
(*                                                                          *)
(* A token is the claim it carries, the key it was signed with and whether   *)
(* it arrived as it was sent; its status is left out.  A link expires after  *)
(* weeks and the ticks of DbResume are seconds: expiry is its own action.    *)
(***************************************************************************)
EXTENDS DbResume, Sequences

CONSTANTS
  Clicks, Commands, Invocations,            (* the callers, by their kind     *)
  CaptureContainers, PipelineContainers,    (* warm Lambda containers         *)
  Postings,
  Keys,             (* the values the signing secret may take                *)
  NoKey,            (* an empty secret, an empty cache                       *)
  MaxSecrets        (* bound: changes of the signing secret                  *)

ASSUME KindAssumption ==
  /\ Callers = Clicks \cup Commands \cup Invocations
  /\ Clicks \cap Commands = {} /\ Invocations \cap (Clicks \cup Commands) = {}
ASSUME KeyAssumption    == NoKey \notin Keys
ASSUME SecretAssumption == MaxSecrets \in Nat

VARIABLES
  secret,             (* the signing secret                                  *)
  secrets,            (* how often it has changed                            *)
  held,               (* _SECRET_KEY_CACHE of a container                    *)
  links,              (* the links that have been mailed                     *)
  expired,            (* those whose exp has passed                          *)
  posting,            (* the postings the table holds                        *)
  application_event,  (* its rows: what was recorded, and for whom           *)
  request,            (* the link a click followed, what a command named     *)
  answer,             (* what a caller was told                              *)
  unheard             (* history: callers whose commit was not acknowledged  *)

keyVars == <<secret, secrets, held>>
logVars == <<posting, application_event, unheard>>
vars    == <<dbVars, stage, waitVars, keyVars, links, expired, logVars, request, answer>>

Containers == CaptureContainers \cup PipelineContainers
Link    == [posting : Postings, key : Keys]
Request == [posting : Postings, key : Keys \cup {NoKey}, intact : BOOLEAN, live : BOOLEAN]
Event   == [by : Callers, posting : Postings]
Stage   == {"idle", "verify", "touch", "nap", "track", "reply", "run", "over"}
Answer  == {"none", "recorded", "invalid", "not_found", "error"}

LinkOf(q) == [posting |-> q.posting, key |-> q.key]
Busy      == {c \in Callers : stage[c] \notin {"idle", "over"}}
RowsOf(c) == {n \in DOMAIN application_event : application_event[n].by = c}

TypeOK ==
  /\ cluster \in {"up", "paused", "resuming"} /\ down \in Nat
  /\ stage \in [Callers -> Stage]
  /\ waited \in [Callers -> Nat] /\ nap \in [Callers -> Nat] /\ age \in [Callers -> Nat]
  /\ secret \in Keys \cup {NoKey} /\ secrets \in 0..MaxSecrets
  /\ held \in [Containers -> Keys \cup {NoKey}]
  /\ links \subseteq Link /\ expired \subseteq links
  /\ posting \subseteq Postings
  /\ application_event \in Seq(Event)
  /\ request \in [Callers -> SUBSET Request]
  /\ answer \in [Callers -> Answer]
  /\ unheard \subseteq Callers

\* Links may be out from earlier letters, also for postings that a rebuilt
\* database does not hold.
Init ==
  /\ ResumeInit
  /\ stage = [c \in Callers |-> "idle"]
  /\ secret \in Keys \cup {NoKey} /\ secrets = 0
  /\ held = [w \in Containers |-> NoKey]
  /\ links \in SUBSET [posting : Postings, key : {secret} \cap Keys]
  /\ expired = {}
  /\ posting \in SUBSET Postings
  /\ application_event = <<>> /\ unheard = {}
  /\ request = [c \in Callers |-> {}]
  /\ answer = [c \in Callers |-> "none"]

Tell(c, what) ==
  /\ stage' = [stage EXCEPT ![c] = "over"]
  /\ answer' = [answer EXCEPT ![c] = what]

(***************************************************************************)
(* The signing key: cached per container, an empty one never.               *)
(***************************************************************************)
\* _resolve_signing_key
KeyFor(w, key) ==
  /\ key = IF held[w] = NoKey THEN secret ELSE held[w]
  /\ held' = [held EXCEPT ![w] = key]

\* The secret is replaced, emptied or corrected.
ChangeSecret(key) ==
  /\ secrets < MaxSecrets /\ key # secret
  /\ secret' = key /\ secrets' = secrets + 1
  /\ UNCHANGED <<dbVars, stage, waitVars, held, links, expired, logVars, request, answer>>

Recycle(w) ==
  /\ held[w] # NoKey
  /\ held' = [held EXCEPT ![w] = NoKey]
  /\ UNCHANGED <<dbVars, stage, waitVars, secret, secrets, links, expired, logVars, request,
                 answer>>

(***************************************************************************)
(* A pipeline run: it waits for the database, lands postings, and mails one   *)
(* link per match.                                                          *)
(***************************************************************************)
BeginRun(r) ==
  /\ Goto(r, "idle", "touch")
  /\ UNCHANGED <<dbVars, waitVars, keyVars, links, expired, logVars, request, answer>>

Land(r, p) ==
  /\ stage[r] = "run" /\ p \notin posting
  /\ posting' = posting \cup {p}
  /\ UNCHANGED <<dbVars, stage, waitVars, keyVars, links, expired, application_event, unheard,
                 request, answer>>

\* build_capture_link: no key, no links.
Mail(r, w, matches) ==
  /\ stage[r] = "run" /\ matches \subseteq posting
  /\ \E key \in Keys \cup {NoKey} :
       /\ KeyFor(w, key)
       /\ links' = links \cup [posting : matches, key : {key} \cap Keys]
  /\ Tell(r, "none")
  /\ UNCHANGED <<dbVars, waitVars, secret, secrets, expired, logVars, request>>

Expire(l) ==
  /\ l \in links \ expired
  /\ expired' = expired \cup {l}
  /\ UNCHANGED <<dbVars, stage, waitVars, keyVars, links, logVars, request, answer>>

(***************************************************************************)
(* A click, up to the first call to the database.                           *)
(***************************************************************************)
\* The reader follows a link, or what a mail client or a hand has left of one.
Click(c, l, intact) ==
  /\ Goto(c, "idle", "verify")
  /\ request' = [request EXCEPT ![c] = {[posting |-> l.posting, key |-> l.key,
                                         intact |-> intact, live |-> l \notin expired]}]
  /\ UNCHANGED <<dbVars, waitVars, keyVars, links, expired, logVars, answer>>

\* Mutant: the payload is trusted as it comes.
Unsigned(q, key) == LinkOf(q) \notin expired

\* verify: the signature, then the expiry.
Verified(q, key) == q.intact /\ q.key = key /\ LinkOf(q) \notin expired

Accept(c, w) ==
  /\ \E key \in Keys : /\ KeyFor(w, key)
                       /\ \A q \in request[c] : Verified(q, key)
  /\ Goto(c, "verify", "touch")
  /\ UNCHANGED <<dbVars, waitVars, secret, secrets, links, expired, logVars, request, answer>>

Refuse(c, w) ==
  /\ stage[c] = "verify"
  /\ \E key \in Keys : /\ KeyFor(w, key)
                       /\ \E q \in request[c] : ~Verified(q, key)
  /\ Tell(c, "invalid")
  /\ UNCHANGED <<dbVars, waitVars, secret, secrets, links, expired, logVars, request>>

\* A link without a token is refused before the key is read.
RefuseBlank(c) ==
  /\ stage[c] = "verify" /\ \E q \in request[c] : ~q.intact
  /\ Tell(c, "invalid")
  /\ UNCHANGED <<dbVars, waitVars, keyVars, links, expired, logVars, request>>

\* No key to verify with: the secret is empty, or cannot be read.
NoSigningKey(c, w) ==
  /\ stage[c] = "verify" /\ held[w] = NoKey
  /\ Tell(c, "error")
  /\ UNCHANGED <<dbVars, waitVars, keyVars, links, expired, logVars, request>>

(***************************************************************************)
(* A command names a posting, which it looks up first.                      *)
(***************************************************************************)
Type(c, p) ==
  /\ Goto(c, "idle", "touch")
  /\ request' = [request EXCEPT ![c] = {[posting |-> p, key |-> NoKey, intact |-> TRUE,
                                         live |-> TRUE]}]
  /\ UNCHANGED <<dbVars, waitVars, keyVars, links, expired, logVars, answer>>

Named(c) == {q.posting : q \in request[c]}

\* cmd_status: the query that is repeated while the database resumes is the look-up.
NotFound(c) ==
  /\ cluster = "up" /\ stage[c] = "touch" /\ c \in Commands
  /\ ~(Named(c) \subseteq posting)
  /\ Tell(c, "not_found")
  /\ UNCHANGED <<dbVars, waitVars, keyVars, links, expired, logVars, request>>

(***************************************************************************)
(* The database: the wait, then the event.                                  *)
(***************************************************************************)
Untouched == UNCHANGED <<keyVars, links, expired, logVars, request>>

Reach(c) ==
  /\ Answered(c, IF c \in Invocations THEN "run" ELSE "track")
  /\ c \in Commands => Named(c) \subseteq posting
  /\ Untouched /\ UNCHANGED answer

Wait(c) == Doze(c) /\ Untouched /\ UNCHANGED answer

\* The resume signal outlasts the budget, or the database fails otherwise.
Fail(c) ==
  /\ GiveUp(c, "over") \/ Broken(c, "over")
  /\ answer' = [answer EXCEPT ![c] = "error"]
  /\ Untouched

Record(c) ==
  \E p \in Named(c) \cap posting :
    application_event' = Append(application_event, [by |-> c, posting |-> p])

\* Mutant: the row is taken for written when the statement has been sent.
TrackUnchecked(c) ==
  /\ Goto(c, "track", "reply")
  /\ Record(c) \/ UNCHANGED application_event
  /\ UNCHANGED <<dbVars, waitVars, keyVars, links, expired, posting, unheard, request, answer>>

\* track_application_event: one transaction looks the posting up and appends.
Track(c) ==
  /\ Goto(c, "track", "reply")
  /\ Record(c)
  /\ UNCHANGED <<dbVars, waitVars, keyVars, links, expired, posting, unheard, request, answer>>

\* The posting is unknown or the transaction fails: both are a RepositoryError
\* and a click's 404, unless the driver's error comes through as it is.
TrackRolledBack(c) ==
  /\ stage[c] = "track"
  /\ \E what \in {"not_found", "error"} : Tell(c, what)
  /\ UNCHANGED <<dbVars, waitVars, keyVars, links, expired, logVars, request>>

\* The row is committed, and the acknowledgement is lost.
TrackUnheard(c) ==
  /\ stage[c] = "track"
  /\ Record(c)
  /\ unheard' = unheard \cup {c}
  /\ \E what \in {"not_found", "error"} : Tell(c, what)
  /\ UNCHANGED <<dbVars, waitVars, keyVars, links, expired, posting, request>>

Reply(c) ==
  /\ stage[c] = "reply" /\ Tell(c, "recorded")
  /\ UNCHANGED <<dbVars, waitVars, keyVars, links, expired, logVars, request>>

\* A caller dies, at its time limit or before; nobody is told anything.
Die(c) ==
  /\ c \in Busy /\ stage' = [stage EXCEPT ![c] = "over"]
  /\ UNCHANGED <<dbVars, waitVars, keyVars, links, expired, logVars, request, answer>>

Elsewhere == UNCHANGED <<keyVars, links, expired, logVars, request, answer>>

Next ==
  \/ \E r \in Invocations :
       \/ BeginRun(r)
       \/ \E p \in Postings : Land(r, p)
       \/ \E w \in PipelineContainers, m \in SUBSET Postings : Mail(r, w, m)
  \/ \E c \in Clicks :
       \/ \E l \in links, intact \in BOOLEAN : Click(c, l, intact)
       \/ \E w \in CaptureContainers : Accept(c, w) \/ Refuse(c, w) \/ NoSigningKey(c, w)
       \/ RefuseBlank(c)
  \/ \E c \in Commands : NotFound(c) \/ \E p \in Postings : Type(c, p)
  \/ \E c \in Callers : \/ Reach(c) \/ Wait(c) \/ Fail(c)
                         \/ Track(c) \/ TrackRolledBack(c) \/ TrackUnheard(c)
                         \/ Reply(c) \/ Die(c)
  \/ \E key \in Keys \cup {NoKey} : ChangeSecret(key)
  \/ \E w \in Containers : Recycle(w)
  \/ \E l \in links : Expire(l)
  \/ (Resume \/ Pause(Busy) \/ Tick(Busy)) /\ Elsewhere

Spec == Init /\ [][Next]_vars

(***************************************************************************)
(* Properties.                                                             *)
(***************************************************************************)
\* An answer is true, whatever is paused, lost or rotated while it is worked
\* out: who is told that it was recorded has a row; who is told that it was not
\* has none, but for a commit whose acknowledgement was lost (then the page says
\* "nothing was recorded" of a recorded event); and a link that arrives whole
\* and in time is refused only after a change of the signing secret.
AnswersAreTrue == \A c \in Callers :
  /\ answer[c] = "recorded" => RowsOf(c) # {}
  /\ answer[c] \in {"invalid", "not_found", "error"} => RowsOf(c) = {} \/ c \in unheard
  /\ answer[c] = "invalid" /\ secrets = 0 =>
       \E q \in request[c] : ~q.intact \/ LinkOf(q) \in expired

\* A row stands for one request: nobody's request is recorded twice, for another
\* posting than the one it named, or for one the table does not hold; and a
\* click's row goes back to a link that was mailed, arrived whole, and had not
\* expired when it was clicked.
RecordedWasAsked == \A n \in DOMAIN application_event :
  LET row == application_event[n] IN
  /\ RowsOf(row.by) = {n}
  /\ row.posting \in posting
  /\ \E q \in request[row.by] :
       /\ q.posting = row.posting
       /\ row.by \in Clicks => LinkOf(q) \in links /\ q.intact /\ q.live

\* A caller gives the database up only when its resume has taken longer than
\* the budget, short of one interval: no resume that ends in time is fatal.
ResumeIsAbsorbed ==
  [][\A c \in Callers : GiveUp(c, "over") => down > Budget[c] - Interval[c]]_vars
=============================================================================
