------------------------------ MODULE DbResume ------------------------------
(***************************************************************************)
(* The database of the deployed stack scales to zero: the first call to a    *)
(* paused cluster fails with the resume signal, and so does every call until *)
(* it is up again.  wait_for_db_resume (db/engine.py) absorbs that signal for *)
(* the Lambdas, _fetch (scripts/track.py) for the operator's commands: a     *)
(* `SELECT 1`, or the query itself, is repeated every Interval until Budget  *)
(* has been slept.  A caller may be cut off by its own time limit meanwhile. *)
(*                                                                          *)
(* A call takes no time; one tick is one unit of every Budget and Interval.  *)
(***************************************************************************)
EXTENDS Integers

CONSTANTS
  Callers,    (* invocations and commands, each of which waits once          *)
  Budget,     (* the time a caller is ready to sleep: budget_s               *)
  Interval,   (* how long one sleep is: interval_s                           *)
  TimeLimit   (* the time after which the platform kills a caller            *)

ASSUME CallerAssumption ==
  /\ Budget \in [Callers -> Nat] /\ TimeLimit \in [Callers -> Nat]
  /\ Interval \in [Callers -> Nat \ {0}]

VARIABLES
  cluster,    (* up, paused, or resuming since something touched it          *)
  down,       (* ticks for which the cluster has been resuming               *)
  stage,      (* what a caller is doing                                      *)
  waited,     (* waited: the sleep a caller has counted                      *)
  nap,        (* what is left of the sleep a caller is in                    *)
  age         (* ticks since a caller began                                  *)

dbVars   == <<cluster, down>>
waitVars == <<waited, nap, age>>

\* "over" also covers a caller that was killed.
Waiting == {"touch", "nap"}
Asleep  == {c \in Callers : stage[c] = "nap"}

ResumeInit ==
  /\ cluster \in {"up", "paused"} /\ down = 0
  /\ waited = [c \in Callers |-> 0]
  /\ nap = [c \in Callers |-> 0]
  /\ age = [c \in Callers |-> 0]

Goto(c, from, to) == stage[c] = from /\ stage' = [stage EXCEPT ![c] = to]

\* The call of a waiting caller, when the database answers it.
Answered(c, next) ==
  /\ cluster = "up"
  /\ Goto(c, "touch", next)
  /\ UNCHANGED <<dbVars, waitVars>>

\* Any other error is raised at once.
Broken(c, next) ==
  /\ Goto(c, "touch", next)
  /\ UNCHANGED <<dbVars, waitVars>>

\* A touched cluster that is paused begins to resume.
Touched ==
  /\ cluster # "up"
  /\ cluster' = "resuming"
  /\ UNCHANGED down

\* Mutant: the last sleep that fits the budget is not taken.
SpentEarly(c) ==
  waited[c] + Interval[c] >= Budget[c]

Spent(c) ==
  waited[c] + Interval[c] > Budget[c]

Doze(c) ==
  /\ Touched /\ ~Spent(c)
  /\ Goto(c, "touch", "nap")
  /\ waited' = [waited EXCEPT ![c] = @ + Interval[c]]
  /\ nap' = [nap EXCEPT ![c] = Interval[c]]
  /\ UNCHANGED age

GiveUp(c, next) ==
  /\ Touched /\ Spent(c)
  /\ Goto(c, "touch", next)
  /\ UNCHANGED waitVars

Resume ==
  /\ cluster = "resuming"
  /\ cluster' = "up" /\ down' = 0
  /\ UNCHANGED <<stage, waitVars>>

\* A cluster pauses when nobody has used it for minutes.
Pause(busy) ==
  /\ cluster = "up" /\ busy = {}
  /\ cluster' = "paused"
  /\ UNCHANGED <<down, stage, waitVars>>

\* Mutant: the clock of a sleep runs for every caller.
TickAll(busy) ==
  /\ Asleep # {} /\ busy = Asleep
  /\ \A c \in busy : age[c] < TimeLimit[c]
  /\ down' = IF cluster = "resuming" THEN down + 1 ELSE down
  /\ age' = [c \in Callers |-> age[c] + 1]
  /\ nap' = [c \in Callers |-> nap[c] - 1]
  /\ stage' = [c \in Callers |-> IF c \in Asleep /\ nap[c] = 1 THEN "touch" ELSE stage[c]]
  /\ UNCHANGED <<cluster, waited>>

\* Time passes when no caller has anything to do but sleep; no caller outlives
\* its time limit.
Tick(busy) ==
  /\ Asleep # {} /\ busy = Asleep
  /\ \A c \in busy : age[c] < TimeLimit[c]
  /\ down' = IF cluster = "resuming" THEN down + 1 ELSE down
  /\ age' = [c \in Callers |-> IF c \in busy THEN age[c] + 1 ELSE age[c]]
  /\ nap' = [c \in Callers |-> IF c \in Asleep THEN nap[c] - 1 ELSE nap[c]]
  /\ stage' = [c \in Callers |-> IF c \in Asleep /\ nap[c] = 1 THEN "touch" ELSE stage[c]]
  /\ UNCHANGED <<cluster, waited>>
=============================================================================
