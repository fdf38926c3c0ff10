----------------------------- MODULE ScoringStage -----------------------------
(***************************************************************************)
(* What a scoring stage promises the run around it, whatever its threads do: *)
(* candidates are settled one at a time, each once, and every one before the  *)
(* stage returns; a candidate's row is written and marked before the next     *)
(* result is looked at; and what it returns partitions the candidates.  A     *)
(* stage that breaks off leaves one row at most that is not marked.          *)
(***************************************************************************)
EXTENDS FiniteSets

CONSTANTS
  Candidates,   (* the candidates the stage has read                         *)
  Ways          (* the ways of leaving one unscored                          *)

VARIABLES
  stage,        (* settling, writing, returned or broken                     *)
  fate,         (* what has become of each candidate                         *)
  rows,         (* the candidates with a score row of this stage             *)
  report        (* what it returns, <<>> until it does                       *)

Init ==
  /\ stage = "settling"
  /\ fate = [c \in Candidates |-> "open"]
  /\ rows = {}
  /\ report = <<>>

Settle(c, as) == fate[c] = "open" /\ fate' = [fate EXCEPT ![c] = as]

\* A candidate is deferred, refused by billing, or failed; it has no row.
Pass(c, way) ==
  /\ stage = "settling" /\ c \notin rows
  /\ Settle(c, way)
  /\ UNCHANGED <<stage, rows, report>>

\* Its row is written ...
Judge(c) ==
  /\ stage = "settling" /\ stage' = "writing"
  /\ fate[c] = "open"
  /\ rows' = rows \cup {c}
  /\ UNCHANGED <<fate, report>>

\* ... and then it is marked.
Mark(c) ==
  /\ stage = "writing" /\ stage' = "settling"
  /\ c \in rows
  /\ Settle(c, "scored")
  /\ UNCHANGED <<rows, report>>

Return ==
  /\ stage = "settling" /\ stage' = "returned"
  /\ \A c \in Candidates : fate[c] # "open"
  /\ report' = [k \in Ways \cup {"scored"} |-> Cardinality({c \in Candidates : fate[c] = k})]
  /\ UNCHANGED <<fate, rows>>

Break ==
  /\ stage \in {"settling", "writing"} /\ stage' = "broken"
  /\ UNCHANGED <<fate, rows, report>>

Next ==
  \/ \E c \in Candidates : Judge(c) \/ Mark(c) \/ \E way \in Ways : Pass(c, way)
  \/ Return
  \/ Break

Spec == Init /\ [][Next]_<<stage, fate, rows, report>>
===============================================================================
