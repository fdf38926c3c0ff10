--------------------------- MODULE DeliveryContract ---------------------------
(***************************************************************************)
(* What the daily digest promises its reader.  A match that has become news  *)
(* is owed to the reader; each letter that goes out carries exactly what is  *)
(* owed; and the debt is struck off only once such a letter has gone out.    *)
(***************************************************************************)
CONSTANT Postings

VARIABLES
  owed,     (* the matches the reader has not been told of                  *)
  letter    (* the news of the latest letter                               *)

Init == owed = {} /\ letter = {}

\* A judgement makes a posting news.
Owe(p) ==
  /\ p \notin owed
  /\ owed' = owed \cup {p}
  /\ UNCHANGED letter

\* A letter goes out, with everything that is owed and nothing else.
Write ==
  /\ letter' = owed
  /\ UNCHANGED owed

\* What has been written is no longer owed.
Settle ==
  /\ letter = owed
  /\ owed' = {}
  /\ UNCHANGED letter

Next == (\E p \in Postings : Owe(p)) \/ Write \/ Settle

Spec == Init /\ [][Next]_<<owed, letter>>
===============================================================================
