--------------------------- MODULE MCIngestionCheck ---------------------------
(* IngestionCheck for TLC: its constants are numbers the .cfg gives. *)
EXTENDS IngestionCheck
==============================================================================
