------------------------------- MODULE MCIntake -------------------------------
(* The instance of Intake that TLC checks; every constant is a number.       *)
EXTENDS Intake
===============================================================================
