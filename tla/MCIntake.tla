------------------------------ MODULE MCIntake ------------------------------
(* Values of the constants of Intake for TLC. *)
EXTENDS Intake

CONSTANTS t1, t2

MCDelays == <<1, 1>>
=============================================================================
