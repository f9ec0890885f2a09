------------------------------- MODULE MCIntake -------------------------------
(* One row behind the gate; two goals, the first a milestone and urgent.     *)
EXTENDS Intake

FirstGoal == {1}
=============================================================================
