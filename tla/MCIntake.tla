------------------------------- MODULE MCIntake -------------------------------
(* Two files dropped at the same place, with two handlers or restores alive. *)
EXTENDS Intake

OnePath == [f \in Files |-> CHOOSE p \in Paths : TRUE]
===============================================================================
