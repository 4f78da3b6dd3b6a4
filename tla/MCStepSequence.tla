---------------------------- MODULE MCStepSequence ----------------------------
(* Instances of StepSequence for TLC. *)
EXTENDS StepSequence
===============================================================================
