----------------------------- MODULE MCTaskStream -----------------------------
(* Instances of TaskStream for TLC. *)
EXTENDS TaskStream
===============================================================================
