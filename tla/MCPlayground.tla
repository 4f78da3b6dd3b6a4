----------------------------- MODULE MCPlayground -----------------------------
(* Instances of Playground for TLC. *)
EXTENDS Playground, TLC

Symmetry == Permutations(Device)
FullSymmetry ==
    Permutations(Request) \cup Permutations(Canceller) \cup Permutations(Device)
===============================================================================
