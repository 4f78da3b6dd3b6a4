---------------------------- MODULE MCReplayStore ----------------------------
(* ReplayStore for TLC: two requests that execute the same strict case, and *)
(* a dynamic one.                                                           *)
EXTENDS ReplayStore, TLC

CONSTANTS t1, t2

CaseAndGoal == [q \in {"s1", "s2", "d"} |-> IF q = "d" THEN "goal" ELSE "case"]
Symmetric == Permutations(Handlers)
Listed == {<<[path |-> "p1", time |-> 2], [path |-> "p2", time |-> 1],
             [path |-> "p1", time |-> 2]>>}

=============================================================================
