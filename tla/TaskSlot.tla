------------------------------- MODULE TaskSlot -------------------------------
(***************************************************************************)
(* What the playground promises its clients about tasks: a task is created *)
(* running, at most one task is running at any time, and a task leaves     *)
(* "running" exactly once, for a terminal status that it then keeps.       *)
(***************************************************************************)
CONSTANT Request                  \* the request ids a server ever hands out

VARIABLE status                   \* what /task-progress reports of each task

Terminal == {"finished", "error", "cancelled"}
Status == {"none", "running"} \cup Terminal

Init == status = [r \in Request |-> "none"]

Start(r) ==
    /\ status[r] = "none"
    /\ \A s \in Request : status[s] # "running"
    /\ status' = [status EXCEPT ![r] = "running"]

Settle(r) ==
    /\ status[r] = "running"
    /\ \E t \in Terminal : status' = [status EXCEPT ![r] = t]

Next == \E r \in Request : Start(r) \/ Settle(r)

Spec == Init /\ [][Next]_status
===============================================================================
