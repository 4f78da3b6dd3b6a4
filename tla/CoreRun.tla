-------------------------------- MODULE CoreRun --------------------------------
(***************************************************************************)
(* What a strict run promises the reader of its report: body steps pass    *)
(* one after the other up to the first that does not, nothing of the body  *)
(* runs once the teardown began, and a report says "passed" only for a run *)
(* all of whose steps passed. A run may also end without a report.         *)
(***************************************************************************)
EXTENDS Integers

CONSTANTS Body, Teardown          \* how many steps of each part

VARIABLES verdict,                \* of each step, "none" for one that has none
          outcome                 \* of the run

Steps == 1..(Body + Teardown)
Verdict == {"passed", "failed", "cancelled", "skipped"}

Init == verdict = [i \in Steps |-> "none"] /\ outcome = "running"

Step(i) ==
    /\ outcome = "running" /\ verdict[i] = "none"
    /\ i <= Body => \A j \in 1..(i - 1) : verdict[j] = "passed"
    /\ \A j \in Steps : j > i => verdict[j] = "none"
    /\ \E v \in Verdict : verdict' = [verdict EXCEPT ![i] = v]
    /\ UNCHANGED outcome

Conclude ==
    /\ outcome = "running"
    /\ \/ outcome' = "passed" /\ \A i \in Steps : verdict[i] = "passed"
       \/ outcome' = "failed" /\ \E i \in Steps : verdict[i] \in Verdict \ {"passed"}
       \/ outcome' = "crashed"
    /\ UNCHANGED verdict

Next == Conclude \/ \E i \in Steps : Step(i)

Spec == Init /\ [][Next]_<<verdict, outcome>>
===============================================================================
