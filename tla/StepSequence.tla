----------------------------- MODULE StepSequence -----------------------------
(***************************************************************************)
(* A strict run: StepSequenceRunner.run_steps (core/runner/_sequence.py)   *)
(* over StepRunner, recording into EvidenceRecorder, and the manifest and  *)
(* report that run_fsq_core_case, or the playground's                      *)
(* _run_strict_core_steps, makes of the record.                            *)
(***************************************************************************)
EXTENDS StepRunner

CONSTANTS Body, Teardown   \* number of normal and of trailing teardown steps

ASSUME StepsAssumption == Body \in Nat /\ Teardown \in Nat

VARIABLES
    part,        \* which of the two loops of run_steps is running
    n,           \* the last step started
    stepping,    \* whether step n is inside _run_and_record
    raised,      \* an exception is on its way out of run_steps
    verdict,     \* the status recorded for each step
    outcome      \* "running", the status of the core report, or "crashed"

sequenceVars == <<part, n, stepping, raised, verdict, outcome>>
vars == <<runnerVars, sequenceVars>>

Steps == 1..(Body + Teardown)

TypeOK ==
    /\ RunnerTypeOK
    /\ part \in {"body", "teardown"}
    /\ n \in 0..(Body + Teardown)
    /\ stepping \in BOOLEAN
    /\ raised \in BOOLEAN
    /\ verdict \in [Steps -> ActionStatus \cup {"none"}]
    /\ outcome \in {"running", "passed", "failed", "crashed"}

Init ==
    /\ RunnerInit
    /\ part = "body" /\ n = 0 /\ stepping = FALSE /\ raised = FALSE
    /\ verdict = [i \in Steps |-> "none"]
    /\ outcome = "running"

-------------------------------------------------------------------------------
Last == IF part = "body" THEN Body ELSE Body + Teardown

(* The loop with an index one too far.                                      *)
StartStepPastLast ==
    /\ outcome = "running" /\ ~stepping /\ n <= Last
    /\ n' = n + 1
    /\ stepping' = TRUE
    /\ run_step
    /\ UNCHANGED <<part, raised, verdict, outcome>>

StartStep ==
    /\ outcome = "running" /\ ~stepping /\ n < Last
    /\ n' = n + 1
    /\ stepping' = TRUE
    /\ run_step
    /\ UNCHANGED <<part, raised, verdict, outcome>>

RunStep ==
    /\ stepping
    /\ StepNext
    /\ UNCHANGED sequenceVars

(* The recording loop if it stopped for failed steps only.                  *)
RecordStopsOnFailed ==
    /\ stepping /\ pc = "returned"
    /\ verdict' = [verdict EXCEPT ![n] = ResultStatus]
    /\ stepping' = FALSE
    /\ IF part = "body" /\ ResultStatus = "failed"
       THEN part' = "teardown" /\ n' = Body
       ELSE UNCHANGED <<part, n>>
    /\ UNCHANGED <<runnerVars, raised, outcome>>

(* A step of the body that did not pass ends the body.                      *)
Record ==
    /\ stepping /\ pc = "returned"
    /\ verdict' = [verdict EXCEPT ![n] = ResultStatus]
    /\ stepping' = FALSE
    /\ IF part = "body" /\ ResultStatus \in {"failed", "cancelled", "skipped"}
       THEN part' = "teardown" /\ n' = Body
       ELSE UNCHANGED <<part, n>>
    /\ UNCHANGED <<runnerVars, raised, outcome>>

(* An exception in the body still runs the finally block; the step that     *)
(* raised leaves neither events nor a result.                               *)
BodyRaises ==
    /\ stepping /\ pc = "raised" /\ part = "body"
    /\ stepping' = FALSE /\ raised' = TRUE
    /\ part' = "teardown" /\ n' = Body
    /\ UNCHANGED <<runnerVars, verdict, outcome>>

(* One in the finally block leaves it, with the rest of the teardown.       *)
TeardownRaises ==
    /\ stepping /\ pc = "raised" /\ part = "teardown"
    /\ stepping' = FALSE /\ raised' = TRUE
    /\ outcome' = "crashed"
    /\ UNCHANGED <<runnerVars, part, n, verdict>>

BodyEnds ==
    /\ outcome = "running" /\ part = "body" /\ ~stepping /\ n = Body
    /\ part' = "teardown"
    /\ UNCHANGED <<runnerVars, n, stepping, raised, verdict, outcome>>

(* The report if only "failed" steps counted against it.                    *)
ReportFailedOnly ==
    /\ outcome = "running" /\ part = "teardown" /\ ~stepping /\ n = Last
    /\ outcome' = IF raised THEN "crashed"
                  ELSE IF \E i \in Steps : verdict[i] = "failed" THEN "failed" ELSE "passed"
    /\ UNCHANGED <<runnerVars, part, n, stepping, raised, verdict>>

(* Without an exception the manifest and the report are written; only       *)
(* recorded steps count, and each that did not pass fails the report.       *)
Report ==
    /\ outcome = "running" /\ part = "teardown" /\ ~stepping /\ n = Last
    /\ outcome' = IF raised THEN "crashed"
                  ELSE IF \E i \in Steps : verdict[i] \notin {"none", "passed"}
                       THEN "failed" ELSE "passed"
    /\ UNCHANGED <<runnerVars, part, n, stepping, raised, verdict>>

Next ==
    \/ StartStep \/ RunStep \/ Record \/ BodyRaises \/ TeardownRaises
    \/ BodyEnds \/ Report

Spec == Init /\ [][Next]_vars

-------------------------------------------------------------------------------
(* Properties.                                                              *)

(* The teardown begins however the body ended, also when an exception left  *)
(* a body step.                                                             *)
TeardownBegins == outcome # "running" /\ Teardown > 0 => n > Body

(* The strict run keeps what CoreRun promises of reports: in particular a   *)
(* report that says "passed" stands for a run whose every step ran and      *)
(* passed, although steps that never ran are simply absent from it.         *)
Run == INSTANCE CoreRun
ImplementsCoreRun == Run!Spec

(* core/SPEC.md: StepSequenceRunner "always executes supplied teardown      *)
(* steps".                                                                  *)
AllTeardownRuns == outcome # "running" => n = Body + Teardown
===============================================================================
