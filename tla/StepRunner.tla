------------------------------ MODULE StepRunner ------------------------------
(***************************************************************************)
(* One step of the execution core: StepRunner.run_step of                  *)
(* core/runner/_runner.py. A step goes through prepare, invoke and         *)
(* finalize; every call into the harness may fail in its own way. A failed *)
(* invoke or capture becomes a fact of the step's result, while an         *)
(* exception of get_context, before_action or after_action leaves run_step *)
(* and with it the step's events and result.                               *)
(***************************************************************************)
EXTENDS Integers, FiniteSets

CONSTANT Kinds         \* how many artifact kinds the standard policy captures

ASSUME KindsAssumption == Kinds \in Nat \ {0}

VARIABLES
    pc,          \* the call run_step makes next
    policy,      \* the step's effective EvidencePolicy
    captured,    \* artifacts captured so far by the current _capture_artifacts
    captureErr,  \* whether an error message of a capture of the phase is kept
    artErr,      \* state.artifact_error_message is set
    category,    \* state.failure_category
    result,      \* the HarnessActionResult's status, "none" without one
    report,      \* status of each phase's StepPhaseReport
    pending,     \* artifact refs gathered for the report of the current phase
    refs,        \* artifact refs in the phase reports
    emitted,     \* artifact_captured events emitted
    shot         \* the failure capture: "no", "done" or "error"

runnerVars == <<pc, policy, captured, captureErr, artErr, category, result, report,
                pending, refs, emitted, shot>>

Phase == {"prepare", "invoke", "finalize"}
ActionStatus == {"passed", "failed", "cancelled", "skipped"}
Category == {"none", "artifact_error", "action"}  \* "action": any other category
RunnerPC == {"idle", "context", "before", "before_action", "invoke", "after_action",
             "after", "failure", "finish", "returned", "raised"}

Policy == [before : BOOLEAN, after : BOOLEAN, failure : BOOLEAN, kinds : {0, Kinds}]

(* EvidencePolicy(): captures after and on failure, but no kinds.           *)
DefaultPolicy == [before |-> FALSE, after |-> TRUE, failure |-> TRUE, kinds |-> 0]

(* A harness capability that captures evidence, by its metadata.            *)
StandardPolicies ==
    {[before |-> b, after |-> TRUE, failure |-> f, kinds |-> Kinds] : b, f \in BOOLEAN}

EffectivePolicies == {DefaultPolicy} \cup StandardPolicies

RunnerTypeOK ==
    /\ pc \in RunnerPC
    /\ policy \in Policy
    /\ captured \in 0..Kinds
    /\ captureErr \in BOOLEAN
    /\ artErr \in BOOLEAN
    /\ category \in {"none", "action"}
    /\ result \in ActionStatus \cup {"none"}
    /\ report \in [Phase -> ActionStatus \cup {"none"}]
    /\ pending \in Nat /\ refs \in Nat /\ emitted \in Nat
    /\ shot \in {"no", "done", "error"}

FreshStep ==
    /\ captured = 0 /\ captureErr = FALSE /\ artErr = FALSE
    /\ category = "none" /\ result = "none"
    /\ report = [p \in Phase |-> "none"]
    /\ pending = 0 /\ refs = 0 /\ emitted = 0 /\ shot = "no"

RunnerInit == pc = "idle" /\ policy = DefaultPolicy /\ FreshStep

-------------------------------------------------------------------------------
(* What the result says.                                                    *)

IsFailedResult == category # "none" \/ result \in {"failed", "cancelled", "skipped"}

(* An artifact error counts whatever the action did.                        *)
ResultStatus ==
    IF artErr THEN "failed"
    ELSE IF result \in {"failed", "cancelled", "skipped"} THEN result
    ELSE IF category # "none" THEN "failed" ELSE "passed"

ResultCategory == IF artErr THEN "artifact_error" ELSE category

Capturing(p) ==
    CASE pc = "before"  -> p.before
      [] pc = "after"   -> p.after
      [] pc = "failure" -> p.failure
      [] OTHER          -> FALSE

AfterCapture ==
    CASE pc = "before"  -> "before_action"
      [] pc = "after"   -> "failure"
      [] pc = "failure" -> "finish"

-------------------------------------------------------------------------------
run_step ==
    /\ pc \in {"idle", "returned", "raised"}
    /\ policy' \in EffectivePolicies
    /\ pc' = "context"
    /\ captured' = 0 /\ captureErr' = FALSE /\ artErr' = FALSE
    /\ category' = "none" /\ result' = "none"
    /\ report' = [p \in Phase |-> "none"]
    /\ pending' = 0 /\ refs' = 0 /\ emitted' = 0 /\ shot' = "no"

(* An exception no phase catches.                                           *)
Raise ==
    /\ pc \in {"context", "before_action", "after_action"}
    /\ pc' = "raised"
    /\ UNCHANGED <<policy, captured, captureErr, artErr, category, result, report,
                   pending, refs, emitted, shot>>

GetContext ==
    /\ pc = "context"
    /\ pc' = "before"
    /\ UNCHANGED <<policy, captured, captureErr, artErr, category, result, report,
                   pending, refs, emitted, shot>>

(* One turn of the loop over artifact_kinds: the refs gathered before a     *)
(* failing kind are kept, the kinds after it are not tried.                 *)
CaptureOne ==
    /\ Capturing(policy) /\ captured < policy.kinds
    /\ pc = "failure" => IsFailedResult
    /\ captured' = captured + 1
    /\ pending' = pending + 1
    /\ emitted' = emitted + 1
    /\ UNCHANGED <<pc, policy, captureErr, artErr, category, result, report, refs, shot>>

(* A failing capture that forgets the refs it already had.                  *)
CaptureFailsDroppingRefs ==
    /\ Capturing(policy) /\ captured < policy.kinds
    /\ pc = "failure" => IsFailedResult
    /\ \E told \in BOOLEAN : /\ captureErr' = (captureErr \/ told)
                              /\ artErr' = (artErr \/ (told /\ pc = "before"))
    /\ pending' = pending - captured
    /\ captured' = 0
    /\ shot' = IF pc = "failure" THEN "error" ELSE shot
    /\ pc' = AfterCapture
    /\ UNCHANGED <<policy, category, result, report, refs, emitted>>

(* An error while preparing is kept at once; one while finalizing is        *)
(* gathered in finalize_errors until the phase ends. An error is its        *)
(* message: the code tests str(exc), which is empty for an exception raised *)
(* without one (a TimeoutError(), say), and then there was none.            *)
CaptureFails ==
    /\ Capturing(policy) /\ captured < policy.kinds
    /\ pc = "failure" => IsFailedResult
    /\ \E told \in BOOLEAN : /\ captureErr' = (captureErr \/ told)
                              /\ artErr' = (artErr \/ (told /\ pc = "before"))
    /\ shot' = IF pc = "failure" THEN "error" ELSE shot
    /\ captured' = 0
    /\ pc' = AfterCapture
    /\ UNCHANGED <<policy, category, result, report, pending, refs, emitted>>

(* The failure capture had it looked at the failure category alone: a       *)
(* failed, cancelled or skipped result may come without one.                *)
CaptureDoneByCategory ==
    /\ pc \in {"before", "after", "failure"}
    /\ \/ ~Capturing(policy)
       \/ captured = policy.kinds
       \/ pc = "failure" /\ category = "none"
    /\ shot' = IF pc = "failure" /\ policy.failure /\ policy.kinds > 0 /\ category # "none"
               THEN "done" ELSE shot
    /\ captured' = 0
    /\ pc' = AfterCapture
    /\ UNCHANGED <<policy, captureErr, artErr, category, result, report, pending, refs,
                   emitted>>

CaptureDone ==
    /\ pc \in {"before", "after", "failure"}
    /\ \/ ~Capturing(policy)
       \/ captured = policy.kinds
       \/ pc = "failure" /\ ~IsFailedResult
    /\ shot' = IF pc = "failure" /\ policy.failure /\ policy.kinds > 0 /\ IsFailedResult
               THEN "done" ELSE shot
    /\ captured' = 0
    /\ pc' = AfterCapture
    /\ UNCHANGED <<policy, captureErr, artErr, category, result, report, pending, refs,
                   emitted>>

BeforeAction ==
    /\ pc = "before_action"
    /\ report' = [report EXCEPT !["prepare"] = IF captureErr THEN "failed" ELSE "passed"]
    /\ refs' = refs + pending
    /\ pending' = 0
    /\ captureErr' = FALSE
    /\ pc' = "invoke"
    /\ UNCHANGED <<policy, captured, artErr, category, result, emitted, shot>>

(* invoke_action returns a result, with up to one artifact of its own.      *)
InvokeReturns ==
    /\ pc = "invoke"
    /\ \E s \in ActionStatus, a \in 0..1 :
         /\ result' = s
         /\ \/ category' = "none"
            \/ s # "passed" /\ category' = "action"
         /\ report' = [report EXCEPT !["invoke"] = s]
         /\ refs' = refs + a
         /\ emitted' = emitted + a
    /\ pc' = "after_action"
    /\ UNCHANGED <<policy, captured, captureErr, artErr, pending, shot>>

InvokeRaises ==
    /\ pc = "invoke"
    /\ category' = "action"
    /\ report' = [report EXCEPT !["invoke"] = "failed"]
    /\ pc' = "after_action"
    /\ UNCHANGED <<policy, captured, captureErr, artErr, result, pending, refs, emitted,
                   shot>>

AfterAction ==
    /\ pc = "after_action"
    /\ pc' = "after"
    /\ UNCHANGED <<policy, captured, captureErr, artErr, category, result, report,
                   pending, refs, emitted, shot>>

(* _finish_step if the finalize phase always assigned the artifact error.   *)
FinishStepResetting ==
    /\ pc = "finish"
    /\ artErr' = captureErr
    /\ report' = [report EXCEPT !["finalize"] = IF captureErr THEN "failed" ELSE "passed"]
    /\ refs' = refs + pending
    /\ pending' = 0
    /\ pc' = "returned"
    /\ UNCHANGED <<policy, captured, captureErr, category, result, emitted, shot>>

FinishStep ==
    /\ pc = "finish"
    /\ artErr' = (artErr \/ captureErr)
    /\ report' = [report EXCEPT !["finalize"] = IF captureErr THEN "failed" ELSE "passed"]
    /\ refs' = refs + pending
    /\ pending' = 0
    /\ pc' = "returned"
    /\ UNCHANGED <<policy, captured, captureErr, category, result, emitted, shot>>

(* The calls of a step that is under way.                                   *)
StepNext ==
    \/ Raise \/ GetContext \/ CaptureOne \/ CaptureFails \/ CaptureDone
    \/ BeforeAction \/ InvokeReturns \/ InvokeRaises \/ AfterAction \/ FinishStep

-------------------------------------------------------------------------------
(* Properties of a returned result.                                         *)

(* The status of a step and its phase reports never disagree: it passed iff *)
(* all three phases did. An artifact error of the prepare phase survives a  *)
(* clean finalize phase.                                                    *)
VerdictMatchesReports ==
    pc = "returned" => (ResultStatus = "passed" <=> \A p \in Phase : report[p] = "passed")

(* Whatever made a step fail - an exception, a failed, cancelled or skipped *)
(* result, with or without a category - its failure is photographed when    *)
(* its policy asks for it, unless the capture itself fails.                 *)
FailureIsEvidenced ==
    /\ pc = "returned" /\ report["invoke"] # "passed"
    /\ policy.failure /\ policy.kinds > 0
    => shot # "no"

(* _capture_artifacts: "artifact capture failures are recorded as phase     *)
(* facts", so a step whose failure could not be photographed says so.       *)
CaptureErrorsRecorded == pc = "returned" /\ shot = "error" => ResultCategory = "artifact_error"

(* Every artifact the events announce is in a phase report and the other    *)
(* way round, also when a capture fails halfway.                            *)
ArtifactsAccountedFor == pc = "returned" => refs = emitted
===============================================================================
