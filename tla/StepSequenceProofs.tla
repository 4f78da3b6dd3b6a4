-------------------------- MODULE StepSequenceProofs --------------------------
(***************************************************************************)
(* Proofs about StepRunner and StepSequence for any number of steps and of *)
(* artifact kinds.                                                         *)
(***************************************************************************)
EXTENDS StepSequence, TLAPS

(* What the calls of a step have established so far.                        *)
PrepareInv ==
    /\ pc \in {"context", "before", "before_action"}
          => category = "none" /\ result = "none" /\ artErr = captureErr
    /\ pc \in {"invoke", "after_action", "after", "failure", "finish"}
          => report["prepare"] = IF artErr THEN "failed" ELSE "passed"
    /\ pc = "invoke" => category = "none" /\ result = "none"
    /\ pc \in {"invoke", "after_action"} => ~captureErr

InvokeInv ==
    pc \in {"after_action", "after", "failure", "finish", "returned"}
       => /\ report["invoke"] = "passed" <=> result = "passed" /\ category = "none"
          /\ report["invoke"] = "passed" <=> ~IsFailedResult

EvidenceInv ==
    /\ pc = "finish" /\ IsFailedResult /\ policy.failure /\ policy.kinds > 0
          => shot # "no"
    /\ pc = "returned" /\ IsFailedResult /\ policy.failure /\ policy.kinds > 0
          => shot # "no"

CountInv == emitted = refs + pending /\ (pc = "returned" => pending = 0)

RunnerInv ==
    /\ PrepareInv /\ InvokeInv /\ EvidenceInv /\ CountInv
    /\ VerdictMatchesReports

(* Where the recorded verdicts stand when step n is the last started.       *)
SequenceInv ==
    /\ TeardownBegins
    /\ \A j \in Steps : j > n \/ (j = n /\ stepping) => verdict[j] = "none"
    /\ stepping => outcome = "running" /\ n \in Steps /\ pc # "idle"
    /\ part = "body" => /\ n <= Body /\ outcome = "running" /\ ~raised
                        /\ \A j \in 1..n : (j = n /\ stepping) \/ verdict[j] = "passed"
    /\ part = "teardown" =>
          /\ n >= Body
          /\ stepping => n > Body
          /\ raised \/ (\A j \in 1..Body : verdict[j] = "passed")
                    \/ (\E j \in 1..Body : verdict[j] \in ActionStatus \ {"passed"})
          /\ \A j \in (Body + 1)..n : (j = n /\ (stepping \/ outcome = "crashed"))
                                         \/ verdict[j] # "none"

-------------------------------------------------------------------------------
(* Every policy a step can get is one of the type, kinds included.           *)
LEMMA PoliciesTyped == EffectivePolicies \subseteq Policy
<1>1. DefaultPolicy \in Policy
  BY DEF DefaultPolicy, Policy
<1>2. StandardPolicies \subseteq Policy
  <2>1. ASSUME NEW b \in BOOLEAN, NEW f \in BOOLEAN
        PROVE [before |-> b, after |-> TRUE, failure |-> f, kinds |-> Kinds] \in Policy
    BY DEF Policy
  <2> QED BY <2>1 DEF StandardPolicies
<1> QED BY <1>1, <1>2 DEF EffectivePolicies

(* A harness call keeps the types of the step's state.                      *)
LEMMA StepTyped == RunnerTypeOK /\ StepNext => RunnerTypeOK'
<1> SUFFICES ASSUME RunnerTypeOK, StepNext PROVE RunnerTypeOK'
  OBVIOUS
<1> USE KindsAssumption DEF RunnerTypeOK, RunnerPC, ActionStatus
<1>1. CASE Raise \/ GetContext \/ AfterAction
  BY <1>1 DEF Raise, GetContext, AfterAction
<1>2. CASE CaptureOne
  BY <1>2 DEF CaptureOne, Capturing, Policy
<1>3. CASE CaptureFails
  BY <1>3 DEF CaptureFails, Capturing, AfterCapture
<1>4. CASE CaptureDone
  BY <1>4 DEF CaptureDone, AfterCapture
<1>5. CASE BeforeAction
  <2>1. report' \in [Phase -> ActionStatus \cup {"none"}]
    BY <1>5 DEF BeforeAction
  <2>2. refs' \in Nat /\ pending' \in Nat
    BY <1>5 DEF BeforeAction
  <2>3. /\ pc' = "invoke" /\ captureErr' = FALSE
        /\ UNCHANGED <<policy, captured, artErr, category, result, emitted, shot>>
    BY <1>5 DEF BeforeAction
  <2> QED BY <2>1, <2>2, <2>3
<1>6. CASE InvokeReturns
  <2>1. PICK s \in ActionStatus, a \in 0..1 :
           /\ result' = s /\ category' \in {"none", "action"}
           /\ report' = [report EXCEPT !["invoke"] = s]
           /\ refs' = refs + a /\ emitted' = emitted + a
    BY <1>6 DEF InvokeReturns
  <2>2. report' \in [Phase -> ActionStatus \cup {"none"}]
    BY <2>1
  <2> QED BY <1>6, <2>1, <2>2 DEF InvokeReturns
<1>7. CASE InvokeRaises
  BY <1>7 DEF InvokeRaises
<1>8. CASE FinishStep
  <2>1. report' \in [Phase -> ActionStatus \cup {"none"}]
    BY <1>8 DEF FinishStep
  <2> QED BY <1>8, <2>1 DEF FinishStep
<1> QED BY <1>1, <1>2, <1>3, <1>4, <1>5, <1>6, <1>7, <1>8 DEF StepNext

(* Every variable keeps its type.                                           *)
THEOREM TypeCorrect == Spec => []TypeOK
<1>1. Init => TypeOK
  <2>1. RunnerInit => RunnerTypeOK
    <3>1. DefaultPolicy \in Policy
      BY PoliciesTyped DEF EffectivePolicies
    <3>2. [p \in Phase |-> "none"] \in [Phase -> ActionStatus \cup {"none"}]
      OBVIOUS
    <3>3. SUFFICES ASSUME RunnerInit PROVE RunnerTypeOK
      OBVIOUS
    <3>4. /\ pc = "idle" /\ policy = DefaultPolicy /\ captured = 0
          /\ captureErr = FALSE /\ artErr = FALSE /\ category = "none" /\ result = "none"
          /\ pending = 0 /\ refs = 0 /\ emitted = 0 /\ shot = "no"
          /\ report = [p \in Phase |-> "none"]
      BY <3>3 DEF RunnerInit, FreshStep
    <3>5. 0 \in 0..Kinds
      BY KindsAssumption
    <3> QED BY <3>1, <3>2, <3>4, <3>5 DEF RunnerTypeOK, RunnerPC
  <2>2. [i \in Steps |-> "none"] \in [Steps -> ActionStatus \cup {"none"}]
    OBVIOUS
  <2>3. 0 \in 0..(Body + Teardown)
    BY StepsAssumption
  <2> QED BY <2>1, <2>2, <2>3 DEF Init, TypeOK
<1>2. TypeOK /\ [Next]_vars => TypeOK'
  <2> SUFFICES ASSUME TypeOK, [Next]_vars PROVE TypeOK'
    OBVIOUS
  <2> USE StepsAssumption DEF TypeOK, sequenceVars
  <2>1. UNCHANGED runnerVars => RunnerTypeOK'
    BY DEF runnerVars, RunnerTypeOK
  <2>2. CASE UNCHANGED vars
    BY <2>1, <2>2 DEF vars
  <2>3. CASE StartStep
    <3>1. RunnerTypeOK'
      <4>1. policy' \in Policy
        BY <2>3, PoliciesTyped DEF StartStep, run_step
      <4>2. report' \in [Phase -> ActionStatus \cup {"none"}]
        BY <2>3 DEF StartStep, run_step
      <4>3. captured' \in 0..Kinds
        BY <2>3, KindsAssumption DEF StartStep, run_step
      <4>4. /\ pc' = "context" /\ captureErr' = FALSE /\ artErr' = FALSE
            /\ category' = "none" /\ result' = "none" /\ shot' = "no"
            /\ pending' = 0 /\ refs' = 0 /\ emitted' = 0
        BY <2>3 DEF StartStep, run_step
      <4> QED BY <4>1, <4>2, <4>3, <4>4 DEF RunnerTypeOK, RunnerPC
    <3>2. n' \in 0..(Body + Teardown)
      BY <2>3 DEF StartStep, Last
    <3>3. stepping' = TRUE /\ UNCHANGED <<part, raised, verdict, outcome>>
      BY <2>3 DEF StartStep
    <3> QED BY <3>1, <3>2, <3>3
  <2>4. CASE RunStep
    BY <2>4, StepTyped DEF RunStep
  <2>5. CASE Record
    <3>1. ResultStatus \in ActionStatus
      BY DEF ResultStatus, ActionStatus
    <3>2. verdict' \in [Steps -> ActionStatus \cup {"none"}]
      BY <2>5, <3>1 DEF Record
    <3>3. /\ part' \in {"body", "teardown"} /\ n' \in 0..(Body + Teardown)
          /\ stepping' = FALSE /\ UNCHANGED <<raised, outcome>>
      BY <2>5 DEF Record
    <3>4. UNCHANGED runnerVars
      BY <2>5 DEF Record
    <3> QED BY <2>1, <3>2, <3>3, <3>4
  <2>6. CASE BodyRaises
    <3>1. /\ part' = "teardown" /\ stepping' = FALSE /\ raised' = TRUE
          /\ UNCHANGED <<verdict, outcome>>
      BY <2>6 DEF BodyRaises
    <3>2. n' \in 0..(Body + Teardown)
      BY <2>6 DEF BodyRaises
    <3>3. RunnerTypeOK'
      BY <2>1, <2>6 DEF BodyRaises
    <3> QED BY <3>1, <3>2, <3>3
  <2>7. CASE TeardownRaises
    BY <2>1, <2>7 DEF TeardownRaises
  <2>8. CASE BodyEnds \/ Report
    BY <2>1, <2>8 DEF BodyEnds, Report
  <2> QED BY <2>2, <2>3, <2>4, <2>5, <2>6, <2>7, <2>8 DEF Next
<1> QED BY <1>1, <1>2, PTL DEF Spec

-------------------------------------------------------------------------------
(* The inductive invariant of one step.                                     *)
THEOREM RunnerInvariant == Spec => []RunnerInv
<1>1. Init => RunnerInv
  BY DEF Init, RunnerInit, FreshStep, RunnerInv, PrepareInv, InvokeInv, EvidenceInv,
         CountInv, VerdictMatchesReports
<1>2. TypeOK /\ RunnerInv /\ [Next]_vars => RunnerInv'
  <2> SUFFICES ASSUME TypeOK, RunnerInv, [Next]_vars PROVE RunnerInv'
    OBVIOUS
  <2> USE KindsAssumption
      DEF TypeOK, RunnerTypeOK, Phase, ActionStatus, RunnerInv, PrepareInv, InvokeInv,
          EvidenceInv, CountInv, VerdictMatchesReports, IsFailedResult, ResultStatus,
          runnerVars
  <2>1. CASE UNCHANGED vars
    BY <2>1 DEF vars
  <2>2. CASE StartStep
    <3>1. /\ pc' = "context" /\ category' = "none" /\ result' = "none"
          /\ artErr' = FALSE /\ captureErr' = FALSE
          /\ emitted' = 0 /\ refs' = 0 /\ pending' = 0
      BY <2>2 DEF StartStep, run_step
    <3>2. PrepareInv' /\ InvokeInv' /\ EvidenceInv' /\ VerdictMatchesReports'
      BY <3>1
    <3>3. CountInv'
      BY <3>1
    <3> QED BY <3>2, <3>3
  <2>3. CASE RunStep
    <3>1. CASE Raise \/ GetContext \/ AfterAction
      BY <3>1 DEF Raise, GetContext, AfterAction
    <3>2. CASE CaptureOne
      BY <3>2 DEF CaptureOne, Capturing
    <3>3. CASE CaptureFails
      BY <3>3 DEF CaptureFails, Capturing, AfterCapture
    <3>4. CASE CaptureDone
      BY <3>4 DEF CaptureDone, Capturing, AfterCapture
    <3>5. CASE BeforeAction
      BY <3>5 DEF BeforeAction
    <3>6. CASE InvokeReturns
      BY <3>6 DEF InvokeReturns
    <3>7. CASE InvokeRaises
      BY <3>7 DEF InvokeRaises
    <3>8. CASE FinishStep
      BY <3>8 DEF FinishStep
    <3> QED
      BY <2>3, <3>1, <3>2, <3>3, <3>4, <3>5, <3>6, <3>7, <3>8 DEF RunStep, StepNext
  <2>4. CASE Record \/ BodyRaises \/ TeardownRaises \/ BodyEnds \/ Report
    BY <2>4 DEF Record, BodyRaises, TeardownRaises, BodyEnds, Report
  <2> QED BY <2>1, <2>2, <2>3, <2>4 DEF Next
<1> QED BY <1>1, <1>2, TypeCorrect, PTL DEF Spec

(* A step passed iff its three phase reports say so.                        *)
THEOREM VerdictCorrect == Spec => []VerdictMatchesReports
BY RunnerInvariant, PTL DEF RunnerInv

(* A failure is photographed unless the capture itself fails.               *)
THEOREM FailureEvidence == Spec => []FailureIsEvidenced
<1>1. RunnerInv => FailureIsEvidenced
  BY DEF RunnerInv, EvidenceInv, InvokeInv, FailureIsEvidenced
<1> QED BY <1>1, RunnerInvariant, PTL

(* Events and phase reports announce the same artifacts.                    *)
THEOREM ArtifactsCorrect == Spec => []ArtifactsAccountedFor
<1>1. TypeOK /\ RunnerInv => ArtifactsAccountedFor
  BY DEF TypeOK, RunnerTypeOK, RunnerInv, CountInv, ArtifactsAccountedFor
<1> QED BY <1>1, TypeCorrect, RunnerInvariant, PTL

-------------------------------------------------------------------------------
(* The inductive invariant of the sequence.                                 *)
THEOREM SequenceInvariant == Spec => []SequenceInv
<1>1. Init => SequenceInv
  BY StepsAssumption DEF Init, RunnerInit, SequenceInv, TeardownBegins, Steps
<1>2. TypeOK /\ SequenceInv /\ [Next]_vars => SequenceInv'
  <2> SUFFICES ASSUME TypeOK, SequenceInv, [Next]_vars PROVE SequenceInv'
    OBVIOUS
  <2> USE StepsAssumption
      DEF TypeOK, Steps, ActionStatus, SequenceInv, TeardownBegins, Last, sequenceVars
  <2>1. CASE UNCHANGED vars
    BY <2>1 DEF vars, runnerVars
  <2>2. CASE StartStep
    BY <2>2 DEF StartStep, run_step
  <2>3. CASE RunStep
    <3>1. pc' # "idle" /\ UNCHANGED sequenceVars
      BY <2>3 DEF RunStep, StepNext, Raise, GetContext, CaptureOne, CaptureFails,
         CaptureDone, Capturing, AfterCapture, BeforeAction, InvokeReturns,
         InvokeRaises, AfterAction, FinishStep
    <3> QED BY <3>1
  <2>4. CASE Record
    BY <2>4 DEF Record, ResultStatus, runnerVars, RunnerTypeOK
  <2>5. CASE BodyRaises
    BY <2>5 DEF BodyRaises, runnerVars
  <2>6. CASE TeardownRaises
    BY <2>6 DEF TeardownRaises, runnerVars
  <2>7. CASE BodyEnds
    BY <2>7 DEF BodyEnds, runnerVars
  <2>8. CASE Report
    BY <2>8 DEF Report, runnerVars
  <2> QED BY <2>1, <2>2, <2>3, <2>4, <2>5, <2>6, <2>7, <2>8 DEF Next
<1> QED BY <1>1, <1>2, TypeCorrect, PTL DEF Spec

(* The teardown begins however the body ended.                              *)
THEOREM TeardownReached == Spec => []TeardownBegins
BY SequenceInvariant, PTL DEF SequenceInv

-------------------------------------------------------------------------------
(* A step that is recorded is the next one CoreRun lets have a verdict.     *)
LEMMA RecordIsStep == TypeOK /\ SequenceInv /\ Record => Run!Step(n)
<1> SUFFICES ASSUME TypeOK, SequenceInv, Record PROVE Run!Step(n)
  OBVIOUS
<1> USE StepsAssumption DEF Steps, SequenceInv, TypeOK
<1>1. outcome = "running" /\ verdict[n] = "none" /\ n \in Steps
  BY DEF Record
<1>2. n <= Body => \A j \in 1..(n - 1) : verdict[j] = "passed"
  BY <1>1 DEF Record
<1>3. \A j \in Steps : j > n => verdict[j] = "none"
  OBVIOUS
<1>4. \E v \in Run!Verdict : verdict' = [verdict EXCEPT ![n] = v]
  BY DEF Record, ResultStatus, Run!Verdict
<1>5. UNCHANGED outcome
  BY DEF Record
<1> QED BY <1>1, <1>2, <1>3, <1>4, <1>5 DEF Run!Step, Run!Steps

(* A report that says "passed" stands for a run all of whose steps passed.  *)
LEMMA ReportIsConclude == TypeOK /\ SequenceInv /\ Report => Run!Conclude
<1> SUFFICES ASSUME TypeOK, SequenceInv, Report PROVE Run!Conclude
  OBVIOUS
<1> USE StepsAssumption DEF Steps, SequenceInv, TypeOK, ActionStatus, Run!Verdict,
      Run!Steps, Run!Conclude
<1>1. outcome = "running" /\ UNCHANGED verdict
  BY DEF Report
<1>2. CASE raised
  BY <1>1, <1>2 DEF Report
<1>3. CASE ~raised /\ \E i \in Steps : verdict[i] \notin {"none", "passed"}
  <2>1. \E i \in Steps : verdict[i] \in Run!Verdict \ {"passed"}
    BY <1>3
  <2>2. outcome' = "failed"
    BY <1>3 DEF Report
  <2> QED BY <1>1, <2>1, <2>2
<1>4. CASE ~raised /\ \A i \in Steps : verdict[i] \in {"none", "passed"}
  <2>1. part = "teardown" /\ ~stepping /\ n = Body + Teardown
    BY DEF Report, Last
  <2>2. \A j \in 1..Body : verdict[j] = "passed"
    BY <1>4, <2>1
  <2>3. \A j \in (Body + 1)..(Body + Teardown) : verdict[j] = "passed"
    BY <1>1, <1>4, <2>1
  <2>4. outcome' = "passed"
    BY <1>4 DEF Report
  <2> QED BY <1>1, <2>2, <2>3, <2>4
<1> QED BY <1>2, <1>3, <1>4

(* The strict run implements the abstract run.                              *)
THEOREM CoreRunRefinement == Spec => ImplementsCoreRun
<1>1. Init => Run!Init
  BY DEF Init, Run!Init, Steps, Run!Steps
<1>2. TypeOK /\ SequenceInv /\ [Next]_vars => [Run!Next]_<<verdict, outcome>>
  <2> SUFFICES ASSUME TypeOK, SequenceInv, [Next]_vars
               PROVE [Run!Next]_<<verdict, outcome>>
    OBVIOUS
  <2>1. CASE UNCHANGED vars
    BY <2>1 DEF vars, sequenceVars
  <2>2. CASE StartStep \/ RunStep \/ BodyRaises \/ BodyEnds
    BY <2>2 DEF StartStep, RunStep, BodyRaises, BodyEnds, sequenceVars
  <2>3. CASE Record
    <3>1. n \in Run!Steps
      BY <2>3 DEF Record, SequenceInv, Steps, Run!Steps
    <3> QED BY <2>3, <3>1, RecordIsStep DEF Run!Next
  <2>4. CASE TeardownRaises
    BY <2>4 DEF TeardownRaises, SequenceInv, Run!Next, Run!Conclude
  <2>5. CASE Report
    BY <2>5, ReportIsConclude DEF Run!Next
  <2> QED BY <2>1, <2>2, <2>3, <2>4, <2>5 DEF Next
<1> QED BY <1>1, <1>2, TypeCorrect, SequenceInvariant, PTL
      DEF Spec, ImplementsCoreRun, Run!Spec
===============================================================================
