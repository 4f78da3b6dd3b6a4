---------------------------- MODULE AgentRunProofs ----------------------------
(***************************************************************************)
(* Proofs about AgentRun for any sets of runs and run ids.                 *)
(***************************************************************************)
EXTENDS AgentRun, TLAPS

(* Each phase has one state in which its session is closed, and awaits its   *)
(* answer in others.                                                         *)
LEMMA Phases ==
    /\ Phase = {"plan", "run", "verify"}
    /\ Working["plan"] = {"planning"} /\ Closing["plan"] = "closing plan"
    /\ Working["run"] = {"harness", "acting"} /\ Closing["run"] = "closing run"
    /\ Working["verify"] = {"verifying"} /\ Closing["verify"] = "closing verify"
BY DEF Working, Closing, Phase

(* The log is a sequence of events whether or not an emission succeeds.      *)
LEMMA LogType ==
    ASSUME log \in [Run -> Seq(Event)], NEW r \in Run, NEW e \in Event,
           Emit(r, e) \/ EmitRaises(r, e)
    PROVE  log' \in [Run -> Seq(Event)]
<1>1. CASE log' = log
  BY <1>1
<1>2. CASE log' = [log EXCEPT ![r] = Append(@, e)]
  <2>1. Append(log[r], e) \in Seq(Event)
    OBVIOUS
  <2> QED BY <1>2, <2>1
<1> QED BY <1>1, <1>2 DEF Emit, EmitRaises

(* A failed step, or the exception its event raised.                         *)
LEMMA FailedStepType ==
    ASSUME TypeOK, NEW r \in Run, FailedStep(r),
           future' \in [Run -> {"none", "waiting", "harness", "exception", "cancelled"}]
    PROVE  TypeOK'
<1> USE DEF TypeOK, FailedStep
<1>1. pc' \in [Run -> PC]
  BY DEF Goto, PC
<1>2. runner' \in [Run -> Step]
  <2>1. runner' = runner \/ runner' = [runner EXCEPT ![r] = "exception"]
    BY DEF Set
  <2> QED BY <2>1 DEF Step
<1>3. pending' \in [Run -> BOOLEAN]
  <2>1. pending' = pending \/ pending' = [pending EXCEPT ![r] = TRUE]
    BY DEF Set
  <2> QED BY <2>1
<1> QED BY <1>1, <1>2, <1>3 DEF recordVars

-------------------------------------------------------------------------------
(* Every variable keeps its type.                                            *)
LEMMA TypeStep == TypeOK /\ [Next]_vars => TypeOK'
<1> SUFFICES ASSUME TypeOK, [Next]_vars PROVE TypeOK'
  OBVIOUS
<1> USE Phases DEF TypeOK, loopVars, recordVars, PC, Goto, Set, Abandon
<1>0. CASE UNCHANGED vars
  BY <1>0 DEF vars
<1>1. ASSUME NEW r \in Run, Proceed(r) PROVE TypeOK'
  <2>1. CASE Start(r)
    <3>1. log' \in [Run -> Seq(Event)]
      BY <2>1, LogType DEF Start, Event
    <3>2. \/ pc' = [pc EXCEPT ![r] = "loading"]
          \/ pc' = [pc EXCEPT ![r] = "raised"]
      BY <2>1 DEF Start
    <3>3. mute' = mute \/ mute' = [mute EXCEPT ![r] = TRUE]
      BY <2>1 DEF Start
    <3> QED BY <2>1, <3>1, <3>2, <3>3 DEF Start
  <2>2. CASE Load(r)
    <3>1. log' \in [Run -> Seq(Event)]
      BY <2>2, LogType DEF Load, Event
    <3> QED BY <2>2, <3>1 DEF Load
  <2>3. CASE Raise(r)
    <3>1. log' \in [Run -> Seq(Event)]
      BY <2>3, LogType DEF Raise, Event
    <3> QED BY <2>3, <3>1 DEF Raise
  <2>4. CASE OpenPlan(r)
    BY <2>4 DEF OpenPlan, OpenSession
  <2>5. CASE OpenRun(r)
    BY <2>5 DEF OpenRun, OpenSession
  <2>13. CASE SetupFails(r)
    <3>1. runner' = runner \/ runner' = [runner EXCEPT ![r] = "exception"]
      BY <2>13 DEF SetupFails
    <3>2. pending' = pending \/ pending' = [pending EXCEPT ![r] = TRUE]
      BY <2>13 DEF SetupFails
    <3>3. runner' \in [Run -> Step] /\ pending' \in [Run -> BOOLEAN]
      BY <3>1, <3>2 DEF Step
    <3> QED BY <2>13, <3>3 DEF SetupFails
  <2>6. CASE OpenVerify(r)
    BY <2>6 DEF OpenVerify, OpenSession
  <2>7. CASE HarnessReady(r)
    BY <2>7 DEF HarnessReady
  <2>8. CASE HarnessTimeout(r)
    <3>1. future' \in [Run -> {"none", "waiting", "harness", "exception", "cancelled"}]
      BY <2>8 DEF HarnessTimeout
    <3> QED BY <2>8, <3>1, FailedStepType DEF HarnessTimeout
  <2>9. ASSUME NEW p \in Phase, Close(r, p) PROVE TypeOK'
    <3>1. AfterClose(r, p) \in PC
      BY DEF AfterClose
    <3>2. pc' \in [Run -> PC]
      BY <2>9, <3>1 DEF Close
    <3>3. open' \in [Run -> SUBSET Phase]
      BY <2>9 DEF Close
    <3>4. pending' \in [Run -> BOOLEAN]
      BY <2>9 DEF Close
    <3> QED BY <2>9, <3>2, <3>3, <3>4 DEF Close
  <2>10. CASE Judge(r)
    BY <2>10 DEF Judge, Verdict, Step, Answer, Status
  <2>11. CASE Complete(r)
    <3>1. log' \in [Run -> Seq(Event)]
      BY <2>11, LogType DEF Complete, Event
    <3> QED BY <2>11, <3>1 DEF Complete
  <2>12. CASE Fail(r)
    <3>1. log' \in [Run -> Seq(Event)]
      BY <2>12, LogType DEF Fail, Event
    <3>2. pc' \in [Run -> PC] /\ mute' \in [Run -> BOOLEAN]
      BY <2>12 DEF Fail
    <3> QED BY <2>12, <3>1, <3>2 DEF Fail
  <2> QED BY <1>1, <2>1, <2>2, <2>3, <2>4, <2>5, <2>6, <2>7, <2>8, <2>9, <2>10,
             <2>11, <2>12, <2>13 DEF Proceed
<1>2. ASSUME NEW r \in Run, Stream(r) PROVE TypeOK'
  <2>1. CASE PlanEnds(r)
    <3>1. PICK answer \in {"ready", "useless"} : plan' = [plan EXCEPT ![r] = answer]
      BY <2>1 DEF PlanEnds
    <3> QED BY <2>1, <3>1 DEF PlanEnds
  <2>2. CASE PlanFails(r)
    BY <2>2 DEF PlanFails
  <2>3. CASE Act(r)
    BY <2>3 DEF Act
  <2>4. CASE RunEnds(r)
    <3>1. pc' \in [Run -> PC]
      BY <2>4 DEF RunEnds
    <3>3. PICK answer \in Answer : runner' = [runner EXCEPT ![r] = answer]
      BY <2>4 DEF RunEnds
    <3>2. runner' \in [Run -> Step]
      BY <3>3 DEF Step
    <3> QED BY <2>4, <3>1, <3>2 DEF RunEnds
  <2>5. CASE RunFails(r)
    BY <2>5, FailedStepType DEF RunFails
  <2>6. CASE VerifyEnds(r)
    <3>1. pc' \in [Run -> PC]
      BY <2>6 DEF VerifyEnds
    <3>3. PICK answer \in Answer \cup {"exception"} :
              verifier' = [verifier EXCEPT ![r] = answer]
      BY <2>6 DEF VerifyEnds
    <3>2. verifier' \in [Run -> Step]
      BY <3>3 DEF Step
    <3> QED BY <2>6, <3>1, <3>2 DEF VerifyEnds
  <2> QED BY <1>2, <2>1, <2>2, <2>3, <2>4, <2>5, <2>6 DEF Stream
<1>3. ASSUME NEW r \in Run, Cancel(r) PROVE TypeOK'
  <2>3. PICK p \in Phase : pc' = [pc EXCEPT ![r] = Closing[p]]
    BY <1>3 DEF Cancel
  <2>1. pc' \in [Run -> PC]
    BY <2>3
  <2>2. /\ pending' \in [Run -> BOOLEAN] /\ cancelled' \in [Run -> BOOLEAN]
        /\ future' \in [Run -> {"none", "waiting", "harness", "exception", "cancelled"}]
    BY <1>3 DEF Cancel, Set
  <2> QED BY <1>3, <2>1, <2>2 DEF Cancel
<1>4. ASSUME NEW r \in Run, NEW p \in Phase, CancelClose(r, p) PROVE TypeOK'
  BY <1>4 DEF CancelClose
<1>5. ASSUME NEW r \in Run, Build(r) PROVE TypeOK'
  <2>1. PICK end \in {"built", "broken"} : builder' = [builder EXCEPT ![r] = end]
    BY <1>5 DEF Build
  <2> QED BY <1>5, <2>1 DEF Build
<1>6. ASSUME NEW r \in Run, Answers(r) PROVE TypeOK'
  BY <1>6 DEF Answers
<1> QED BY <1>0, <1>1, <1>2, <1>3, <1>4, <1>5, <1>6 DEF Next, RunNext

LEMMA InitType == Init => TypeOK
<1> SUFFICES ASSUME Init PROVE TypeOK
  OBVIOUS
<1>1. log \in [Run -> Seq(Event)]
  BY DEF Init
<1> QED BY <1>1 DEF Init, TypeOK, Step, PC

(* Every variable keeps its type, whatever fails and whoever cancels.        *)
THEOREM TypeCorrect == Spec => []TypeOK
<1>1. Init => TypeOK
  BY InitType
<1> QED BY <1>1, TypeStep, PTL DEF Spec

-------------------------------------------------------------------------------
(* The invariant, run by run. Sessions and final events are inductive as     *)
(* they stand; the others need what the places before them guarantee.        *)

SessionsOf(r) ==
    /\ "plan" \in open[r] => pc[r] \in {"planning", "closing plan"}
    /\ "run" \in open[r] => pc[r] \in {"harness", "acting", "closing run"}
    /\ "verify" \in open[r] => pc[r] \in {"verifying", "closing verify"}

FinalEventOf(r) ==
    /\ pc[r] = "returned" => log[r] # <<>> /\ Last(log[r]) = "run_completed"
    /\ pc[r] = "raised" /\ ~mute[r] => log[r] # <<>> /\ Last(log[r]) = "run_failed"

(* A run reaches the device only with a plan, which is not touched again.    *)
PlanOf(r) ==
    /\ pc[r] \in {"to run", "harness", "acting"} => plan[r] = "ready"
    /\ pc[r] = "closing plan" /\ ~pending[r] => plan[r] # "missing"
    /\ acted[r] => /\ plan[r] = "ready"
                   /\ pc[r] \notin {"off", "loading", "to plan", "planning", "closing plan"}

(* A run is judged once, when the verification's step is there to stay.      *)
VerdictOf(r) ==
    /\ pc[r] = "judging" => verifier[r] # "none"
    /\ pc[r] = "closing verify" /\ ~pending[r] => verifier[r] # "none"
    /\ verdict[r] # "none" => pc[r] \in {"reported", "failing", "returned", "raised"}
    /\ verdict[r] = "success" => verifier[r] = "success"

(* A cancelled run is on its way up.                                         *)
CancelledOf(r) ==
    cancelled[r] => \/ pc[r] \in {"failing", "raised"}
                    \/ pending[r] /\ pc[r] \in {"closing plan", "closing run", "closing verify"}

RunInv(r) == SessionsOf(r) /\ FinalEventOf(r) /\ PlanOf(r) /\ VerdictOf(r) /\ CancelledOf(r)

IInv == \A r \in Run : RunInv(r)

(* A step of one run leaves the others alone.                                *)
LEMMA OtherRuns ==
    ASSUME TypeOK, NEW r \in Run, RunNext(r), NEW q \in Run \ {r}
    PROVE  /\ pc'[q] = pc[q] /\ plan'[q] = plan[q] /\ open'[q] = open[q]
           /\ pending'[q] = pending[q] /\ acted'[q] = acted[q]
           /\ verifier'[q] = verifier[q] /\ verdict'[q] = verdict[q]
           /\ log'[q] = log[q] /\ cancelled'[q] = cancelled[q]
           /\ mute'[q] = mute[q]
<1> USE DEF TypeOK, Goto, Set, Emit, EmitRaises, OpenSession, FailedStep,
            loopVars, recordVars
<1>1. CASE Proceed(r)
  <2>1. CASE Start(r)
    BY <2>1 DEF Start
  <2>2. CASE Load(r)
    BY <2>2 DEF Load
  <2>3. CASE Raise(r)
    BY <2>3 DEF Raise
  <2>4. CASE OpenPlan(r)
    BY <2>4 DEF OpenPlan
  <2>5. CASE OpenRun(r)
    BY <2>5 DEF OpenRun
  <2>6. CASE SetupFails(r)
    BY <2>6 DEF SetupFails
  <2>7. CASE OpenVerify(r)
    BY <2>7 DEF OpenVerify
  <2>8. CASE HarnessReady(r)
    BY <2>8 DEF HarnessReady
  <2>9. CASE HarnessTimeout(r)
    BY <2>9 DEF HarnessTimeout
  <2>10. CASE Judge(r)
    BY <2>10 DEF Judge
  <2>11. CASE Complete(r)
    BY <2>11 DEF Complete
  <2>12. CASE Fail(r)
    BY <2>12 DEF Fail
  <2>13. CASE \E p \in Phase : Close(r, p)
    BY <2>13 DEF Close
  <2> QED BY <1>1, <2>1, <2>2, <2>3, <2>4, <2>5, <2>6, <2>7, <2>8, <2>9, <2>10,
              <2>11, <2>12, <2>13
           DEF Proceed
<1>2. CASE Stream(r)
  <2>1. CASE PlanEnds(r)
    BY <2>1 DEF PlanEnds
  <2>2. CASE PlanFails(r)
    BY <2>2 DEF PlanFails
  <2>3. CASE Act(r)
    BY <2>3 DEF Act
  <2>4. CASE RunEnds(r)
    BY <2>4 DEF RunEnds
  <2>5. CASE RunFails(r)
    BY <2>5 DEF RunFails
  <2>6. CASE VerifyEnds(r)
    BY <2>6 DEF VerifyEnds
  <2> QED BY <1>2, <2>1, <2>2, <2>3, <2>4, <2>5, <2>6
           DEF Stream
<1>3. CASE Cancel(r)
  BY <1>3 DEF Cancel
<1>4. CASE \E p \in Phase : CancelClose(r, p)
  BY <1>4 DEF CancelClose
<1>5. CASE Build(r)
  BY <1>5 DEF Build
<1>6. CASE Answers(r)
  BY <1>6 DEF Answers
<1> QED BY <1>1, <1>2, <1>3, <1>4, <1>5, <1>6 DEF RunNext

(* An event that is emitted is the last one.                                 *)
LEMMA EmitLast ==
    ASSUME log \in [Run -> Seq(Event)], NEW r \in Run, NEW e \in Event, Emit(r, e)
    PROVE  log'[r] # <<>> /\ Last(log'[r]) = e
BY DEF Emit, Last

(* A step of a run keeps its invariant.                                      *)
LEMMA RunStep ==
    ASSUME TypeOK, NEW r \in Run, RunInv(r), RunNext(r)
    PROVE  RunInv(r)'
<1>0. /\ pc \in [Run -> PC] /\ plan \in [Run -> {"missing", "ready", "useless"}]
      /\ open \in [Run -> SUBSET Phase] /\ pending \in [Run -> BOOLEAN]
      /\ acted \in [Run -> BOOLEAN] /\ verifier \in [Run -> Step]
      /\ verdict \in [Run -> Status \cup {"none"}] /\ log \in [Run -> Seq(Event)]
      /\ cancelled \in [Run -> BOOLEAN] /\ mute \in [Run -> BOOLEAN]
  BY DEF TypeOK
<1> USE DEF Goto, Set, loopVars, recordVars
<1> USE DEF RunInv, SessionsOf, FinalEventOf, PlanOf, VerdictOf, CancelledOf
<1>1. CASE Proceed(r)
  <2>1. CASE Start(r)
    <3>1. /\ pc[r] = "off"
          /\ plan'[r] = plan[r] /\ open'[r] = open[r]
          /\ pending'[r] = pending[r] /\ acted'[r] = acted[r]
          /\ verifier'[r] = verifier[r] /\ verdict'[r] = verdict[r]
          /\ cancelled'[r] = cancelled[r]
      BY <2>1, <1>0 DEF Start
    <3>2. CASE Goto(r, "loading")
      BY <1>0, <3>1, <3>2
    <3>3. CASE Goto(r, "raised") /\ mute' = [mute EXCEPT ![r] = TRUE]
      BY <1>0, <3>1, <3>3
    <3> QED BY <2>1, <3>2, <3>3 DEF Start
  <2>2. CASE Load(r)
    <3>1. /\ pc[r] = "loading"
          /\ pc'[r] = IF plan[r] = "ready" THEN "to run" ELSE "to plan"
          /\ plan'[r] = plan[r] /\ open'[r] = open[r]
          /\ pending'[r] = pending[r] /\ acted'[r] = acted[r]
          /\ verifier'[r] = verifier[r] /\ verdict'[r] = verdict[r]
          /\ cancelled'[r] = cancelled[r] /\ mute'[r] = mute[r]
      BY <2>2, <1>0 DEF Load
    <3> QED BY <3>1
  <2>3. CASE Raise(r)
    <3>1. /\ pc[r] \in {"loading", "to plan", "to run", "to verify", "judging", "reported"}
          /\ pc'[r] = "failing" /\ plan'[r] = plan[r]
          /\ open'[r] = open[r] /\ pending'[r] = pending[r]
          /\ acted'[r] = acted[r] /\ verifier'[r] = verifier[r]
          /\ verdict'[r] = verdict[r] /\ cancelled'[r] = cancelled[r]
          /\ mute'[r] = mute[r]
      BY <2>3, <1>0 DEF Raise
    <3> QED BY <3>1
  <2>4. CASE OpenPlan(r)
    <3>1. /\ pc[r] = "to plan" /\ pc'[r] = "planning"
          /\ plan'[r] = plan[r] /\ open'[r] = open[r] \cup {"plan"}
          /\ pending'[r] = pending[r] /\ acted'[r] = acted[r]
          /\ verifier'[r] = verifier[r] /\ verdict'[r] = verdict[r]
          /\ log'[r] = log[r] /\ cancelled'[r] = cancelled[r]
          /\ mute'[r] = mute[r]
      BY <2>4, <1>0 DEF OpenPlan, OpenSession
    <3> QED BY <3>1
  <2>5. CASE OpenRun(r)
    <3>1. /\ pc[r] = "to run" /\ pc'[r] = "harness" /\ plan'[r] = plan[r]
          /\ open'[r] = open[r] \cup {"run"} /\ pending'[r] = pending[r]
          /\ acted'[r] = acted[r] /\ verifier'[r] = verifier[r]
          /\ verdict'[r] = verdict[r] /\ log'[r] = log[r]
          /\ cancelled'[r] = cancelled[r] /\ mute'[r] = mute[r]
      BY <2>5, <1>0 DEF OpenRun, OpenSession
    <3> QED BY <3>1
  <2>13. CASE SetupFails(r)
    <3>1. /\ pc[r] = "to run" /\ pc'[r] = "closing run" /\ plan'[r] = plan[r]
          /\ open'[r] = open[r] \cup {"run"} /\ acted'[r] = acted[r]
          /\ verifier'[r] = verifier[r] /\ verdict'[r] = verdict[r]
          /\ log'[r] = log[r] /\ cancelled'[r] = cancelled[r]
          /\ mute'[r] = mute[r]
      BY <2>13, <1>0 DEF SetupFails
    <3> QED BY <3>1
  <2>6. CASE OpenVerify(r)
    <3>1. /\ pc[r] = "to verify" /\ pc'[r] = "verifying"
          /\ plan'[r] = plan[r] /\ open'[r] = open[r] \cup {"verify"}
          /\ pending'[r] = pending[r] /\ acted'[r] = acted[r]
          /\ verifier'[r] = verifier[r] /\ verdict'[r] = verdict[r]
          /\ log'[r] = log[r] /\ cancelled'[r] = cancelled[r]
          /\ mute'[r] = mute[r]
      BY <2>6, <1>0 DEF OpenVerify, OpenSession
    <3> QED BY <3>1
  <2>7. CASE HarnessReady(r)
    <3>1. /\ pc[r] = "harness" /\ pc'[r] = "acting" /\ plan'[r] = plan[r]
          /\ open'[r] = open[r] /\ pending'[r] = pending[r]
          /\ acted'[r] = acted[r] /\ verifier'[r] = verifier[r]
          /\ verdict'[r] = verdict[r] /\ log'[r] = log[r]
          /\ cancelled'[r] = cancelled[r] /\ mute'[r] = mute[r]
      BY <2>7, <1>0 DEF HarnessReady
    <3> QED BY <3>1
  <2>8. CASE HarnessTimeout(r)
    <3>1. /\ pc[r] = "harness"
          /\ pc'[r] \in {"closing run", "failing", "to verify"}
          /\ plan'[r] = plan[r] /\ open'[r] = open[r]
          /\ "run" \in open[r] => pc'[r] = "closing run"
          /\ acted'[r] = acted[r] /\ verifier'[r] = verifier[r]
          /\ verdict'[r] = verdict[r] /\ log'[r] = log[r]
          /\ cancelled'[r] = cancelled[r] /\ mute'[r] = mute[r]
      BY <2>8, <1>0 DEF HarnessTimeout, FailedStep
    <3> QED BY <3>1
  <2>9. ASSUME NEW p \in Phase, Close(r, p) PROVE RunInv(r)'
    <3>1. /\ open'[r] = open[r] \ {p}
          /\ pc'[r] \in {AfterClose(r, p), "failing"}
          /\ plan'[r] = plan[r] /\ ~pending'[r] /\ acted'[r] = acted[r]
          /\ verifier'[r] = verifier[r] /\ verdict'[r] = verdict[r]
          /\ log'[r] = log[r] /\ cancelled'[r] = cancelled[r]
          /\ mute'[r] = mute[r]
      BY <2>9, <1>0 DEF Close
    <3>2. pc[r] = Closing[p]
      BY <2>9 DEF Close
    <3>3. CASE p = "plan"
      BY <1>0, <3>1, <3>2, <3>3, Phases DEF AfterClose
    <3>4. CASE p = "run"
      BY <3>1, <3>2, <3>4, Phases DEF AfterClose
    <3>5. CASE p = "verify"
      BY <3>1, <3>2, <3>5, Phases DEF AfterClose
    <3> QED BY <3>3, <3>4, <3>5, Phases
  <2>10. CASE Judge(r)
    <3>1. /\ pc[r] = "judging" /\ pc'[r] = "reported"
          /\ plan'[r] = plan[r] /\ open'[r] = open[r]
          /\ pending'[r] = pending[r] /\ acted'[r] = acted[r]
          /\ verifier'[r] = verifier[r] /\ verdict'[r] = Verdict(r)
          /\ log'[r] = log[r] /\ cancelled'[r] = cancelled[r]
          /\ mute'[r] = mute[r]
      BY <2>10, <1>0 DEF Judge
    <3> QED BY <3>1 DEF Verdict, Status
  <2>11. CASE Complete(r)
    <3>1. /\ pc[r] = "reported" /\ pc'[r] = "returned"
          /\ plan'[r] = plan[r] /\ open'[r] = open[r]
          /\ pending'[r] = pending[r] /\ acted'[r] = acted[r]
          /\ verifier'[r] = verifier[r] /\ verdict'[r] = verdict[r]
          /\ log'[r] # <<>> /\ Last(log'[r]) = "run_completed"
          /\ cancelled'[r] = cancelled[r] /\ mute'[r] = mute[r]
      BY <2>11, EmitLast, <1>0 DEF Complete, Event
    <3> QED BY <3>1
  <2>12. CASE Fail(r)
    <3>1. /\ pc[r] = "failing" /\ pc'[r] = "raised" /\ plan'[r] = plan[r]
          /\ open'[r] = open[r] /\ pending'[r] = pending[r]
          /\ acted'[r] = acted[r] /\ verifier'[r] = verifier[r]
          /\ verdict'[r] = verdict[r]
          /\ cancelled'[r] = cancelled[r]
      BY <2>12, <1>0 DEF Fail
    <3>2. CASE Emit(r, "run_failed")
      <4>1. log'[r] # <<>> /\ Last(log'[r]) = "run_failed"
        BY <1>0, <3>2, EmitLast DEF Event
      <4> QED BY <3>1, <4>1
    <3>3. CASE mute' = [mute EXCEPT ![r] = TRUE]
      BY <1>0, <3>1, <3>3
    <3> QED BY <2>12, <3>2, <3>3 DEF Fail
  <2> QED BY <1>1, <2>1, <2>2, <2>3, <2>4, <2>5, <2>6, <2>7, <2>8, <2>9, <2>10,
             <2>11, <2>12, <2>13 DEF Proceed
<1>2. CASE Stream(r)
  <2>1. CASE PlanEnds(r)
    <3>1. /\ pc[r] = "planning" /\ pc'[r] = "closing plan"
          /\ plan'[r] # "missing" /\ open'[r] = open[r]
          /\ pending'[r] = pending[r] /\ acted'[r] = acted[r]
          /\ verifier'[r] = verifier[r] /\ verdict'[r] = verdict[r]
          /\ log'[r] = log[r] /\ cancelled'[r] = cancelled[r]
          /\ mute'[r] = mute[r]
      BY <2>1, <1>0 DEF PlanEnds
    <3> QED BY <3>1
  <2>2. CASE PlanFails(r)
    <3>1. /\ pc[r] = "planning" /\ pc'[r] = "closing plan"
          /\ plan'[r] = plan[r] /\ open'[r] = open[r] /\ pending'[r]
          /\ acted'[r] = acted[r] /\ verifier'[r] = verifier[r]
          /\ verdict'[r] = verdict[r] /\ log'[r] = log[r]
          /\ cancelled'[r] = cancelled[r] /\ mute'[r] = mute[r]
      BY <2>2, <1>0 DEF PlanFails
    <3> QED BY <3>1
  <2>3. CASE Act(r)
    <3>1. /\ pc[r] = "acting" /\ pc'[r] = pc[r] /\ plan'[r] = plan[r]
          /\ open'[r] = open[r] /\ pending'[r] = pending[r] /\ acted'[r]
          /\ verifier'[r] = verifier[r] /\ verdict'[r] = verdict[r]
          /\ log'[r] = log[r] /\ cancelled'[r] = cancelled[r]
          /\ mute'[r] = mute[r]
      BY <2>3, <1>0 DEF Act
    <3> QED BY <3>1
  <2>4. CASE RunEnds(r)
    <3>1. /\ pc[r] = "acting" /\ pc'[r] = "closing run"
          /\ plan'[r] = plan[r] /\ open'[r] = open[r]
          /\ pending'[r] = pending[r] /\ acted'[r] = acted[r]
          /\ verifier'[r] = verifier[r] /\ verdict'[r] = verdict[r]
          /\ log'[r] = log[r] /\ cancelled'[r] = cancelled[r]
          /\ mute'[r] = mute[r]
      BY <2>4, <1>0 DEF RunEnds
    <3> QED BY <3>1
  <2>5. CASE RunFails(r)
    <3>1. /\ pc[r] \in {"to run", "harness", "acting"}
          /\ pc'[r] \in {"closing run", "failing", "to verify"}
          /\ plan'[r] = plan[r] /\ open'[r] = open[r]
          /\ "run" \in open[r] => pc'[r] = "closing run"
          /\ acted'[r] = acted[r] /\ verifier'[r] = verifier[r]
          /\ verdict'[r] = verdict[r] /\ log'[r] = log[r]
          /\ cancelled'[r] = cancelled[r] /\ mute'[r] = mute[r]
      BY <2>5, <1>0 DEF RunFails, FailedStep
    <3> QED BY <3>1
  <2>6. CASE VerifyEnds(r)
    <3>1. /\ pc[r] = "verifying" /\ pc'[r] = "closing verify"
          /\ plan'[r] = plan[r] /\ open'[r] = open[r]
          /\ pending'[r] = pending[r] /\ acted'[r] = acted[r]
          /\ verifier'[r] # "none" /\ verdict'[r] = verdict[r]
          /\ log'[r] = log[r] /\ cancelled'[r] = cancelled[r]
          /\ mute'[r] = mute[r]
      BY <2>6, <1>0 DEF VerifyEnds, Answer, Status
    <3> QED BY <3>1
  <2> QED BY <1>2, <2>1, <2>2, <2>3, <2>4, <2>5, <2>6 DEF Stream
<1>3. CASE Cancel(r)
  <2>1. PICK p \in Phase : pc[r] \in Working[p] /\ pc'[r] = Closing[p]
    BY <1>3, <1>0 DEF Cancel
  <2>2. /\ plan'[r] = plan[r] /\ open'[r] = open[r] /\ pending'[r]
        /\ acted'[r] = acted[r] /\ verifier'[r] = verifier[r]
        /\ verdict'[r] = verdict[r] /\ log'[r] = log[r]
        /\ mute'[r] = mute[r]
    BY <1>3, <1>0 DEF Cancel
  <2>3. CASE p = "plan"
    BY <2>1, <2>2, <2>3, Phases
  <2>4. CASE p = "run"
    BY <2>1, <2>2, <2>4, Phases
  <2>5. CASE p = "verify"
    BY <2>1, <2>2, <2>5, Phases
  <2> QED BY <2>3, <2>4, <2>5, Phases
<1>4. ASSUME NEW p \in Phase, CancelClose(r, p) PROVE RunInv(r)'
  <2>1. /\ pc[r] = Closing[p] /\ pc'[r] = "failing"
        /\ open'[r] = open[r] \ {p} /\ plan'[r] = plan[r]
        /\ acted'[r] = acted[r] /\ verifier'[r] = verifier[r]
        /\ verdict'[r] = verdict[r] /\ log'[r] = log[r]
        /\ mute'[r] = mute[r]
    BY <1>4, <1>0 DEF CancelClose
  <2> QED BY <2>1, Phases
<1>5. CASE Build(r) \/ Answers(r)
  <2>1. /\ pc'[r] = pc[r] /\ plan'[r] = plan[r] /\ open'[r] = open[r]
        /\ pending'[r] = pending[r] /\ acted'[r] = acted[r]
        /\ verifier'[r] = verifier[r] /\ verdict'[r] = verdict[r]
        /\ log'[r] = log[r] /\ cancelled'[r] = cancelled[r]
        /\ mute'[r] = mute[r]
    BY <1>5, <1>0 DEF Build, Answers
  <2> QED BY <2>1
<1> QED BY <1>1, <1>2, <1>3, <1>4, <1>5 DEF RunNext

LEMMA IInvStep == TypeOK /\ IInv /\ [Next]_vars => IInv'
<1> SUFFICES ASSUME TypeOK, IInv, [Next]_vars, NEW q \in Run PROVE RunInv(q)'
  BY DEF IInv
<1>1. RunInv(q)
  BY DEF IInv
<1>2. CASE UNCHANGED vars
  BY <1>1, <1>2 DEF vars, loopVars, recordVars, RunInv, SessionsOf, FinalEventOf,
                    PlanOf, VerdictOf, CancelledOf
<1>3. ASSUME NEW r \in Run, RunNext(r) PROVE RunInv(q)'
  <2>1. CASE q = r
    BY <1>1, <1>3, <2>1, RunStep
  <2>2. CASE q # r
    <3>1. /\ pc'[q] = pc[q] /\ plan'[q] = plan[q] /\ open'[q] = open[q]
          /\ pending'[q] = pending[q] /\ acted'[q] = acted[q]
          /\ verifier'[q] = verifier[q] /\ verdict'[q] = verdict[q]
          /\ log'[q] = log[q] /\ cancelled'[q] = cancelled[q]
          /\ mute'[q] = mute[q]
      BY <1>3, <2>2, OtherRuns
    <3> QED BY <1>1, <3>1 DEF RunInv, SessionsOf, FinalEventOf, PlanOf, VerdictOf,
                              CancelledOf
  <2> QED BY <2>1, <2>2
<1> QED BY <1>2, <1>3 DEF Next

(* All of it holds throughout.                                               *)
THEOREM Invariance == Spec => [](TypeOK /\ IInv)
<1>1. Init => TypeOK /\ IInv
  <2>1. Init => TypeOK
    BY InitType
  <2>2. Init => IInv
    BY DEF Init, IInv, RunInv, SessionsOf, FinalEventOf, PlanOf, VerdictOf, CancelledOf
  <2> QED BY <2>1, <2>2
<1> QED BY <1>1, TypeStep, IInvStep, PTL DEF Spec

(* The log tells how the run ended.                                          *)
THEOREM FinalEventCorrect == Spec => []FinalEvent
<1>1. IInv => FinalEvent
  BY DEF IInv, RunInv, FinalEventOf, FinalEvent
<1> QED BY <1>1, Invariance, PTL

(* No session is left open.                                                  *)
THEOREM SessionsCorrect == Spec => []SessionsClosed
<1>1. TypeOK /\ IInv => SessionsClosed
  <2> SUFFICES ASSUME TypeOK, IInv, NEW r \in Run, NEW p \in open[r]
               PROVE  pc[r] \in Working[p] \cup {Closing[p]}
    BY DEF SessionsClosed
  <2>1. p \in {"plan", "run", "verify"}
    BY Phases DEF TypeOK
  <2>2. SessionsOf(r)
    BY DEF IInv, RunInv
  <2> QED BY <2>1, <2>2, Phases DEF SessionsOf
<1> QED BY <1>1, Invariance, PTL

(* Only the verification's word makes a success.                             *)
THEOREM VerdictCorrect == Spec => []NoSelfCertifiedSuccess
<1>1. IInv => NoSelfCertifiedSuccess
  BY DEF IInv, RunInv, VerdictOf, NoSelfCertifiedSuccess
<1> QED BY <1>1, Invariance, PTL

(* No UI action without a plan.                                              *)
THEOREM PlanCorrect == Spec => []PlanBeforeAction
<1>1. IInv => PlanBeforeAction
  BY DEF IInv, RunInv, PlanOf, PlanBeforeAction
<1> QED BY <1>1, Invariance, PTL

(* Only its closing and its final event are left to a cancelled run.         *)
LEMMA CancelledStep ==
    ASSUME TypeOK, NEW r \in Run, RunInv(r), cancelled[r], RunNext(r)
    PROVE  open'[r] \subseteq open[r] /\ acted'[r] = acted[r] /\ pc'[r] # "returned"
<1>0. /\ pc \in [Run -> PC] /\ open \in [Run -> SUBSET Phase]
  BY DEF TypeOK
<1>1. \/ pc[r] \in {"failing", "raised"}
      \/ pending[r] /\ pc[r] \in {"closing plan", "closing run", "closing verify"}
  BY DEF RunInv, CancelledOf
<1>2. CASE Fail(r)
  BY <1>0, <1>2 DEF Fail, Goto
<1>3. ASSUME NEW p \in Phase, Close(r, p)
      PROVE  open'[r] \subseteq open[r] /\ acted'[r] = acted[r] /\ pc'[r] # "returned"
  BY <1>0, <1>3, Phases DEF Close, AfterClose, Goto, recordVars
<1>4. ASSUME NEW p \in Phase, CancelClose(r, p)
      PROVE  open'[r] \subseteq open[r] /\ acted'[r] = acted[r] /\ pc'[r] # "returned"
  BY <1>0, <1>4 DEF CancelClose, Goto, recordVars
<1>5. CASE Build(r) \/ Answers(r)
  BY <1>0, <1>1, <1>5 DEF Build, Answers, loopVars, recordVars
<1>6. ~Cancel(r)
  BY <1>1, Phases DEF Cancel
<1>7. CASE Proceed(r)
  BY <1>1, <1>2, <1>3, <1>7 DEF Proceed, Start, Load, Raise, OpenPlan, OpenRun,
     SetupFails, OpenVerify, HarnessReady, HarnessTimeout, Judge, Complete
<1>8. ~Stream(r)
  BY <1>1 DEF Stream, PlanEnds, PlanFails, Act, RunEnds, RunFails, VerifyEnds
<1> QED BY <1>4, <1>5, <1>6, <1>7, <1>8 DEF RunNext

(* A cancellation is never taken for one of the failures a run survives.     *)
THEOREM CancelledCorrect == Spec => CancelledStepsDown
<1>1. TypeOK /\ IInv /\ [Next]_vars =>
        [\A r \in Run : cancelled[r] =>
            /\ open'[r] \subseteq open[r]
            /\ acted'[r] = acted[r]
            /\ pc'[r] # "returned"]_vars
  <2> SUFFICES ASSUME TypeOK, IInv, Next, NEW r \in Run, cancelled[r]
               PROVE  /\ open'[r] \subseteq open[r]
                      /\ acted'[r] = acted[r]
                      /\ pc'[r] # "returned"
    OBVIOUS
  <2>1. RunInv(r)
    BY DEF IInv
  <2>2. PICK q \in Run : RunNext(q)
    BY DEF Next
  <2>3. CASE q = r
    BY <2>1, <2>2, <2>3, CancelledStep
  <2>4. CASE q # r
    <3>1. open'[r] = open[r] /\ acted'[r] = acted[r] /\ pc'[r] = pc[r]
      BY <2>2, <2>4, OtherRuns
    <3>2. pc[r] # "returned"
      BY <2>1 DEF RunInv, CancelledOf
    <3> QED BY <3>1, <3>2
  <2> QED BY <2>3, <2>4
<1> QED BY <1>1, Invariance, PTL DEF Spec, CancelledStepsDown
===============================================================================
