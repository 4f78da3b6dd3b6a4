------------------------------- MODULE AgentRun -------------------------------
(***************************************************************************)
(* Runs led by the LLM agent: FsqAgent.run (agent/_core.py) through the    *)
(* runtime's three SDK calls (agent/_openai_runtime.py): the plan, the run *)
(* and the verification, each with a provider session of its own; then     *)
(* the local verifier and the report.                                      *)
(*                                                                         *)
(* An action is what the run's coroutine does between two suspensions, or  *)
(* a part of it where another run may write to the same run directory.     *)
(* Beside it run the thread that builds the harness and whoever cancels.   *)
(* Of the event log only the events of FsqAgent.run's own frame are kept:  *)
(* its start, context and end. The model, its tools and what they do to    *)
(* the device are external: a stream ends as it likes, or never.           *)
(***************************************************************************)
EXTENDS SequencesExt

CONSTANTS Run,      \* runs of one task
          RunId     \* what <task id>-<second of the start> may be

VARIABLES
    pc,         \* where the run's coroutine is
    runId,      \* run_id, which names the run's directory
    plan,       \* the task's key actions and goal: missing, ready, useless
    open,       \* provider sessions with a client
    pending,    \* an exception waits for the finally that closes the session
    builder,    \* the thread of _build_harness_with_timeout
    future,     \* and the future it answers to
    acted,      \* whether the agent acted on the device
    runner,     \* the runner's step: what it says, "failed" or "none" yet
    verifier,   \* the verifier's step
    evidence,   \* runs whose tool calls the verification was given
    verdict,    \* VerificationResult.status
    log,        \* the run's own events in events.jsonl
    cancelled,  \* a CancelledError was thrown into the run
    mute        \* an event outside or after the try could not be emitted

loopVars == <<pc, plan, open, pending, future, runner, verifier, cancelled>>
recordVars == <<runId, acted, evidence, verdict, log, mute>>
vars == <<loopVars, builder, recordVars>>

Phase == {"plan", "run", "verify"}

(* Where the coroutine awaits a stream or the harness, and the close.       *)
Working == [plan |-> {"planning"}, run |-> {"harness", "acting"},
            verify |-> {"verifying"}]
Closing == [plan |-> "closing plan", run |-> "closing run",
            verify |-> "closing verify"]

PC == {"off", "loading", "to plan", "planning", "closing plan", "to run",
       "harness", "acting", "closing run", "to verify", "verifying",
       "closing verify", "judging", "reported", "failing", "returned", "raised"}

Status == {"success", "failed", "inconclusive"}

(* What a final output says, if it parses as an AgentFinalOutput.           *)
Answer == Status \cup {"unparseable"}

(* A step the runtime made of an exception has no output to parse either.   *)
Step == Answer \cup {"none", "exception"}

Event == {"run_started", "agent_started", "run_completed", "run_failed"}

TypeOK ==
    /\ pc \in [Run -> PC]
    /\ runId \in [Run -> RunId]
    /\ plan \in [Run -> {"missing", "ready", "useless"}]
    /\ open \in [Run -> SUBSET Phase]
    /\ pending \in [Run -> BOOLEAN]
    /\ builder \in [Run -> {"off", "building", "built", "broken", "done"}]
    /\ future \in [Run -> {"none", "waiting", "harness", "exception", "cancelled"}]
    /\ acted \in [Run -> BOOLEAN]
    /\ runner \in [Run -> Step]
    /\ verifier \in [Run -> Step]
    /\ evidence \in [Run -> SUBSET Run]
    /\ verdict \in [Run -> Status \cup {"none"}]
    /\ log \in [Run -> Seq(Event)]
    /\ cancelled \in [Run -> BOOLEAN]
    /\ mute \in [Run -> BOOLEAN]

Init ==
    /\ pc = [r \in Run |-> "off"]
    /\ runId \in [Run -> RunId]
    /\ plan \in [Run -> {"missing", "ready"}]
    /\ open = [r \in Run |-> {}]
    /\ pending = [r \in Run |-> FALSE]
    /\ builder = [r \in Run |-> "off"]
    /\ future = [r \in Run |-> "none"]
    /\ acted = [r \in Run |-> FALSE]
    /\ runner = [r \in Run |-> "none"]
    /\ verifier = [r \in Run |-> "none"]
    /\ evidence = [r \in Run |-> {}]
    /\ verdict = [r \in Run |-> "none"]
    /\ log = [r \in Run |-> <<>>]
    /\ cancelled = [r \in Run |-> FALSE]
    /\ mute = [r \in Run |-> FALSE]

Goto(r, p) == pc' = [pc EXCEPT ![r] = p]

Set(f, r, v) == [f EXCEPT ![r] = v]

(* RunEventEmitter.emit: the log first, then the sink.                      *)
Emit(r, e) == log' = [log EXCEPT ![r] = Append(@, e)]

(* Either of them raises.                                                   *)
EmitRaises(r, e) == log' = log \/ Emit(r, e)

-------------------------------------------------------------------------------
(* FsqAgent.run up to the first SDK call.                                   *)

(* The first event is emitted before the try.                               *)
Start(r) ==
    /\ pc[r] = "off"
    /\ \/ Emit(r, "run_started") /\ Goto(r, "loading") /\ UNCHANGED mute
       \/ /\ EmitRaises(r, "run_started")
          /\ Goto(r, "raised")
          /\ mute' = Set(mute, r, TRUE)
    /\ UNCHANGED <<runId, plan, open, pending, builder, future, acted, runner,
                   verifier, evidence, verdict, cancelled>>

Load(r) ==
    /\ pc[r] = "loading"
    /\ Emit(r, "agent_started")
    /\ Goto(r, IF plan[r] = "ready" THEN "to run" ELSE "to plan")
    /\ UNCHANGED <<plan, open, pending, future, runner, verifier, cancelled,
                   builder, runId, acted, evidence, verdict, mute>>

(* An exception outside the SDK calls: knowledge or skills, settings,        *)
(* a provider, the evidence, the report, an event.                           *)
Raise(r) ==
    /\ \/ pc[r] \in {"to plan", "to run", "to verify", "judging"} /\ UNCHANGED log
       \/ pc[r] = "loading" /\ EmitRaises(r, "agent_started")
       \/ pc[r] = "reported" /\ EmitRaises(r, "run_completed")
    /\ Goto(r, "failing")
    /\ UNCHANGED <<plan, open, pending, future, runner, verifier, cancelled,
                   builder, runId, acted, evidence, verdict, mute>>

-------------------------------------------------------------------------------
(* The SDK calls: open a session, await, close in the finally.              *)

OpenSession(r, p, next) ==
    /\ open' = [open EXCEPT ![r] = @ \cup {p}]
    /\ Goto(r, next)
    /\ UNCHANGED <<plan, pending, runner, verifier, cancelled>>

OpenPlan(r) ==
    /\ pc[r] = "to plan"
    /\ OpenSession(r, "plan", "planning")
    /\ UNCHANGED <<future, builder, recordVars>>

(* The harness is built by a thread the coroutine waits for.                *)
OpenRun(r) ==
    /\ pc[r] = "to run"
    /\ OpenSession(r, "run", "harness")
    /\ builder' = Set(builder, r, "building")
    /\ future' = Set(future, r, "waiting")
    /\ UNCHANGED recordVars

(* An event between the two raises: the outer handler of run_task makes it   *)
(* a failed step, or raises in turn.                                         *)
SetupFails(r) ==
    /\ pc[r] = "to run"
    /\ \/ runner' = Set(runner, r, "exception") /\ UNCHANGED pending
       \/ pending' = Set(pending, r, TRUE) /\ UNCHANGED runner
    /\ open' = [open EXCEPT ![r] = @ \cup {"run"}]
    /\ Goto(r, "closing run")
    /\ UNCHANGED <<plan, future, verifier, cancelled, builder, recordVars>>

(* The evidence: the tool calls and artifacts in the run's directory,       *)
(* whichever run left them there.                                           *)
OpenVerify(r) ==
    /\ pc[r] = "to verify"
    /\ OpenSession(r, "verify", "verifying")
    /\ evidence' = Set(evidence, r, {q \in Run : runId[q] = runId[r] /\ acted[q]})
    /\ UNCHANGED <<future, builder, runId, acted, verdict, log, mute>>

PlanEnds(r) ==
    /\ pc[r] = "planning"
    /\ \E answer \in {"ready", "useless"} : plan' = Set(plan, r, answer)
    /\ Goto(r, "closing plan")
    /\ UNCHANGED <<open, pending, future, runner, verifier, cancelled, builder,
                   recordVars>>

(* Any exception becomes a PlanningError.                                   *)
PlanFails(r) ==
    /\ pc[r] = "planning"
    /\ pending' = Set(pending, r, TRUE)
    /\ Goto(r, "closing plan")
    /\ UNCHANGED <<plan, open, future, runner, verifier, cancelled, builder,
                   recordVars>>

(* _build_harness_with_timeout got its harness, and the agent its tools.    *)
HarnessReady(r) ==
    /\ pc[r] = "harness" /\ future[r] = "harness"
    /\ Goto(r, "acting")
    /\ UNCHANGED <<plan, open, pending, future, runner, verifier, cancelled,
                   builder, recordVars>>

(* A UI action of the agent.                                                *)
Act(r) ==
    /\ pc[r] = "acting"
    /\ acted' = Set(acted, r, TRUE)
    /\ UNCHANGED <<loopVars, builder, runId, evidence, verdict, log, mute>>

RunEnds(r) ==
    /\ pc[r] = "acting"
    /\ \E answer \in Answer : runner' = Set(runner, r, answer)
    /\ Goto(r, "closing run")
    /\ UNCHANGED <<plan, open, pending, future, verifier, cancelled, builder,
                   recordVars>>

(* The wait for the harness ends; an answer that came already stays.         *)
Abandon(r) ==
    future' = IF future[r] = "waiting" THEN Set(future, r, "cancelled") ELSE future

(* An exception inside run_task: reported as an event, which may raise in    *)
(* turn, and returned as a failed step. A session that failed to open has no  *)
(* client to close.                                                          *)
FailedStep(r) ==
    /\ \/ runner' = Set(runner, r, "exception") /\ UNCHANGED pending
       \/ pending' = Set(pending, r, TRUE) /\ UNCHANGED runner
    /\ Goto(r, IF "run" \in open[r] THEN "closing run"
               ELSE IF pending'[r] THEN "failing" ELSE "to verify")
    /\ UNCHANGED <<plan, open, verifier, cancelled, builder, recordVars>>

RunFails(r) ==
    /\ \/ pc[r] \in {"to run", "acting"}
       \/ pc[r] = "harness" /\ future[r] \in {"harness", "exception"}
    /\ FailedStep(r)
    /\ UNCHANGED future

(* The timeout had it waited for the worker, as an executor's exit does.    *)
HarnessTimeoutJoining(r) ==
    /\ pc[r] = "harness" /\ builder[r] # "building"
    /\ Abandon(r)
    /\ FailedStep(r)

(* step_timeout_seconds ran out, perhaps as the answer came in.             *)
HarnessTimeout(r) ==
    /\ pc[r] = "harness"
    /\ Abandon(r)
    /\ FailedStep(r)

VerifyEnds(r) ==
    /\ pc[r] = "verifying"
    /\ \E answer \in Answer \cup {"exception"} : verifier' = Set(verifier, r, answer)
    /\ Goto(r, "closing verify")
    /\ UNCHANGED <<plan, open, pending, future, runner, cancelled, builder,
                   recordVars>>

(* What follows a call once its session is closed.                          *)
AfterClose(r, p) ==
    IF pending[r] \/ (p = "plan" /\ plan[r] = "useless") THEN "failing"
    ELSE CASE p = "plan" -> "to run"
           [] p = "run" -> "to verify"
           [] p = "verify" -> "judging"

(* ModelProviderSession.close forgets its client before it closes it, which  *)
(* may raise: the exception then takes the place of the call's result.       *)
Close(r, p) ==
    /\ pc[r] = Closing[p]
    /\ open' = [open EXCEPT ![r] = @ \ {p}]
    /\ \E next \in {AfterClose(r, p), "failing"} : Goto(r, next)
    /\ pending' = Set(pending, r, FALSE)
    /\ UNCHANGED <<plan, future, runner, verifier, cancelled, builder, recordVars>>

-------------------------------------------------------------------------------
(* Cancellation: Task.cancel, or the interrupt asyncio.run turns into it.   *)

(* The cancellation of run_task had "except Exception" caught it as well.   *)
CancelCaught(r) ==
    /\ \E p \in Phase :
          /\ pc[r] \in Working[p]
          /\ pending' = Set(pending, r, p # "run")
          /\ runner' = IF p = "run" THEN Set(runner, r, "exception") ELSE runner
          /\ Goto(r, Closing[p])
    /\ Abandon(r)
    /\ cancelled' = Set(cancelled, r, TRUE)
    /\ UNCHANGED <<plan, open, verifier, builder, recordVars>>

(* The same had the sessions been closed by "except Exception" only.        *)
CancelUnclosed(r) ==
    /\ \E p \in Phase : pc[r] \in Working[p]
    /\ Goto(r, "failing")
    /\ Abandon(r)
    /\ cancelled' = Set(cancelled, r, TRUE)
    /\ UNCHANGED <<plan, open, pending, runner, verifier, builder, recordVars>>

(* CancelledError is no Exception: only the finally sees it.                *)
Cancel(r) ==
    /\ \E p \in Phase :
          /\ pc[r] \in Working[p]
          /\ Goto(r, Closing[p])
    /\ pending' = Set(pending, r, TRUE)
    /\ Abandon(r)
    /\ cancelled' = Set(cancelled, r, TRUE)
    /\ UNCHANGED <<plan, open, runner, verifier, builder, recordVars>>

(* The close is awaited too.                                                *)
CancelClose(r, p) ==
    /\ pc[r] = Closing[p]
    /\ open' = [open EXCEPT ![r] = @ \ {p}]
    /\ Goto(r, "failing")
    /\ pending' = Set(pending, r, FALSE)
    /\ cancelled' = Set(cancelled, r, TRUE)
    /\ UNCHANGED <<plan, future, runner, verifier, builder, recordVars>>

-------------------------------------------------------------------------------
(* The verdict, the report and the final event.                             *)

(* Verifier.verify: only without a verifier step does it turn to the runner. *)
Verdict(r) ==
    LET said == IF verifier[r] # "none" THEN verifier[r] ELSE runner[r]
    IN  IF said \in Status THEN said ELSE "inconclusive"

(* Judge had it taken the step's word for a status.                         *)
JudgeUnparsed(r) ==
    /\ pc[r] = "judging"
    /\ verdict' = Set(verdict, r, verifier[r])
    /\ Goto(r, "reported")
    /\ UNCHANGED <<plan, open, pending, future, runner, verifier, cancelled,
                   builder, runId, acted, evidence, log, mute>>

(* Verifier.verify and ReportGenerator.generate.                            *)
Judge(r) ==
    /\ pc[r] = "judging"
    /\ verdict' = Set(verdict, r, Verdict(r))
    /\ Goto(r, "reported")
    /\ UNCHANGED <<plan, open, pending, future, runner, verifier, cancelled,
                   builder, runId, acted, evidence, log, mute>>

Complete(r) ==
    /\ pc[r] = "reported"
    /\ Emit(r, "run_completed")
    /\ Goto(r, "returned")
    /\ UNCHANGED <<plan, open, pending, future, runner, verifier, cancelled,
                   builder, runId, acted, evidence, verdict, mute>>

(* The handler of FsqAgent.run had it been "except Exception".              *)
FailOnException(r) ==
    /\ pc[r] = "failing"
    /\ \/ cancelled[r] /\ UNCHANGED <<log, mute>>
       \/ ~cancelled[r] /\ Emit(r, "run_failed") /\ UNCHANGED mute
       \/ EmitRaises(r, "run_failed") /\ mute' = Set(mute, r, TRUE)
    /\ Goto(r, "raised")
    /\ UNCHANGED <<plan, open, pending, future, runner, verifier, cancelled,
                   builder, runId, acted, evidence, verdict>>

(* "except BaseException": the final event, which may raise in turn.        *)
Fail(r) ==
    /\ pc[r] = "failing"
    /\ \/ Emit(r, "run_failed") /\ UNCHANGED mute
       \/ EmitRaises(r, "run_failed") /\ mute' = Set(mute, r, TRUE)
    /\ Goto(r, "raised")
    /\ UNCHANGED <<plan, open, pending, future, runner, verifier, cancelled,
                   builder, runId, acted, evidence, verdict>>

-------------------------------------------------------------------------------
(* The harness thread. Its answer finds a future that is done, or no loop.  *)

Build(r) ==
    /\ builder[r] = "building"
    /\ \E end \in {"built", "broken"} : builder' = Set(builder, r, end)
    /\ UNCHANGED <<loopVars, recordVars>>

(* set_result and set_exception, on the loop.                               *)
Answers(r) ==
    /\ builder[r] \in {"built", "broken"}
    /\ builder' = Set(builder, r, "done")
    /\ future' = IF future[r] # "waiting" THEN future
                 ELSE Set(future, r, IF builder[r] = "built" THEN "harness" ELSE "exception")
    /\ UNCHANGED <<pc, plan, open, pending, runner, verifier, cancelled, recordVars>>

-------------------------------------------------------------------------------
(* What the coroutine does by itself once it is scheduled.                  *)
Proceed(r) ==
    \/ Start(r) \/ Load(r) \/ Raise(r)
    \/ OpenPlan(r) \/ OpenRun(r) \/ SetupFails(r) \/ OpenVerify(r)
    \/ HarnessReady(r) \/ HarnessTimeout(r)
    \/ \E p \in Phase : Close(r, p)
    \/ Judge(r) \/ Complete(r) \/ Fail(r)

(* What the model and its tools do.                                         *)
Stream(r) ==
    \/ PlanEnds(r) \/ PlanFails(r)
    \/ Act(r) \/ RunEnds(r) \/ RunFails(r)
    \/ VerifyEnds(r)

RunNext(r) ==
    \/ Proceed(r)
    \/ Stream(r)
    \/ Cancel(r)
    \/ \E p \in Phase : CancelClose(r, p)
    \/ Build(r)
    \/ Answers(r)

Next == \E r \in Run : RunNext(r)

(* The loop is scheduled, a timer fires, and closing a client ends. Nothing  *)
(* makes the model or the harness thread answer.                             *)
Fairness == \A r \in Run : WF_vars(Proceed(r))

Spec == Init /\ [][Next]_vars /\ Fairness

-------------------------------------------------------------------------------
Ended(r) == pc[r] \in {"returned", "raised"}

(* A run's log ends as the run did: with run_completed if it returned, with  *)
(* run_failed if it raised, cancelled or not, unless the emission of that    *)
(* event raised itself (agent/_core.py:120-148).                             *)
FinalEvent ==
    \A r \in Run :
        /\ pc[r] = "returned" => Last(log[r]) = "run_completed"
        /\ pc[r] = "raised" /\ ~mute[r] => Last(log[r]) = "run_failed"

(* No run leaves a provider session with a client behind, whatever failed    *)
(* and wherever it was cancelled, and no call starts before the session of   *)
(* the one before it is closed.                                              *)
SessionsClosed ==
    \A r \in Run :
        \A p \in open[r] : pc[r] \in Working[p] \cup {Closing[p]}

(* The agent does not certify itself: a run ends with success only when the  *)
(* verification, a call of its own, said so.                                 *)
NoSelfCertifiedSuccess ==
    \A r \in Run : verdict[r] = "success" => verifier[r] = "success"

(* A run without key actions and a goal fails before it touches the device   *)
(* (_augment_goal_only_task_with_pre_plan).                                  *)
PlanBeforeAction ==
    \A r \in Run : acted[r] => plan[r] = "ready"

(* A cancelled run starts no further call, touches the device no more, and   *)
(* does not return a result: nothing on the way up turns the cancellation    *)
(* into a failed step, as exceptions are.                                    *)
CancelledStepsDown ==
    [][\A r \in Run : cancelled[r] =>
          /\ open'[r] \subseteq open[r]
          /\ acted'[r] = acted[r]
          /\ pc'[r] # "returned"]_vars

(* However long the harness takes to build, and even if it never is, the     *)
(* run gets past it (_build_harness_with_timeout).                           *)
SetupEnds ==
    \A r \in Run : pc[r] = "harness" ~> pc[r] # "harness"

(* What the verification is shown is the run's own record: the run directory *)
(* is named for it alone (agent/_core.py:87, agent/_verification_task.py:94). *)
EvidenceIsOwn ==
    \A r \in Run : evidence[r] \subseteq {r}
===============================================================================
