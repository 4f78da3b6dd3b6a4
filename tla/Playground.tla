------------------------------ MODULE Playground ------------------------------
(***************************************************************************)
(* Task execution in the playground server (playground/_state.py,          *)
(* _execution.py and the handlers of _server.py), for the Android          *)
(* platform, the one with device sessions.                                 *)
(*                                                                         *)
(* Four kinds of threads interleave at their lock sections:                *)
(*   - the HTTP handler of POST /execute that creates request r (exec[r]); *)
(*   - the daemon thread that runs r's asyncio loop (worker[r]);           *)
(*   - the asyncio.to_thread thread in which a strict case uses the device  *)
(*     (helper[r]); an agent drives it from its own loop;                   *)
(*   - the HTTP handlers of POST /cancel (canceller[c]).                   *)
(* POST and DELETE /session are one lock section each. Progress events,    *)
(* the replay directory and the preview are data here: module TaskStream   *)
(* models how progress reaches a client.                                   *)
(***************************************************************************)
EXTENDS Integers, FiniteSets

CONSTANTS Request,     \* request ids, one per POST /execute that passes its checks
          Canceller,   \* handler threads of POST /cancel
          Device,      \* devices a session can select
          NoRequest, NoDevice

ASSUME NoRequestAssumption == NoRequest \notin Request
ASSUME NoDeviceAssumption == NoDevice \notin Device

VARIABLES
    current,     \* PlaygroundState.current_request_id
    status,      \* TaskProgress.status
    cancelReq,   \* TaskProgress.cancel_requested
    lastRun,     \* PlaygroundState.last_run: the request it was built from
    session,     \* the selected device, NoDevice when disconnected
    exec,        \* where the POST /execute handler of the request is
    kind,        \* "agent" (goal or raw case) or "strict"
    device,      \* the device_id argument given to the run
    handles,     \* PlaygroundServer._execution_handles
    hCancel,     \* PlaygroundExecutionHandle._cancel_requested
    hAttached,   \* whether _loop and _task are stored in the handle
    worker,      \* where the run's thread and coroutine are
    helper,      \* the asyncio.to_thread thread of a strict case
    sawCancel,   \* attach()'s local cancel_requested
    cancelQ,     \* a task.cancel call queued on the loop
    canceller    \* where a POST /cancel handler is, and its request

stateVars == <<current, status, cancelReq, lastRun>>
execVars == <<exec, kind, device>>
handleVars == <<handles, hCancel, hAttached>>
workerVars == <<worker, helper, sawCancel, cancelQ>>
vars == <<stateVars, session, execVars, handleVars, workerVars, canceller>>

ExecPC == {"none", "checked", "resetting", "launching", "spawned", "done",
           "refused", "died"}
WorkerPC == {"off", "boot", "attaching", "entry", "agent", "strict", "returned",
             "finishing", "failing", "caught", "cancelling", "raised", "done",
             "end"}
HelperPC == {"off", "running", "ok", "err", "cancelled"}
CancelPC == {"idle", "requested", "popped", "checking", "calling", "erred"}

TypeOK ==
    /\ current \in Request \cup {NoRequest}
    /\ status \in [Request -> {"none", "running", "finished", "error", "cancelled"}]
    /\ cancelReq \in [Request -> BOOLEAN]
    /\ lastRun \in Request \cup {NoRequest}
    /\ session \in Device \cup {NoDevice}
    /\ exec \in [Request -> ExecPC]
    /\ kind \in [Request -> {"agent", "strict"}]
    /\ device \in [Request -> Device \cup {NoDevice}]
    /\ handles \in SUBSET Request
    /\ hCancel \in [Request -> BOOLEAN]
    /\ hAttached \in [Request -> BOOLEAN]
    /\ worker \in [Request -> WorkerPC]
    /\ helper \in [Request -> HelperPC]
    /\ sawCancel \in [Request -> BOOLEAN]
    /\ cancelQ \in [Request -> BOOLEAN]
    /\ canceller \in [Canceller -> [pc : CancelPC, req : Request \cup {NoRequest}]]

Init ==
    /\ current = NoRequest
    /\ status = [r \in Request |-> "none"]
    /\ cancelReq = [r \in Request |-> FALSE]
    /\ lastRun = NoRequest
    /\ session = NoDevice
    /\ exec = [r \in Request |-> "none"]
    /\ kind = [r \in Request |-> "agent"]
    /\ device = [r \in Request |-> NoDevice]
    /\ handles = {}
    /\ hCancel = [r \in Request |-> FALSE]
    /\ hAttached = [r \in Request |-> FALSE]
    /\ worker = [r \in Request |-> "off"]
    /\ helper = [r \in Request |-> "off"]
    /\ sawCancel = [r \in Request |-> FALSE]
    /\ cancelQ = [r \in Request |-> FALSE]
    /\ canceller = [c \in Canceller |-> [pc |-> "idle", req |-> NoRequest]]

-------------------------------------------------------------------------------
(* PlaygroundState: each operator is one section under its lock.            *)

FreeSlot(r) == current' = IF current = r THEN NoRequest ELSE current

(* request_cancel announcing a status of its own until the run reacts.      *)
request_cancel_pending(r) ==
    /\ IF status[r] = "running"
       THEN /\ cancelReq' = [cancelReq EXCEPT ![r] = TRUE]
            /\ status' = [status EXCEPT ![r] = "cancelling"]
            /\ FreeSlot(r)
       ELSE UNCHANGED <<cancelReq, status, current>>
    /\ UNCHANGED lastRun

request_cancel(r) ==
    /\ IF status[r] = "running"
       THEN /\ cancelReq' = [cancelReq EXCEPT ![r] = TRUE]
            /\ status' = [status EXCEPT ![r] = "cancelled"]
            /\ FreeSlot(r)
       ELSE UNCHANGED <<cancelReq, status, current>>
    /\ UNCHANGED lastRun

(* "finished" stands for the result's status: success, failed, inconclusive. *)
finish_task(r) ==
    IF cancelReq[r]
    THEN UNCHANGED stateVars
    ELSE /\ status' = [status EXCEPT ![r] = "finished"]
         /\ lastRun' = r
         /\ FreeSlot(r)
         /\ UNCHANGED cancelReq

fail_task(r) ==
    IF cancelReq[r]
    THEN UNCHANGED stateVars
    ELSE /\ status' = [status EXCEPT ![r] = "error"]
         /\ FreeSlot(r)
         /\ UNCHANGED <<lastRun, cancelReq>>

(* start_task for a caller that saw the slot free earlier, unlocked.        *)
start_task_unlocked(r) ==
    /\ current' = r
    /\ status' = [status EXCEPT ![r] = "running"]
    /\ UNCHANGED <<cancelReq, lastRun>>

start_task(r) ==
    /\ current = NoRequest
    /\ current' = r
    /\ status' = [status EXCEPT ![r] = "running"]
    /\ UNCHANGED <<cancelReq, lastRun>>

-------------------------------------------------------------------------------
(* POST /session (and /session/auto) and DELETE /session.                   *)

create_session(d) ==
    /\ current = NoRequest
    /\ session' = d
    /\ UNCHANGED <<stateVars, execVars, handleVars, workerVars, canceller>>

destroy_session ==
    /\ current = NoRequest
    /\ session' = NoDevice
    /\ UNCHANGED <<stateVars, execVars, handleVars, workerVars, canceller>>

-------------------------------------------------------------------------------
(* POST /execute. The request id reaches the client with the 202 response,  *)
(* that is once exec[r] = "done".                                           *)

ExecuteCheck(r) ==
    /\ exec[r] = "none"
    /\ session # NoDevice
    /\ \E k \in {"agent", "strict"} : kind' = [kind EXCEPT ![r] = k]
    /\ exec' = [exec EXCEPT ![r] = "checked"]
    /\ UNCHANGED <<stateVars, session, device, handleVars, workerVars, canceller>>

ExecuteStart(r) ==
    /\ exec[r] = "checked"
    /\ start_task(r)
    /\ exec' = [exec EXCEPT ![r] = IF kind[r] = "strict" THEN "resetting"
                                                         ELSE "launching"]
    /\ UNCHANGED <<session, kind, device, handleVars, workerVars, canceller>>

ExecuteBusy(r) ==
    /\ exec[r] = "checked"
    /\ current # NoRequest
    /\ exec' = [exec EXCEPT ![r] = "refused"]
    /\ UNCHANGED <<stateVars, session, kind, device, handleVars, workerVars, canceller>>

(* _reset_replay_for_known_run: shutil.rmtree may raise (a file in use, a   *)
(* frame written meanwhile), and nothing in the handler catches it.         *)
ExecuteResetReplay(r) ==
    /\ exec[r] = "resetting"
    /\ \E pc \in {"launching", "died"} : exec' = [exec EXCEPT ![r] = pc]
    /\ UNCHANGED <<stateVars, session, kind, device, handleVars, workerVars, canceller>>

ExecuteLaunch(r) ==
    /\ exec[r] = "launching"
    /\ device' = [device EXCEPT ![r] = session]
    /\ worker' = [worker EXCEPT ![r] = "boot"]
    /\ exec' = [exec EXCEPT ![r] = "spawned"]
    /\ UNCHANGED <<stateVars, session, kind, handleVars, helper, sawCancel, cancelQ,
                   canceller>>

ExecuteRegister(r) ==
    /\ exec[r] = "spawned"
    /\ handles' = handles \cup {r}
    /\ exec' = [exec EXCEPT ![r] = "done"]
    /\ UNCHANGED <<stateVars, session, kind, device, hCancel, hAttached, workerVars,
                   canceller>>

-------------------------------------------------------------------------------
(* The run's thread: _run_dynamic_task_thread and the coroutine             *)
(* _run_dynamic_task_async inside it.                                       *)

Attach(r) ==
    /\ worker[r] = "boot"
    /\ hAttached' = [hAttached EXCEPT ![r] = TRUE]
    /\ sawCancel' = [sawCancel EXCEPT ![r] = hCancel[r]]
    /\ worker' = [worker EXCEPT ![r] = "attaching"]
    /\ UNCHANGED <<stateVars, session, execVars, handles, hCancel, helper, cancelQ,
                   canceller>>

AttachDeliver(r) ==
    /\ worker[r] = "attaching"
    /\ cancelQ' = [cancelQ EXCEPT ![r] = @ \/ sawCancel[r]]
    /\ worker' = [worker EXCEPT ![r] = "entry"]
    /\ UNCHANGED <<stateVars, session, execVars, handleVars, helper, sawCancel,
                   canceller>>

(* The coroutine's first step runs before any queued task.cancel call, up   *)
(* to its first await: _raise_if_cancelled, then validation (which may      *)
(* raise), then the await of the agent or of the strict thread.             *)
EnterCancelled(r) ==
    /\ worker[r] = "entry" /\ cancelReq[r]
    /\ worker' = [worker EXCEPT ![r] = "caught"]
    /\ UNCHANGED <<stateVars, session, execVars, handleVars, helper, sawCancel, cancelQ,
                   canceller>>

Enter(r) ==
    /\ worker[r] = "entry" /\ ~cancelReq[r]
    /\ \/ /\ kind[r] = "agent"
          /\ \E pc \in {"agent", "failing"} : worker' = [worker EXCEPT ![r] = pc]
          /\ UNCHANGED helper
       \/ /\ kind[r] = "strict"
          /\ worker' = [worker EXCEPT ![r] = "strict"]
          /\ helper' = [helper EXCEPT ![r] = "running"]
    /\ UNCHANGED <<stateVars, session, execVars, handleVars, sawCancel, cancelQ,
                   canceller>>

(* The agent run returns or raises; its tools ran on this same loop.        *)
AgentEnds(r) ==
    /\ worker[r] = "agent"
    /\ \E pc \in {"returned", "failing"} : worker' = [worker EXCEPT ![r] = pc]
    /\ UNCHANGED <<stateVars, session, execVars, handleVars, helper, sawCancel, cancelQ,
                   canceller>>

(* The strict thread ends by itself, possibly after a cancellation that it  *)
(* no longer meets.                                                         *)
StrictEnds(r) ==
    /\ helper[r] = "running"
    /\ \E res \in {"ok", "err"} : helper' = [helper EXCEPT ![r] = res]
    /\ UNCHANGED <<stateVars, session, execVars, handleVars, worker, sawCancel, cancelQ,
                   canceller>>

(* _CancellableHarness raises PlaygroundTaskCancelled at the next call.     *)
StrictMeetsCancel(r) ==
    /\ helper[r] = "running" /\ cancelReq[r]
    /\ helper' = [helper EXCEPT ![r] = "cancelled"]
    /\ UNCHANGED <<stateVars, session, execVars, handleVars, worker, sawCancel, cancelQ,
                   canceller>>

StrictAwaited(r) ==
    /\ worker[r] = "strict"
    /\ helper[r] \in {"ok", "err", "cancelled"}
    /\ worker' = [worker EXCEPT ![r] = CASE helper[r] = "ok"        -> "returned"
                                         [] helper[r] = "err"       -> "failing"
                                         [] helper[r] = "cancelled" -> "caught"]
    /\ UNCHANGED <<stateVars, session, execVars, handleVars, helper, sawCancel, cancelQ,
                   canceller>>

(* task.cancel runs on the loop and the await raises CancelledError; a      *)
(* strict thread keeps running.                                             *)
CancelDelivered(r) ==
    /\ worker[r] \in {"agent", "strict"} /\ cancelQ[r]
    /\ cancelQ' = [cancelQ EXCEPT ![r] = FALSE]
    /\ worker' = [worker EXCEPT ![r] = "cancelling"]
    /\ UNCHANGED <<stateVars, session, execVars, handleVars, helper, sawCancel,
                   canceller>>

(* The check after the await, then the recording, which never awaits.       *)
Returned(r) ==
    /\ worker[r] = "returned"
    /\ worker' = [worker EXCEPT ![r] = IF cancelReq[r] THEN "done" ELSE "finishing"]
    /\ UNCHANGED <<stateVars, session, execVars, handleVars, helper, sawCancel, cancelQ,
                   canceller>>

(* The coroutine ends through finish_task, fail_task or request_cancel.     *)
Finish(r) ==
    /\ worker[r] = "finishing"
    /\ finish_task(r)
    /\ worker' = [worker EXCEPT ![r] = "done"]
    /\ UNCHANGED <<session, execVars, handleVars, helper, sawCancel, cancelQ, canceller>>

Fail(r) ==
    /\ worker[r] = "failing"
    /\ fail_task(r)
    /\ worker' = [worker EXCEPT ![r] = "done"]
    /\ UNCHANGED <<session, execVars, handleVars, helper, sawCancel, cancelQ, canceller>>

Caught(r) ==
    /\ worker[r] = "caught"
    /\ request_cancel(r)
    /\ worker' = [worker EXCEPT ![r] = "done"]
    /\ UNCHANGED <<session, execVars, handleVars, helper, sawCancel, cancelQ, canceller>>

Cancelling(r) ==
    /\ worker[r] = "cancelling"
    /\ request_cancel(r)
    /\ worker' = [worker EXCEPT ![r] = "raised"]
    /\ UNCHANGED <<session, execVars, handleVars, helper, sawCancel, cancelQ, canceller>>

(* run_until_complete raised CancelledError.                                *)
ThreadCancelled(r) ==
    /\ worker[r] = "raised"
    /\ request_cancel(r)
    /\ worker' = [worker EXCEPT ![r] = "end"]
    /\ UNCHANGED <<session, execVars, handleVars, helper, sawCancel, cancelQ, canceller>>

(* loop.close().                                                            *)
ThreadEnds(r) ==
    /\ worker[r] = "done"
    /\ worker' = [worker EXCEPT ![r] = "end"]
    /\ UNCHANGED <<stateVars, session, execVars, handleVars, helper, sawCancel, cancelQ,
                   canceller>>

TaskDone(r) == worker[r] \in {"done", "raised", "end"}

-------------------------------------------------------------------------------
(* POST /cancel/{request_id} and PlaygroundExecutionHandle.cancel.          *)

(* Had the 202 response, with the request id, left before the registration. *)
CancelRequestEarly(c, r) ==
    /\ canceller[c].pc = "idle" /\ exec[r] \in {"spawned", "done"}
    /\ request_cancel(r)
    /\ canceller' = [canceller EXCEPT ![c] = [pc |-> "requested", req |-> r]]
    /\ UNCHANGED <<session, execVars, handleVars, workerVars>>

CancelRequest(c, r) ==
    /\ canceller[c].pc = "idle" /\ exec[r] = "done"
    /\ request_cancel(r)
    /\ canceller' = [canceller EXCEPT ![c] = [pc |-> "requested", req |-> r]]
    /\ UNCHANGED <<session, execVars, handleVars, workerVars>>

CancelPop(c) ==
    /\ canceller[c].pc = "requested"
    /\ canceller' = [canceller EXCEPT ![c].pc = IF canceller[c].req \in handles
                                                THEN "popped" ELSE "idle"]
    /\ handles' = handles \ {canceller[c].req}
    /\ UNCHANGED <<stateVars, session, execVars, hCancel, hAttached, workerVars>>

HandleCancel(c) ==
    /\ canceller[c].pc = "popped"
    /\ hCancel' = [hCancel EXCEPT ![canceller[c].req] = TRUE]
    /\ canceller' = [canceller EXCEPT ![c].pc = IF hAttached[canceller[c].req]
                                                THEN "checking" ELSE "idle"]
    /\ UNCHANGED <<stateVars, session, execVars, handles, hAttached, workerVars>>

CancelCheckDone(c) ==
    /\ canceller[c].pc = "checking"
    /\ canceller' = [canceller EXCEPT ![c].pc = IF TaskDone(canceller[c].req)
                                                THEN "idle" ELSE "calling"]
    /\ UNCHANGED <<stateVars, session, execVars, handleVars, workerVars>>

(* call_soon_threadsafe raises RuntimeError on a closed loop, and the HTTP  *)
(* handler thread dies with it.                                             *)
CancelCall(c) ==
    /\ canceller[c].pc = "calling"
    /\ LET r == canceller[c].req IN
         \/ /\ worker[r] = "end"
            /\ canceller' = [canceller EXCEPT ![c].pc = "erred"]
            /\ UNCHANGED cancelQ
         \/ /\ worker[r] # "end"
            /\ canceller' = [canceller EXCEPT ![c].pc = "idle"]
            /\ cancelQ' = [cancelQ EXCEPT ![r] = TRUE]
    /\ UNCHANGED <<stateVars, session, execVars, handleVars, worker, helper, sawCancel>>

-------------------------------------------------------------------------------
SessionNext == destroy_session \/ \E d \in Device : create_session(d)

ExecuteNext(r) ==
    \/ ExecuteCheck(r) \/ ExecuteStart(r) \/ ExecuteBusy(r)
    \/ ExecuteResetReplay(r) \/ ExecuteLaunch(r) \/ ExecuteRegister(r)

(* The steps the run's thread takes without waiting for the agent, the      *)
(* device or a model call.                                                  *)
WorkerPrompt(r) ==
    \/ Attach(r) \/ AttachDeliver(r) \/ EnterCancelled(r) \/ Enter(r)
    \/ StrictAwaited(r) \/ CancelDelivered(r) \/ Returned(r)
    \/ Finish(r) \/ Fail(r) \/ Caught(r) \/ Cancelling(r)
    \/ ThreadCancelled(r) \/ ThreadEnds(r)

WorkerNext(r) ==
    \/ WorkerPrompt(r) \/ AgentEnds(r) \/ StrictEnds(r) \/ StrictMeetsCancel(r)

CancelHandler(c) == CancelPop(c) \/ HandleCancel(c) \/ CancelCheckDone(c) \/ CancelCall(c)

CancelNext(c) == CancelHandler(c) \/ \E r \in Request : CancelRequest(c, r)

Next ==
    \/ SessionNext
    \/ \E r \in Request : ExecuteNext(r) \/ WorkerNext(r)
    \/ \E c \in Canceller : CancelNext(c)

Spec == Init /\ [][Next]_vars

(* Threads are scheduled. An agent or a strict case need never end by       *)
(* itself, but a strict case reaches its next harness call, and with it the *)
(* cancellation check: drivers bound their waits.                           *)
Fairness ==
    /\ \A r \in Request : WF_vars(WorkerPrompt(r)) /\ WF_vars(StrictMeetsCancel(r))
    /\ \A c \in Canceller : WF_vars(CancelHandler(c))

FairSpec == Spec /\ Fairness

-------------------------------------------------------------------------------
(* Properties.                                                              *)

(* The busy flag, the one-task slot and the task statuses say the same      *)
(* thing although every ending (finish, error, cancel by a client, cancel   *)
(* seen by the run) updates them separately.                                *)
SlotMatchesRunning == \A r \in Request : status[r] = "running" <=> current = r

(* However a run ends - result, error, CancelledError, a cancellation it    *)
(* meets by polling - its task has left "running" by the time the coroutine *)
(* is over, so progress polling never waits on a dead run.                  *)
EndedIsSettled == \A r \in Request : TaskDone(r) => status[r] # "running"

(* /status shows as last run only a run that was reported finished: a       *)
(* result that arrives after the cancellation is dropped.                   *)
LastRunIsFinished == \A r \in Request : lastRun = r => status[r] = "finished"

(* The device a running task was launched on stays the selected one: the    *)
(* session endpoints cannot swap it from under the run.                     *)
SelectedDevice ==
    \A r \in Request : current = r /\ exec[r] \in {"spawned", "done"}
                          => device[r] = session

(* The request ids whose work is still using a device.                      *)
Driving == {r \in Request : worker[r] = "agent" \/ helper[r] = "running"}

(* Two runs overlap on the devices only while all but one of them are       *)
(* cancelled and still unwinding.                                           *)
OverlapOnlyCancelled == \A r, s \in Driving : r # s => cancelReq[r] \/ cancelReq[s]

(* A cancellation in flight towards the run of r.                           *)
CancelComing(r) ==
    \/ cancelQ[r]
    \/ worker[r] = "attaching" /\ sawCancel[r]
    \/ worker[r] = "boot" /\ hCancel[r]
    \/ \E c \in Canceller : /\ canceller[c].req = r
                            /\ \/ canceller[c].pc = "requested" /\ r \in handles
                               \/ canceller[c].pc \in {"popped", "checking", "calling"}

(* A cancelled run that has not reacted yet is always about to be told,     *)
(* whichever of attach() and cancel() took the handle's lock first and      *)
(* however many clients cancel at once.                                     *)
NoLostCancel ==
    \A r \in Request :
        cancelReq[r] /\ worker[r] \in {"boot", "attaching", "entry", "agent", "strict"}
            => CancelComing(r)

(* A task that left "running" keeps the status it left it with, whatever    *)
(* results, errors and cancellations arrive later.                          *)
TerminalStatusIsFinal ==
    [][\A r \in Request : status[r] \in {"finished", "error", "cancelled"}
                             => status'[r] = status[r]]_vars

(* The server implements the one-task lifecycle its clients rely on.        *)
Slot == INSTANCE TaskSlot
ImplementsTaskSlot == Slot!Spec

(* A cancelled run always ends, and stops using the device.                 *)
CancelStopsRun ==
    \A r \in Request : cancelReq[r] ~> (worker[r] = "end" /\ r \notin Driving)

(* Only one run uses the device at a time: start_task refuses with "Another *)
(* task is already running.", and the one-task lock is what the docs say    *)
(* keeps runs apart.                                                        *)
OneDriver == Cardinality(Driving) <= 1

(* The running task can be cancelled: its id reached, or will reach, the    *)
(* client.                                                                  *)
RunningIsCancellable == \A r \in Request : current = r => exec[r] # "died"
===============================================================================
