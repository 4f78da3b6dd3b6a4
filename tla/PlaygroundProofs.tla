--------------------------- MODULE PlaygroundProofs ---------------------------
(***************************************************************************)
(* Proofs about Playground for any sets of requests, clients and devices.  *)
(***************************************************************************)
EXTENDS Playground, TLAPS

(* The thread and the coroutine still have their ending before them.        *)
Live(r) == worker[r] \in {"boot", "attaching", "entry", "agent", "strict",
                          "returned", "finishing", "failing", "caught", "cancelling"}

(* How far the /execute handler, the run and the task have come together:   *)
(* a task exists once start_task ran, its thread once the handler launched  *)
(* it, and while that thread is live only a cancellation can have ended the *)
(* task.                                                                    *)
Phases ==
    \A r \in Request :
        /\ exec[r] \in {"none", "checked", "refused"} <=> status[r] = "none"
        /\ exec[r] \in {"resetting", "launching", "died"} => status[r] = "running"
        /\ worker[r] = "off" <=> exec[r] \notin {"spawned", "done"}
        /\ exec[r] = "spawned" /\ Live(r) => status[r] = "running"
        /\ Live(r) => status[r] \in {"running", "cancelled"}
        /\ cancelReq[r] <=> status[r] = "cancelled"

Lifecycle ==
    SlotMatchesRunning /\ Phases /\ EndedIsSettled /\ LastRunIsFinished /\ SelectedDevice

-------------------------------------------------------------------------------
(* Every variable keeps its type, whatever the threads do.                  *)
THEOREM TypeCorrect == Spec => []TypeOK
<1>1. Init => TypeOK
  BY DEF Init, TypeOK, ExecPC, WorkerPC, HelperPC, CancelPC
<1>2. TypeOK /\ [Next]_vars => TypeOK'
  <2> SUFFICES ASSUME TypeOK, [Next]_vars PROVE TypeOK'
    OBVIOUS
  <2> USE DEF TypeOK, ExecPC, WorkerPC, HelperPC, CancelPC, stateVars, execVars,
              handleVars, workerVars
  <2>1. CASE UNCHANGED vars
    BY <2>1 DEF vars
  <2>2. CASE SessionNext
    BY <2>2 DEF SessionNext, destroy_session, create_session
  <2>3. ASSUME NEW r \in Request, ExecuteNext(r) PROVE TypeOK'
    <3>1. CASE ExecuteCheck(r)
      BY <3>1 DEF ExecuteCheck
    <3>2. CASE ExecuteStart(r)
      BY <3>2 DEF ExecuteStart, start_task
    <3>3. CASE ExecuteBusy(r)
      BY <3>3 DEF ExecuteBusy
    <3>4. CASE ExecuteResetReplay(r)
      BY <3>4 DEF ExecuteResetReplay
    <3>5. CASE ExecuteLaunch(r)
      BY <3>5 DEF ExecuteLaunch
    <3>6. CASE ExecuteRegister(r)
      BY <3>6 DEF ExecuteRegister
    <3> QED BY <2>3, <3>1, <3>2, <3>3, <3>4, <3>5, <3>6 DEF ExecuteNext
  <2>4. ASSUME NEW r \in Request, WorkerNext(r) PROVE TypeOK'
    <3>1. CASE Attach(r)
      BY <3>1, SMTT(30) DEF Attach
    <3>11. CASE AttachDeliver(r)
      BY <3>11, SMTT(30) DEF AttachDeliver
    <3>2. CASE EnterCancelled(r) \/ Enter(r)
      BY <3>2 DEF EnterCancelled, Enter
    <3>3. CASE AgentEnds(r)
      BY <3>3 DEF AgentEnds
    <3>4. CASE StrictEnds(r) \/ StrictMeetsCancel(r) \/ StrictAwaited(r)
      BY <3>4 DEF StrictEnds, StrictMeetsCancel, StrictAwaited
    <3>5. CASE CancelDelivered(r)
      BY <3>5 DEF CancelDelivered
    <3>51. CASE Returned(r) \/ ThreadEnds(r)
      BY <3>51 DEF Returned, ThreadEnds
    <3>6. CASE Finish(r)
      BY <3>6 DEF Finish, finish_task, FreeSlot
    <3>7. CASE Fail(r)
      BY <3>7 DEF Fail, fail_task, FreeSlot
    <3>8. CASE Caught(r)
      BY <3>8 DEF Caught, request_cancel, FreeSlot
    <3>81. CASE Cancelling(r)
      BY <3>81 DEF Cancelling, request_cancel, FreeSlot
    <3>82. CASE ThreadCancelled(r)
      BY <3>82 DEF ThreadCancelled, request_cancel, FreeSlot
    <3> QED
      BY <2>4, <3>1, <3>2, <3>3, <3>4, <3>5, <3>6, <3>7, <3>8, <3>11, <3>51, <3>81, <3>82
      DEF WorkerNext, WorkerPrompt
  <2>5. ASSUME NEW c \in Canceller, CancelNext(c) PROVE TypeOK'
    <3>1. ASSUME NEW r \in Request, CancelRequest(c, r) PROVE TypeOK'
      BY <3>1 DEF CancelRequest, request_cancel, FreeSlot
    <3>2. CASE CancelPop(c)
      BY <3>2 DEF CancelPop
    <3>3. CASE HandleCancel(c)
      <4>1. hCancel' \in [Request -> BOOLEAN]
        BY <3>3 DEF HandleCancel
      <4>2. canceller' \in [Canceller -> [pc : CancelPC, req : Request \cup {NoRequest}]]
        BY <3>3 DEF HandleCancel
      <4> QED BY <3>3, <4>1, <4>2 DEF HandleCancel
    <3>4. CASE CancelCheckDone(c)
      BY <3>4 DEF CancelCheckDone
    <3>5. CASE CancelCall(c)
      <4>1. cancelQ' \in [Request -> BOOLEAN]
        BY <3>5 DEF CancelCall
      <4>2. canceller' \in [Canceller -> [pc : CancelPC, req : Request \cup {NoRequest}]]
        BY <3>5 DEF CancelCall
      <4> QED BY <3>5, <4>1, <4>2 DEF CancelCall
    <3> QED BY <2>5, <3>1, <3>2, <3>3, <3>4, <3>5 DEF CancelNext, CancelHandler
  <2> QED BY <2>1, <2>2, <2>3, <2>4, <2>5 DEF Next
<1> QED BY <1>1, <1>2, PTL DEF Spec

-------------------------------------------------------------------------------
(* The slot, the statuses and the threads stay in step: the inductive       *)
(* invariant behind the safety properties about statuses and devices.       *)
THEOREM LifecycleInvariant == Spec => []Lifecycle
<1> USE NoRequestAssumption DEF TypeOK, Lifecycle, SlotMatchesRunning, Phases, Live,
        EndedIsSettled, LastRunIsFinished, SelectedDevice, TaskDone
<1>1. Init => Lifecycle
  BY DEF Init
<1>2. TypeOK /\ Lifecycle /\ [Next]_vars => Lifecycle'
  <2> SUFFICES ASSUME TypeOK, Lifecycle, [Next]_vars PROVE Lifecycle'
    OBVIOUS
  <2> USE DEF stateVars, execVars, handleVars, workerVars
  <2>1. CASE UNCHANGED vars
    BY <2>1 DEF vars
  <2>2. CASE SessionNext
    BY <2>2 DEF SessionNext, create_session, destroy_session
  <2>3. ASSUME NEW r \in Request, ExecuteCheck(r) PROVE Lifecycle'
    BY <2>3 DEF ExecuteCheck
  <2>4. ASSUME NEW r \in Request, ExecuteStart(r) PROVE Lifecycle'
    BY <2>4 DEF ExecuteStart, start_task
  <2>5. ASSUME NEW r \in Request, ExecuteBusy(r) PROVE Lifecycle'
    BY <2>5 DEF ExecuteBusy
  <2>6. ASSUME NEW r \in Request, ExecuteResetReplay(r) PROVE Lifecycle'
    BY <2>6 DEF ExecuteResetReplay
  <2>7. ASSUME NEW r \in Request, ExecuteLaunch(r) PROVE Lifecycle'
    BY <2>7 DEF ExecuteLaunch
  <2>8. ASSUME NEW r \in Request, ExecuteRegister(r) PROVE Lifecycle'
    BY <2>8 DEF ExecuteRegister
  <2>9. ASSUME NEW r \in Request, Attach(r) PROVE Lifecycle'
    BY <2>9 DEF Attach
  <2>10. ASSUME NEW r \in Request, AttachDeliver(r) PROVE Lifecycle'
    BY <2>10 DEF AttachDeliver
  <2>11. ASSUME NEW r \in Request, EnterCancelled(r) PROVE Lifecycle'
    BY <2>11 DEF EnterCancelled
  <2>12. ASSUME NEW r \in Request, Enter(r) PROVE Lifecycle'
    BY <2>12 DEF Enter
  <2>15. ASSUME NEW r \in Request, AgentEnds(r) PROVE Lifecycle'
    BY <2>15 DEF AgentEnds
  <2>16. ASSUME NEW r \in Request, StrictEnds(r) PROVE Lifecycle'
    BY <2>16 DEF StrictEnds
  <2>17. ASSUME NEW r \in Request, StrictMeetsCancel(r) PROVE Lifecycle'
    BY <2>17 DEF StrictMeetsCancel
  <2>18. ASSUME NEW r \in Request, StrictAwaited(r) PROVE Lifecycle'
    BY <2>18 DEF StrictAwaited
  <2>19. ASSUME NEW r \in Request, CancelDelivered(r) PROVE Lifecycle'
    BY <2>19 DEF CancelDelivered
  <2>20. ASSUME NEW r \in Request, Returned(r) PROVE Lifecycle'
    BY <2>20 DEF Returned
  <2>21. ASSUME NEW r \in Request, Finish(r) PROVE Lifecycle'
    BY <2>21 DEF Finish, finish_task, FreeSlot
  <2>22. ASSUME NEW r \in Request, Fail(r) PROVE Lifecycle'
    BY <2>22 DEF Fail, fail_task, FreeSlot
  <2>23. ASSUME NEW r \in Request, Caught(r) PROVE Lifecycle'
    BY <2>23 DEF Caught, request_cancel, FreeSlot
  <2>24. ASSUME NEW r \in Request, Cancelling(r) PROVE Lifecycle'
    BY <2>24 DEF Cancelling, request_cancel, FreeSlot
  <2>25. ASSUME NEW r \in Request, ThreadCancelled(r) PROVE Lifecycle'
    BY <2>25 DEF ThreadCancelled, request_cancel, FreeSlot
  <2>26. ASSUME NEW r \in Request, ThreadEnds(r) PROVE Lifecycle'
    BY <2>26 DEF ThreadEnds
  <2>27. ASSUME NEW c \in Canceller, NEW r \in Request, CancelRequest(c, r) PROVE Lifecycle'
    BY <2>27 DEF CancelRequest, request_cancel, FreeSlot
  <2>28. ASSUME NEW c \in Canceller, CancelPop(c) PROVE Lifecycle'
    BY <2>28 DEF CancelPop
  <2>29. ASSUME NEW c \in Canceller, HandleCancel(c) PROVE Lifecycle'
    BY <2>29 DEF HandleCancel
  <2>30. ASSUME NEW c \in Canceller, CancelCheckDone(c) PROVE Lifecycle'
    BY <2>30 DEF CancelCheckDone
  <2>31. ASSUME NEW c \in Canceller, CancelCall(c) PROVE Lifecycle'
    BY <2>31 DEF CancelCall
  <2> QED
    BY <2>1, <2>2, <2>3, <2>4, <2>5, <2>6, <2>7, <2>8, <2>9, <2>10, <2>11,
       <2>12, <2>15, <2>16, <2>17, <2>18, <2>19, <2>20, <2>21,
       <2>22, <2>23, <2>24, <2>25, <2>26, <2>27, <2>28, <2>29, <2>30, <2>31
    DEF Next, ExecuteNext, WorkerNext, WorkerPrompt, CancelNext, CancelHandler
<1> QED BY <1>1, <1>2, TypeCorrect, PTL DEF Spec

(* The slot, the busy flag and the statuses agree.                          *)
THEOREM SlotCorrect == Spec => []SlotMatchesRunning
BY LifecycleInvariant, PTL DEF Lifecycle

(* No run is over while its task still reads "running".                     *)
THEOREM EndedRunsSettled == Spec => []EndedIsSettled
BY LifecycleInvariant, PTL DEF Lifecycle

(* The last run is one that was reported finished.                          *)
THEOREM LastRunCorrect == Spec => []LastRunIsFinished
BY LifecycleInvariant, PTL DEF Lifecycle

(* The device of a running task stays the selected one.                     *)
THEOREM DeviceStaysSelected == Spec => []SelectedDevice
BY LifecycleInvariant, PTL DEF Lifecycle

-------------------------------------------------------------------------------
(* A step that changes no status leaves the abstract task table alone; one  *)
(* that changes a status starts or settles exactly one task.                *)
LEMMA SlotStep ==
    TypeOK /\ Lifecycle /\ [Next]_vars => [Slot!Next]_status
<1> SUFFICES ASSUME TypeOK, Lifecycle, [Next]_vars PROVE [Slot!Next]_status
  OBVIOUS
<1> USE NoRequestAssumption DEF TypeOK, Lifecycle, SlotMatchesRunning, Phases, Live,
        Slot!Next, Slot!Start, Slot!Settle, Slot!Terminal, stateVars
<1>1. CASE UNCHANGED vars
  BY <1>1 DEF vars
<1>2. CASE SessionNext
  BY <1>2 DEF SessionNext, create_session, destroy_session
<1>3. ASSUME NEW r \in Request, ExecuteCheck(r) PROVE [Slot!Next]_status
  BY <1>3 DEF ExecuteCheck
<1>4. ASSUME NEW r \in Request, ExecuteStart(r) PROVE [Slot!Next]_status
  <2>1. status[r] = "none" /\ \A s \in Request : status[s] # "running"
    BY <1>4 DEF ExecuteStart, start_task
  <2>2. status' = [status EXCEPT ![r] = "running"]
    BY <1>4 DEF ExecuteStart, start_task
  <2> QED BY <2>1, <2>2
<1>5. ASSUME NEW r \in Request, ExecuteBusy(r) PROVE [Slot!Next]_status
  BY <1>5 DEF ExecuteBusy
<1>6. ASSUME NEW r \in Request, ExecuteResetReplay(r) PROVE [Slot!Next]_status
  BY <1>6 DEF ExecuteResetReplay
<1>7. ASSUME NEW r \in Request, ExecuteLaunch(r) PROVE [Slot!Next]_status
  BY <1>7 DEF ExecuteLaunch
<1>8. ASSUME NEW r \in Request, ExecuteRegister(r) PROVE [Slot!Next]_status
  BY <1>8 DEF ExecuteRegister
<1>9. ASSUME NEW r \in Request, Attach(r) PROVE [Slot!Next]_status
  BY <1>9 DEF Attach
<1>10. ASSUME NEW r \in Request, AttachDeliver(r) PROVE [Slot!Next]_status
  BY <1>10 DEF AttachDeliver
<1>11. ASSUME NEW r \in Request, EnterCancelled(r) PROVE [Slot!Next]_status
  BY <1>11 DEF EnterCancelled
<1>12. ASSUME NEW r \in Request, Enter(r) PROVE [Slot!Next]_status
  BY <1>12 DEF Enter
<1>15. ASSUME NEW r \in Request, AgentEnds(r) PROVE [Slot!Next]_status
  BY <1>15 DEF AgentEnds
<1>16. ASSUME NEW r \in Request, StrictEnds(r) PROVE [Slot!Next]_status
  BY <1>16 DEF StrictEnds
<1>17. ASSUME NEW r \in Request, StrictMeetsCancel(r) PROVE [Slot!Next]_status
  BY <1>17 DEF StrictMeetsCancel
<1>18. ASSUME NEW r \in Request, StrictAwaited(r) PROVE [Slot!Next]_status
  BY <1>18 DEF StrictAwaited
<1>19. ASSUME NEW r \in Request, CancelDelivered(r) PROVE [Slot!Next]_status
  BY <1>19 DEF CancelDelivered
<1>20. ASSUME NEW r \in Request, Returned(r) PROVE [Slot!Next]_status
  BY <1>20 DEF Returned
<1>21. ASSUME NEW r \in Request, Finish(r) PROVE [Slot!Next]_status
  BY <1>21 DEF Finish, finish_task, FreeSlot
<1>22. ASSUME NEW r \in Request, Fail(r) PROVE [Slot!Next]_status
  BY <1>22 DEF Fail, fail_task, FreeSlot
<1>23. ASSUME NEW r \in Request, Caught(r) PROVE [Slot!Next]_status
  BY <1>23 DEF Caught, request_cancel, FreeSlot
<1>24. ASSUME NEW r \in Request, Cancelling(r) PROVE [Slot!Next]_status
  BY <1>24 DEF Cancelling, request_cancel, FreeSlot
<1>25. ASSUME NEW r \in Request, ThreadCancelled(r) PROVE [Slot!Next]_status
  BY <1>25 DEF ThreadCancelled, request_cancel, FreeSlot
<1>26. ASSUME NEW r \in Request, ThreadEnds(r) PROVE [Slot!Next]_status
  BY <1>26 DEF ThreadEnds
<1>27. ASSUME NEW c \in Canceller, NEW r \in Request, CancelRequest(c, r) PROVE [Slot!Next]_status
  BY <1>27 DEF CancelRequest, request_cancel, FreeSlot
<1>28. ASSUME NEW c \in Canceller, CancelPop(c) PROVE [Slot!Next]_status
  BY <1>28 DEF CancelPop
<1>29. ASSUME NEW c \in Canceller, HandleCancel(c) PROVE [Slot!Next]_status
  BY <1>29 DEF HandleCancel
<1>30. ASSUME NEW c \in Canceller, CancelCheckDone(c) PROVE [Slot!Next]_status
  BY <1>30 DEF CancelCheckDone
<1>31. ASSUME NEW c \in Canceller, CancelCall(c) PROVE [Slot!Next]_status
  BY <1>31 DEF CancelCall
<1> QED
  BY <1>1, <1>2, <1>3, <1>4, <1>5, <1>6, <1>7, <1>8, <1>9, <1>10, <1>11,
     <1>12, <1>15, <1>16, <1>17, <1>18, <1>19, <1>20, <1>21,
     <1>22, <1>23, <1>24, <1>25, <1>26, <1>27, <1>28, <1>29, <1>30, <1>31
  DEF Next, ExecuteNext, WorkerNext, WorkerPrompt, CancelNext, CancelHandler

(* The playground implements the one-task lifecycle.                        *)
THEOREM SlotRefinement == Spec => ImplementsTaskSlot
<1>1. Init => Slot!Init
  BY DEF Init, Slot!Init
<1> QED
  BY <1>1, SlotStep, TypeCorrect, LifecycleInvariant, PTL DEF Spec, ImplementsTaskSlot, Slot!Spec

(* A settled task keeps its status for ever.                                *)
THEOREM SettledForEver == Spec => TerminalStatusIsFinal
<1> DEFINE Keeps == \A r \in Request : status[r] \in {"finished", "error", "cancelled"}
                                          => status'[r] = status[r]
<1>1. TypeOK /\ [Slot!Next]_status => Keeps
  BY DEF TypeOK, Slot!Next, Slot!Start, Slot!Settle, Slot!Terminal
<1>2. TypeOK /\ Lifecycle /\ [Next]_vars => [Keeps]_vars
  BY <1>1, SlotStep
<1> QED BY <1>2, TypeCorrect, LifecycleInvariant, PTL DEF Spec, TerminalStatusIsFinal

-------------------------------------------------------------------------------
(* Where the handle of a run is: attached once its thread attached it,      *)
(* stored for as long as a client may be the first to cancel the run, and   *)
(* touched by clients only for runs that left "running".                    *)
Handles ==
    /\ \A r \in Request : /\ hAttached[r] <=> worker[r] \notin {"off", "boot"}
                          /\ status[r] = "running" /\ exec[r] = "done" => r \in handles
    /\ \A c \in Canceller : canceller[c].pc # "idle"
                               => /\ canceller[c].req \in Request
                                  /\ status[canceller[c].req] # "running"
                                  /\ exec[canceller[c].req] = "done"

CancelInv == Handles /\ NoLostCancel

(* The inductive invariant behind NoLostCancel.                             *)
THEOREM CancelInvariant == Spec => []CancelInv
<1> USE NoRequestAssumption DEF TypeOK, Lifecycle, SlotMatchesRunning, Phases, Live,
        CancelInv, Handles, NoLostCancel, CancelComing
<1>1. Init => CancelInv
  BY DEF Init
<1>2. TypeOK /\ Lifecycle /\ CancelInv /\ [Next]_vars => CancelInv'
  <2> SUFFICES ASSUME TypeOK, Lifecycle, CancelInv, [Next]_vars PROVE CancelInv'
    OBVIOUS
  <2> USE DEF stateVars, execVars, handleVars, workerVars, TaskDone
  <2>1. CASE UNCHANGED vars
    BY <2>1 DEF vars
  <2>2. CASE SessionNext
    BY <2>2 DEF SessionNext, create_session, destroy_session
  <2>3. ASSUME NEW r \in Request, ExecuteCheck(r) PROVE CancelInv'
    BY <2>3 DEF ExecuteCheck
  <2>4. ASSUME NEW r \in Request, ExecuteStart(r) PROVE CancelInv'
    BY <2>4 DEF ExecuteStart, start_task
  <2>5. ASSUME NEW r \in Request, ExecuteBusy(r) PROVE CancelInv'
    BY <2>5 DEF ExecuteBusy
  <2>6. ASSUME NEW r \in Request, ExecuteResetReplay(r) PROVE CancelInv'
    BY <2>6 DEF ExecuteResetReplay
  <2>7. ASSUME NEW r \in Request, ExecuteLaunch(r) PROVE CancelInv'
    BY <2>7 DEF ExecuteLaunch
  <2>8. ASSUME NEW r \in Request, ExecuteRegister(r) PROVE CancelInv'
    BY <2>8 DEF ExecuteRegister
  <2>9. ASSUME NEW r \in Request, Attach(r) PROVE CancelInv'
    BY <2>9 DEF Attach
  <2>10. ASSUME NEW r \in Request, AttachDeliver(r) PROVE CancelInv'
    BY <2>10 DEF AttachDeliver
  <2>11. ASSUME NEW r \in Request, EnterCancelled(r) PROVE CancelInv'
    BY <2>11 DEF EnterCancelled
  <2>12. ASSUME NEW r \in Request, Enter(r) PROVE CancelInv'
    BY <2>12 DEF Enter
  <2>15. ASSUME NEW r \in Request, AgentEnds(r) PROVE CancelInv'
    BY <2>15 DEF AgentEnds
  <2>16. ASSUME NEW r \in Request, StrictEnds(r) PROVE CancelInv'
    BY <2>16 DEF StrictEnds
  <2>17. ASSUME NEW r \in Request, StrictMeetsCancel(r) PROVE CancelInv'
    BY <2>17 DEF StrictMeetsCancel
  <2>18. ASSUME NEW r \in Request, StrictAwaited(r) PROVE CancelInv'
    BY <2>18 DEF StrictAwaited
  <2>19. ASSUME NEW r \in Request, CancelDelivered(r) PROVE CancelInv'
    BY <2>19 DEF CancelDelivered
  <2>20. ASSUME NEW r \in Request, Returned(r) PROVE CancelInv'
    BY <2>20 DEF Returned
  <2>21. ASSUME NEW r \in Request, Finish(r) PROVE CancelInv'
    BY <2>21 DEF Finish, finish_task, FreeSlot
  <2>22. ASSUME NEW r \in Request, Fail(r) PROVE CancelInv'
    BY <2>22 DEF Fail, fail_task, FreeSlot
  <2>23. ASSUME NEW r \in Request, Caught(r) PROVE CancelInv'
    BY <2>23 DEF Caught, request_cancel, FreeSlot
  <2>24. ASSUME NEW r \in Request, Cancelling(r) PROVE CancelInv'
    BY <2>24 DEF Cancelling, request_cancel, FreeSlot
  <2>25. ASSUME NEW r \in Request, ThreadCancelled(r) PROVE CancelInv'
    BY <2>25 DEF ThreadCancelled, request_cancel, FreeSlot
  <2>26. ASSUME NEW r \in Request, ThreadEnds(r) PROVE CancelInv'
    BY <2>26 DEF ThreadEnds
  <2>27. ASSUME NEW c \in Canceller, NEW r \in Request, CancelRequest(c, r) PROVE CancelInv'
    <3>1. /\ canceller[c].pc = "idle" /\ exec[r] = "done"
          /\ canceller' = [canceller EXCEPT ![c] = [pc |-> "requested", req |-> r]]
          /\ UNCHANGED <<exec, handleVars, workerVars>>
      BY <2>27 DEF CancelRequest
    <3>2. /\ \A s \in Request : s # r => status'[s] = status[s] /\ cancelReq'[s] = cancelReq[s]
          /\ status'[r] # "running"
          /\ cancelReq'[r] => cancelReq[r] \/ status[r] = "running"
      BY <2>27 DEF CancelRequest, request_cancel
    <3>3. Handles'
      BY <3>1, <3>2
    <3>4. ASSUME NEW s \in Request, CancelComing(s) PROVE CancelComing(s)'
      BY <3>1, <3>4
    <3>5. status[r] = "running" => CancelComing(r)'
      BY <3>1
    <3> QED BY <3>1, <3>2, <3>3, <3>4, <3>5
  <2>28. ASSUME NEW c \in Canceller, CancelPop(c) PROVE CancelInv'
    BY <2>28 DEF CancelPop
  <2>29. ASSUME NEW c \in Canceller, HandleCancel(c) PROVE CancelInv'
    BY <2>29 DEF HandleCancel
  <2>30. ASSUME NEW c \in Canceller, CancelCheckDone(c) PROVE CancelInv'
    BY <2>30 DEF CancelCheckDone
  <2>31. ASSUME NEW c \in Canceller, CancelCall(c) PROVE CancelInv'
    <3> DEFINE q == canceller[c].req
    <3>1. q \in Request
      BY <2>31 DEF CancelCall
    <3>2. Handles'
      BY <2>31 DEF CancelCall
    <3>3. CASE worker[q] = "end"
      BY <2>31, <3>1, <3>2, <3>3 DEF CancelCall
    <3>4. CASE worker[q] # "end"
      <4>1. /\ cancelQ' = [cancelQ EXCEPT ![q] = TRUE]
            /\ canceller' = [canceller EXCEPT ![c].pc = "idle"]
            /\ UNCHANGED <<stateVars, handleVars, worker, sawCancel>>
        BY <2>31, <3>4 DEF CancelCall
      <4>2. ASSUME NEW r \in Request, CancelComing(r), r # q PROVE CancelComing(r)'
        BY <3>1, <4>1, <4>2
      <4>3. CancelComing(q)'
        BY <3>1, <4>1
      <4> QED BY <3>1, <3>2, <4>1, <4>2, <4>3
    <3> QED BY <3>3, <3>4
  <2> QED
    BY <2>1, <2>2, <2>3, <2>4, <2>5, <2>6, <2>7, <2>8, <2>9, <2>10, <2>11,
       <2>12, <2>15, <2>16, <2>17, <2>18, <2>19, <2>20, <2>21,
       <2>22, <2>23, <2>24, <2>25, <2>26, <2>27, <2>28, <2>29, <2>30, <2>31
    DEF Next, ExecuteNext, WorkerNext, WorkerPrompt, CancelNext, CancelHandler
<1> QED BY <1>1, <1>2, TypeCorrect, LifecycleInvariant, PTL DEF Spec

(* No interleaving of attach(), cancel() and the registration of the handle *)
(* loses a cancellation.                                                    *)
THEOREM CancelNeverLost == Spec => []NoLostCancel
BY CancelInvariant, PTL DEF CancelInv

-------------------------------------------------------------------------------
(* A cancel call is queued on a loop only for a task that left "running",   *)
(* so a helper thread outlives its await only once its task is cancelled.   *)
HelperInv ==
    \A r \in Request :
        /\ cancelQ[r] \/ sawCancel[r] \/ hCancel[r] => status[r] \notin {"none", "running"}
        /\ helper[r] = "running" => worker[r] = "strict" \/ cancelReq[r]

(* Of two runs that use the devices at once, at least one is cancelled.     *)
THEOREM OverlapSafe == Spec => []OverlapOnlyCancelled
<1> USE NoRequestAssumption DEF TypeOK, Lifecycle, SlotMatchesRunning, Phases, Live,
        CancelInv, Handles, HelperInv
<1>1. Init => HelperInv
  BY DEF Init
<1>2. TypeOK /\ Lifecycle /\ CancelInv /\ HelperInv /\ [Next]_vars => HelperInv'
  <2> SUFFICES ASSUME TypeOK, Lifecycle, CancelInv, HelperInv, [Next]_vars
               PROVE HelperInv'
    OBVIOUS
  <2> USE DEF stateVars, execVars, handleVars, workerVars, TaskDone
  <2>1. CASE UNCHANGED vars
    BY <2>1 DEF vars
  <2>2. CASE SessionNext
    BY <2>2 DEF SessionNext, create_session, destroy_session
  <2>3. ASSUME NEW r \in Request, ExecuteCheck(r) PROVE HelperInv'
    BY <2>3 DEF ExecuteCheck
  <2>4. ASSUME NEW r \in Request, ExecuteStart(r) PROVE HelperInv'
    BY <2>4 DEF ExecuteStart, start_task
  <2>5. ASSUME NEW r \in Request, ExecuteBusy(r) PROVE HelperInv'
    BY <2>5 DEF ExecuteBusy
  <2>6. ASSUME NEW r \in Request, ExecuteResetReplay(r) PROVE HelperInv'
    BY <2>6 DEF ExecuteResetReplay
  <2>7. ASSUME NEW r \in Request, ExecuteLaunch(r) PROVE HelperInv'
    BY <2>7 DEF ExecuteLaunch
  <2>8. ASSUME NEW r \in Request, ExecuteRegister(r) PROVE HelperInv'
    BY <2>8 DEF ExecuteRegister
  <2>9. ASSUME NEW r \in Request, Attach(r) PROVE HelperInv'
    BY <2>9 DEF Attach
  <2>10. ASSUME NEW r \in Request, AttachDeliver(r) PROVE HelperInv'
    BY <2>10 DEF AttachDeliver
  <2>11. ASSUME NEW r \in Request, EnterCancelled(r) PROVE HelperInv'
    BY <2>11 DEF EnterCancelled
  <2>12. ASSUME NEW r \in Request, Enter(r) PROVE HelperInv'
    BY <2>12 DEF Enter
  <2>15. ASSUME NEW r \in Request, AgentEnds(r) PROVE HelperInv'
    BY <2>15 DEF AgentEnds
  <2>16. ASSUME NEW r \in Request, StrictEnds(r) PROVE HelperInv'
    BY <2>16 DEF StrictEnds
  <2>17. ASSUME NEW r \in Request, StrictMeetsCancel(r) PROVE HelperInv'
    BY <2>17 DEF StrictMeetsCancel
  <2>18. ASSUME NEW r \in Request, StrictAwaited(r) PROVE HelperInv'
    BY <2>18 DEF StrictAwaited
  <2>19. ASSUME NEW r \in Request, CancelDelivered(r) PROVE HelperInv'
    BY <2>19 DEF CancelDelivered
  <2>20. ASSUME NEW r \in Request, Returned(r) PROVE HelperInv'
    BY <2>20 DEF Returned
  <2>21. ASSUME NEW r \in Request, Finish(r) PROVE HelperInv'
    BY <2>21 DEF Finish, finish_task, FreeSlot
  <2>22. ASSUME NEW r \in Request, Fail(r) PROVE HelperInv'
    BY <2>22 DEF Fail, fail_task, FreeSlot
  <2>23. ASSUME NEW r \in Request, Caught(r) PROVE HelperInv'
    BY <2>23 DEF Caught, request_cancel, FreeSlot
  <2>24. ASSUME NEW r \in Request, Cancelling(r) PROVE HelperInv'
    BY <2>24 DEF Cancelling, request_cancel, FreeSlot
  <2>25. ASSUME NEW r \in Request, ThreadCancelled(r) PROVE HelperInv'
    BY <2>25 DEF ThreadCancelled, request_cancel, FreeSlot
  <2>26. ASSUME NEW r \in Request, ThreadEnds(r) PROVE HelperInv'
    BY <2>26 DEF ThreadEnds
  <2>27. ASSUME NEW c \in Canceller, NEW r \in Request, CancelRequest(c, r) PROVE HelperInv'
    BY <2>27 DEF CancelRequest, request_cancel, FreeSlot
  <2>28. ASSUME NEW c \in Canceller, CancelPop(c) PROVE HelperInv'
    BY <2>28 DEF CancelPop
  <2>29. ASSUME NEW c \in Canceller, HandleCancel(c) PROVE HelperInv'
    BY <2>29 DEF HandleCancel
  <2>30. ASSUME NEW c \in Canceller, CancelCheckDone(c) PROVE HelperInv'
    BY <2>30 DEF CancelCheckDone
  <2>31. ASSUME NEW c \in Canceller, CancelCall(c) PROVE HelperInv'
    BY <2>31 DEF CancelCall
  <2> QED
    BY <2>1, <2>2, <2>3, <2>4, <2>5, <2>6, <2>7, <2>8, <2>9, <2>10, <2>11,
       <2>12, <2>15, <2>16, <2>17, <2>18, <2>19, <2>20, <2>21,
       <2>22, <2>23, <2>24, <2>25, <2>26, <2>27, <2>28, <2>29, <2>30, <2>31
    DEF Next, ExecuteNext, WorkerNext, WorkerPrompt, CancelNext, CancelHandler
<1>3. TypeOK /\ Lifecycle /\ HelperInv => OverlapOnlyCancelled
  BY DEF OverlapOnlyCancelled, Driving
<1> QED BY <1>1, <1>2, <1>3, TypeCorrect, LifecycleInvariant, CancelInvariant, PTL DEF Spec
===============================================================================
