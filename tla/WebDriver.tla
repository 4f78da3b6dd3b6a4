------------------------------- MODULE WebDriver -------------------------------
(***************************************************************************)
(* PlaywrightWebDriver (core/harness/_playwright_driver.py): a browser whose *)
(* objects may be used only by the thread that made them, behind an executor *)
(* of one worker thread. The thread of the run and the server's threads that *)
(* take preview screenshots (playground/_server.py) share the driver, with  *)
(* no lock around _executor and page. Executors are numbered as they are    *)
(* made, and a number also stands for the executor's worker; 0 is None, or  *)
(* a caller's own thread.                                                  *)
(***************************************************************************)
EXTENDS Naturals, Sequences

CONSTANTS Preview,       \* server threads that answer GET /screenshot
          Runner,        \* the thread that executes the run's steps
          MaxExecutors   \* bound: executors made

ASSUME RunnerAssumption == Runner \notin Preview
ASSUME ExecutorsAssumption == MaxExecutors \in Nat

Thread == Preview \union {Runner}
Executor == 1..MaxExecutors

VARIABLES
    executor,  \* _executor
    made,      \* executors made so far
    shut,      \* executors that accept no more work
    queue,     \* work each executor has accepted, by who waits for it
    page,      \* page: the worker that made it
    held,      \* _playwright, _browser, _context: the worker that made them
    lost,      \* running browser objects that the driver no longer refers to
    call,      \* the call each thread is in: where, which, and on what executor
    failed,    \* history: the browser refused to start or to close
    strayed    \* history: a browser object was used outside its worker

browserVars == <<page, held, lost, failed, strayed>>
executorVars == <<executor, made, shut>>
vars == <<executorVars, queue, browserVars, call>>

PC == {"idle", "check", "reread", "submit", "direct", "queued",
       "returned", "raised", "shutdown", "joining"}
Op == {"context", "page", "startBrowser", "closeBrowser", "close"}
OnExecutor == {"submit", "queued", "shutdown", "joining"}
Call == [pc : PC, op : Op, on : 0..MaxExecutors]

(* In the order in which they are closed.                                   *)
Objects == <<"context", "browser", "playwright">>
ObjectsFrom(n) == {Objects[i] : i \in n..3}

(* Every variable has its type; the executor in use is one that still       *)
(* accepts work, and a call that is at an executor has one.                 *)
TypeOK ==
    /\ executor \in 0..MaxExecutors
    /\ made \in 0..MaxExecutors
    /\ shut \subseteq Executor /\ executor \notin shut
    /\ queue \in [Executor -> Seq(Thread)]
    /\ page \in 0..MaxExecutors
    /\ held \in 0..MaxExecutors
    /\ lost \subseteq (ObjectsFrom(1) \X Executor)
    /\ call \in [Thread -> Call]
    /\ \A t \in Thread : call[t].pc \in OnExecutor => call[t].on # 0
    /\ failed \in BOOLEAN
    /\ strayed \in BOOLEAN

Init ==
    /\ executor = 0 /\ made = 0 /\ shut = {}
    /\ queue = [e \in Executor |-> <<>>]
    /\ page = 0 /\ held = 0 /\ lost = {}
    /\ call = [t \in Thread |-> [pc |-> "idle", op |-> "context", on |-> 0]]
    /\ failed = FALSE /\ strayed = FALSE

Goto(t, pc) == call' = [call EXCEPT ![t].pc = pc]

-------------------------------------------------------------------------------
(* Calls. A preview asks for the context and, if it says that the browser   *)
(* is started, for a screenshot.                                            *)

Begin(t, op) ==
    /\ call[t].pc = "idle"
    /\ call' = [call EXCEPT ![t] = [pc |-> "check", op |-> op, on |-> 0]]

(* start_browser had it not asked whether there is an executor already.     *)
startBrowserOnNewExecutor ==
    /\ Begin(Runner, "startBrowser")
    /\ made < MaxExecutors
    /\ made' = made + 1
    /\ executor' = made'
    /\ UNCHANGED <<shut, queue, browserVars>>

startBrowser ==
    /\ Begin(Runner, "startBrowser")
    /\ IF page = 0 /\ executor = 0        \* _ensure_executor
       THEN /\ made < MaxExecutors
            /\ made' = made + 1
            /\ executor' = made'
       ELSE UNCHANGED <<made, executor>>
    /\ UNCHANGED <<shut, queue, browserVars>>

runnerCall(op) ==
    /\ Begin(Runner, op)
    /\ UNCHANGED <<executorVars, queue, browserVars>>

_web_screenshot_response(t) ==
    /\ Begin(t, "context")
    /\ UNCHANGED <<executorVars, queue, browserVars>>

-------------------------------------------------------------------------------
(* _run_sync reads _executor to compare it with None, and again to submit.  *)

CheckExecutor(t) ==
    /\ call[t].pc = "check"
    /\ Goto(t, IF executor = 0 THEN "direct" ELSE "reread")
    /\ UNCHANGED <<executorVars, queue, browserVars>>

(* None has no submit: the second read may raise.                           *)
RereadExecutor(t) ==
    /\ call[t].pc = "reread"
    /\ call' = [call EXCEPT ![t].pc = IF executor = 0 THEN "raised" ELSE "submit",
                            ![t].on = executor]
    /\ UNCHANGED <<executorVars, queue, browserVars>>

(* submit raises once the executor is shut down.                            *)
Submit(t) ==
    LET e == call[t].on IN
    /\ call[t].pc = "submit"
    /\ IF e \in shut
       THEN Goto(t, "raised") /\ UNCHANGED queue
       ELSE Goto(t, "queued") /\ queue' = [queue EXCEPT ![e] = Append(@, t)]
    /\ UNCHANGED <<executorVars, browserVars>>

-------------------------------------------------------------------------------
(* What a call does, on worker w (0: on the caller's own thread). Browser   *)
(* objects raise when another thread than their own uses them.              *)

(* What the driver refers to when it holds what worker w made.              *)
All(w) == IF w = 0 THEN {} ELSE ObjectsFrom(1) \X {w}

(* The page's url and viewport are kept in the page: reading them does not  *)
(* call the browser. A preview goes on only if the browser is started.      *)
_context_payload(t) ==
    /\ IF t \in Preview /\ page # 0
       THEN call' = [call EXCEPT ![t] = [pc |-> "check", op |-> "page", on |-> 0]]
       ELSE Goto(t, "returned")
    /\ UNCHANGED browserVars

(* screenshot, navigateTo and the other operations on the page. One that    *)
(* fails in the browser ends like one that succeeds.                        *)
UsePage(t, w) ==
    /\ \/ page = 0 /\ Goto(t, IF t = Runner THEN "returned" ELSE "raised")
       \/ page # 0 /\ page = w /\ Goto(t, "returned")
       \/ page # 0 /\ page # w /\ Goto(t, "raised")
    /\ strayed' = (strayed \/ (page # 0 /\ page # w))
    /\ UNCHANGED <<page, held, lost, failed>>

(* _create_page stores its objects when it has the context, and may still    *)
(* fail to make the page.                                                   *)
CreatePage(t, w) ==
    /\ page' = w /\ held' = w
    /\ lost' = lost \union All(held)
    /\ Goto(t, "returned")
    /\ UNCHANGED <<failed, strayed>>

CreatePageFails(t, w) ==
    /\ \/ \E made_ \in {{}, {"playwright"}, {"browser", "playwright"}} :
            lost' = lost \union (made_ \X {w}) /\ UNCHANGED held
       \/ lost' = lost \union All(held) /\ held' = w
    /\ failed' = TRUE
    /\ Goto(t, "raised")
    /\ UNCHANGED <<page, strayed>>

(* _start_browser without its test for a page.                              *)
_start_browser_anew(t, w) == CreatePage(t, w) \/ CreatePageFails(t, w)

_start_browser(t, w) ==
    \/ page # 0 /\ Goto(t, "returned") /\ UNCHANGED browserVars
    \/ page = 0 /\ (CreatePage(t, w) \/ CreatePageFails(t, w))

(* _close forgetting its finally.                                           *)
_close_without_finally(t, w) ==
    \E n \in IF w = held THEN 0..3 ELSE {0} :
       LET done == n = 3 \/ held = 0 IN
       /\ lost' = lost
       /\ page' = IF done THEN 0 ELSE page
       /\ held' = IF done THEN 0 ELSE held
       /\ failed' = (failed \/ ~done)
       /\ strayed' = (strayed \/ (held # 0 /\ w # held))
       /\ Goto(t, IF done THEN "returned" ELSE "raised")

(* The objects are closed in order until one raises (n: how many are        *)
(* closed); that one and those after it are abandoned.                      *)
_close(t, w) ==
    \E n \in IF held = 0 THEN {3}
             ELSE IF w = held THEN 0..3 ELSE {0} :
       LET left == ObjectsFrom(n + 1) IN
       /\ page' = 0 /\ held' = 0
       /\ lost' = lost \union (left \X {held})
       /\ failed' = (failed \/ left # {})
       /\ strayed' = (strayed \/ (held # 0 /\ w # held))
       /\ Goto(t, IF left = {} THEN "returned" ELSE "raised")

(* closeBrowser asks first whether there is anything to close; with nothing *)
(* there, _close does nothing.                                              *)
Perform(t, w) ==
    CASE call[t].op = "context" -> _context_payload(t)
      [] call[t].op = "page" -> UsePage(t, w)
      [] call[t].op = "startBrowser" -> _start_browser(t, w)
      [] OTHER -> _close(t, w)

(* The caller's own thread.                                                 *)
PerformDirectly(t) ==
    /\ call[t].pc = "direct"
    /\ Perform(t, 0)
    /\ UNCHANGED <<executorVars, queue>>

(* The worker of e.                                                         *)
Work(e) ==
    /\ queue[e] # <<>>
    /\ Perform(Head(queue[e]), e)
    /\ queue' = [queue EXCEPT ![e] = Tail(@)]
    /\ UNCHANGED executorVars

-------------------------------------------------------------------------------
(* How calls end.                                                           *)

(* Drops had every failed call dropped the executor when there is no page.  *)
DropsOnAnyFailure(t) ==
    call[t].op = "close" \/ (call[t].pc = "raised" /\ page = 0)

(* A start that failed without a page, and close, drop the executor.        *)
Drops(t) ==
    \/ call[t].op = "close"
    \/ call[t].op = "startBrowser" /\ call[t].pc = "raised" /\ page = 0

(* _shutdown_executor leaving the reference where it is.                    *)
DropExecutorKept(t) ==
    /\ call[t].pc \in {"returned", "raised"} /\ Drops(t)
    /\ call' = [call EXCEPT ![t].pc = IF executor = 0 THEN "idle" ELSE "shutdown",
                            ![t].on = executor]
    /\ UNCHANGED <<executorVars, queue, browserVars>>

(* _shutdown_executor: first the reference goes.                            *)
DropExecutor(t) ==
    /\ call[t].pc \in {"returned", "raised"} /\ Drops(t)
    /\ executor' = 0
    /\ call' = [call EXCEPT ![t].pc = IF executor = 0 THEN "idle" ELSE "shutdown",
                            ![t].on = executor]
    /\ UNCHANGED <<made, shut, queue, browserVars>>

(* A shutdown that forgets the work the executor has accepted.              *)
ShutdownDropping(t) ==
    /\ call[t].pc = "shutdown"
    /\ shut' = shut \union {call[t].on}
    /\ queue' = [queue EXCEPT ![call[t].on] = <<>>]
    /\ Goto(t, "joining")
    /\ UNCHANGED <<executor, made, browserVars>>

Shutdown(t) ==
    /\ call[t].pc = "shutdown"
    /\ shut' = shut \union {call[t].on}
    /\ Goto(t, "joining")
    /\ UNCHANGED <<executor, made, queue, browserVars>>

(* shutdown(wait=True): the worker finishes what was accepted.              *)
Join(t) ==
    /\ call[t].pc = "joining" /\ queue[call[t].on] = <<>>
    /\ Goto(t, "idle")
    /\ UNCHANGED <<executorVars, queue, browserVars>>

End(t) ==
    /\ call[t].pc \in {"returned", "raised"} /\ ~Drops(t)
    /\ Goto(t, "idle")
    /\ UNCHANGED <<executorVars, queue, browserVars>>

-------------------------------------------------------------------------------
Continue(t) ==
    \/ CheckExecutor(t) \/ RereadExecutor(t) \/ Submit(t) \/ PerformDirectly(t)
    \/ DropExecutor(t) \/ Shutdown(t) \/ Join(t) \/ End(t)

Next ==
    \/ startBrowser
    \/ \E op \in Op \ {"startBrowser"} : runnerCall(op)
    \/ \E t \in Preview : _web_screenshot_response(t)
    \/ \E t \in Thread : Continue(t)
    \/ \E e \in Executor : Work(e)

Spec == Init /\ [][Next]_vars

(* Threads and workers are scheduled; nobody has to make a call.            *)
FairSpec == Spec /\ (\A t \in Thread : WF_vars(Continue(t)))
                 /\ (\A e \in Executor : WF_vars(Work(e)))

-------------------------------------------------------------------------------
(* Properties                                                               *)

(* A page belongs to the worker of the current executor, and so do the      *)
(* objects the driver will close: as long as there is a page, whatever goes *)
(* through _run_sync reaches the thread it must run on. start_browser,      *)
(* close_browser and a failed start change the four fields at different     *)
(* moments and on different threads.                                        *)
PageOnItsWorker == page # 0 => page = executor /\ held = page

(* Previews come and go between any two steps of the driver, but a step of  *)
(* the run is never refused by an executor that went away under it: only    *)
(* the run's own thread drops executors, and only when it is done.          *)
RunKeepsItsExecutor ==
    /\ call[Runner].pc = "reread" => executor # 0
    /\ call[Runner].pc = "submit" => call[Runner].on = executor /\ executor \notin shut

(* The driver loses track of a running browser only when the browser failed *)
(* to start or to close: no order of startBrowser, closeBrowser and close   *)
(* replaces a browser that still runs.                                      *)
NothingLostUnlessFailed == ~failed => lost = {}

(* The page and browser objects are used by their own worker only.          *)
OneWorkerThread == ~strayed

(* Every call ends, whatever executor it was given and however it was shut. *)
CallsEnd == \A t \in Thread : call[t].pc # "idle" ~> call[t].pc = "idle"

===============================================================================
