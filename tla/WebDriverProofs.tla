---------------------------- MODULE WebDriverProofs ----------------------------
(***************************************************************************)
(* That the page stays with the worker that made it, that the run keeps its *)
(* executor, and that a browser is lost only when it fails, for any number  *)
(* of previews and of executors.                                           *)
(***************************************************************************)
EXTENDS WebDriver, TLAPS

(* The executor in use is the last one made.                                *)
ExecutorInv ==
    /\ executor # 0 => executor = made /\ executor \notin shut
    /\ \A e \in shut : e <= made
    /\ executor <= made

(* Previews only look; what the run's call knows of the executor is true,   *)
(* and a start always has one.                                              *)
CallerInv ==
    /\ \A t \in Preview : call[t].op \in {"context", "page"}
    /\ \A t \in Preview : call[t].pc \notin {"shutdown", "joining"}
    /\ call[Runner].pc = "reread" => executor # 0
    /\ call[Runner].pc \in {"submit", "queued"} => call[Runner].on = executor
    /\ call[Runner].pc \in {"shutdown", "joining"} =>
          executor = 0 /\ call[Runner].on <= made
    /\ call[Runner].op = "startBrowser" =>
          /\ call[Runner].pc # "direct"
          /\ call[Runner].pc = "check" => executor # 0
    /\ (call[Runner].op = "close" /\ call[Runner].pc \in {"returned", "raised"})
          => page = 0

(* Queues hold the calls that wait in them, each once.                      *)
QueueInv ==
    \A e \in Executor :
        /\ \A i \in 1..Len(queue[e]) :
              call[queue[e][i]].pc = "queued" /\ call[queue[e][i]].on = e
        /\ \A i, j \in 1..Len(queue[e]) : queue[e][i] = queue[e][j] => i = j

(* Nothing is lost before a failure, and what is held is the page's.        *)
BrowserInv ==
    /\ PageOnItsWorker
    /\ ~failed => lost = {} /\ held = page

Inv == TypeOK /\ ExecutorInv /\ CallerInv /\ QueueInv /\ BrowserInv

-------------------------------------------------------------------------------
(* The initial states satisfy it.                                           *)
LEMMA InitInv == Init => Inv
<1> USE RunnerAssumption, ExecutorsAssumption
<1> SUFFICES ASSUME Init PROVE Inv
  OBVIOUS
<1>1. [pc |-> "idle", op |-> "context", on |-> 0] \in Call
  BY DEF Call, PC, Op
<1>2. TypeOK
  <2>1. call \in [Thread -> Call]
    BY <1>1 DEF Init
  <2>2. \A t \in Thread : call[t].pc \in OnExecutor => call[t].on # 0
    BY DEF Init, OnExecutor
  <2>3. queue \in [Executor -> Seq(Thread)]
    BY DEF Init
  <2>4. /\ executor = 0 /\ made = 0 /\ page = 0 /\ held = 0 /\ 0 \in 0..MaxExecutors
        /\ shut = {} /\ failed = FALSE /\ strayed = FALSE
    BY DEF Init
  <2>5. lost \subseteq (ObjectsFrom(1) \X Executor)
    BY DEF Init
  <2>6. QED  BY <2>1, <2>2, <2>3, <2>4, <2>5 DEF TypeOK
<1>3. ExecutorInv /\ BrowserInv /\ QueueInv
  BY DEF Init, ExecutorInv, BrowserInv, PageOnItsWorker, QueueInv
<1>4. CallerInv
  BY DEF Init, CallerInv, Thread
<1>5. QED  BY <1>2, <1>3, <1>4 DEF Inv

(* What a call does: only the run's starts and closes change the browser,   *)
(* and they keep the page with its worker.                                  *)
LEMMA ObjectsInOrder ==
    /\ ObjectsFrom(1) = {"context", "browser", "playwright"}
    /\ ObjectsFrom(4) = {}
    /\ \A n \in 0..3 : ObjectsFrom(n + 1) \subseteq ObjectsFrom(1)
    /\ \A n \in 0..2 : ObjectsFrom(n + 1) # {}
<1>1. ObjectsFrom(1) = {"context", "browser", "playwright"}
  BY DEF ObjectsFrom, Objects
<1>2. ObjectsFrom(4) = {}
  BY DEF ObjectsFrom
<1>3. \A n \in 0..3 : ObjectsFrom(n + 1) \subseteq ObjectsFrom(1)
  BY DEF ObjectsFrom
<1>4. ASSUME NEW n \in 0..2 PROVE Objects[n + 1] \in ObjectsFrom(n + 1)
  BY DEF ObjectsFrom
<1>5. QED  BY <1>1, <1>2, <1>3, <1>4

(* What Perform(t, w) may do: t's call moves on, and the objects change as  *)
(* one of the run's calls changes them.                                     *)
CallEffect(t) ==
    \E c \in Call :
       /\ call' = [call EXCEPT ![t] = c]
       /\ \/ c.pc \in {"returned", "raised"} /\ c.op = call[t].op
          \/ t \in Preview /\ c.pc = "check" /\ c.op = "page"

HistoryEffect ==
    /\ lost' \subseteq ObjectsFrom(1) \X Executor
    /\ failed' \in BOOLEAN /\ strayed' \in BOOLEAN
    /\ ~failed' => ~failed /\ lost' = {} /\ held' = page'

PageEffect(t, w) ==
    \/ page' = page /\ held' = held /\ call[t].op # "close"
    \/ t = Runner /\ page = 0 /\ page' = 0 /\ held' = w /\ call[t].op # "close"
    \/ t = Runner /\ page' = 0 /\ held' = 0
    \/ t = Runner /\ call[t].op = "startBrowser" /\ page' = w /\ held' = w

Effect(t, w) == CallEffect(t) /\ HistoryEffect /\ PageEffect(t, w)

LEMMA PerformEffect ==
    ASSUME Inv, NEW t \in Thread, NEW w \in 0..MaxExecutors, Perform(t, w),
           call[t].op = "startBrowser" => w # 0
    PROVE  Effect(t, w)
<1> USE ExecutorsAssumption, RunnerAssumption
<1>1. call[t] \in Call /\ call \in [Thread -> Call]
  BY DEF Inv, TypeOK
<1>2. ASSUME NEW pc \in {"returned", "raised"}, Goto(t, pc)
      PROVE  CallEffect(t)
  <2>1. [call[t] EXCEPT !.pc = pc] \in Call
    BY <1>1 DEF Call, PC
  <2>2. call' = [call EXCEPT ![t] = [call[t] EXCEPT !.pc = pc]]
    BY <1>1, <1>2 DEF Goto
  <2>3. [call[t] EXCEPT !.pc = pc].pc = pc /\ [call[t] EXCEPT !.pc = pc].op = call[t].op
    BY <1>1 DEF Call
  <2>4. QED  BY <2>1, <2>2, <2>3 DEF CallEffect
<1>3. ASSUME UNCHANGED browserVars, call[t].op # "close"
      PROVE  HistoryEffect /\ PageEffect(t, w)
  BY <1>3 DEF browserVars, HistoryEffect, PageEffect, Inv, BrowserInv, TypeOK
<1>4. CASE call[t].op = "context"
  <2>1. _context_payload(t)
    BY <1>4 DEF Perform
  <2>2. CallEffect(t)
    <3>1. CASE t \in Preview /\ page # 0
      <4>1. [pc |-> "check", op |-> "page", on |-> 0] \in Call
        BY DEF Call, PC, Op
      <4>2. QED  BY <2>1, <3>1, <4>1 DEF _context_payload, CallEffect
    <3>2. CASE ~(t \in Preview /\ page # 0)
      BY <2>1, <3>2, <1>2 DEF _context_payload
    <3>3. QED  BY <3>1, <3>2
  <2>3. QED  BY <2>1, <2>2, <1>3, <1>4 DEF _context_payload, Effect
<1>5. CASE call[t].op = "page"
  <2>1. UsePage(t, w)
    BY <1>5 DEF Perform
  <2>2. \E pc \in {"returned", "raised"} : Goto(t, pc)
    BY <2>1 DEF UsePage
  <2>3. strayed' \in BOOLEAN
    BY <2>1 DEF UsePage
  <2>4. HistoryEffect /\ PageEffect(t, w)
    BY <2>1, <2>3, <1>5
    DEF UsePage, HistoryEffect, PageEffect, Inv, BrowserInv, TypeOK
  <2>5. QED  BY <2>2, <2>4, <1>2 DEF Effect
<1>6. CASE call[t].op = "startBrowser"
  <2>1. _start_browser(t, w)
    BY <1>6 DEF Perform
  <2>2. t = Runner /\ w \in Executor
    BY <1>6 DEF Inv, CallerInv, Thread, Executor
  <2>3. All(held) \subseteq ObjectsFrom(1) \X Executor
    BY DEF Inv, TypeOK, All, Executor
  <2>4. CASE page # 0 /\ Goto(t, "returned") /\ UNCHANGED browserVars
    BY <2>4, <1>2, <1>3, <1>6 DEF Effect
  <2>5. CASE page = 0 /\ CreatePage(t, w)
    <3>1. ~failed => lost = {} /\ All(held) = {}
      BY <2>5 DEF Inv, BrowserInv, All
    <3>2. HistoryEffect
      BY <2>3, <2>5, <3>1 DEF CreatePage, HistoryEffect, Inv, TypeOK
    <3>3. PageEffect(t, w) /\ Goto(t, "returned")
      BY <2>2, <2>5, <1>6 DEF CreatePage, PageEffect
    <3>4. QED  BY <3>2, <3>3, <1>2 DEF Effect
  <2>6. CASE page = 0 /\ CreatePageFails(t, w)
    <3>1. lost' \subseteq ObjectsFrom(1) \X Executor
      <4>1. ASSUME NEW made_ \in {{}, {"playwright"}, {"browser", "playwright"}}
            PROVE  made_ \X {w} \subseteq ObjectsFrom(1) \X Executor
        BY <2>2, ObjectsInOrder
      <4>2. QED  BY <2>3, <2>6, <4>1 DEF CreatePageFails, Inv, TypeOK
    <3>2. HistoryEffect
      BY <2>6, <3>1 DEF CreatePageFails, HistoryEffect, Inv, TypeOK
    <3>3. PageEffect(t, w) /\ Goto(t, "raised")
      BY <2>2, <2>6, <1>6 DEF CreatePageFails, PageEffect
    <3>4. QED  BY <3>2, <3>3, <1>2 DEF Effect
  <2>7. QED  BY <2>1, <2>4, <2>5, <2>6 DEF _start_browser
<1>7. CASE call[t].op \in {"closeBrowser", "close"}
  <2>1. _close(t, w) /\ t = Runner
    BY <1>7 DEF Perform, Inv, CallerInv, Thread
  <2>2. PICK n \in 0..3 :
           /\ held = 0 => n = 3
           /\ page' = 0 /\ held' = 0
           /\ lost' = lost \union (ObjectsFrom(n + 1) \X {held})
           /\ failed' = (failed \/ ObjectsFrom(n + 1) # {})
           /\ strayed' = (strayed \/ (held # 0 /\ w # held))
           /\ Goto(t, IF ObjectsFrom(n + 1) = {} THEN "returned" ELSE "raised")
    BY <2>1 DEF _close
  <2>3. lost' \subseteq ObjectsFrom(1) \X Executor
    <3>1. CASE held = 0
      BY <3>1, <2>2, ObjectsInOrder DEF Inv, TypeOK
    <3>2. CASE held # 0
      <4>1. held \in Executor
        BY <3>2 DEF Inv, TypeOK, Executor
      <4>2. ObjectsFrom(n + 1) \X {held} \subseteq ObjectsFrom(1) \X Executor
        BY <4>1, ObjectsInOrder
      <4>3. QED  BY <2>2, <4>2 DEF Inv, TypeOK
    <3>3. QED  BY <3>1, <3>2
  <2>4. ~failed' => ~failed /\ lost' = {}
    BY <2>2 DEF Inv, BrowserInv
  <2>5. HistoryEffect
    BY <2>2, <2>3, <2>4 DEF HistoryEffect
  <2>6. PageEffect(t, w)
    BY <2>1, <2>2 DEF PageEffect
  <2>7. CallEffect(t)
    BY <2>2, <1>2
  <2>8. QED  BY <2>5, <2>6, <2>7 DEF Effect
<1>8. QED  BY <1>1, <1>4, <1>5, <1>6, <1>7 DEF Call, Op

(* A call that is performed where it may be keeps everything but the        *)
(* queues, which its two callers treat apart.                               *)
LEMMA PerformKeeps ==
    ASSUME Inv, NEW t \in Thread, NEW w \in 0..MaxExecutors, Effect(t, w),
           UNCHANGED executorVars, queue' \in [Executor -> Seq(Thread)],
           t = Runner => w \in {0, executor},
           call[t].op = "startBrowser" => w # 0
    PROVE  TypeOK' /\ ExecutorInv' /\ CallerInv' /\ BrowserInv'
<1> USE ExecutorsAssumption, RunnerAssumption
<1>1. PICK c \in Call :
         /\ call' = [call EXCEPT ![t] = c]
         /\ \/ c.pc \in {"returned", "raised"} /\ c.op = call[t].op
            \/ t \in Preview /\ c.pc = "check" /\ c.op = "page"
  BY DEF Effect, CallEffect
<1>2. /\ call \in [Thread -> Call] /\ call' \in [Thread -> Call]
      /\ call'[t] = c
      /\ \A s \in Thread \ {t} : call'[s] = call[s]
  BY <1>1 DEF Inv, TypeOK
<1>3. page' \in 0..MaxExecutors /\ held' \in 0..MaxExecutors
  BY DEF Effect, PageEffect, Inv, TypeOK
<1>4. TypeOK'
  <2>1. \A s \in Thread : call'[s].pc \in OnExecutor => call'[s].on # 0
    BY <1>1, <1>2 DEF OnExecutor, Inv, TypeOK
  <2>2. QED
    BY <2>1, <1>2, <1>3 DEF TypeOK, Inv, Effect, HistoryEffect, executorVars
<1>5. ExecutorInv'
  BY DEF Inv, ExecutorInv, executorVars
<1>6. BrowserInv'
  BY DEF Inv, BrowserInv, PageOnItsWorker, Effect, HistoryEffect, PageEffect, executorVars
<1>7. CallerInv'
  <2>1. \A p \in Preview : /\ call'[p].op \in {"context", "page"}
                           /\ call'[p].pc \notin {"shutdown", "joining"}
    BY <1>1, <1>2 DEF Inv, CallerInv, Thread
  <2>2. CASE t = Runner
    <3>1. call'[Runner].pc \in {"returned", "raised"} /\ call'[Runner].op = call[Runner].op
      BY <2>2, <1>1, <1>2
    <3>2. call[Runner].op = "close" => page' = 0
      BY <2>2 DEF Effect, PageEffect
    <3>3. QED  BY <2>1, <3>1, <3>2 DEF CallerInv
  <2>3. CASE t # Runner
    <3>1. call'[Runner] = call[Runner]
      BY <2>3, <1>2 DEF Thread
    <3>2. page' = page
      BY <2>3 DEF Effect, PageEffect
    <3>3. QED  BY <2>1, <3>1, <3>2 DEF Inv, CallerInv, executorVars
  <2>4. QED  BY <2>2, <2>3
<1>8. QED  BY <1>4, <1>5, <1>6, <1>7

(* The caller's own thread: the call is in no queue.                        *)
LEMMA DirectKeepsInv ==
    ASSUME Inv, NEW t \in Thread, PerformDirectly(t) PROVE Inv'
<1> USE ExecutorsAssumption, RunnerAssumption
<1>1. call[t].op = "startBrowser" => FALSE
  BY DEF PerformDirectly, Inv, CallerInv, Thread
<1>2. Effect(t, 0)
  BY <1>1, PerformEffect DEF PerformDirectly
<1>3. TypeOK' /\ ExecutorInv' /\ CallerInv' /\ BrowserInv'
  BY <1>1, <1>2, PerformKeeps DEF PerformDirectly, Inv, TypeOK
<1>4. \A s \in Thread \ {t} : call'[s] = call[s]
  BY <1>2 DEF Effect, CallEffect, Inv, TypeOK
<1>5. QueueInv'
  <2>1. \A e \in Executor : \A i \in 1..Len(queue[e]) : queue[e][i] \in Thread \ {t}
    BY DEF PerformDirectly, Inv, QueueInv, TypeOK
  <2>2. QED
    BY <2>1, <1>4 DEF PerformDirectly, Inv, QueueInv
<1>6. QED  BY <1>3, <1>5 DEF Inv

(* A worker: the call it takes was only at the head of its queue.           *)
LEMMA WorkKeepsInv ==
    ASSUME Inv, NEW e \in Executor, Work(e) PROVE Inv'
<1> USE ExecutorsAssumption, RunnerAssumption
<1> DEFINE t == Head(queue[e])
<1>1. queue \in [Executor -> Seq(Thread)] /\ queue[e] \in Seq(Thread) /\ queue[e] # <<>>
  BY DEF Work, Inv, TypeOK
<1>2. t \in Thread /\ t = queue[e][1] /\ Len(queue[e]) \in Nat /\ Len(queue[e]) >= 1
  BY <1>1
<1>3. call[t].pc = "queued" /\ call[t].on = e
  BY <1>2 DEF Inv, QueueInv
<1>4. e \in 0..MaxExecutors /\ e # 0
  BY DEF Executor
<1>5. t = Runner => e \in {0, executor}
  BY <1>3 DEF Inv, CallerInv
<1>6. Perform(t, e) /\ queue' = [queue EXCEPT ![e] = Tail(@)] /\ UNCHANGED executorVars
  BY DEF Work
<1>7. Effect(t, e)
  BY <1>2, <1>4, <1>6, PerformEffect
<1>8. queue' \in [Executor -> Seq(Thread)]
  BY <1>1, <1>6
<1>9. TypeOK' /\ ExecutorInv' /\ CallerInv' /\ BrowserInv'
  BY <1>2, <1>4, <1>5, <1>6, <1>7, <1>8, PerformKeeps
<1>10. \A s \in Thread \ {t} : call'[s] = call[s]
  BY <1>7 DEF Effect, CallEffect, Inv, TypeOK
<1>11. ASSUME NEW x \in Executor
       PROVE  /\ Len(queue'[x]) \in Nat
              /\ \A i \in 1..Len(queue'[x]) :
                    LET k == IF x = e THEN i + 1 ELSE i
                    IN  /\ k \in 1..Len(queue[x]) /\ queue'[x][i] = queue[x][k]
                        /\ queue[x][k] \in Thread \ {t}
  <2>1. CASE x = e
    <3>1. queue'[e] = Tail(queue[e])
      BY <1>1, <1>6
    <3>2. Len(queue'[e]) = Len(queue[e]) - 1
      BY <3>1, <1>1
    <3>3. ASSUME NEW i \in 1..Len(queue'[e])
          PROVE  /\ i + 1 \in 1..Len(queue[e]) /\ queue'[e][i] = queue[e][i + 1]
                 /\ queue[e][i + 1] \in Thread \ {t}
      <4>1. i + 1 \in 1..Len(queue[e]) /\ queue'[e][i] = queue[e][i + 1]
        BY <3>1, <3>2, <1>1, <1>2
      <4>2. queue[e][i + 1] # queue[e][1]
        BY <4>1, <1>2 DEF Inv, QueueInv
      <4>3. QED  BY <4>1, <4>2, <1>1, <1>2
    <3>4. QED  BY <2>1, <3>2, <3>3, <1>2
  <2>2. CASE x # e
    <3>1. queue'[x] = queue[x] /\ queue[x] \in Seq(Thread)
      BY <2>2, <1>1, <1>6
    <3>2. \A i \in 1..Len(queue[x]) : queue[x][i] # t
      BY <2>2, <1>3 DEF Inv, QueueInv
    <3>3. QED  BY <2>2, <3>1, <3>2
  <2>3. QED  BY <2>1, <2>2
<1>12. QueueInv'
  <2>1. ASSUME NEW x \in Executor, NEW i \in 1..Len(queue'[x])
        PROVE  call'[queue'[x][i]].pc = "queued" /\ call'[queue'[x][i]].on = x
    <3> DEFINE k == IF x = e THEN i + 1 ELSE i
    <3>1. k \in 1..Len(queue[x]) /\ queue'[x][i] = queue[x][k] /\ queue[x][k] \in Thread \ {t}
      BY <2>1, <1>11
    <3> HIDE DEF k
    <3>2. call[queue[x][k]].pc = "queued" /\ call[queue[x][k]].on = x
      BY <3>1 DEF Inv, QueueInv
    <3>3. QED  BY <3>1, <3>2, <1>10
  <2>2. ASSUME NEW x \in Executor, NEW i \in 1..Len(queue'[x]),
               NEW j \in 1..Len(queue'[x]), queue'[x][i] = queue'[x][j]
        PROVE  i = j
    BY <2>2, <1>11 DEF Inv, QueueInv
  <2>3. QED  BY <2>1, <2>2 DEF QueueInv
<1>13. QED  BY <1>9, <1>12 DEF Inv

(* A step of a thread that waits in no queue and leaves the queues alone.   *)
LEMMA QueuesKept ==
    ASSUME Inv, NEW t \in Thread, call[t].pc # "queued", UNCHANGED queue,
           NEW c \in Call, call' = [call EXCEPT ![t] = c]
    PROVE  /\ QueueInv'
           /\ call' \in [Thread -> Call] /\ call'[t] = c
           /\ \A s \in Thread \ {t} : call'[s] = call[s]
<1>1. /\ call' \in [Thread -> Call] /\ call'[t] = c
      /\ \A s \in Thread \ {t} : call'[s] = call[s]
  BY DEF Inv, TypeOK
<1>2. \A e \in Executor : \A i \in 1..Len(queue[e]) : queue[e][i] \in Thread \ {t}
  BY DEF Inv, QueueInv, TypeOK
<1>3. QED  BY <1>1, <1>2 DEF Inv, QueueInv

(* The same of a step that only moves its call.                             *)
LEMMA CallStepKeepsInv ==
    ASSUME Inv, NEW t \in Thread, UNCHANGED <<executorVars, queue, browserVars>>,
           NEW c \in Call, call' = [call EXCEPT ![t] = c],
           call[t].pc # "queued", c.pc \notin {"queued", "shutdown", "joining"},
           c.pc = "submit" => c.on # 0,
           t \in Preview => c.op \in {"context", "page"},
           t = Runner =>
              /\ c.pc = "reread" => executor # 0
              /\ c.pc = "submit" => c.on = executor
              /\ c.op = "startBrowser" => c.pc # "direct" /\ (c.pc = "check" => executor # 0)
              /\ (c.op = "close" /\ c.pc \in {"returned", "raised"}) => page = 0
    PROVE  Inv'
<1> USE RunnerAssumption, ExecutorsAssumption
<1>1. /\ QueueInv'
      /\ call' \in [Thread -> Call] /\ call'[t] = c
      /\ \A s \in Thread \ {t} : call'[s] = call[s]
  BY QueuesKept
<1>2. TypeOK'
  <2>1. \A s \in Thread : call'[s].pc \in OnExecutor => call'[s].on # 0
    BY <1>1 DEF OnExecutor, Inv, TypeOK
  <2>2. QED  BY <2>1, <1>1 DEF Inv, TypeOK, executorVars, browserVars
<1>3. ExecutorInv' /\ BrowserInv'
  BY DEF Inv, ExecutorInv, BrowserInv, PageOnItsWorker, executorVars, browserVars
<1>4. CallerInv'
  <2>1. CASE t = Runner
    BY <2>1, <1>1 DEF Inv, CallerInv, Thread, executorVars, browserVars
  <2>2. CASE t \in Preview
    BY <2>2, <1>1 DEF Inv, CallerInv, Thread, executorVars, browserVars
  <2>3. QED  BY <2>1, <2>2 DEF Thread
<1>5. QED  BY <1>1, <1>2, <1>3, <1>4 DEF Inv

(* Every step keeps it: calls begin,                                        *)
LEMMA BeginKeepsInv ==
    ASSUME Inv, \/ startBrowser
                \/ \E op \in Op \ {"startBrowser"} : runnerCall(op)
                \/ \E t \in Preview : _web_screenshot_response(t)
    PROVE  Inv'
<1> USE RunnerAssumption, ExecutorsAssumption
<1>1. ASSUME NEW op \in Op
      PROVE  [pc |-> "check", op |-> op, on |-> 0] \in Call
  BY DEF Call, PC
<1>2. CASE startBrowser
  <2> DEFINE c == [pc |-> "check", op |-> "startBrowser", on |-> 0]
  <2>1. c \in Call /\ Runner \in Thread
    BY <1>1 DEF Op, Thread
  <2>2. call[Runner].pc = "idle" /\ call' = [call EXCEPT ![Runner] = c] /\ UNCHANGED queue
    BY <1>2 DEF startBrowser, Begin
  <2>3. /\ QueueInv'
        /\ call' \in [Thread -> Call] /\ call'[Runner] = c
        /\ \A s \in Thread \ {Runner} : call'[s] = call[s]
    BY <2>1, <2>2, QueuesKept
  <2>4. CASE page = 0 /\ executor = 0
    <3>1. /\ made < MaxExecutors /\ made' = made + 1 /\ executor' = made + 1
          /\ UNCHANGED <<shut, queue, browserVars>>
      BY <1>2, <2>4 DEF startBrowser
    <3>2. /\ executor' = made' /\ executor' # 0 /\ executor' \notin shut'
          /\ executor' \in 0..MaxExecutors /\ \A e \in shut' : e <= made'
      BY <3>1 DEF Inv, TypeOK, ExecutorInv, Executor
    <3>3. \A s \in Thread : call'[s].pc \in OnExecutor => call'[s].on # 0
      BY <2>1, <2>3 DEF OnExecutor, Inv, TypeOK
    <3>4. TypeOK'
      BY <2>3, <3>1, <3>2, <3>3 DEF Inv, TypeOK, browserVars
    <3>5. ExecutorInv' /\ BrowserInv'
      BY <2>4, <3>1, <3>2
      DEF Inv, ExecutorInv, BrowserInv, PageOnItsWorker, browserVars
    <3>6. CallerInv'
      BY <2>3, <3>1, <3>2 DEF Inv, CallerInv, Thread
    <3>7. QED  BY <2>3, <3>4, <3>5, <3>6 DEF Inv
  <2>5. CASE ~(page = 0 /\ executor = 0)
    <3>1. UNCHANGED <<executorVars, queue, browserVars>>
      BY <1>2, <2>5 DEF startBrowser, executorVars
    <3>2. executor # 0
      BY <2>5 DEF Inv, BrowserInv, PageOnItsWorker
    <3>3. QED  BY <2>1, <2>2, <3>1, <3>2, CallStepKeepsInv
  <2>6. QED  BY <2>4, <2>5
<1>3. ASSUME NEW op \in Op \ {"startBrowser"}, runnerCall(op) PROVE Inv'
  <2> DEFINE c == [pc |-> "check", op |-> op, on |-> 0]
  <2>1. c \in Call /\ Runner \in Thread
    BY <1>1 DEF Thread
  <2>2. QED  BY <1>3, <2>1, CallStepKeepsInv DEF runnerCall, Begin
<1>4. ASSUME NEW t \in Preview, _web_screenshot_response(t) PROVE Inv'
  <2> DEFINE c == [pc |-> "check", op |-> "context", on |-> 0]
  <2>1. c \in Call /\ t \in Thread
    BY <1>1 DEF Thread, Op
  <2>2. QED  BY <1>4, <2>1, CallStepKeepsInv DEF _web_screenshot_response, Begin
<1>5. QED  BY <1>2, <1>3, <1>4

(* find their executor, and submit to it,                                   *)
LEMMA RunSyncKeepsInv ==
    ASSUME Inv, NEW t \in Thread, CheckExecutor(t) \/ RereadExecutor(t) \/ Submit(t)
    PROVE  Inv'
<1> USE RunnerAssumption, ExecutorsAssumption
<1>1. call[t] \in Call /\ executor \in 0..MaxExecutors
  BY DEF Inv, TypeOK
<1>2. ASSUME NEW pc \in PC, Goto(t, pc)
      PROVE  LET c == [call[t] EXCEPT !.pc = pc]
             IN  /\ c \in Call /\ call' = [call EXCEPT ![t] = c]
                 /\ c.pc = pc /\ c.op = call[t].op /\ c.on = call[t].on
  BY <1>1, <1>2 DEF Goto, Call, Inv, TypeOK
<1>3. CASE CheckExecutor(t)
  <2> DEFINE pc == IF executor = 0 THEN "direct" ELSE "reread"
             c == [call[t] EXCEPT !.pc = pc]
  <2>1. call[t].pc = "check" /\ Goto(t, pc) /\ UNCHANGED <<executorVars, queue, browserVars>>
    BY <1>3 DEF CheckExecutor
  <2>2. pc \in PC /\ pc \in {"direct", "reread"} /\ (pc = "reread" <=> executor # 0)
    BY DEF PC
  <2>3. /\ c \in Call /\ call' = [call EXCEPT ![t] = c]
        /\ c.pc = pc /\ c.op = call[t].op
    BY <2>1, <2>2, <1>2
  <2>4. t = Runner /\ call[t].op = "startBrowser" => executor # 0
    BY <2>1 DEF Inv, CallerInv
  <2>5. t \in Preview => call[t].op \in {"context", "page"}
    BY DEF Inv, CallerInv
  <2> HIDE DEF c, pc
  <2>6. QED  BY <2>1, <2>2, <2>3, <2>4, <2>5, CallStepKeepsInv
<1>4. CASE RereadExecutor(t)
  <2> DEFINE c == [call[t] EXCEPT !.pc = IF executor = 0 THEN "raised" ELSE "submit",
                                  !.on = executor]
  <2>1. call[t].pc = "reread" /\ UNCHANGED <<executorVars, queue, browserVars>>
    BY <1>4 DEF RereadExecutor
  <2>2. /\ c \in Call /\ call' = [call EXCEPT ![t] = c]
        /\ c.op = call[t].op /\ c.on = executor
        /\ c.pc = IF executor = 0 THEN "raised" ELSE "submit"
    BY <1>1, <1>4 DEF RereadExecutor, Call, PC, Inv, TypeOK
  <2>3. t = Runner => executor # 0
    BY <2>1 DEF Inv, CallerInv
  <2>4. t \in Preview => call[t].op \in {"context", "page"}
    BY DEF Inv, CallerInv
  <2> HIDE DEF c
  <2>5. QED  BY <2>1, <2>2, <2>3, <2>4, CallStepKeepsInv
<1>5. CASE Submit(t) /\ call[t].on \in shut
  <2> DEFINE c == [call[t] EXCEPT !.pc = "raised"]
  <2>1. call[t].pc = "submit" /\ Goto(t, "raised") /\ UNCHANGED <<executorVars, queue, browserVars>>
    BY <1>5 DEF Submit
  <2>2. /\ c \in Call /\ call' = [call EXCEPT ![t] = c]
        /\ c.pc = "raised" /\ c.op = call[t].op
    BY <2>1, <1>2 DEF PC
  <2>3. t # Runner
    BY <2>1, <1>5 DEF Inv, TypeOK, OnExecutor, CallerInv, ExecutorInv
  <2>4. t \in Preview => call[t].op \in {"context", "page"}
    BY DEF Inv, CallerInv
  <2> HIDE DEF c
  <2>5. QED  BY <2>1, <2>2, <2>3, <2>4, CallStepKeepsInv
<1>6. CASE Submit(t) /\ call[t].on \notin shut
  <2> DEFINE e == call[t].on
             c == [call[t] EXCEPT !.pc = "queued"]
  <2>1. /\ call[t].pc = "submit" /\ Goto(t, "queued") /\ UNCHANGED <<executorVars, browserVars>>
        /\ queue' = [queue EXCEPT ![e] = Append(@, t)]
    BY <1>6 DEF Submit
  <2>2. /\ c \in Call /\ call' = [call EXCEPT ![t] = c]
        /\ c.pc = "queued" /\ c.op = call[t].op /\ c.on = e
    BY <2>1, <1>2 DEF PC
  <2> HIDE DEF c
  <2>3. /\ call' \in [Thread -> Call] /\ call'[t] = c
        /\ \A s \in Thread \ {t} : call'[s] = call[s]
    BY <2>2 DEF Inv, TypeOK
  <2>4. e \in Executor
    <3>1. e \in 0..MaxExecutors
      BY <1>1 DEF Call
    <3>2. e # 0
      BY <2>1 DEF Inv, TypeOK, OnExecutor
    <3>3. QED  BY <3>1, <3>2 DEF Executor
  <2>5. \A x \in Executor : /\ queue[x] \in Seq(Thread) /\ Len(queue[x]) \in Nat
                            /\ \A i \in 1..Len(queue[x]) : queue[x][i] \in Thread \ {t}
    BY <2>1 DEF Inv, QueueInv, TypeOK
  <2>6. queue' \in [Executor -> Seq(Thread)]
    BY <2>1, <2>4, <2>5 DEF Inv, TypeOK
  <2>7. TypeOK'
    <3>1. \A s \in Thread : call'[s].pc \in OnExecutor => call'[s].on # 0
      BY <2>2, <2>3, <2>4 DEF OnExecutor, Inv, TypeOK, Executor
    <3>2. QED  BY <3>1, <2>1, <2>3, <2>6 DEF Inv, TypeOK, executorVars, browserVars
  <2>8. ExecutorInv' /\ BrowserInv'
    BY <2>1 DEF Inv, ExecutorInv, BrowserInv, PageOnItsWorker, executorVars, browserVars
  <2>9. CallerInv'
    <3>1. CASE t = Runner
      BY <3>1, <2>1, <2>2, <2>3 DEF Inv, CallerInv, Thread, executorVars, browserVars
    <3>2. CASE t \in Preview
      BY <3>2, <2>1, <2>2, <2>3 DEF Inv, CallerInv, Thread, executorVars, browserVars
    <3>3. QED  BY <3>1, <3>2 DEF Thread
  <2>10. QueueInv'
    <3>1. queue'[e] = Append(queue[e], t) /\ \A x \in Executor \ {e} : queue'[x] = queue[x]
      BY <2>1, <2>4 DEF Inv, TypeOK
    <3>2. /\ Len(queue'[e]) = Len(queue[e]) + 1 /\ queue'[e][Len(queue[e]) + 1] = t
          /\ \A i \in 1..Len(queue[e]) : queue'[e][i] = queue[e][i]
      BY <3>1, <2>4, <2>5
    <3>3. \A x \in Executor \ {e} :
             /\ \A i \in 1..Len(queue'[x]) :
                   call'[queue'[x][i]].pc = "queued" /\ call'[queue'[x][i]].on = x
             /\ \A i, j \in 1..Len(queue'[x]) : queue'[x][i] = queue'[x][j] => i = j
      BY <3>1, <2>3, <2>5 DEF Inv, QueueInv
    <3>4. /\ Len(queue[e]) \in Nat
          /\ \A i \in 1..Len(queue[e]) :
                /\ queue[e][i] \in Thread \ {t}
                /\ call[queue[e][i]].pc = "queued" /\ call[queue[e][i]].on = e
          /\ \A i, j \in 1..Len(queue[e]) : queue[e][i] = queue[e][j] => i = j
      BY <2>4, <2>5 DEF Inv, QueueInv
    <3>5. call'[t].pc = "queued" /\ call'[t].on = e
      BY <2>2, <2>3
    <3> HIDE DEF e
    <3>6. \A i \in 1..Len(queue'[e]) :
             call'[queue'[e][i]].pc = "queued" /\ call'[queue'[e][i]].on = e
      BY <3>2, <3>4, <3>5, <2>3
    <3>7. \A i, j \in 1..Len(queue'[e]) : queue'[e][i] = queue'[e][j] => i = j
      BY <3>2, <3>4
    <3>8. QED  BY <3>3, <3>6, <3>7 DEF QueueInv
  <2>11. QED  BY <2>7, <2>8, <2>9, <2>10 DEF Inv
<1>7. QED  BY <1>3, <1>4, <1>5, <1>6

(* and end, the run's perhaps with its executor: previews never drop one.   *)
LEMMA EndKeepsInv ==
    ASSUME Inv, NEW t \in Thread, DropExecutor(t) \/ Shutdown(t) \/ Join(t) \/ End(t)
    PROVE  Inv'
<1> USE RunnerAssumption, ExecutorsAssumption
<1>1. call[t] \in Call /\ executor \in 0..MaxExecutors
  BY DEF Inv, TypeOK
<1>2. ASSUME NEW pc \in PC, Goto(t, pc)
      PROVE  LET c == [call[t] EXCEPT !.pc = pc]
             IN  /\ c \in Call /\ call' = [call EXCEPT ![t] = c]
                 /\ c.pc = pc /\ c.op = call[t].op /\ c.on = call[t].on
  BY <1>1, <1>2 DEF Goto, Call, Inv, TypeOK
<1>3. t \in Preview => call[t].op \in {"context", "page"}
  BY DEF Inv, CallerInv
<1>4. CASE DropExecutor(t)
  <2> DEFINE c == [call[t] EXCEPT !.pc = IF executor = 0 THEN "idle" ELSE "shutdown",
                                  !.on = executor]
  <2>1. /\ call[t].pc \in {"returned", "raised"} /\ Drops(t) /\ executor' = 0
        /\ UNCHANGED <<made, shut, queue, browserVars>>
    BY <1>4 DEF DropExecutor
  <2>2. /\ c \in Call /\ call' = [call EXCEPT ![t] = c]
        /\ c.op = call[t].op /\ c.on = executor
        /\ c.pc = IF executor = 0 THEN "idle" ELSE "shutdown"
    BY <1>1, <1>4 DEF DropExecutor, Call, PC, Inv, TypeOK
  <2> HIDE DEF c
  <2>3. t = Runner
    BY <2>1, <1>3 DEF Drops, Thread
  <2>4. page = 0
    BY <2>1, <2>3 DEF Drops, Inv, CallerInv
  <2>5. /\ QueueInv'
        /\ call' \in [Thread -> Call] /\ call'[t] = c
        /\ \A s \in Thread \ {t} : call'[s] = call[s]
    BY <2>1, <2>2, QueuesKept
  <2>6. TypeOK'
    <3>1. \A s \in Thread : call'[s].pc \in OnExecutor => call'[s].on # 0
      BY <2>2, <2>5 DEF OnExecutor, Inv, TypeOK
    <3>2. 0 \notin shut
      BY DEF Inv, TypeOK, Executor
    <3>3. QED  BY <3>1, <3>2, <2>1, <2>5 DEF Inv, TypeOK, browserVars
  <2>7. ExecutorInv' /\ BrowserInv'
    BY <2>1, <2>4 DEF Inv, TypeOK, ExecutorInv, BrowserInv, PageOnItsWorker, browserVars
  <2>8. CallerInv'
    BY <2>1, <2>2, <2>3, <2>5 DEF Inv, ExecutorInv, CallerInv, Thread
  <2>9. QED  BY <2>5, <2>6, <2>7, <2>8 DEF Inv
<1>5. CASE Shutdown(t)
  <2> DEFINE e == call[t].on
             c == [call[t] EXCEPT !.pc = "joining"]
  <2>1. /\ call[t].pc = "shutdown" /\ shut' = shut \union {e} /\ Goto(t, "joining")
        /\ UNCHANGED <<executor, made, queue, browserVars>>
    BY <1>5 DEF Shutdown
  <2>2. /\ c \in Call /\ call' = [call EXCEPT ![t] = c]
        /\ c.pc = "joining" /\ c.op = call[t].op /\ c.on = e
    BY <2>1, <1>2 DEF PC
  <2> HIDE DEF c
  <2>3. t = Runner /\ executor = 0
    BY <2>1 DEF Inv, CallerInv, Thread
  <2>4. /\ QueueInv'
        /\ call' \in [Thread -> Call] /\ call'[t] = c
        /\ \A s \in Thread \ {t} : call'[s] = call[s]
    BY <2>1, <2>2, QueuesKept
  <2>5. e \in Executor /\ e <= made
    <3>1. e \in 0..MaxExecutors
      BY <1>1 DEF Call
    <3>2. e # 0
      BY <2>1 DEF Inv, TypeOK, OnExecutor
    <3>3. e <= made
      BY <2>1, <2>3 DEF Inv, CallerInv
    <3>4. QED  BY <3>1, <3>2, <3>3 DEF Executor
  <2>6. TypeOK'
    <3>1. \A s \in Thread : call'[s].pc \in OnExecutor => call'[s].on # 0
      BY <2>2, <2>4, <2>5 DEF OnExecutor, Inv, TypeOK, Executor
    <3>2. executor \notin shut'
      BY <2>1, <2>3, <2>5 DEF Inv, TypeOK, Executor
    <3>3. QED  BY <3>1, <3>2, <2>1, <2>4, <2>5 DEF Inv, TypeOK, browserVars
  <2>7. ExecutorInv' /\ BrowserInv'
    BY <2>1, <2>3, <2>5
    DEF Inv, ExecutorInv, BrowserInv, PageOnItsWorker, browserVars
  <2>8. CallerInv'
    BY <2>1, <2>2, <2>3, <2>4 DEF Inv, CallerInv, Thread
  <2>9. QED  BY <2>4, <2>6, <2>7, <2>8 DEF Inv
<1>6. CASE Join(t) \/ End(t)
  <2> DEFINE c == [call[t] EXCEPT !.pc = "idle"]
  <2>1. /\ call[t].pc \in {"joining", "returned", "raised"} /\ Goto(t, "idle")
        /\ UNCHANGED <<executorVars, queue, browserVars>>
    BY <1>6 DEF Join, End
  <2>2. /\ c \in Call /\ call' = [call EXCEPT ![t] = c]
        /\ c.pc = "idle" /\ c.op = call[t].op
    BY <2>1, <1>2 DEF PC
  <2> HIDE DEF c
  <2>3. QED  BY <2>1, <2>2, <1>3, CallStepKeepsInv
<1>7. QED  BY <1>4, <1>5, <1>6

LEMMA StepKeepsInv == Inv /\ [Next]_vars => Inv'
<1> SUFFICES ASSUME Inv, [Next]_vars PROVE Inv'
  OBVIOUS
<1>1. CASE \E t \in Thread : Continue(t)
  BY <1>1, RunSyncKeepsInv, DirectKeepsInv, EndKeepsInv DEF Continue
<1>2. CASE \E e \in Executor : Work(e)
  BY <1>2, WorkKeepsInv
<1>3. CASE UNCHANGED vars
  BY <1>3
  DEF vars, executorVars, browserVars, Inv, TypeOK, ExecutorInv, CallerInv, QueueInv,
      BrowserInv, PageOnItsWorker
<1>4. QED  BY <1>1, <1>2, <1>3, BeginKeepsInv DEF Next

(* The strengthening holds of every reachable state.                        *)
THEOREM Invariance == Spec => []Inv
<1>1. Init => Inv
  BY InitInv
<1>2. Inv /\ [Next]_vars => Inv'
  BY StepKeepsInv
<1>3. QED  BY <1>1, <1>2, PTL DEF Spec

(* Type correctness, with an executor for every call that needs one.        *)
THEOREM TypeCorrect == Spec => []TypeOK
<1>1. Inv => TypeOK
  BY DEF Inv
<1>2. QED  BY <1>1, Invariance, PTL

(* The page is used through the worker that made it.                        *)
THEOREM PageCorrect == Spec => []PageOnItsWorker
<1>1. Inv => PageOnItsWorker
  BY DEF Inv, BrowserInv
<1>2. QED  BY <1>1, Invariance, PTL

(* No number of previews takes the run's executor away from it.             *)
THEOREM RunnerCorrect == Spec => []RunKeepsItsExecutor
<1>1. Inv => RunKeepsItsExecutor
  BY RunnerAssumption
  DEF Inv, TypeOK, ExecutorInv, CallerInv, RunKeepsItsExecutor, OnExecutor, Thread
<1>2. QED  BY <1>1, Invariance, PTL

(* Only a browser that fails is lost.                                       *)
THEOREM LossCorrect == Spec => []NothingLostUnlessFailed
<1>1. Inv => NothingLostUnlessFailed
  BY DEF Inv, BrowserInv, NothingLostUnlessFailed
<1>2. QED  BY <1>1, Invariance, PTL

===============================================================================
