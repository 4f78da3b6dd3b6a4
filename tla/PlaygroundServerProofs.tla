------------------------ MODULE PlaygroundServerProofs ------------------------
(***************************************************************************)
(* Theorems about the HTTP server of the playground, for any readers,      *)
(* handlers, requests and runs and any bounds.                             *)
(*                                                                         *)
(* TaskStream: its invariants and its refinement of EventFeed.  TaskInv    *)
(* says that the n-th event carries the sequence number n, ReaderInv what  *)
(* each reader has, and RevisionInv that a reader whose revision is the    *)
(* current one has all there is.                                           *)
(*                                                                         *)
(* ReplayStore: its invariants, and what no handler removes.  HandlerOK    *)
(* says what a handler holds between its steps, Directory what the files   *)
(* say; NoneLost and Ordered relate the frames that are kept to those that *)
(* the manifest, or a handler that will write it, lists.                   *)
(***************************************************************************)
EXTENDS TaskStream, ReplayStore, TLAPS

(* The events are numbered from 1; the emitter is one ahead exactly while   *)
(* its event is being added.                                                *)
EventsDense == \A i \in 1..Len(events) : events[i] = i

EmitterInv ==
    /\ run = "adding" => emitted = Len(events) + 1
    /\ run = "previewing" => emitted = Len(events)
    /\ run = "agent" /\ ~cancelReq => emitted = Len(events)

StatusInv ==
    /\ cancelReq <=> status = "cancelled"
    /\ status \in {"finished", "error"} => run = "over"

TaskInv == EventsDense /\ EmitterInv /\ StatusInv

(* Each reader has the first seq[c] events, once; one that was told the     *)
(* run's own end knows the status for good, and has them all.               *)
ReaderInv ==
    \A c \in Reader :
        /\ seq[c] <= Len(events)
        /\ times[c] = [i \in Index |-> IF i <= seq[c] THEN 1 ELSE 0]
        /\ rpc[c] = "told" => shown[c].status # "running"
        /\ rpc[c] = "told" /\ shown[c].status \in {"finished", "error"}
              => status = shown[c].status /\ seq[c] = Len(events)

Current(c) ==
    /\ seq[c] = Len(events)
    /\ shown[c] = [status |-> status, preview |-> preview]

RevisionInv ==
    \A c \in Reader :
        /\ rev[c] <= revision
        /\ rpc[c] \in {"loop", "waiting"} /\ rev[c] = revision => Current(c)
        /\ rpc[c] = "waiting" => rev[c] = revision

Inv == TypeOK /\ TaskInv /\ ReaderInv /\ RevisionInv

-------------------------------------------------------------------------------
(* What a payload brings: everything after the reader's last event.         *)
LEMMA FreshIsTheRest ==
    ASSUME TypeOK, EventsDense, NEW n \in Nat, n <= Len(events)
    PROVE  /\ Fresh(n) = (n + 1)..Len(events)
           /\ _write_sse_progress(n) = Len(events)
<1>1. Fresh(n) = (n + 1)..Len(events)
  BY DEF TypeOK, EventsDense, Fresh
<1>2. \A i \in Fresh(n) : events[i] = i
  BY <1>1 DEF EventsDense
<1> DEFINE S == {n} \cup {events[i] : i \in Fresh(n)}
<1>0. Len(events) \in Nat
  BY DEF TypeOK
<1>3. Len(events) \in S /\ \A y \in S : Len(events) >= y /\ y \in Nat
  <2>1. S = {n} \cup (n + 1)..Len(events)
    <3>1. \A i \in (n + 1)..Len(events) : events[i] = i /\ i \in Fresh(n)
      BY <1>1, <1>2
    <3> QED
      BY <3>1, <1>1, <1>2
  <2>2. Len(events) \in {n} \cup (n + 1)..Len(events)
    BY <1>0
  <2>3. \A y \in {n} \cup (n + 1)..Len(events) : Len(events) >= y /\ y \in Nat
    BY <1>0
  <2> HIDE DEF S
  <2> QED
    BY <2>1, <2>2, <2>3
<1>4. \A x \in S : (\A y \in S : x >= y) => x = Len(events)
  BY <1>3
<1>5. Max(S) = Len(events)
  BY <1>3, <1>4 DEF Max
<1> QED
  BY <1>1, <1>5 DEF _write_sse_progress

(* After a payload its reader has every event once, and the current status. *)
LEMMA PayloadBringsAll ==
    ASSUME Inv, NEW c \in Reader, Payload(c)
    PROVE  /\ seq' = [seq EXCEPT ![c] = Len(events)]
           /\ times' = [times EXCEPT ![c] =
                          [i \in Index |-> IF i <= Len(events) THEN 1 ELSE 0]]
           /\ shown' = [shown EXCEPT ![c] = [status |-> status, preview |-> preview]]
           /\ UNCHANGED <<taskVars, runVars>>
<1>1. /\ seq[c] \in Nat /\ seq[c] <= Len(events)
      /\ times[c] = [i \in Index |-> IF i <= seq[c] THEN 1 ELSE 0]
  BY DEF Inv, TypeOK, ReaderInv
<1>2. /\ Fresh(seq[c]) = (seq[c] + 1)..Len(events)
      /\ _write_sse_progress(seq[c]) = Len(events)
  BY <1>1, FreshIsTheRest DEF Inv, TaskInv
<1>3. ASSUME NEW i \in Index
      PROVE  times[c][i] + (IF i \in Fresh(seq[c]) THEN 1 ELSE 0)
               = IF i <= Len(events) THEN 1 ELSE 0
  <2>1. i \in Nat /\ i >= 1
    BY BoundAssumption DEF Index
  <2>2. Len(events) \in Nat
    BY DEF Inv, TypeOK
  <2> QED
    BY <1>1, <1>2, <2>1, <2>2
<1> QED
  BY <1>2, <1>3 DEF Payload

-------------------------------------------------------------------------------
(* The strengthening holds before the run emits anything.                   *)
LEMMA InitInv == Init => Inv
<1> SUFFICES ASSUME Init PROVE Inv
  OBVIOUS
<1>1. TypeOK
  <2>1. events \in Seq(Nat) /\ Len(events) = 0
    BY DEF Init
  <2>2. preview \in 0..MaxPreviews /\ emitted \in 0..MaxEvents /\ Len(events) <= MaxEvents
    BY <2>1, BoundAssumption DEF Init
  <2> QED
    BY <2>1, <2>2 DEF Init, TypeOK, Index, RunPC, ReaderPC, Status
<1>2. TaskInv
  BY DEF Init, TaskInv, EventsDense, EmitterInv, StatusInv
<1>3. ReaderInv
  BY DEF Init, ReaderInv, Index
<1>4. RevisionInv
  BY DEF Init, RevisionInv, Current
<1> QED
  BY <1>1, <1>2, <1>3, <1>4 DEF Inv

-------------------------------------------------------------------------------
(* A step of the run or of another task wakes the sleepers and leaves the   *)
(* readers what they have; it never touches a task whose run ended it.      *)
TaskStep ==
    /\ UNCHANGED readerVars
    /\ \/ _notify
       \/ UNCHANGED <<rpc, revision, events, preview, status>>
    /\ Len(events) <= Len(events')
    /\ status \in {"finished", "error"} => UNCHANGED <<events, status>>

LEMMA TaskStepKeepsReaders ==
    ASSUME Inv, TypeOK', TaskStep
    PROVE  ReaderInv' /\ RevisionInv'
<1>1. Len(events) \in Nat /\ Len(events') \in Nat /\ revision \in Nat
  BY DEF Inv, TypeOK
<1>2. \A c \in Reader :
        /\ rpc'[c] = rpc[c] \/ (rpc[c] = "waiting" /\ rpc'[c] = "woken")
        /\ seq[c] \in Nat /\ rev[c] \in Nat
  BY DEF Inv, TypeOK, TaskStep, _notify
<1>3. ReaderInv'
  BY <1>1, <1>2 DEF Inv, ReaderInv, TaskStep, readerVars
<1>4. RevisionInv'
  <2>1. CASE _notify
    <3>1. revision' = revision + 1 /\ \A c \in Reader : rpc'[c] # "waiting"
      BY <2>1 DEF _notify, Inv, TypeOK
    <3> QED
      BY <3>1, <1>1, <1>2 DEF Inv, RevisionInv, TaskStep, readerVars
  <2>2. CASE UNCHANGED <<rpc, revision, events, preview, status>>
    BY <2>2 DEF Inv, RevisionInv, Current, TaskStep, readerVars
  <2> QED
    BY <2>1, <2>2 DEF TaskStep
<1> QED
  BY <1>3, <1>4

(* Every step of the run, of a cancellation and of another task is such a   *)
(* step, and keeps the numbering of the events.                             *)
LEMMA TaskNext ==
    ASSUME Inv, RunNext \/ Cancel \/ OtherTask
    PROVE  TypeOK' /\ TaskInv' /\ TaskStep
<1> DEFINE Ok == TypeOK' /\ TaskInv' /\ TaskStep
<1> SUFFICES Ok
  OBVIOUS
<1> USE BoundAssumption
<1> USE DEF taskVars, runVars, readerVars
<1>0. /\ TypeOK /\ TaskInv
      /\ Len(events) \in Nat /\ revision \in Nat
  BY DEF Inv, TypeOK
<1>1. ASSUME _notify
      PROVE  revision' \in Nat /\ rpc' \in [Reader -> ReaderPC]
  BY <1>0, <1>1 DEF _notify, TypeOK, ReaderPC
<1>2. ASSUME NEW s \in Nat, s = 0 \/ s = Len(events) + 1, add_event(s), Len(events) < MaxEvents
      PROVE  /\ events' \in Seq(Nat) /\ Len(events') = Len(events) + 1
             /\ Len(events') <= MaxEvents
             /\ EventsDense'
  <2>1. events' = Append(events, Len(events) + 1)
    BY <1>2, <1>0 DEF add_event
  <2> QED
    BY <2>1, <1>2, <1>0 DEF TypeOK, TaskInv, EventsDense
<1>3. ASSUME Emit PROVE Ok
  BY <1>0, <1>3 DEF Emit, TypeOK, TaskInv, EventsDense, EmitterInv, StatusInv, TaskStep,
                    RunPC
<1>4. ASSUME SinkAdd PROVE Ok
  <2>1. emitted = Len(events) + 1 /\ emitted \in Nat /\ Len(events) < MaxEvents
        /\ status \notin {"finished", "error"}
    BY <1>0, <1>4 DEF SinkAdd, TypeOK, TaskInv, EmitterInv, StatusInv
  <2>2. add_event(emitted) /\ _notify
    BY <1>4 DEF SinkAdd, add_event
  <2>3. events' \in Seq(Nat) /\ Len(events') = Len(events) + 1
        /\ Len(events') <= MaxEvents /\ EventsDense'
    BY <1>2, <2>1, <2>2
  <2>4. TypeOK'
    BY <1>0, <1>1, <1>4, <2>2, <2>3 DEF TypeOK, SinkAdd, add_event, RunPC
  <2>5. TaskInv'
    BY <1>0, <1>4, <2>1, <2>2, <2>3 DEF TaskInv, EmitterInv, StatusInv, SinkAdd, add_event
  <2>6. TaskStep
    BY <1>0, <1>4, <2>1, <2>2, <2>3 DEF TaskStep, SinkAdd
  <2> QED
    BY <2>4, <2>5, <2>6
<1>5. ASSUME StrictStarted \/ StrictCompleted PROVE Ok
  <2>1. /\ run \in {"strict", "steps"} /\ run' \in {"steps", "returned"}
        /\ add_event(0) /\ _notify /\ Len(events) < MaxEvents
        /\ UNCHANGED <<emitted, readerVars>>
    BY <1>5 DEF StrictStarted, StrictCompleted, add_event
  <2>2. status \notin {"finished", "error"}
    BY <1>0, <2>1 DEF TaskInv, StatusInv
  <2>3. events' \in Seq(Nat) /\ Len(events') = Len(events) + 1
        /\ Len(events') <= MaxEvents /\ EventsDense'
    BY <1>2, <2>1
  <2>4. TypeOK'
    BY <1>0, <1>1, <2>1, <2>3 DEF TypeOK, add_event, RunPC
  <2>5. TaskInv'
    BY <1>0, <2>1, <2>2, <2>3 DEF TaskInv, EmitterInv, StatusInv, add_event
  <2>6. TaskStep
    BY <1>0, <2>1, <2>2, <2>3 DEF TaskStep
  <2> QED
    BY <2>4, <2>5, <2>6
<1>6. ASSUME SinkPreview PROVE Ok
  <2>1. CASE set_preview
    BY <1>0, <1>1, <1>6, <2>1 DEF SinkPreview, set_preview, _notify, TypeOK, TaskInv,
                             EventsDense, EmitterInv, StatusInv, TaskStep, RunPC
  <2>2. CASE UNCHANGED <<taskVars, rpc>>
    BY <1>0, <1>6, <2>2 DEF SinkPreview, TypeOK, TaskInv, EventsDense, EmitterInv,
                            StatusInv, TaskStep, RunPC
  <2> QED
    BY <1>6, <2>1, <2>2 DEF SinkPreview
<1>7. ASSUME StrictPreview PROVE Ok
  BY <1>0, <1>1, <1>7 DEF StrictPreview, set_preview, _notify, TypeOK, TaskInv,
                          EventsDense, EmitterInv, StatusInv, TaskStep
<1>8. ASSUME RunEnds PROVE Ok
  BY <1>0, <1>8 DEF RunEnds, TypeOK, TaskInv, EventsDense, EmitterInv, StatusInv,
                    TaskStep, RunPC
<1>9. ASSUME Settle PROVE Ok
  <2>1. PICK s \in {"finished", "error"} : settle_task(s)
    BY <1>9 DEF Settle
  <2>2. run \in {"returned", "failing"} /\ run' = "over" /\ UNCHANGED <<emitted, readerVars>>
        /\ status \notin {"finished", "error"}
    BY <1>0, <1>9 DEF Settle, TaskInv, StatusInv
  <2>3. CASE cancelReq
    BY <1>0, <2>1, <2>2, <2>3 DEF settle_task, TypeOK, TaskInv, EventsDense, EmitterInv,
                                  StatusInv, TaskStep, RunPC
  <2>4. CASE ~cancelReq
    <3>1. /\ status' = s /\ _notify /\ UNCHANGED <<events, preview, cancelReq>>
      BY <2>1, <2>4 DEF settle_task
    <3> QED
      BY <1>0, <1>1, <2>2, <2>4, <3>1 DEF TypeOK, TaskInv, EventsDense, EmitterInv,
                                     StatusInv, TaskStep, RunPC, Status
  <2> QED
    BY <2>3, <2>4
<1>10. ASSUME Cancel PROVE Ok
  BY <1>0, <1>1, <1>10 DEF Cancel, request_cancel, TypeOK, TaskInv, EventsDense,
                           EmitterInv, StatusInv, TaskStep, Status
<1>11. ASSUME OtherTask PROVE Ok
  BY <1>0, <1>1, <1>11 DEF OtherTask, TypeOK, TaskInv, EventsDense, EmitterInv,
                           StatusInv, TaskStep
<1> QED
  BY <1>3, <1>4, <1>5, <1>6, <1>7, <1>8, <1>9, <1>10, <1>11 DEF RunNext

-------------------------------------------------------------------------------
(* A payload leaves its reader current; the others do not notice.           *)
LEMMA PayloadInv ==
    ASSUME Inv, NEW c \in Reader, Payload(c),
           NEW pc \in ReaderPC, rpc' = [rpc EXCEPT ![c] = pc],
           pc = "told" <=> status # "running",
           pc # "waiting",
           NEW v \in Nat, rev' = [rev EXCEPT ![c] = v], v <= revision
    PROVE  Inv'
<1> USE DEF taskVars, runVars
<1>1. /\ seq' = [seq EXCEPT ![c] = Len(events)]
      /\ times' = [times EXCEPT ![c] = [i \in Index |-> IF i <= Len(events) THEN 1 ELSE 0]]
      /\ shown' = [shown EXCEPT ![c] = [status |-> status, preview |-> preview]]
      /\ UNCHANGED <<taskVars, runVars>>
  BY PayloadBringsAll
<1>2. TypeOK /\ Len(events) \in Nat
  BY DEF Inv, TypeOK
<1>3. TypeOK'
  <2>1. [i \in Index |-> IF i <= Len(events) THEN 1 ELSE 0] \in [Index -> Nat]
    OBVIOUS
  <2>2. [status |-> status, preview |-> preview] \in [status : Status, preview : Nat]
    BY <1>2, BoundAssumption DEF TypeOK
  <2> QED
    BY <1>1, <1>2, <2>1, <2>2 DEF TypeOK
<1>4. TaskInv'
  BY <1>1 DEF Inv, TaskInv, EventsDense, EmitterInv, StatusInv
<1>5. ReaderInv'
  <2> SUFFICES ASSUME NEW d \in Reader
               PROVE /\ seq'[d] <= Len(events')
                     /\ times'[d] = [i \in Index |-> IF i <= seq'[d] THEN 1 ELSE 0]
                     /\ rpc'[d] = "told" => shown'[d].status # "running"
                     /\ rpc'[d] = "told" /\ shown'[d].status \in {"finished", "error"}
                          => status' = shown'[d].status /\ seq'[d] = Len(events')
    BY DEF ReaderInv
  <2>1. CASE d = c
    BY <1>1, <1>2, <2>1 DEF TypeOK
  <2>2. CASE d # c
    BY <1>1, <1>2, <2>2 DEF Inv, TypeOK, ReaderInv
  <2> QED
    BY <2>1, <2>2
<1>6. RevisionInv'
  <2> SUFFICES ASSUME NEW d \in Reader
               PROVE /\ rev'[d] <= revision'
                     /\ rpc'[d] \in {"loop", "waiting"} /\ rev'[d] = revision' => Current(d)'
                     /\ rpc'[d] = "waiting" => rev'[d] = revision'
    BY DEF RevisionInv
  <2>1. CASE d = c
    BY <1>1, <1>2, <2>1 DEF TypeOK, Current
  <2>2. CASE d # c
    BY <1>1, <1>2, <2>2 DEF Inv, TypeOK, RevisionInv, Current
  <2> QED
    BY <2>1, <2>2
<1> QED
  BY <1>3, <1>4, <1>5, <1>6 DEF Inv

(* Polls, streams, timeouts and broken connections keep the strengthening.  *)
LEMMA ReaderKeepsInv ==
    ASSUME Inv, NEW c \in Reader, ReaderNext(c)
    PROVE  Inv'
<1>0. TypeOK /\ rev[c] \in Nat /\ revision \in Nat /\ rev[c] <= revision /\ rpc[c] \in ReaderPC
  BY DEF Inv, TypeOK, RevisionInv
<1>1. CASE Poll(c)
  <2> DEFINE pc == IF status = "running" THEN "off" ELSE "told"
  <2>1. /\ Payload(c) /\ rpc' = [rpc EXCEPT ![c] = pc]
        /\ rev' = [rev EXCEPT ![c] = rev[c]]
    BY <1>0, <1>1 DEF Poll, TypeOK
  <2>2. pc \in ReaderPC /\ pc # "waiting" /\ (pc = "told" <=> status # "running")
    BY DEF ReaderPC
  <2> QED
    BY <1>0, <2>1, <2>2, PayloadInv
<1>2. CASE StreamOpen(c)
  <2> DEFINE pc == IF status = "running" THEN "loop" ELSE "told"
  <2>1. /\ Payload(c) /\ rpc' = [rpc EXCEPT ![c] = pc]
        /\ rev' = [rev EXCEPT ![c] = 0] /\ 0 <= revision
    BY <1>0, <1>2 DEF StreamOpen
  <2>2. pc \in ReaderPC /\ pc # "waiting" /\ (pc = "told" <=> status # "running")
    BY DEF ReaderPC
  <2> QED
    BY <1>0, <2>1, <2>2, PayloadInv
<1>3. CASE StreamRead(c)
  <2> DEFINE pc == IF status = "running" THEN "loop" ELSE "told"
  <2>1. /\ Payload(c) /\ rpc' = [rpc EXCEPT ![c] = pc]
        /\ rev' = [rev EXCEPT ![c] = revision] /\ revision <= revision
    BY <1>0, <1>3 DEF StreamRead
  <2>2. pc \in ReaderPC /\ pc # "waiting" /\ (pc = "told" <=> status # "running")
    BY DEF ReaderPC
  <2> QED
    BY <1>0, <2>1, <2>2, PayloadInv
<1>4. CASE StreamWait(c) \/ StreamTimeout(c) \/ Disconnect(c)
  <2> USE DEF StreamWait, StreamTimeout, Disconnect, taskVars, runVars, readerVars
  <2>1. TypeOK'
    BY <1>0, <1>4 DEF TypeOK, ReaderPC
  <2>2. TaskInv'
    BY <1>4 DEF Inv, TaskInv, EventsDense, EmitterInv, StatusInv
  <2>3. ReaderInv'
    <3>1. \A d \in Reader : rpc'[d] = "told" => rpc[d] = "told"
      BY <1>0, <1>4 DEF TypeOK
    <3>2. UNCHANGED <<events, status, seq, times, shown>>
      BY <1>4
    <3> QED
      BY <3>1, <3>2 DEF Inv, ReaderInv
  <2>4. RevisionInv'
    BY <1>0, <1>4 DEF Inv, TypeOK, RevisionInv, Current
  <2> QED
    BY <2>1, <2>2, <2>3, <2>4 DEF Inv
<1> QED
  BY <1>1, <1>2, <1>3, <1>4 DEF ReaderNext, StreamStep

-------------------------------------------------------------------------------
(* The strengthening is inductive, hence invariant.                         *)
THEOREM Invariance == Spec => []Inv
<1>1. Inv /\ [Next]_vars => Inv'
  <2> SUFFICES ASSUME Inv, [Next]_vars PROVE Inv'
    OBVIOUS
  <2>1. CASE UNCHANGED vars
    BY <2>1 DEF vars, taskVars, runVars, readerVars, Inv, TypeOK, TaskInv, EventsDense,
                EmitterInv, StatusInv, ReaderInv, RevisionInv, Current
  <2>2. CASE RunNext \/ Cancel \/ OtherTask
    BY <2>2, TaskNext, TaskStepKeepsReaders DEF Inv
  <2>3. CASE \E c \in Reader : ReaderNext(c)
    BY <2>3, ReaderKeepsInv
  <2> QED
    BY <2>1, <2>2, <2>3 DEF Next
<1> QED
  BY InitInv, <1>1, PTL DEF Spec

(* Every variable keeps its type, for any readers and any bounds.           *)
THEOREM TypeCorrect == Spec => []TypeOK
BY Invariance, PTL DEF Inv

(* A reader has the first events once each, however it mixes its requests.  *)
THEOREM PrefixCorrect == Spec => []ReadersSeePrefix
<1>1. Inv => ReadersSeePrefix
  <2> SUFFICES ASSUME Inv, NEW c \in Reader
               PROVE \E n \in 0..Len(events) :
                         times[c] = [i \in Index |-> IF i <= n THEN 1 ELSE 0]
    BY DEF ReadersSeePrefix
  <2>1. seq[c] \in 0..Len(events)
    BY DEF Inv, TypeOK, ReaderInv
  <2> QED
    BY <2>1 DEF Inv, ReaderInv
<1> QED
  BY <1>1, Invariance, PTL

(* No wakeup is lost: who sleeps has everything there is.                   *)
THEOREM SleepersCorrect == Spec => []SleepersAreCurrent
<1>1. Inv => SleepersAreCurrent
  BY DEF Inv, RevisionInv, Current, SleepersAreCurrent
<1> QED
  BY <1>1, Invariance, PTL

(* The end of an uncancelled task comes with all of its events.             *)
THEOREM EndIsComplete == Spec => []ToldIsComplete
<1>1. Inv => ToldIsComplete
  <2> SUFFICES ASSUME Inv, NEW c \in Reader, rpc[c] = "told",
                      shown[c].status \in {"finished", "error"},
                      NEW i \in 1..Len(events)
               PROVE  times[c][i] = 1
    BY DEF ToldIsComplete
  <2>1. i \in Index /\ i <= seq[c]
    BY BoundAssumption DEF Inv, TypeOK, ReaderInv, Index
  <2> QED
    BY <2>1 DEF Inv, ReaderInv
<1> QED
  BY <1>1, Invariance, PTL

(* The server's progress is the feed EventFeed describes.                   *)
THEOREM FeedRefinement == Spec => ImplementsEventFeed
<1> DEFINE T == {c \in Reader : rpc[c] = "told"}
<1>1. Init => Feed!Init
  BY DEF Init, Feed!Init, Over
<1>2. Inv /\ Inv' /\ [Next]_vars => [Feed!Next]_Feed!vars
  <2> SUFFICES ASSUME Inv, Inv', [Next]_vars PROVE [Feed!Next]_Feed!vars
    OBVIOUS
  <2> USE DEF taskVars, runVars, readerVars
  <2>0. Len(events) \in Nat /\ TypeOK /\ TypeOK'
    BY DEF Inv, TypeOK
  <2>1. CASE UNCHANGED vars
    BY <2>1 DEF vars, Feed!vars, Over
  <2>2. CASE RunNext \/ Cancel \/ OtherTask
    <3>1. TaskStep
      BY <2>2, TaskNext
    <3>2. UNCHANGED seq /\ T' = T
      <4>1. \A c \in Reader : rpc'[c] = "told" <=> rpc[c] = "told"
        BY <2>0, <3>1 DEF TaskStep, _notify, TypeOK
      <4> QED
        BY <3>1, <4>1 DEF TaskStep
    <3>3. \/ Len(events') = Len(events) + 1 /\ status' = status /\ Over # "ended"
          \/ events' = events /\ status' = status
          \/ events' = events /\ status = "running" /\ status' # "running"
      <4>1. CASE SinkAdd \/ StrictStarted \/ StrictCompleted
        <5>1. run # "over" /\ \E s \in Nat : add_event(s)
          BY <2>0, <4>1 DEF SinkAdd, StrictStarted, StrictCompleted, TypeOK
        <5>2. status' = status /\ \E x \in Nat : events' = Append(events, x)
          BY <2>0, <5>1 DEF add_event
        <5>3. Len(events') = Len(events) + 1
          BY <2>0, <5>2 DEF TypeOK
        <5>4. Over # "ended"
          BY <2>0, <5>1 DEF Inv, TaskInv, StatusInv, Over, TypeOK, Status
        <5> QED
          BY <5>2, <5>3, <5>4
      <4>2. CASE Emit \/ SinkPreview \/ StrictPreview \/ RunEnds \/ Cancel \/ OtherTask
        BY <4>2 DEF Emit, SinkPreview, StrictPreview, RunEnds, Cancel, OtherTask,
                    set_preview, request_cancel
      <4>3. CASE Settle
        BY <2>0, <4>3 DEF Settle, settle_task, Inv, TaskInv, StatusInv, TypeOK, Status
      <4> QED
        BY <2>2, <4>1, <4>2, <4>3 DEF RunNext
    <3> QED
      BY <2>0, <3>2, <3>3 DEF Feed!Next, Feed!Append, Feed!Settle, Feed!vars, Over, TypeOK,
                             Status
  <2>3. ASSUME NEW c \in Reader, ReaderNext(c) PROVE [Feed!Next]_Feed!vars
    <3>1. CASE StreamWait(c) \/ StreamTimeout(c) \/ Disconnect(c)
      <4>1. T' = T
        BY <2>0, <3>1 DEF StreamWait, StreamTimeout, Disconnect, TypeOK
      <4> QED
        BY <3>1, <4>1 DEF StreamWait, StreamTimeout, Disconnect, Feed!vars, Over
    <3>2. CASE Poll(c) \/ StreamOpen(c) \/ StreamRead(c)
      <4>1. /\ Payload(c) /\ rpc[c] # "told"
            /\ \E pc \in ReaderPC : /\ rpc' = [rpc EXCEPT ![c] = pc]
                                    /\ pc = "told" <=> status # "running"
        BY <3>2 DEF Poll, StreamOpen, StreamRead, ReaderPC
      <4>2. seq' = [seq EXCEPT ![c] = Len(events)] /\ UNCHANGED <<taskVars, runVars>>
        BY <4>1, PayloadBringsAll
      <4>3. T' = IF Over = "running" THEN T ELSE T \cup {c}
        BY <2>0, <4>1 DEF TypeOK, Over
      <4>4. c \notin T
        BY <4>1
      <4> QED
        BY <4>2, <4>3, <4>4 DEF Feed!Next, Feed!Read, Over
    <3> QED
      BY <2>3, <3>1, <3>2 DEF ReaderNext, StreamStep
  <2> QED
    BY <2>1, <2>2, <2>3 DEF Next
<1> QED
  BY <1>1, <1>2, Invariance, PTL DEF Spec, ImplementsEventFeed, Feed!Spec

-------------------------------------------------------------------------------
(* ReplayStore                                                              *)

USE DEF history

\* A manifest numbers its frames 1, 2, ... with no time twice in a row.
Numbered(listed) ==
    /\ \A i \in 1..Len(listed) : listed[i][1] = i
    /\ \A i \in 2..Len(listed) : listed[i][2] # listed[i - 1][2]

\* A time that does not repeat the last frame's.
NewTime(listed, time) == Len(listed) > 0 => listed[Len(listed)][2] # time

\* What holds of a handler's locals l, for the manifests m, the started requests
\* st and those whose replay was reset, rs: what it goes to write is numbered; a
\* frame is written for a request that was reset before; and a handler that
\* found frames of its own request comes too late to remove any.
HandlerOK(l, m, st, rs) ==
    /\ l \in Handler
    /\ l.open => l.pc = "flush" /\ m[l.run].state # "missing"
    /\ l.pc \notin {"idle", "mark", "rmtree", "rmdir"} => l.kind # "execute"
    /\ l.kind # "upload" /\ l.pc # "idle" => l.req \in st
    /\ Numbered(l.was.frames) /\ l.was.state = "written"
    /\ l.pc = "frame" => l.kind = "frame" /\ NewTime(l.was.frames, l.time)
    /\ l.kind = "frame" /\ l.pc \notin {"idle", "mark"} => l.req \in rs
    /\ l.saw # {} => l.req \in rs
    /\ l.pc = "rmtree" => l.saw = {}

\* The tasks and what each request is bound to.
Tasks ==
    /\ started \subseteq Requests /\ reset \subseteq started
    /\ current \in started \cup {"none"}
    /\ run_id \in [Requests -> Runs \cup {"none"}]
    /\ \A q \in Requests : run_id[q] \in {"none", RunOf[q]}
    /\ handled \in Nat
    /\ clock \in 1..MaxTime /\ overlapped \subseteq Runs /\ raced \subseteq Runs

\* The directories: only a request that was reset has a frame in one.
Directory ==
    /\ exists \subseteq Runs
    /\ DOMAIN frames = Runs
    /\ \A r \in Runs : /\ DOMAIN frames[r] \subseteq Frame
                       /\ \A f \in DOMAIN frames[r] : frames[r][f] \in reset
    /\ video \in [Runs -> Int]
    /\ manifest \in [Runs -> Listing]
    /\ \A r \in Runs : Numbered(manifest[r].frames)
    /\ evidence \in [Runs -> Seq([path : STRING, time : Nat])]

\* The inductive invariant of the replay.
ReplayInv ==
    /\ Tasks /\ Directory
    /\ h \in [Handlers -> Handler]
    /\ \A t \in Handlers : HandlerOK(h[t], manifest, started, reset)


\* A handler without a request.
LEMMA IdleOK ==
    ASSUME NEW m, NEW st, NEW rs
    PROVE  HandlerOK(Idle, m, st, rs)
<1>1. Nothing \in Listing /\ Nothing.frames = <<>> /\ Nothing.state = "written"
  BY DEF Nothing, Listing
<1>2. (CHOOSE r \in Runs : TRUE) \in Runs /\ 1 \in 1..MaxTime
  BY ReplayAssumption
<1>3. Idle \in Handler
  BY <1>1, <1>2 DEF Idle, Handler
<1>4. /\ Idle.pc = "idle" /\ ~Idle.open /\ Idle.kind = "execute" /\ Idle.saw = {} /\ Idle.was = Nothing
  BY DEF Idle
<1>5. Numbered(<<>>)
  BY DEF Numbered
<1> QED BY <1>1, <1>3, <1>4, <1>5 DEF HandlerOK

\* An action of one handler.
LEMMA OneHandler ==
    ASSUME ReplayInv, NEW t \in Handlers, NEW l,
           HandlerOK(l, manifest', started', reset'), h' = [h EXCEPT ![t] = l],
           started \subseteq started', reset \subseteq reset',
           \A r \in Runs : manifest[r].state # "missing" => manifest'[r].state # "missing"
    PROVE  /\ h' \in [Handlers -> Handler]
           /\ \A u \in Handlers : HandlerOK(h'[u], manifest', started', reset')
<1>1. l \in Handler /\ h \in [Handlers -> Handler]
  BY DEF HandlerOK, ReplayInv
<1>2. h' \in [Handlers -> Handler] /\ h'[t] = l /\ \A u \in Handlers : u # t => h'[u] = h[u]
  BY <1>1
<1>3. ASSUME NEW u \in Handlers, u # t PROVE HandlerOK(h[u], manifest', started', reset')
  <2>1. HandlerOK(h[u], manifest, started, reset) /\ h[u].run \in Runs
    BY <1>1 DEF ReplayInv, Handler
  <2> QED BY <2>1 DEF HandlerOK
<1> QED BY <1>2, <1>3

\* The two ways to leave a step, as updates of the whole local state.
LEMMA Moved ==
    ASSUME ReplayInv, NEW t \in Handlers, NEW pc
    PROVE  /\ Goto(t, pc) <=> h' = [h EXCEPT ![t] = [h[t] EXCEPT !.pc = pc]]
           /\ Return(t) <=> h' = [h EXCEPT ![t] = Idle]
BY DEF ReplayInv, Goto, Return

\* A handler that answers.
LEMMA ReturnOK ==
    ASSUME ReplayInv, NEW t \in Handlers, Return(t),
           started \subseteq started', reset \subseteq reset',
           \A r \in Runs : manifest[r].state # "missing" => manifest'[r].state # "missing"
    PROVE  /\ h' \in [Handlers -> Handler]
           /\ \A u \in Handlers : HandlerOK(h'[u], manifest', started', reset')
BY IdleOK, Moved, OneHandler

\* A handler that goes on, past its reset.
LEMMA GotoOK ==
    ASSUME ReplayInv, NEW t \in Handlers,
           NEW pc \in {"mkdir", "video", "read"}, Goto(t, pc),
           h[t].kind # "execute", ~h[t].open, h[t].pc # "idle", h[t].kind = "frame" => h[t].req \in reset',
           started \subseteq started', reset \subseteq reset',
           \A r \in Runs : manifest[r].state # "missing" => manifest'[r].state # "missing"
    PROVE  /\ h' \in [Handlers -> Handler]
           /\ \A u \in Handlers : HandlerOK(h'[u], manifest', started', reset')
<1> DEFINE l == [h[t] EXCEPT !.pc = pc]
<1>1. HandlerOK(h[t], manifest, started, reset) /\ h[t] \in Handler
  BY DEF ReplayInv
<1>2. /\ l \in Handler /\ l.pc = pc /\ l.kind = h[t].kind /\ l.req = h[t].req /\ l.was = h[t].was
      /\ l.open = h[t].open /\ l.saw = h[t].saw /\ l.run = h[t].run
  BY <1>1 DEF Handler
<1>3. h' = [h EXCEPT ![t] = l]
  BY Moved
<1> HIDE DEF l
<1>4. HandlerOK(l, manifest', started', reset')
  BY <1>1, <1>2 DEF HandlerOK
<1> QED BY <1>3, <1>4, OneHandler

\* A handler that begins: frames of its own request mean that it was reset.
LEMMA BeginOK ==
    ASSUME ReplayInv, NEW t \in Handlers, NEW kind \in {"frame", "upload", "execute"},
           NEW q \in Requests \cup {"none"}, NEW r \in Runs, NEW time \in 1..MaxTime,
           Begin(t, kind, q, r, time), kind # "upload" => q \in started',
           started \subseteq started', UNCHANGED <<reset, manifest>>
    PROVE  /\ h' \in [Handlers -> Handler] /\ handled' \in Nat
           /\ \A u \in Handlers : HandlerOK(h'[u], manifest', started', reset')
<1> DEFINE l == [Idle EXCEPT !.pc = "mark", !.kind = kind, !.req = q, !.run = r,
                             !.time = time, !.saw = Own(q, r)]
<1>1. h' = [h EXCEPT ![t] = l] /\ handled' \in Nat
  BY DEF Begin, ReplayInv, Tasks
<1>2. HandlerOK(Idle, manifest, started, reset) /\ Idle \in Handler
  BY IdleOK DEF HandlerOK
<1>3. Own(q, r) \subseteq Frame /\ (Own(q, r) # {} => q \in reset)
  BY DEF Own, ReplayInv, Directory
<1>4. /\ l \in Handler /\ l.pc = "mark" /\ l.kind = kind /\ l.req = q /\ l.was = Idle.was
      /\ l.open = FALSE /\ l.saw = Own(q, r) /\ l.run = r
  BY <1>2, <1>3 DEF Handler, Idle
<1> HIDE DEF l
<1>5. HandlerOK(l, manifest', started', reset')
  BY <1>2, <1>3, <1>4 DEF HandlerOK
<1> QED BY <1>1, <1>5, OneHandler

\* A handler past its reset answers or goes on.
LEMMA AfterResetOK ==
    ASSUME ReplayInv, NEW t \in Handlers, AfterReset(t),
           h[t].pc \in {"mark", "rmtree", "rmdir"}, h[t].kind = "frame" => h[t].req \in reset',
           started \subseteq started', reset \subseteq reset', UNCHANGED manifest
    PROVE  /\ h' \in [Handlers -> Handler]
           /\ \A u \in Handlers : HandlerOK(h'[u], manifest', started', reset')
<1>1. ~h[t].open
  BY DEF ReplayInv, HandlerOK
<1>2. CASE h[t].kind = "execute"
  BY <1>2, ReturnOK DEF AfterReset
<1>3. CASE h[t].kind # "execute"
  BY <1>1, <1>3, GotoOK DEF AfterReset
<1> QED BY <1>2, <1>3

\* Numbered lists: the empty one, and one more frame.
LEMMA NumberedMore ==
    ASSUME NEW s \in Seq(Frame), Numbered(s), NEW time \in 1..MaxTime, NewTime(s, time)
    PROVE  /\ Append(s, <<Len(s) + 1, time>>) \in Seq(Frame)
           /\ Numbered(Append(s, <<Len(s) + 1, time>>))
<1> DEFINE f == <<Len(s) + 1, time>>
           w == Append(s, f)
<1>1. Len(s) \in Nat /\ f \in Frame /\ f[1] = Len(s) + 1 /\ f[2] = time
  BY DEF Frame
<1> HIDE DEF f
<1>2. /\ w \in Seq(Frame) /\ Len(w) = Len(s) + 1 /\ w[Len(s) + 1] = f
      /\ \A i \in 1..Len(s) : w[i] = s[i]
  BY <1>1
<1> HIDE DEF w
<1>3. \A i \in 1..Len(w) : w[i][1] = i
  BY <1>1, <1>2 DEF Numbered
<1>4. ASSUME NEW i \in 2..Len(w) PROVE w[i][2] # w[i - 1][2]
  <2>1. CASE i = Len(s) + 1
    <3>1. w[i] = f /\ i - 1 = Len(s) /\ Len(s) \in 1..Len(s)
      BY <1>1, <1>2, <2>1
    <3>2. w[i - 1] = s[Len(s)] /\ Len(s) > 0
      BY <1>1, <1>2, <3>1
    <3> QED BY <1>1, <3>1, <3>2 DEF NewTime
  <2>2. CASE i # Len(s) + 1
    <3>1. i \in 2..Len(s) /\ i \in 1..Len(s) /\ i - 1 \in 1..Len(s)
      BY <1>1, <1>2, <2>2
    <3>2. w[i] = s[i] /\ w[i - 1] = s[i - 1]
      BY <1>2, <3>1
    <3> QED BY <3>1, <3>2 DEF Numbered
  <2> QED BY <2>1, <2>2
<1>5. Numbered(w)
  BY <1>3, <1>4 DEF Numbered
<1> QED BY <1>2, <1>5 DEF w, f

\* The steps that start, name and end a task, or begin a handler.
LEMMA TaskSteps ==
    ASSUME ReplayInv, NEW t, NEW q,
           \/ t \in Handlers /\ q \in Requests /\ Execute(t, q)
           \/ t \in Handlers /\ (Screenshot(t) \/ Upload(t))
           \/ q \in Requests /\ FirstEvent(q)
           \/ FinishTask
    PROVE  ReplayInv'
<1>1. UNCHANGED <<reset, exists, frames, video, manifest>>
  BY DEF Execute, Screenshot, Upload, FirstEvent, FinishTask, directory
<1>2. CASE t \in Handlers /\ q \in Requests /\ Execute(t, q)
  <2>1. started' = started \cup {q} /\ current' = q /\ UNCHANGED <<evidence, history>>
    BY <1>2 DEF Execute
  <2>2. RunOf[q] \in Runs /\ 1 \in 1..MaxTime
    BY <1>2, ReplayAssumption
  <2>3. run_id' \in [Requests -> Runs \cup {"none"}] /\ \A p \in Requests : run_id'[p] \in {"none", RunOf[p]}
    BY <1>2, <2>2 DEF Execute, ReplayInv, Tasks
  <2>4. /\ h' \in [Handlers -> Handler] /\ handled' \in Nat
        /\ \A u \in Handlers : HandlerOK(h'[u], manifest', started', reset')
    <3>1. CASE q \in Strict
      <4>1. Begin(t, "execute", q, RunOf[q], 1)
        BY <1>2, <3>1 DEF Execute
      <4> QED BY <1>1, <1>2, <2>1, <2>2, <4>1, BeginOK
    <3>2. CASE q \notin Strict
      <4>1. h' = h /\ handled' = handled /\ manifest' = manifest /\ reset' = reset
        BY <1>1, <1>2, <3>2 DEF Execute
      <4> QED BY <2>1, <4>1 DEF ReplayInv, Tasks, HandlerOK
    <3> QED BY <3>1, <3>2
  <2>5. Tasks'
    BY <1>1, <1>2, <2>1, <2>3, <2>4 DEF ReplayInv, Tasks
  <2>6. Directory'
    BY <1>1, <2>1 DEF ReplayInv, Directory
  <2> QED BY <2>4, <2>5, <2>6 DEF ReplayInv
<1>3. CASE t \in Handlers /\ Screenshot(t)
  <2>1. /\ UNCHANGED <<started, current, run_id, evidence>>
        /\ current # "none" /\ run_id[current] # "none"
    BY <1>3 DEF Screenshot, tasks
  <2>2. PICK time \in clock..MaxTime :
            Begin(t, "frame", current, run_id[current], time) /\ clock' = time
    BY <1>3 DEF Screenshot
  <2>3. /\ current \in Requests /\ current \in started' /\ run_id[current] \in Runs
        /\ time \in 1..MaxTime
    BY <2>1 DEF ReplayInv, Tasks
  <2>4. /\ h' \in [Handlers -> Handler] /\ handled' \in Nat
        /\ \A u \in Handlers : HandlerOK(h'[u], manifest', started', reset')
    BY <1>1, <1>3, <2>1, <2>2, <2>3, BeginOK
  <2>5. overlapped' \subseteq Runs /\ raced' = raced
    BY <1>3, <2>3 DEF Screenshot, ReplayInv, Tasks
  <2>6. Tasks' /\ Directory'
    BY <1>1, <2>1, <2>2, <2>3, <2>4, <2>5 DEF ReplayInv, Tasks, Directory
  <2> QED BY <2>4, <2>6 DEF ReplayInv
<1>4. CASE t \in Handlers /\ Upload(t)
  <2>1. UNCHANGED <<started, current, run_id, evidence, history>>
    BY <1>4 DEF Upload, tasks
  <2> PICK p \in started :
          \E id \in {p, "none"} : run_id[p] # "none" /\ Begin(t, "upload", id, run_id[p], 1)
    BY <1>4 DEF Upload
  <2>2. PICK id \in {p, "none"} : run_id[p] # "none" /\ Begin(t, "upload", id, run_id[p], 1)
    OBVIOUS
  <2>3. run_id[p] \in Runs /\ id \in Requests \cup {"none"} /\ 1 \in 1..MaxTime
    BY <2>2, ReplayAssumption DEF ReplayInv, Tasks
  <2>4. /\ h' \in [Handlers -> Handler] /\ handled' \in Nat
        /\ \A u \in Handlers : HandlerOK(h'[u], manifest', started', reset')
    BY <1>1, <1>4, <2>1, <2>2, <2>3, BeginOK
  <2>5. Tasks' /\ Directory'
    BY <1>1, <2>1, <2>4 DEF ReplayInv, Tasks, Directory
  <2> QED BY <2>4, <2>5 DEF ReplayInv
<1>5. CASE q \in Requests /\ FirstEvent(q)
  <2>1. /\ run_id' = [run_id EXCEPT ![q] = RunOf[q]]
        /\ UNCHANGED <<started, current, evidence, h, handled, history>>
    BY <1>5 DEF FirstEvent
  <2>2. RunOf[q] \in Runs
    BY <1>5, ReplayAssumption
  <2>3. Tasks' /\ Directory'
    BY <1>1, <2>1, <2>2 DEF ReplayInv, Tasks, Directory
  <2> QED BY <1>1, <2>1, <2>3 DEF ReplayInv
<1>6. CASE FinishTask
  <2>1. /\ current' = "none" /\ current # "none" /\ run_id[current] # "none"
        /\ UNCHANGED <<started, run_id, h, handled, history>>
    BY <1>6 DEF FinishTask
  <2>2. PICK e \in Evidence : evidence' = [evidence EXCEPT ![run_id[current]] = e]
    BY <1>6 DEF FinishTask
  <2>3. evidence' \in [Runs -> Seq([path : STRING, time : Nat])]
    <3>1. e \in Seq([path : STRING, time : Nat]) /\ evidence \in [Runs -> Seq([path : STRING, time : Nat])]
      BY ReplayAssumption DEF ReplayInv, Directory
    <3> QED BY <2>2, <3>1
  <2>4. Tasks' /\ Directory'
    BY <1>1, <2>1, <2>3 DEF ReplayInv, Tasks, Directory
  <2> QED BY <1>1, <2>1, <2>4 DEF ReplayInv
<1> QED BY <1>2, <1>3, <1>4, <1>5, <1>6

\* The mark: a handler that is first to mark its request has seen no frame of it.
LEMMA MarkStep ==
    ASSUME ReplayInv, NEW t \in Handlers, mark_replay_reset(t)
    PROVE  ReplayInv'
<1>1. /\ h[t].pc = "mark" /\ reset' = reset \cup ({h[t].req} \cap started)
      /\ UNCHANGED <<history, handled, started, current, run_id, evidence, exists, frames, video, manifest>>
  BY DEF mark_replay_reset, tasks, directory
<1>2. HandlerOK(h[t], manifest, started, reset) /\ h[t] \in Handler
  BY DEF ReplayInv
<1>3. h[t].kind = "frame" => h[t].req \in reset'
  BY <1>1, <1>2 DEF HandlerOK
<1>4. reset \subseteq reset' /\ reset' \subseteq started'
  BY <1>1 DEF ReplayInv, Tasks
<1>5. /\ h' \in [Handlers -> Handler]
      /\ \A u \in Handlers : HandlerOK(h'[u], manifest', started', reset')
  <2>1. CASE h[t].req \in started \ reset
    <3> DEFINE l == [h[t] EXCEPT !.pc = "rmtree"]
    <3>1. h' = [h EXCEPT ![t] = l]
      BY <2>1, Moved DEF mark_replay_reset
    <3>2. /\ l \in Handler /\ l.pc = "rmtree" /\ l.kind = h[t].kind /\ l.req = h[t].req
          /\ l.was = h[t].was /\ l.open = h[t].open /\ l.saw = h[t].saw /\ l.run = h[t].run
      BY <1>2 DEF Handler
    <3> HIDE DEF l
    <3>3. l.saw = {} /\ ~l.open
      BY <1>1, <1>2, <2>1, <3>2 DEF HandlerOK
    <3>4. HandlerOK(l, manifest', started', reset')
      BY <1>1, <1>2, <1>3, <3>2, <3>3 DEF HandlerOK
    <3> QED BY <1>1, <1>4, <3>1, <3>4, OneHandler
  <2>2. CASE h[t].req \notin started \ reset
    <3>1. AfterReset(t)
      BY <2>2 DEF mark_replay_reset
    <3> QED BY <1>1, <1>3, <1>4, <3>1, AfterResetOK
  <2> QED BY <2>1, <2>2
<1>6. Tasks' /\ Directory'
  BY <1>1, <1>4 DEF ReplayInv, Tasks, Directory
<1> QED BY <1>5, <1>6 DEF ReplayInv

\* A manifest that is missing or torn lists nothing.
LEMMA ListingsOK ==
    /\ Missing \in Listing /\ Missing.frames = <<>> /\ Numbered(Missing.frames)
    /\ Torn \in Listing /\ Torn.state # "missing" /\ Numbered(Torn.frames)
<1>1. /\ Nothing \in Listing /\ Nothing.frames = <<>>
      /\ DOMAIN Nothing = {"state", "frames", "video"}
  BY DEF Nothing, Listing
<1>2. Missing = [Nothing EXCEPT !.state = "missing"] /\ Torn = [Nothing EXCEPT !.state = "torn"]
  BY DEF Missing, Torn
<1>3. /\ Missing \in Listing /\ Missing.frames = <<>>
      /\ Torn \in Listing /\ Torn.frames = <<>> /\ Torn.state = "torn"
  BY <1>1, <1>2 DEF Listing
<1>4. Numbered(<<>>)
  BY DEF Numbered
<1> QED BY <1>3, <1>4

\* The files of the directory are removed, and with them the open manifests.
LEMMA RmtreeStep ==
    ASSUME ReplayInv, NEW t \in Handlers, Rmtree(t)
    PROVE  ReplayInv'
<1> DEFINE r == h[t].run
<1>1. /\ h[t].pc = "rmtree"
      /\ UNCHANGED <<history, handled, started, current, run_id, reset, evidence, exists>>
  BY DEF Rmtree, tasks
<1>2. HandlerOK(h[t], manifest, started, reset) /\ h[t] \in Handler /\ r \in Runs
      /\ h \in [Handlers -> Handler]
  BY DEF ReplayInv, Handler
<1>3. Tasks'
  BY <1>1 DEF ReplayInv, Tasks
<1>4. CASE r \in exists
  <2> DEFINE l(u) == IF u = t THEN [h[t] EXCEPT !.pc = "rmdir"]
                     ELSE IF h[u].run = r THEN [h[u] EXCEPT !.open = FALSE] ELSE h[u]
  <2>1. /\ h' = [u \in Handlers |-> l(u)]
        /\ frames' = [frames EXCEPT ![r] = <<>>]
        /\ video' = [video EXCEPT ![r] = -1]
        /\ manifest' = [manifest EXCEPT ![r] = Missing]
    BY <1>4 DEF Rmtree
  <2>2. Missing \in Listing /\ Missing.frames = <<>> /\ Numbered(Missing.frames)
    BY ListingsOK
  <2>3. DOMAIN frames' = Runs /\ \A p \in Runs : frames'[p] = IF p = r THEN <<>> ELSE frames[p]
    BY <1>2, <2>1 DEF ReplayInv, Directory
  <2>4. Directory'
    <3>1. DOMAIN <<>> = {}
      OBVIOUS
    <3>2. ASSUME NEW p \in Runs
          PROVE  /\ DOMAIN frames'[p] \subseteq Frame
                 /\ \A f \in DOMAIN frames'[p] : frames'[p][f] \in reset'
      <4>1. CASE p = r
        <5>1. frames'[p] = <<>>
          BY <2>3, <4>1
        <5> QED BY <3>1, <5>1
      <4>2. CASE p # r
        <5>1. frames'[p] = frames[p]
          BY <2>3, <4>2
        <5> QED BY <1>1, <5>1 DEF ReplayInv, Directory
      <4> QED BY <4>1, <4>2
    <3>3. video' \in [Runs -> Int]
      BY <1>2, <2>1 DEF ReplayInv, Directory
    <3>4. manifest' \in [Runs -> Listing] /\ \A p \in Runs : Numbered(manifest'[p].frames)
      BY <1>2, <2>1, <2>2 DEF ReplayInv, Directory
    <3> QED BY <1>1, <2>3, <3>2, <3>3, <3>4 DEF ReplayInv, Directory
  <2>5. ASSUME NEW u \in Handlers PROVE l(u) \in Handler /\ HandlerOK(l(u), manifest', started', reset')
    <3>0. HandlerOK(h[u], manifest, started, reset) /\ h[u] \in Handler
      BY DEF ReplayInv, HandlerOK
    <3>1. CASE u = t
      <4>1. /\ l(u) \in Handler /\ l(u).pc = "rmdir" /\ l(u).kind = h[u].kind /\ l(u).req = h[u].req
            /\ l(u).was = h[u].was /\ l(u).open = h[u].open /\ l(u).saw = h[u].saw
            /\ l(u).run = h[u].run
        BY <3>0, <3>1 DEF Handler
      <4> HIDE DEF l
      <4> QED BY <1>1, <3>0, <3>1, <4>1 DEF HandlerOK
    <3>2. CASE u # t /\ h[u].run = r
      <4>1. /\ l(u) \in Handler /\ l(u).pc = h[u].pc /\ l(u).kind = h[u].kind /\ l(u).req = h[u].req
            /\ l(u).was = h[u].was /\ ~l(u).open /\ l(u).saw = h[u].saw /\ l(u).run = h[u].run
            /\ l(u).time = h[u].time
        BY <3>0, <3>2 DEF Handler
      <4> HIDE DEF l
      <4> QED BY <1>1, <3>0, <4>1 DEF HandlerOK
    <3>3. CASE u # t /\ h[u].run # r
      <4>1. l(u) = h[u]
        BY <3>3
      <4>2. manifest'[h[u].run] = manifest[h[u].run]
        <5>1. h[u].run \in Runs /\ manifest \in [Runs -> Listing]
          BY <3>0 DEF Handler, ReplayInv, Directory
        <5> QED BY <2>1, <3>3, <5>1
      <4> HIDE DEF l
      <4> QED BY <1>1, <3>0, <4>1, <4>2 DEF HandlerOK
    <3> QED BY <3>1, <3>2, <3>3
  <2> HIDE DEF l
  <2> QED BY <1>3, <2>1, <2>4, <2>5 DEF ReplayInv
<1>5. CASE r \notin exists
  <2>1. AfterReset(t) /\ UNCHANGED <<frames, video, manifest>>
    BY <1>5 DEF Rmtree
  <2>2. h[t].kind = "frame" => h[t].req \in reset
    BY <1>1, <1>2 DEF HandlerOK
  <2>3. /\ h' \in [Handlers -> Handler]
        /\ \A u \in Handlers : HandlerOK(h'[u], manifest', started', reset')
    BY <1>1, <2>1, <2>2, AfterResetOK
  <2>4. Directory'
    BY <1>1, <2>1 DEF ReplayInv, Directory
  <2> QED BY <1>3, <2>3, <2>4 DEF ReplayInv
<1> QED BY <1>4, <1>5

\* The directory is removed, or what appeared in it stops the handler.
LEMMA RmdirStep ==
    ASSUME ReplayInv, NEW t \in Handlers, Rmdir(t)
    PROVE  ReplayInv'
<1>1. /\ h[t].pc = "rmdir" /\ exists' \subseteq exists
      /\ UNCHANGED <<history, handled, started, current, run_id, reset, evidence, frames, video, manifest>>
      /\ AfterReset(t) \/ Return(t)
  BY DEF Rmdir, tasks
<1>2. HandlerOK(h[t], manifest, started, reset)
  BY DEF ReplayInv
<1>3. /\ h' \in [Handlers -> Handler]
      /\ \A u \in Handlers : HandlerOK(h'[u], manifest', started', reset')
  <2>1. CASE AfterReset(t)
    BY <1>1, <1>2, <2>1, AfterResetOK DEF HandlerOK
  <2>2. CASE Return(t)
    BY <1>1, <2>2, ReturnOK
  <2> QED BY <1>1, <2>1, <2>2
<1>4. Tasks' /\ Directory'
  BY <1>1 DEF ReplayInv, Tasks, Directory
<1> QED BY <1>3, <1>4 DEF ReplayInv

\* The directory is made again.
LEMMA MkdirStep ==
    ASSUME ReplayInv, NEW t \in Handlers, Mkdir(t)
    PROVE  ReplayInv'
<1>1. /\ h[t].pc = "mkdir" /\ exists' = exists \cup {h[t].run}
      /\ UNCHANGED <<history, handled, started, current, run_id, reset, evidence, frames, video, manifest>>
      /\ Goto(t, IF h[t].kind = "upload" THEN "video" ELSE "read")
  BY DEF Mkdir, tasks
<1>2. HandlerOK(h[t], manifest, started, reset) /\ h[t].run \in Runs
  BY DEF ReplayInv, HandlerOK, Handler
<1>3. /\ h' \in [Handlers -> Handler]
      /\ \A u \in Handlers : HandlerOK(h'[u], manifest', started', reset')
  <2>1. h[t].kind # "execute" /\ ~h[t].open /\ (h[t].kind = "frame" => h[t].req \in reset)
    BY <1>1, <1>2 DEF HandlerOK
  <2> QED BY <1>1, <2>1, GotoOK
<1>4. Tasks' /\ Directory'
  BY <1>1, <1>2 DEF ReplayInv, Tasks, Directory
<1> QED BY <1>3, <1>4 DEF ReplayInv

\* The uploaded video is written.
LEMMA VideoStep ==
    ASSUME ReplayInv, NEW t \in Handlers, VideoWrite(t)
    PROVE  ReplayInv'
<1>1. /\ h[t].pc = "video"
      /\ UNCHANGED <<history, handled, started, current, run_id, reset, evidence, exists, frames, manifest>>
      /\ Goto(t, "read") \/ Return(t)
      /\ video' = video \/ \E size \in Sizes : video' = [video EXCEPT ![h[t].run] = size]
  BY DEF VideoWrite, tasks
<1>2. HandlerOK(h[t], manifest, started, reset)
  BY DEF ReplayInv
<1>3. /\ h' \in [Handlers -> Handler]
      /\ \A u \in Handlers : HandlerOK(h'[u], manifest', started', reset')
  <2>1. h[t].kind # "execute" /\ ~h[t].open /\ (h[t].kind = "frame" => h[t].req \in reset)
    BY <1>1, <1>2 DEF HandlerOK
  <2>2. CASE Goto(t, "read")
    BY <1>1, <2>1, <2>2, GotoOK
  <2>3. CASE Return(t)
    BY <1>1, <2>3, ReturnOK
  <2> QED BY <1>1, <2>2, <2>3
<1>4. video' \in [Runs -> Int]
  <2>1. video \in [Runs -> Int] /\ Sizes \subseteq Int
    BY ReplayAssumption DEF ReplayInv, Directory
  <2> QED BY <1>1, <2>1
<1>5. Tasks' /\ Directory'
  BY <1>1, <1>4 DEF ReplayInv, Tasks, Directory
<1> QED BY <1>3, <1>5 DEF ReplayInv

\* The manifest that is read is numbered, and a new frame has a new time.
LEMMA ReadStep ==
    ASSUME ReplayInv, NEW t \in Handlers, ReadManifest(t)
    PROVE  ReplayInv'
<1> DEFINE m == _read_replay_manifest(h[t].run)
           n == Len(m.frames)
<1>1. /\ h[t].pc = "read"
      /\ UNCHANGED <<clock, overlapped, handled, started, current, run_id, reset, evidence, exists, frames, video, manifest>>
  BY DEF ReadManifest, tasks, directory
<1>2. HandlerOK(h[t], manifest, started, reset) /\ h[t] \in Handler /\ h[t].run \in Runs
  BY DEF ReplayInv, HandlerOK, Handler
<1>3. /\ m \in Listing /\ m.state = "written" /\ m.frames \in Seq(Frame) /\ Numbered(m.frames)
  BY <1>2 DEF ReplayInv, Directory, _read_replay_manifest, Listing
<1>4. Tasks' /\ Directory'
  <2>1. raced' \subseteq Runs
    BY <1>2 DEF ReadManifest, ReplayInv, Tasks
  <2> QED BY <1>1, <2>1 DEF ReplayInv, Tasks, Directory
<1>5. CASE h[t].kind = "upload"
  <2> DEFINE l == [h[t] EXCEPT !.pc = "write", !.was = [m EXCEPT !.video = TRUE]]
  <2>1. h' = [h EXCEPT ![t] = l]
    BY <1>5 DEF ReadManifest, ReplayInv
  <2>2. [m EXCEPT !.video = TRUE] \in Listing /\ [m EXCEPT !.video = TRUE].frames = m.frames
        /\ [m EXCEPT !.video = TRUE].state = "written"
    <3> HIDE DEF m
    <3> QED BY <1>3 DEF Listing
  <2>3. /\ l \in Handler /\ l.pc = "write" /\ l.kind = h[t].kind /\ l.req = h[t].req
        /\ l.was.frames = m.frames /\ l.was.state = "written"
        /\ l.open = h[t].open /\ l.saw = h[t].saw /\ l.run = h[t].run
    <3> HIDE DEF m
    <3> QED BY <1>2, <2>2 DEF Handler
  <2> HIDE DEF l, m
  <2>4. HandlerOK(l, manifest', started', reset')
    BY <1>1, <1>2, <1>3, <2>3 DEF HandlerOK
  <2> QED BY <1>1, <1>4, <2>1, <2>4, OneHandler DEF ReplayInv
<1>6. CASE h[t].kind = "frame" /\ n > 0 /\ m.frames[n][2] = h[t].time
  <2>1. Return(t)
    BY <1>6 DEF ReadManifest
  <2> QED BY <1>1, <1>4, <2>1, ReturnOK DEF ReplayInv
<1>7. CASE h[t].kind = "frame" /\ ~(n > 0 /\ m.frames[n][2] = h[t].time)
  <2> DEFINE l == [h[t] EXCEPT !.pc = "frame", !.was = m]
  <2>1. h' = [h EXCEPT ![t] = l]
    BY <1>7 DEF ReadManifest, ReplayInv
  <2>3. NewTime(m.frames, h[t].time)
    BY <1>7 DEF NewTime
  <2> HIDE DEF m, n
  <2>4. /\ l \in Handler /\ l.pc = "frame" /\ l.kind = h[t].kind /\ l.req = h[t].req
        /\ l.was = m /\ l.open = h[t].open /\ l.saw = h[t].saw /\ l.run = h[t].run
        /\ l.time = h[t].time
    BY <1>2, <1>3 DEF Handler
  <2> HIDE DEF l
  <2>5. HandlerOK(l, manifest', started', reset')
    BY <1>1, <1>2, <1>3, <1>7, <2>3, <2>4 DEF HandlerOK
  <2> QED BY <1>1, <1>4, <2>1, <2>5, OneHandler DEF ReplayInv
<1>8. h[t].kind \in {"frame", "upload"}
  BY <1>1, <1>2 DEF HandlerOK, Handler
<1> QED BY <1>5, <1>6, <1>7, <1>8

\* A frame is written and listed behind the others.
LEMMA FrameStep ==
    ASSUME ReplayInv, NEW t \in Handlers, FrameWrite(t)
    PROVE  ReplayInv'
<1> DEFINE r == h[t].run
           f == FrameName(t)
<1>1. /\ h[t].pc = "frame"
      /\ UNCHANGED <<history, handled, started, current, run_id, reset, evidence, exists, video, manifest>>
  BY DEF FrameWrite, tasks
<1>2. HandlerOK(h[t], manifest, started, reset) /\ h[t] \in Handler /\ r \in Runs
  BY DEF ReplayInv, HandlerOK, Handler
<1>3. /\ h[t].was \in Listing /\ h[t].was.frames \in Seq(Frame) /\ h[t].time \in 1..MaxTime
      /\ h[t].kind = "frame" /\ h[t].req \in reset
      /\ h[t].was.state = "written" /\ Numbered(h[t].was.frames) /\ NewTime(h[t].was.frames, h[t].time)
  BY <1>1, <1>2 DEF HandlerOK, Handler, Listing
<1>4. /\ Append(h[t].was.frames, f) \in Seq(Frame) /\ Numbered(Append(h[t].was.frames, f))
      /\ f \in Frame
  <2>1. Append(h[t].was.frames, f) \in Seq(Frame) /\ Numbered(Append(h[t].was.frames, f))
    BY <1>3, NumberedMore DEF FrameName
  <2>2. f \in Frame
    <3>1. Len(h[t].was.frames) \in Nat
      BY <1>3
    <3> QED BY <1>3, <3>1 DEF FrameName, Frame
  <2> QED BY <2>1, <2>2
<1> HIDE DEF f
<1>5. Tasks'
  BY <1>1 DEF ReplayInv, Tasks
<1>6. CASE r \in exists
  <2> DEFINE l == [h[t] EXCEPT !.pc = "write", !.was.frames = Append(h[t].was.frames, f)]
             g == [x \in DOMAIN frames[r] \cup {f} |-> IF x = f THEN h[t].req ELSE frames[r][x]]
  <2>1. h' = [h EXCEPT ![t] = l] /\ frames' = [frames EXCEPT ![r] = g]
    BY <1>6 DEF FrameWrite, ReplayInv, f
  <2>2. /\ l \in Handler /\ l.pc = "write" /\ l.kind = h[t].kind /\ l.req = h[t].req
        /\ l.was.frames = Append(h[t].was.frames, f) /\ l.was.state = "written"
        /\ l.open = h[t].open /\ l.saw = h[t].saw /\ l.run = h[t].run
    BY <1>2, <1>3, <1>4 DEF Handler, Listing
  <2> HIDE DEF l
  <2>3. HandlerOK(l, manifest', started', reset')
    BY <1>1, <1>2, <1>3, <1>4, <2>2 DEF HandlerOK
  <2>4. /\ h' \in [Handlers -> Handler]
        /\ \A u \in Handlers : HandlerOK(h'[u], manifest', started', reset')
    BY <1>1, <2>1, <2>3, OneHandler
  <2>5. DOMAIN frames = Runs
    BY DEF ReplayInv, Directory
  <2>6. DOMAIN g \subseteq Frame /\ \A x \in DOMAIN g : g[x] \in reset
    BY <1>2, <1>3, <1>4 DEF ReplayInv, Directory
  <2> HIDE DEF g
  <2>7. Directory'
    BY <1>1, <1>2, <2>1, <2>5, <2>6 DEF ReplayInv, Directory
  <2> QED BY <1>5, <2>4, <2>7 DEF ReplayInv
<1>7. CASE r \notin exists
  <2>1. Return(t) /\ frames' = frames
    BY <1>7 DEF FrameWrite
  <2>2. Directory'
    BY <1>1, <2>1 DEF ReplayInv, Directory
  <2>3. /\ h' \in [Handlers -> Handler]
        /\ \A u \in Handlers : HandlerOK(h'[u], manifest', started', reset')
    BY <1>1, <2>1, ReturnOK
  <2> QED BY <1>5, <2>2, <2>3 DEF ReplayInv
<1> QED BY <1>6, <1>7

\* The manifest is truncated.
LEMMA TruncateStep ==
    ASSUME ReplayInv, NEW t \in Handlers, WriteManifest(t)
    PROVE  ReplayInv'
<1> DEFINE r == h[t].run
<1>1. /\ h[t].pc = "write"
      /\ UNCHANGED <<history, handled, started, current, run_id, reset, evidence, exists, frames, video>>
  BY DEF WriteManifest, tasks
<1>2. HandlerOK(h[t], manifest, started, reset) /\ h[t] \in Handler /\ r \in Runs
  BY DEF ReplayInv, HandlerOK, Handler
<1>3. Tasks'
  BY <1>1 DEF ReplayInv, Tasks
<1>4. CASE r \in exists
  <2> DEFINE l == [h[t] EXCEPT !.pc = "flush", !.open = TRUE]
  <2>1. h' = [h EXCEPT ![t] = l] /\ manifest' = [manifest EXCEPT ![r] = Torn]
    BY <1>4 DEF WriteManifest, ReplayInv
  <2>2. /\ manifest' \in [Runs -> Listing] /\ manifest'[r] = Torn
        /\ \A p \in Runs : p # r => manifest'[p] = manifest[p]
    BY <1>2, <2>1, ListingsOK DEF ReplayInv, Directory
  <2>3. /\ l \in Handler /\ l.pc = "flush" /\ l.kind = h[t].kind /\ l.req = h[t].req
        /\ l.was = h[t].was /\ l.open = TRUE /\ l.saw = h[t].saw /\ l.run = r
    BY <1>2 DEF Handler
  <2> HIDE DEF l
  <2>4. HandlerOK(l, manifest', started', reset')
    BY <1>1, <1>2, <2>2, <2>3, ListingsOK DEF HandlerOK
  <2>5. Directory'
    BY <1>1, <2>2, ListingsOK DEF ReplayInv, Directory
  <2> QED BY <1>1, <1>3, <2>1, <2>2, <2>4, <2>5, OneHandler, ListingsOK DEF ReplayInv
<1>5. CASE r \notin exists
  <2>1. Return(t) /\ manifest' = manifest
    BY <1>5 DEF WriteManifest
  <2>2. Directory'
    BY <1>1, <2>1 DEF ReplayInv, Directory
  <2> QED BY <1>1, <1>3, <2>1, <2>2, ReturnOK DEF ReplayInv
<1> QED BY <1>4, <1>5

\* The manifest is written, unless it was removed.
LEMMA FlushStep ==
    ASSUME ReplayInv, NEW t \in Handlers, FlushManifest(t)
    PROVE  ReplayInv'
<1> DEFINE r == h[t].run
<1>1. /\ Return(t)
      /\ UNCHANGED <<history, handled, started, current, run_id, reset, evidence, exists, frames, video>>
  BY DEF FlushManifest, tasks
<1>2. HandlerOK(h[t], manifest, started, reset) /\ h[t] \in Handler /\ r \in Runs
  BY DEF ReplayInv, HandlerOK, Handler
<1>3. Tasks'
  BY <1>1 DEF ReplayInv, Tasks
<1>4. \/ manifest' = manifest
      \/ \E w \in {h[t].was, Torn} : manifest' = [manifest EXCEPT ![r] = w]
  BY DEF FlushManifest
<1>5. \A w \in {h[t].was, Torn} : w \in Listing /\ w.state # "missing" /\ Numbered(w.frames)
  BY <1>2, ListingsOK DEF HandlerOK, Handler
<1>6. /\ manifest' \in [Runs -> Listing]
      /\ \A p \in Runs : /\ Numbered(manifest'[p].frames)
                         /\ manifest[p].state # "missing" => manifest'[p].state # "missing"
  BY <1>2, <1>4, <1>5 DEF ReplayInv, Directory
<1>7. Directory'
  BY <1>1, <1>6 DEF ReplayInv, Directory
<1> QED BY <1>1, <1>3, <1>6, <1>7, ReturnOK DEF ReplayInv

\* No directory, no request, no handler at work.
LEMMA ReplayInitial == ReplayInit => ReplayInv
<1> SUFFICES ASSUME ReplayInit PROVE ReplayInv
  OBVIOUS
<1>1. Tasks
  BY ReplayAssumption DEF ReplayInit, Tasks
<1>2. Missing \in Listing /\ Numbered(Missing.frames)
  BY ListingsOK
<1>3. DOMAIN <<>> = {} /\ <<>> \in Seq([path : STRING, time : Nat])
  OBVIOUS
<1>4. Directory
  BY <1>2, <1>3 DEF ReplayInit, Directory
<1>5. Idle \in Handler
  BY IdleOK DEF HandlerOK
<1> QED BY <1>1, <1>4, <1>5, IdleOK DEF ReplayInit, ReplayInv

\* Every step keeps the invariant.
LEMMA ReplaySteps == ReplayInv /\ [ReplayNext]_replayVars => ReplayInv'
<1> SUFFICES ASSUME ReplayInv, [ReplayNext]_replayVars PROVE ReplayInv'
  OBVIOUS
<1>1. CASE UNCHANGED replayVars
  <2>1. UNCHANGED replayVars
    BY <1>1
  <2>2. Tasks' /\ Directory'
    BY <2>1 DEF replayVars, ReplayInv, Tasks, Directory
  <2>3. /\ h' \in [Handlers -> Handler]
        /\ \A t \in Handlers : HandlerOK(h'[t], manifest', started', reset')
    BY <2>1 DEF replayVars, ReplayInv
  <2> QED BY <2>2, <2>3 DEF ReplayInv
<1>2. ASSUME NEW t \in Handlers, NEW q \in Requests, Execute(t, q) PROVE ReplayInv'
  BY <1>2, TaskSteps
<1>3. ASSUME NEW t \in Handlers, Screenshot(t) \/ Upload(t) PROVE ReplayInv'
  BY <1>3, TaskSteps
<1>4. ASSUME NEW q \in Requests, FirstEvent(q) PROVE ReplayInv'
  BY <1>4, TaskSteps
<1>5. CASE FinishTask
  BY <1>5, TaskSteps
<1>6. ASSUME NEW t \in Handlers, mark_replay_reset(t) PROVE ReplayInv'
  BY <1>6, MarkStep
<1>7. ASSUME NEW t \in Handlers, Rmtree(t) PROVE ReplayInv'
  BY <1>7, RmtreeStep
<1>8. ASSUME NEW t \in Handlers, Rmdir(t) PROVE ReplayInv'
  BY <1>8, RmdirStep
<1>9. ASSUME NEW t \in Handlers, Mkdir(t) PROVE ReplayInv'
  BY <1>9, MkdirStep
<1>10. ASSUME NEW t \in Handlers, VideoWrite(t) PROVE ReplayInv'
  BY <1>10, VideoStep
<1>11. ASSUME NEW t \in Handlers, ReadManifest(t) PROVE ReplayInv'
  BY <1>11, ReadStep
<1>12. ASSUME NEW t \in Handlers, FrameWrite(t) PROVE ReplayInv'
  BY <1>12, FrameStep
<1>13. ASSUME NEW t \in Handlers, WriteManifest(t) PROVE ReplayInv'
  BY <1>13, TruncateStep
<1>14. ASSUME NEW t \in Handlers, FlushManifest(t) PROVE ReplayInv'
  BY <1>14, FlushStep
<1> QED
  BY <1>1, <1>2, <1>3, <1>4, <1>5, <1>6, <1>7, <1>8, <1>9, <1>10, <1>11, <1>12, <1>13, <1>14
  DEF ReplayNext

\* The invariant holds in every state.
THEOREM ReplayInductive == ReplaySpec => []ReplayInv
BY ReplayInitial, ReplaySteps, PTL DEF ReplaySpec

\* The invariant implies the types.
LEMMA ReplayTyped == ReplayInv => ReplayTypeOK
<1> SUFFICES ASSUME ReplayInv PROVE ReplayTypeOK
  OBVIOUS
<1>1. /\ started \subseteq Requests /\ reset \subseteq started /\ exists \subseteq Runs
      /\ current \in started \cup {"none"}
      /\ run_id \in [Requests -> Runs \cup {"none"}]
      /\ \A q \in Requests : run_id[q] \in {"none", RunOf[q]}
      /\ handled \in Nat
      /\ clock \in 1..MaxTime /\ overlapped \subseteq Runs /\ raced \subseteq Runs
  BY DEF ReplayInv, Tasks, Directory
<1>2. /\ DOMAIN frames = Runs
      /\ \A r \in Runs : /\ DOMAIN frames[r] \subseteq Frame
                         /\ \A f \in DOMAIN frames[r] : frames[r][f] \in Requests
      /\ video \in [Runs -> Int] /\ manifest \in [Runs -> Listing] /\ DOMAIN evidence = Runs
  BY <1>1 DEF ReplayInv, Directory
<1>3. \A t \in Handlers :
          /\ h[t].open => h[t].pc = "flush" /\ manifest[h[t].run].state # "missing"
          /\ h[t].pc \notin {"idle", "mark", "rmtree", "rmdir"} => h[t].kind # "execute"
          /\ h[t].kind # "upload" /\ h[t].pc # "idle" => h[t].req \in started
  BY DEF ReplayInv, HandlerOK
<1> QED BY <1>1, <1>2, <1>3 DEF ReplayInv, ReplayTypeOK

\* Every variable of the replay has its type, and only a handler at its manifest
\* has it open.
THEOREM ReplayTypeCorrect == ReplaySpec => []ReplayTypeOK
BY ReplayInductive, ReplayTyped, PTL

\* EarlierFramesStay, of one step.
EarlierStep ==
    \A r \in Runs : \A f \in DOMAIN frames[r] \ DOMAIN frames'[r] :
        \E t \in Handlers : /\ h[t].pc = "rmtree" /\ h'[t] # h[t] /\ h[t].run = r
                            /\ ~(f \in h[t].saw /\ frames[r][f] = h[t].req)

\* Only the handler that removes the directory removes a frame.
LEMMA RemovingStep ==
    ASSUME ReplayInv, NEW t \in Handlers, Rmtree(t)
    PROVE  EarlierStep
<1> SUFFICES ASSUME NEW r \in Runs, NEW f \in DOMAIN frames[r] \ DOMAIN frames'[r]
             PROVE  /\ h[t].pc = "rmtree" /\ h'[t] # h[t] /\ h[t].run = r
                    /\ ~(f \in h[t].saw /\ frames[r][f] = h[t].req)
  BY DEF EarlierStep
<1>1. h[t].pc = "rmtree" /\ h[t] \in Handler /\ h[t].saw = {}
  BY DEF Rmtree, ReplayInv, HandlerOK
<1>2. /\ h[t].run \in exists
      /\ h' = [u \in Handlers |->
                  IF u = t THEN [h[t] EXCEPT !.pc = "rmdir"]
                  ELSE IF h[u].run = h[t].run THEN [h[u] EXCEPT !.open = FALSE] ELSE h[u]]
      /\ frames' = [frames EXCEPT ![h[t].run] = <<>>]
  <2>1. frames' # frames
    OBVIOUS
  <2> QED BY <2>1 DEF Rmtree
<1>3. h'[t] = [h[t] EXCEPT !.pc = "rmdir"]
  BY <1>2
<1>4. h'[t].pc = "rmdir"
  BY <1>1, <1>3 DEF Handler
<1>5. r = h[t].run
  BY <1>2 DEF ReplayInv, Directory
<1> QED BY <1>1, <1>4, <1>5

\* Steps that keep all frames.
LEMMA KeepingStep ==
    ASSUME ReplayInv, \A r \in Runs : DOMAIN frames[r] \subseteq DOMAIN frames'[r]
    PROVE  EarlierStep
BY DEF EarlierStep

\* Writing a frame keeps the others, or replaces the one of its name.
LEMMA FrameKept ==
    ASSUME ReplayInv, NEW t \in Handlers, FrameWrite(t)
    PROVE  \A r \in Runs : DOMAIN frames[r] \subseteq DOMAIN frames'[r]
<1> DEFINE r == h[t].run
           g == [x \in DOMAIN frames[r] \cup {FrameName(t)} |->
                    IF x = FrameName(t) THEN h[t].req ELSE frames[r][x]]
<1>1. frames' = frames \/ frames' = [frames EXCEPT ![r] = g]
  BY DEF FrameWrite
<1>2. DOMAIN frames[r] \subseteq DOMAIN g /\ DOMAIN frames = Runs
  BY DEF ReplayInv, Directory
<1> HIDE DEF g
<1> QED BY <1>1, <1>2

\* A handler never removes a frame of its own request that was there when it
\* began: the handler that marks a request is the first that could have
\* written one, and only it removes the directory.
THEOREM EarlierCorrect == ReplaySpec => EarlierFramesStay
<1>1. ReplayInv /\ [ReplayNext]_replayVars => [EarlierStep]_replayVars
  <2> SUFFICES ASSUME ReplayInv, ReplayNext PROVE EarlierStep
    OBVIOUS
  <2>1. ASSUME NEW t \in Handlers, Rmtree(t) PROVE EarlierStep
    BY <2>1, RemovingStep
  <2>2. ASSUME NEW t \in Handlers, FrameWrite(t) PROVE EarlierStep
    BY <2>2, FrameKept, KeepingStep
  <2>3. CASE \/ \E t \in Handlers :
                  \/ \E q \in Requests : Execute(t, q)
                  \/ Screenshot(t) \/ Upload(t) \/ mark_replay_reset(t) \/ Rmdir(t) \/ Mkdir(t)
                  \/ VideoWrite(t) \/ ReadManifest(t) \/ WriteManifest(t) \/ FlushManifest(t)
             \/ \E q \in Requests : FirstEvent(q)
             \/ FinishTask
    <3>1. frames' = frames
      BY <2>3 DEF Execute, Screenshot, Upload, mark_replay_reset, Rmdir, Mkdir, VideoWrite,
                  ReadManifest, WriteManifest, FlushManifest, FirstEvent, FinishTask, directory
    <3> QED BY <3>1, KeepingStep
  <2> QED BY <2>1, <2>2, <2>3 DEF ReplayNext
<1>2. [EarlierStep]_replayVars
        => [\A r \in Runs : \A f \in DOMAIN frames[r] \ DOMAIN frames'[r] :
               \E t \in Handlers : /\ h[t].pc = "rmtree" /\ h'[t] # h[t] /\ h[t].run = r
                                   /\ ~(f \in h[t].saw /\ frames[r][f] = h[t].req)]_replayVars
  BY DEF EarlierStep
<1> QED BY <1>1, <1>2, ReplayInductive, PTL DEF ReplaySpec, EarlierFramesStay

\* The bytes of a range, for a file of any size and any two ends.
LEMMA RangeOK ==
    ASSUME NEW size \in Int, NEW a \in Int, a >= -1, NEW b \in Int, b >= -1
    PROVE  LET spec == [start |-> a, end |-> b]
               served == _parse_byte_range(spec, size)
           IN  IF served = NoRange THEN Asked(spec, size) = {}
               ELSE served[1]..served[2] = Asked(spec, size) /\ Asked(spec, size) # {}
<1> DEFINE spec == [start |-> a, end |-> b]
           served == _parse_byte_range(spec, size)
           start == IF a = -1 THEN (IF b > size THEN 0 ELSE size - b) ELSE a
           end == IF a = -1 \/ b = -1 THEN size - 1 ELSE b
           cut == IF end > size - 1 THEN size - 1 ELSE end
           none == size <= 0 \/ (a = -1 /\ b <= 0) \/ start > size - 1 \/ end < start
<1>1. served = IF none THEN NoRange ELSE <<start, cut>>
  BY DEF _parse_byte_range, Absent
<1>2. Asked(spec, size) = {x \in 0..(size - 1) : IF a = -1 THEN x >= size - b
                                                ELSE x >= a /\ (b = -1 \/ x <= b)}
  BY DEF Asked, Absent
<1>3. start \in Int /\ end \in Int /\ cut \in Int
  OBVIOUS
<1>4. CASE none
  <2>1. served = NoRange
    BY <1>1, <1>4
  <2>2. ASSUME NEW x \in Asked(spec, size) PROVE FALSE
    BY <1>2, <1>4, <2>2
  <2> QED BY <2>1, <2>2
<1>5. CASE ~none
  <2>1. served = <<start, cut>> /\ start >= 0 /\ start <= cut
    BY <1>1, <1>5
  <2>2. served # NoRange /\ served[1] = start /\ served[2] = cut
    BY <2>1 DEF NoRange
  <2>3. ASSUME NEW x \in Int PROVE x \in start..cut <=> x \in Asked(spec, size)
    BY <1>2, <1>5
  <2>4. start..cut = Asked(spec, size)
    <3>1. start..cut \subseteq Int /\ Asked(spec, size) \subseteq Int
      BY <1>2
    <3> HIDE DEF start, cut, spec
    <3> QED BY <2>3, <3>1
  <2>5. start \in start..cut
    BY <1>3, <2>1
  <2>6. served[1]..served[2] = Asked(spec, size) /\ Asked(spec, size) # {}
    BY <2>2, <2>4, <2>5
  <2> HIDE DEF start, cut
  <2> QED BY <2>2, <2>6
<1> QED BY <1>4, <1>5

\* The bytes of the video that are served are those that were asked for.
THEOREM RangeCorrect == ReplaySpec => []RangeIsWhatWasAsked
<1>1. ReplayInv => RangeIsWhatWasAsked
  <2> SUFFICES ASSUME ReplayInv, NEW r \in Runs,
                      NEW a \in -1..(video[r] + 1), NEW b \in -1..(video[r] + 1)
               PROVE  LET spec == [start |-> a, end |-> b]
                          served == _parse_byte_range(spec, video[r])
                      IN  IF served = NoRange THEN Asked(spec, video[r]) = {}
                          ELSE served[1]..served[2] = Asked(spec, video[r])
                               /\ Asked(spec, video[r]) # {}
    BY DEF RangeIsWhatWasAsked
  <2>1. video[r] \in Int /\ a \in Int /\ b \in Int /\ a >= -1 /\ b >= -1
    BY DEF ReplayInv, Directory
  <2> QED BY <2>1, RangeOK
<1> QED BY <1>1, ReplayInductive, PTL

-------------------------------------------------------------------------------
(* What the replay shows.  Of a run whose manifest was never changed by two *)
(* handlers at once, NoneLost says where the files that are there are       *)
(* listed; of a run that never had two screenshots at once, Ordered says    *)
(* that each list of its frames, in the manifest or in a handler's hands,   *)
(* is in the order of time, none later than a screenshot yet to be added.   *)

Entries(listed) == {listed[i] : i \in 1..Len(listed)}
Increasing(listed) ==
    \A i \in 1..Len(listed), j \in 1..Len(listed) : i < j => listed[i][2] < listed[j][2]
UpTo(listed, time) == \A i \in 1..Len(listed) : listed[i][2] <= time

NoneLost(r) ==
    /\ DOMAIN frames[r] # {} => r \in exists
    /\ r \notin raced =>
        /\ \A t \in AtWork(r), u \in AtWork(r) : t = u
        /\ \A t \in AtWork(r) :
              /\ DOMAIN frames[r] \subseteq Entries(h[t].was.frames)
              /\ h[t].pc = "flush" /\ h[t].open => manifest[r] = Torn
              /\ h[t].pc = "flush" /\ ~h[t].open => DOMAIN frames[r] = {}
        /\ AtWork(r) = {} => DOMAIN frames[r] \subseteq Entries(manifest[r].frames)

Lists(r) ==
    {<<>>, manifest[r].frames} \cup {h[t].was.frames : t \in {t \in Handlers : h[t].run = r}}

Ordered(r) ==
    r \notin overlapped =>
        /\ \A t \in Capturing(r), u \in Capturing(r) : t = u
        /\ \A s \in Lists(r) : Increasing(s) /\ UpTo(s, clock)
        /\ \A t \in Capturing(r) :
              /\ h[t].time <= clock
              /\ h[t].pc \notin {"write", "flush"} => \A s \in Lists(r) : UpTo(s, h[t].time)

ShownInv == ReplayInv /\ \A r \in Runs : NoneLost(r) /\ Ordered(r)

\* A step that leaves the files of a run and the handlers at work on it alone.
LEMMA NoneLostAside ==
    ASSUME NEW r \in Runs, NoneLost(r),
           \A t \in Handlers : h'[t] = h[t] \/ (t \notin AtWork(r) /\ t \notin AtWork(r)'),
           frames'[r] = frames[r], manifest'[r] = manifest[r], r \in raced' <=> r \in raced,
           DOMAIN frames[r] # {} /\ r \in exists => r \in exists'
    PROVE  NoneLost(r)'
<1>1. AtWork(r)' = AtWork(r) /\ \A t \in AtWork(r) : h'[t] = h[t]
  BY DEF AtWork
<1>2. \A t \in AtWork(r) : /\ h'[t].was = h[t].was /\ h'[t].pc = h[t].pc
                           /\ h'[t].open = h[t].open
  BY <1>1
<1> QED BY <1>1, <1>2 DEF NoneLost

\* A step of one handler that is not at work on a run before or after it.
LEMMA OneAside ==
    ASSUME ReplayInv, NEW r \in Runs, NoneLost(r), NEW t \in Handlers, NEW l,
           h' = [h EXCEPT ![t] = l],
           h[t].run = r => h[t].pc \notin {"frame", "write", "flush"},
           l.run = r => l.pc \notin {"frame", "write", "flush"},
           frames'[r] = frames[r], manifest'[r] = manifest[r], r \in raced' <=> r \in raced,
           DOMAIN frames[r] # {} /\ r \in exists => r \in exists'
    PROVE  NoneLost(r)'
<1>1. h \in [Handlers -> Handler]
  BY DEF ReplayInv
<1>2. h'[t] = l /\ \A u \in Handlers : u # t => h'[u] = h[u]
  BY <1>1
<1>3. t \notin AtWork(r) /\ t \notin AtWork(r)'
  BY <1>2 DEF AtWork
<1> QED BY <1>2, <1>3, NoneLostAside

\* A step after which the lists of a run were there before and no screenshot of
\* it has begun.
LEMMA OrderedBefore ==
    ASSUME NEW r \in Runs, Ordered(r), ReplayInv, clock' \in Nat, clock' >= clock,
           Lists(r)' \subseteq Lists(r), Capturing(r)' \subseteq Capturing(r),
           \A s \in Lists(r) : s \in Seq(Frame),
           \A t \in Capturing(r)' :
              h'[t].time = h[t].time /\ (h[t].pc \in {"write", "flush"} => h'[t].pc \in {"write", "flush"}),
           overlapped \subseteq overlapped'
    PROVE  Ordered(r)'
<1> SUFFICES ASSUME r \notin overlapped' PROVE Ordered(r)'
  BY DEF Ordered
<1>1. /\ \A t \in Capturing(r), u \in Capturing(r) : t = u
      /\ \A s \in Lists(r) : Increasing(s) /\ UpTo(s, clock)
      /\ \A t \in Capturing(r) :
            /\ h[t].time <= clock
            /\ h[t].pc \notin {"write", "flush"} => \A s \in Lists(r) : UpTo(s, h[t].time)
  BY DEF Ordered
<1>2. clock \in Nat /\ \A t \in Capturing(r) : h[t].time \in Nat
  BY DEF ReplayInv, Tasks, Capturing, Handler
<1>3. ASSUME NEW s \in Lists(r)' PROVE Increasing(s) /\ UpTo(s, clock')
  <2>1. s \in Seq(Frame) /\ Increasing(s) /\ UpTo(s, clock)
    BY <1>1
  <2>2. ASSUME NEW i \in 1..Len(s) PROVE s[i][2] <= clock'
    <3>1. s[i] \in Frame
      BY <2>1
    <3>2. s[i][2] \in Nat /\ s[i][2] <= clock
      BY <2>1, <3>1 DEF Frame, UpTo
    <3> QED BY <1>2, <3>2
  <2> QED BY <2>1, <2>2 DEF UpTo
<1>4. \A t \in Capturing(r)' : h'[t].time <= clock'
  BY <1>1, <1>2
<1> QED BY <1>1, <1>3, <1>4 DEF Ordered

\* The lists of a run are lists of frames.
LEMMA ListsTyped ==
    ASSUME ReplayInv, NEW r \in Runs
    PROVE  \A s \in Lists(r) : s \in Seq(Frame)
<1>1. manifest[r] \in Listing /\ \A t \in Handlers : h[t].was \in Listing
  BY DEF ReplayInv, Directory, Handler
<1>2. \A m \in Listing : m.frames \in Seq(Frame)
  BY DEF Listing
<1>3. <<>> \in Seq(Frame)
  OBVIOUS
<1> QED BY <1>1, <1>2, <1>3 DEF Lists

\* A step of one handler that begins no screenshot and makes no new list.
LEMMA OneOrdered ==
    ASSUME ReplayInv, NEW r \in Runs, Ordered(r), NEW t \in Handlers, NEW l,
           h' = [h EXCEPT ![t] = l], manifest'[r].frames \in Lists(r),
           l.run = r => l.was.frames \in Lists(r),
           l.kind = "frame" /\ l.pc # "idle" =>
              /\ h[t].kind = "frame" /\ h[t].pc # "idle" /\ l.run = h[t].run
              /\ l.time = h[t].time
              /\ h[t].pc \in {"write", "flush"} => l.pc \in {"write", "flush"},
           UNCHANGED clock, overlapped \subseteq overlapped'
    PROVE  Ordered(r)'
<1>1. h \in [Handlers -> Handler] /\ clock \in Nat
  BY DEF ReplayInv, Tasks
<1>2. h'[t] = l /\ \A u \in Handlers : u # t => h'[u] = h[u]
  BY <1>1
<1>3. \A u \in Handlers : h'[u].run = r => h'[u].was.frames \in Lists(r)
  BY <1>2 DEF Lists
<1>4. Lists(r)' \subseteq Lists(r)
  BY <1>3 DEF Lists
<1>5. ASSUME NEW u \in Capturing(r)'
      PROVE  /\ u \in Capturing(r) /\ h'[u].time = h[u].time
             /\ h[u].pc \in {"write", "flush"} => h'[u].pc \in {"write", "flush"}
  <2>1. CASE u = t
    BY <1>2, <1>5, <2>1 DEF Capturing
  <2>2. CASE u # t
    BY <1>2, <1>5, <2>2 DEF Capturing
  <2> QED BY <2>1, <2>2
<1> QED BY <1>1, <1>4, <1>5, ListsTyped, OrderedBefore

\* What a handler that answers leaves behind.
LEMMA IdleFacts == Idle.pc = "idle" /\ Idle.was.frames = <<>>
BY DEF Idle, Nothing

\* A step of a handler before its work, or away from it.
LEMMA BothAside ==
    ASSUME ShownInv, NEW t \in Handlers,
           \/ Return(t)
           \/ h[t].pc # "idle" /\ \E pc \in {"rmtree", "mkdir", "video", "read"} : Goto(t, pc),
           h[t].pc \notin {"frame", "write", "flush"},
           UNCHANGED <<frames, manifest, history>>,
           \A r \in Runs : DOMAIN frames[r] # {} /\ r \in exists => r \in exists'
    PROVE  \A r \in Runs : NoneLost(r)' /\ Ordered(r)'
<1> SUFFICES ASSUME NEW r \in Runs PROVE NoneLost(r)' /\ Ordered(r)'
  OBVIOUS
<1>1. ReplayInv /\ NoneLost(r) /\ Ordered(r)
  BY DEF ShownInv
<1>2. manifest'[r].frames \in Lists(r) /\ <<>> \in Lists(r)
      /\ (h[t].run = r => h[t].was.frames \in Lists(r))
  BY DEF Lists
<1>3. CASE Return(t)
  <2>1. h' = [h EXCEPT ![t] = Idle]
    BY <1>1, <1>3, Moved
  <2>2. NoneLost(r)'
    BY <1>1, <2>1, IdleFacts, OneAside
  <2>3. Ordered(r)'
    BY <1>1, <1>2, <2>1, IdleFacts, OneOrdered
  <2> QED BY <2>2, <2>3
<1>4. CASE h[t].pc # "idle" /\ \E pc \in {"rmtree", "mkdir", "video", "read"} : Goto(t, pc)
  <2>1. PICK pc \in {"rmtree", "mkdir", "video", "read"} : Goto(t, pc)
    BY <1>4
  <2> DEFINE l == [h[t] EXCEPT !.pc = pc]
  <2>2. h' = [h EXCEPT ![t] = l]
    BY <1>1, <2>1, Moved
  <2>3. /\ l.pc = pc /\ l.kind = h[t].kind /\ l.run = h[t].run /\ l.was = h[t].was
        /\ l.time = h[t].time
    BY <1>1 DEF ReplayInv, Handler
  <2> HIDE DEF l
  <2>4. NoneLost(r)'
    BY <1>1, <2>2, <2>3, OneAside
  <2>5. Ordered(r)'
    BY <1>1, <1>2, <1>4, <2>2, <2>3, OneOrdered
  <2> QED BY <2>4, <2>5
<1> QED BY <1>3, <1>4

\* A handler that finds the directory gone, with all the frames in it.
LEMMA BothGone ==
    ASSUME ShownInv, NEW t \in Handlers, Return(t), h[t].run \notin exists,
           UNCHANGED <<exists, frames, manifest, history>>
    PROVE  \A r \in Runs : NoneLost(r)' /\ Ordered(r)'
<1> SUFFICES ASSUME NEW r \in Runs PROVE NoneLost(r)' /\ Ordered(r)'
  OBVIOUS
<1>1. ReplayInv /\ NoneLost(r) /\ Ordered(r)
  BY DEF ShownInv
<1>2. h' = [h EXCEPT ![t] = Idle] /\ h \in [Handlers -> Handler]
  BY <1>1, Moved DEF ReplayInv
<1>3. Ordered(r)'
  <2>1. manifest'[r].frames \in Lists(r) /\ <<>> \in Lists(r)
    BY DEF Lists
  <2> QED BY <1>1, <1>2, <2>1, IdleFacts, OneOrdered
<1>4. CASE h[t].run # r
  <2>1. NoneLost(r)'
    BY <1>1, <1>2, <1>4, IdleFacts, OneAside
  <2> QED BY <1>3, <2>1
<1>5. CASE h[t].run = r
  <2>1. DOMAIN frames[r] = {}
    BY <1>1, <1>5 DEF NoneLost
  <2>2. /\ AtWork(r)' \subseteq AtWork(r) \ {t}
        /\ \A u \in AtWork(r)' : h'[u] = h[u]
    BY <1>2, IdleFacts DEF AtWork
  <2>3. NoneLost(r)'
    BY <1>1, <2>1, <2>2 DEF NoneLost
  <2> QED BY <1>3, <2>3
<1> QED BY <1>4, <1>5

\* A handler that begins.
LEMMA BeginAside ==
    ASSUME ShownInv, NEW t \in Handlers, NEW kind, NEW q, NEW p, NEW time,
           Begin(t, kind, q, p, time), UNCHANGED <<exists, frames, manifest, raced>>,
           overlapped \subseteq overlapped'
    PROVE  /\ \A r \in Runs : NoneLost(r)'
           /\ kind # "frame" /\ UNCHANGED clock => \A r \in Runs : Ordered(r)'
<1> DEFINE l == [Idle EXCEPT !.pc = "mark", !.kind = kind, !.req = q, !.run = p,
                             !.time = time, !.saw = Own(q, p)]
<1>1. h' = [h EXCEPT ![t] = l] /\ h[t].pc = "idle"
  BY DEF Begin
<1>2. l.pc = "mark" /\ l.kind = kind /\ l.was.frames = <<>>
  BY IdleFacts DEF Idle
<1> HIDE DEF l
<1>3. ASSUME NEW r \in Runs PROVE NoneLost(r)'
  BY <1>1, <1>2, OneAside DEF ShownInv
<1>4. ASSUME NEW r \in Runs, kind # "frame", UNCHANGED clock PROVE Ordered(r)'
  <2>1. manifest'[r].frames \in Lists(r) /\ <<>> \in Lists(r)
    BY DEF Lists
  <2> QED BY <1>1, <1>2, <1>4, <2>1, OneOrdered DEF ShownInv
<1> QED BY <1>3, <1>4

\* A screenshot is not earlier than any that is listed.
LEMMA ScreenshotOrdered ==
    ASSUME ShownInv, NEW t \in Handlers, Screenshot(t), NEW r \in Runs
    PROVE  Ordered(r)'
<1> SUFFICES ASSUME r \notin overlapped' PROVE Ordered(r)'
  BY DEF Ordered
<1> DEFINE p == run_id[current]
<1>1. /\ ReplayInv /\ UNCHANGED manifest /\ r \notin overlapped
      /\ p = r => Capturing(r) = {}
  BY DEF ShownInv, Screenshot, directory
<1>2. PICK time \in clock..MaxTime : Begin(t, "frame", current, p, time) /\ clock' = time
  BY DEF Screenshot
<1>3. /\ clock \in Nat /\ time \in Nat /\ clock <= time
  BY <1>1, <1>2, ReplayAssumption DEF ReplayInv, Tasks
<1> DEFINE l == [Idle EXCEPT !.pc = "mark", !.kind = "frame", !.req = current, !.run = p,
                             !.time = time, !.saw = Own(current, p)]
<1>4. /\ h' = [h EXCEPT ![t] = l] /\ h[t].pc = "idle" /\ h \in [Handlers -> Handler]
  BY <1>1, <1>2 DEF Begin, ReplayInv
<1>5. l.pc = "mark" /\ l.kind = "frame" /\ l.was.frames = <<>> /\ l.run = p /\ l.time = time
  BY IdleFacts DEF Idle
<1> HIDE DEF l, p
<1>6. h'[t] = l /\ \A u \in Handlers : u # t => h'[u] = h[u]
  BY <1>4
<1>7. /\ \A u \in Capturing(r), v \in Capturing(r) : u = v
      /\ \A s \in Lists(r) : Increasing(s) /\ UpTo(s, clock)
      /\ \A u \in Capturing(r) :
            /\ h[u].time <= clock
            /\ h[u].pc \notin {"write", "flush"} => \A s \in Lists(r) : UpTo(s, h[u].time)
  BY <1>1 DEF ShownInv, Ordered
<1>8. Lists(r)' \subseteq Lists(r)
  <2>1. \A u \in Handlers : h'[u].run = r => h'[u].was.frames \in Lists(r)
    BY <1>5, <1>6 DEF Lists
  <2> QED BY <1>1, <2>1 DEF Lists
<1>9. ASSUME NEW s \in Lists(r)' PROVE Increasing(s) /\ UpTo(s, time)
  <2>1. s \in Seq(Frame) /\ Increasing(s) /\ UpTo(s, clock)
    BY <1>1, <1>7, <1>8, ListsTyped
  <2>2. ASSUME NEW i \in 1..Len(s) PROVE s[i][2] <= time
    <3>1. s[i] \in Frame
      BY <2>1
    <3>2. s[i][2] \in Nat /\ s[i][2] <= clock
      BY <2>1, <3>1 DEF Frame, UpTo
    <3> QED BY <1>3, <3>2
  <2> QED BY <2>1, <2>2 DEF UpTo
<1>10. CASE p = r
  <2>1. Capturing(r)' = {t}
    BY <1>1, <1>5, <1>6, <1>10 DEF Capturing
  <2>2. h'[t].time = time
    BY <1>5, <1>6
  <2> QED BY <1>2, <1>3, <1>9, <2>1, <2>2 DEF Ordered
<1>11. CASE p # r
  <2>1. Capturing(r)' = Capturing(r) /\ \A u \in Capturing(r) : h'[u] = h[u]
    BY <1>4, <1>5, <1>6, <1>11 DEF Capturing
  <2>2. overlapped \subseteq overlapped'
    BY DEF Screenshot
  <2> QED BY <1>1, <1>2, <1>3, <1>8, <2>1, <2>2, ListsTyped, OrderedBefore DEF ShownInv
<1> QED BY <1>10, <1>11

\* Removing the files of a run: what was open is gone with them.
LEMMA RmtreeShown ==
    ASSUME ShownInv, NEW t \in Handlers, Rmtree(t), h[t].run \in exists, NEW r \in Runs
    PROVE  NoneLost(r)' /\ Ordered(r)'
<1> DEFINE p == h[t].run
<1>1. /\ h[t].pc = "rmtree" /\ UNCHANGED <<exists, clock, overlapped, raced>>
      /\ h' = [u \in Handlers |->
                  IF u = t THEN [h[t] EXCEPT !.pc = "rmdir"]
                  ELSE IF h[u].run = p THEN [h[u] EXCEPT !.open = FALSE] ELSE h[u]]
      /\ frames' = [frames EXCEPT ![p] = <<>>] /\ manifest' = [manifest EXCEPT ![p] = Missing]
  BY DEF Rmtree
<1>2. ReplayInv /\ NoneLost(r) /\ Ordered(r) /\ h \in [Handlers -> Handler]
      /\ manifest \in [Runs -> Listing] /\ DOMAIN frames = Runs
  BY DEF ShownInv, ReplayInv, Directory
<1>3. ASSUME NEW u \in Handlers
      PROVE  /\ h'[u].kind = h[u].kind /\ h'[u].run = h[u].run /\ h'[u].was = h[u].was
             /\ h'[u].time = h[u].time
             /\ h'[u].pc = IF u = t THEN "rmdir" ELSE h[u].pc
             /\ u # t /\ h[u].run = p => ~h'[u].open
             /\ u # t /\ h[u].run # p => h'[u] = h[u]
  <2>1. h[u] \in Handler
    BY <1>2
  <2> QED BY <1>1, <2>1 DEF Handler
<1>4. AtWork(r)' = AtWork(r) /\ Capturing(r)' = Capturing(r) /\ t \notin AtWork(r)
  BY <1>1, <1>3 DEF AtWork, Capturing
<1>5. Ordered(r)'
  <2>1. manifest'[r].frames \in Lists(r)
    BY <1>1, <1>2, ListingsOK DEF Lists
  <2>2. Lists(r)' \subseteq Lists(r)
    BY <1>3, <2>1 DEF Lists
  <2>3. clock \in Nat
    BY <1>2 DEF ReplayInv, Tasks
  <2>4. \A u \in Capturing(r)' :
           h'[u].time = h[u].time /\ (h[u].pc \in {"write", "flush"} => h'[u].pc \in {"write", "flush"})
    BY <1>1, <1>3, <1>4 DEF Capturing
  <2> QED BY <1>1, <1>2, <1>4, <2>2, <2>3, <2>4, ListsTyped, OrderedBefore
<1>6. CASE r # p
  <2>1. frames'[r] = frames[r] /\ manifest'[r] = manifest[r]
    BY <1>1, <1>2, <1>6
  <2>2. \A u \in Handlers : h'[u] = h[u] \/ (u \notin AtWork(r) /\ u \notin AtWork(r)')
    BY <1>3, <1>4, <1>6 DEF AtWork
  <2>3. NoneLost(r)'
    BY <1>1, <1>2, <2>1, <2>2, NoneLostAside
  <2> QED BY <1>5, <2>3
<1>7. CASE r = p
  <2>1. DOMAIN frames'[r] = {}
    BY <1>1, <1>2, <1>7
  <2>2. \A u \in AtWork(r)' : ~h'[u].open
    BY <1>3, <1>4, <1>7 DEF AtWork
  <2>3. NoneLost(r)'
    BY <1>1, <1>2, <1>4, <2>1, <2>2 DEF NoneLost
  <2> QED BY <1>5, <2>3
<1> QED BY <1>6, <1>7

\* A handler that has read the manifest has what is in it in its hands, and is
\* alone with it, or the run is one whose manifest was raced for.
LEMMA ReadShown ==
    ASSUME ShownInv, NEW t \in Handlers, ReadManifest(t), NEW r \in Runs
    PROVE  NoneLost(r)' /\ Ordered(r)'
<1> DEFINE p == h[t].run
           m == _read_replay_manifest(p)
           again == h[t].kind = "frame" /\ Len(m.frames) > 0
                       /\ m.frames[Len(m.frames)][2] = h[t].time
<1>1. /\ h[t].pc = "read" /\ UNCHANGED <<exists, frames, manifest, clock, overlapped>>
  BY DEF ReadManifest, directory
<1>2. ReplayInv /\ NoneLost(r) /\ Ordered(r) /\ h \in [Handlers -> Handler] /\ h[t] \in Handler
      /\ p \in Runs /\ manifest[p] \in Listing
  BY DEF ShownInv, ReplayInv, Directory, Handler
<1>3. m \in Listing /\ m.frames = manifest[p].frames
  BY <1>2 DEF _read_replay_manifest, Listing
<1>4. CASE again
  <2>1. Return(t) /\ UNCHANGED raced
    BY <1>4 DEF ReadManifest
  <2> QED BY <1>1, <2>1, BothAside
<1>5. CASE ~again
  <2> DEFINE l == IF h[t].kind = "upload"
                  THEN [h[t] EXCEPT !.pc = "write", !.was = [m EXCEPT !.video = TRUE]]
                  ELSE [h[t] EXCEPT !.pc = "frame", !.was = m]
  <2>1. /\ h' = [h EXCEPT ![t] = l]
        /\ raced' = raced \cup {q \in {p} : AtWork(q) # {}}
    BY <1>2, <1>5 DEF ReadManifest
  <2>2. [m EXCEPT !.video = TRUE].frames = m.frames
    <3> HIDE DEF m
    <3> QED BY <1>3 DEF Listing
  <2> HIDE DEF m
  <2>3. /\ l.pc \in {"frame", "write"} /\ l.kind = h[t].kind /\ l.run = p /\ l.time = h[t].time
        /\ l.was.frames = manifest[p].frames
    BY <1>2, <1>3, <2>2 DEF Handler
  <2> HIDE DEF l
  <2>4. h'[t] = l /\ \A u \in Handlers : u # t => h'[u] = h[u]
    BY <1>2, <2>1
  <2>5. Ordered(r)'
    <3>1. manifest'[r].frames \in Lists(r) /\ (p = r => l.was.frames \in Lists(r))
      BY <1>1, <2>3 DEF Lists
    <3> QED BY <1>1, <1>2, <2>1, <2>3, <3>1, OneOrdered
  <2>6. CASE r # p
    <3>1. r \in raced' <=> r \in raced
      BY <2>1, <2>6
    <3>2. NoneLost(r)'
      BY <1>1, <1>2, <2>1, <2>3, <2>6, <3>1, OneAside
    <3> QED BY <2>5, <3>2
  <2>7. CASE r = p /\ r \in raced'
    <3>1. NoneLost(r)'
      BY <1>1, <1>2, <2>7 DEF NoneLost
    <3> QED BY <2>5, <3>1
  <2>8. CASE r = p /\ r \notin raced'
    <3>1. r \notin raced /\ AtWork(r) = {}
      BY <2>1, <2>8
    <3>2. AtWork(r)' = {t}
      BY <1>2, <2>3, <2>4, <2>8, <3>1 DEF AtWork
    <3>3. DOMAIN frames[r] \subseteq Entries(h'[t].was.frames) /\ h'[t].pc # "flush"
      BY <1>2, <2>3, <2>4, <2>8, <3>1 DEF NoneLost
    <3>4. NoneLost(r)'
      BY <1>1, <1>2, <3>2, <3>3 DEF NoneLost
    <3> QED BY <2>5, <3>4
  <2> QED BY <2>6, <2>7, <2>8
<1> QED BY <1>4, <1>5

\* One more frame in a list.
LEMMA OneMore ==
    ASSUME NEW s \in Seq(Frame), NEW f \in Frame
    PROVE  /\ Entries(Append(s, f)) = Entries(s) \cup {f}
           /\ Append(s, f) \in Seq(Frame) /\ Len(Append(s, f)) = Len(s) + 1
           /\ Append(s, f)[Len(s) + 1] = f /\ \A i \in 1..Len(s) : Append(s, f)[i] = s[i]
<1> DEFINE w == Append(s, f)
<1>1. /\ w \in Seq(Frame) /\ Len(w) = Len(s) + 1 /\ Len(s) \in Nat
      /\ w[Len(s) + 1] = f /\ \A i \in 1..Len(s) : w[i] = s[i]
  OBVIOUS
<1> HIDE DEF w
<1>2. ASSUME NEW x \in Entries(w) PROVE x \in Entries(s) \cup {f}
  <2>1. PICK i \in 1..Len(w) : x = w[i]
    BY DEF Entries
  <2>2. i = Len(s) + 1 \/ i \in 1..Len(s)
    BY <1>1
  <2> QED BY <1>1, <2>1, <2>2 DEF Entries
<1>3. ASSUME NEW x \in Entries(s) \cup {f} PROVE x \in Entries(w)
  <2>1. CASE x = f
    <3>1. Len(s) + 1 \in 1..Len(w)
      BY <1>1
    <3> QED BY <1>1, <2>1, <3>1 DEF Entries
  <2>2. CASE x \in Entries(s)
    <3>1. PICK i \in 1..Len(s) : x = s[i]
      BY <2>2 DEF Entries
    <3>2. i \in 1..Len(w) /\ w[i] = x
      BY <1>1, <3>1
    <3> QED BY <3>2 DEF Entries
  <2> QED BY <1>3, <2>1, <2>2
<1>4. Entries(w) = Entries(s) \cup {f}
  BY <1>2, <1>3
<1> QED BY <1>1, <1>4 DEF w

\* A frame that is later than the last of an ordered list.
LEMMA OneLater ==
    ASSUME NEW s \in Seq(Frame), Increasing(s), NEW time \in Nat, UpTo(s, time),
           NewTime(s, time), NEW f \in Frame, f[2] = time
    PROVE  Increasing(Append(s, f)) /\ UpTo(Append(s, f), time)
<1> DEFINE w == Append(s, f)
           n == Len(s)
<1>1. /\ Len(w) = n + 1 /\ n \in Nat
      /\ w[n + 1] = f /\ \A i \in 1..n : w[i] = s[i]
  BY OneMore
<1>2. \A i \in 1..n : s[i][2] \in Nat
  <2>1. \A i \in 1..n : s[i] \in Frame
    OBVIOUS
  <2> QED BY <2>1 DEF Frame
<1>3. ASSUME NEW i \in 1..n PROVE s[i][2] < time
  <2>1. n > 0 /\ n \in 1..n
    BY <1>1
  <2>2. s[n][2] # time /\ s[n][2] <= time /\ s[n][2] \in Nat
    BY <1>2, <2>1 DEF NewTime, UpTo
  <2>3. i = n \/ s[i][2] < s[n][2]
    BY <1>1, <2>1 DEF Increasing
  <2> QED BY <1>2, <2>2, <2>3
<1> HIDE DEF w
<1>4. ASSUME NEW i \in 1..Len(w), NEW j \in 1..Len(w), i < j PROVE w[i][2] < w[j][2]
  <2>1. i \in 1..n /\ w[i] = s[i]
    BY <1>1, <1>4
  <2>2. CASE j = n + 1
    BY <1>1, <1>3, <2>1, <2>2
  <2>3. CASE j # n + 1
    <3>1. j \in 1..n /\ w[j] = s[j]
      BY <1>1, <2>3
    <3> HIDE DEF n
    <3> QED BY <1>4, <2>1, <3>1 DEF Increasing, n
  <2> QED BY <2>2, <2>3
<1>5. ASSUME NEW i \in 1..Len(w) PROVE w[i][2] <= time
  <2>1. CASE i = n + 1
    BY <1>1, <2>1
  <2>2. CASE i # n + 1
    <3>1. i \in 1..n /\ w[i] = s[i]
      BY <1>1, <2>2
    <3> QED BY <1>2, <1>3, <3>1
  <2> QED BY <2>1, <2>2
<1> QED BY <1>4, <1>5 DEF Increasing, UpTo, w

\* A frame is written, and added to the list in its handler's hands.
LEMMA FrameShown ==
    ASSUME ShownInv, NEW t \in Handlers, FrameWrite(t), NEW r \in Runs
    PROVE  NoneLost(r)' /\ Ordered(r)'
<1> DEFINE p == h[t].run
           f == FrameName(t)
           s == h[t].was.frames
<1>1. h[t].pc = "frame" /\ UNCHANGED <<exists, manifest, history>>
  BY DEF FrameWrite
<1>2. /\ ReplayInv /\ NoneLost(r) /\ Ordered(r) /\ h \in [Handlers -> Handler] /\ h[t] \in Handler
      /\ p \in Runs /\ DOMAIN frames = Runs /\ HandlerOK(h[t], manifest, started, reset)
  BY DEF ShownInv, ReplayInv, Directory, Handler
<1>3. CASE p \notin exists
  <2>1. Return(t) /\ UNCHANGED frames
    BY <1>3 DEF FrameWrite
  <2> QED BY <1>1, <1>3, <2>1, BothGone
<1>4. CASE p \in exists
  <2>1. /\ h[t].was \in Listing /\ s \in Seq(Frame) /\ h[t].time \in 1..MaxTime
        /\ h[t].kind = "frame" /\ NewTime(s, h[t].time)
    BY <1>1, <1>2 DEF HandlerOK, Handler, Listing
  <2>2. Len(s) \in Nat /\ h[t].time \in Nat \ {0}
    BY <2>1, ReplayAssumption
  <2>3. f \in Frame /\ f[2] = h[t].time
    BY <2>1, <2>2 DEF FrameName, Frame
  <2> DEFINE w == Append(s, f)
             l == [h[t] EXCEPT !.pc = "write", !.was.frames = w]
             g == [x \in DOMAIN frames[p] \cup {f} |-> IF x = f THEN h[t].req ELSE frames[p][x]]
  <2>4. h' = [h EXCEPT ![t] = l] /\ frames' = [frames EXCEPT ![p] = g]
    BY <1>2, <1>4 DEF FrameWrite
  <2>5. DOMAIN g = DOMAIN frames[p] \cup {f}
    OBVIOUS
  <2> HIDE DEF f, g
  <2>6. /\ l.pc = "write" /\ l.kind = "frame" /\ l.run = p /\ l.time = h[t].time
        /\ l.was.frames = w
    BY <1>2, <2>1 DEF Handler, Listing
  <2> HIDE DEF l
  <2>7. h'[t] = l /\ \A u \in Handlers : u # t => h'[u] = h[u]
    BY <1>2, <2>4
  <2>8. CASE r # p
    <3>1. frames'[r] = frames[r]
      BY <1>2, <2>4, <2>8
    <3>2. NoneLost(r)'
      BY <1>1, <1>2, <2>4, <2>6, <2>8, <3>1, OneAside
    <3>3. manifest'[r].frames \in Lists(r)
      BY <1>1 DEF Lists
    <3>4. Ordered(r)'
      BY <1>1, <1>2, <2>1, <2>4, <2>6, <2>8, <3>3, OneOrdered
    <3> QED BY <3>2, <3>4
  <2>9. CASE r = p
    <3>1. DOMAIN frames'[r] = DOMAIN frames[r] \cup {f}
      BY <1>2, <2>4, <2>5, <2>9
    <3>2. Entries(w) = Entries(s) \cup {f}
      BY <2>1, <2>3, OneMore
    <3>3. AtWork(r)' = AtWork(r) /\ t \in AtWork(r)
      BY <1>1, <2>6, <2>7, <2>9 DEF AtWork
    <3>4. NoneLost(r)'
      <4>1. r \in exists'
        BY <1>1, <1>4, <2>9
      <4> SUFFICES ASSUME r \notin raced'
                   PROVE  /\ \A u \in AtWork(r)', v \in AtWork(r)' : u = v
                          /\ \A u \in AtWork(r)' :
                                /\ DOMAIN frames'[r] \subseteq Entries(h'[u].was.frames)
                                /\ h'[u].pc # "flush"
        BY <3>3, <4>1 DEF NoneLost
      <4>2. /\ \A u \in AtWork(r) : u = t
            /\ DOMAIN frames[r] \subseteq Entries(s)
        BY <1>1, <1>2, <3>3 DEF NoneLost
      <4>3. DOMAIN frames'[r] \subseteq Entries(h'[t].was.frames) /\ h'[t].pc # "flush"
        BY <2>6, <2>7, <3>1, <3>2, <4>2
      <4> QED BY <3>3, <4>2, <4>3
    <3>5. Ordered(r)'
      <4> SUFFICES ASSUME r \notin overlapped PROVE Ordered(r)'
        BY <1>1 DEF Ordered
      <4>1. /\ \A u \in Capturing(r), v \in Capturing(r) : u = v
            /\ \A x \in Lists(r) : Increasing(x) /\ UpTo(x, clock)
            /\ \A u \in Capturing(r) :
                  /\ h[u].time <= clock
                  /\ h[u].pc \notin {"write", "flush"} => \A x \in Lists(r) : UpTo(x, h[u].time)
        BY <1>2 DEF Ordered
      <4>2. Capturing(r)' = {t} /\ Capturing(r) = {t}
        BY <1>1, <2>1, <2>6, <2>7, <2>9, <4>1 DEF Capturing
      <4>3. s \in Lists(r)
        BY <2>9 DEF Lists
      <4>4. Increasing(w) /\ UpTo(w, h[t].time)
        BY <1>1, <2>1, <2>2, <2>3, <4>1, <4>2, <4>3, OneLater
      <4>5. UpTo(w, clock)
        <5>1. w \in Seq(Frame) /\ h[t].time <= clock /\ clock \in Nat
          BY <1>2, <2>1, <2>3, <4>1, <4>2, OneMore DEF ReplayInv, Tasks
        <5> HIDE DEF w
        <5>2. \A i \in 1..Len(w) : w[i][2] \in Nat
          <6>1. \A i \in 1..Len(w) : w[i] \in Frame
            BY <5>1
          <6> QED BY <6>1 DEF Frame
        <5> QED BY <2>2, <4>4, <5>1, <5>2 DEF UpTo
      <4>6. Lists(r)' \subseteq Lists(r) \cup {w}
        <5>1. \A u \in Handlers : h'[u].run = r => h'[u].was.frames \in Lists(r) \cup {w}
          BY <2>6, <2>7 DEF Lists
        <5> HIDE DEF w
        <5> QED BY <1>1, <5>1 DEF Lists
      <4>7. \A x \in Lists(r)' : Increasing(x) /\ UpTo(x, clock)
        BY <4>1, <4>4, <4>5, <4>6
      <4>8. h'[t].time <= clock /\ h'[t].pc = "write"
        BY <2>6, <2>7, <4>1, <4>2
      <4> QED BY <1>1, <4>2, <4>7, <4>8 DEF Ordered
    <3> QED BY <3>4, <3>5
  <2> QED BY <2>8, <2>9
<1> QED BY <1>3, <1>4

\* The manifest is truncated by the only handler at work on it.
LEMMA TruncateShown ==
    ASSUME ShownInv, NEW t \in Handlers, WriteManifest(t), NEW r \in Runs
    PROVE  NoneLost(r)' /\ Ordered(r)'
<1> DEFINE p == h[t].run
<1>1. h[t].pc = "write" /\ UNCHANGED <<exists, frames, history>>
  BY DEF WriteManifest
<1>2. /\ ReplayInv /\ NoneLost(r) /\ Ordered(r) /\ h \in [Handlers -> Handler] /\ h[t] \in Handler
      /\ p \in Runs /\ manifest \in [Runs -> Listing]
  BY DEF ShownInv, ReplayInv, Directory, Handler
<1>3. CASE p \notin exists
  <2>1. Return(t) /\ UNCHANGED manifest
    BY <1>3 DEF WriteManifest
  <2> QED BY <1>1, <1>3, <2>1, BothGone
<1>4. CASE p \in exists
  <2> DEFINE l == [h[t] EXCEPT !.pc = "flush", !.open = TRUE]
  <2>1. h' = [h EXCEPT ![t] = l] /\ manifest' = [manifest EXCEPT ![p] = Torn]
    BY <1>2, <1>4 DEF WriteManifest
  <2>2. /\ l.pc = "flush" /\ l.open /\ l.kind = h[t].kind /\ l.run = p /\ l.was = h[t].was
        /\ l.time = h[t].time
    BY <1>2 DEF Handler
  <2> HIDE DEF l
  <2>3. h'[t] = l /\ \A u \in Handlers : u # t => h'[u] = h[u]
    BY <1>2, <2>1
  <2>4. Torn.frames = <<>>
    BY DEF Torn, Nothing
  <2>5. manifest'[r] = IF r = p THEN Torn ELSE manifest[r]
    BY <1>2, <2>1
  <2>6. Ordered(r)'
    <3>1. manifest'[r].frames \in Lists(r) /\ (p = r => h[t].was.frames \in Lists(r))
      BY <2>4, <2>5 DEF Lists
    <3> QED BY <1>1, <1>2, <2>1, <2>2, <3>1, OneOrdered
  <2>7. CASE r # p
    <3>1. NoneLost(r)'
      BY <1>1, <1>2, <2>1, <2>2, <2>5, <2>7, OneAside
    <3> QED BY <2>6, <3>1
  <2>8. CASE r = p
    <3>1. AtWork(r)' = AtWork(r) /\ t \in AtWork(r)
      BY <1>1, <2>2, <2>3, <2>8 DEF AtWork
    <3>2. NoneLost(r)'
      <4>1. r \in exists'
        BY <1>1, <1>4, <2>8
      <4> SUFFICES ASSUME r \notin raced'
                   PROVE  /\ \A u \in AtWork(r)', v \in AtWork(r)' : u = v
                          /\ \A u \in AtWork(r)' :
                                /\ DOMAIN frames'[r] \subseteq Entries(h'[u].was.frames)
                                /\ h'[u].open /\ manifest'[r] = Torn
        BY <3>1, <4>1 DEF NoneLost
      <4>2. /\ \A u \in AtWork(r) : u = t
            /\ DOMAIN frames[r] \subseteq Entries(h[t].was.frames)
        BY <1>1, <1>2, <3>1 DEF NoneLost
      <4> QED BY <1>1, <2>2, <2>3, <2>5, <2>8, <3>1, <4>2
    <3> QED BY <2>6, <3>2
  <2> QED BY <2>7, <2>8
<1> QED BY <1>3, <1>4

\* The manifest lists what its handler had in its hands.
LEMMA FlushShown ==
    ASSUME ShownInv, NEW t \in Handlers, FlushManifest(t), NEW r \in Runs
    PROVE  NoneLost(r)' /\ Ordered(r)'
<1> DEFINE p == h[t].run
<1>1. h[t].pc = "flush" /\ Return(t) /\ UNCHANGED <<exists, frames, history>>
  BY DEF FlushManifest
<1>2. /\ ReplayInv /\ NoneLost(r) /\ Ordered(r) /\ h \in [Handlers -> Handler] /\ h[t] \in Handler
      /\ p \in Runs /\ manifest \in [Runs -> Listing]
  BY DEF ShownInv, ReplayInv, Directory, Handler
<1>3. h' = [h EXCEPT ![t] = Idle]
  BY <1>1, <1>2, Moved
<1>4. h'[t] = Idle /\ \A u \in Handlers : u # t => h'[u] = h[u]
  BY <1>2, <1>3
<1>5. Torn.frames = <<>>
  BY DEF Torn, Nothing
<1>6. r # p => manifest'[r] = manifest[r]
  BY <1>2 DEF FlushManifest
<1>7. manifest'[r] \in {manifest[r], Torn} \/ (r = p /\ manifest'[r] = h[t].was)
  BY <1>2 DEF FlushManifest
<1>8. Ordered(r)'
  <2>1. manifest'[r].frames \in Lists(r) /\ <<>> \in Lists(r)
    BY <1>5, <1>7 DEF Lists
  <2> QED BY <1>1, <1>2, <1>3, <2>1, IdleFacts, OneOrdered
<1>9. CASE r # p
  <2>1. NoneLost(r)'
    BY <1>1, <1>2, <1>3, <1>6, <1>9, IdleFacts, OneAside
  <2> QED BY <1>8, <2>1
<1>10. CASE r = p /\ r \in raced'
  <2>1. NoneLost(r)'
    BY <1>1, <1>2, <1>10 DEF NoneLost
  <2> QED BY <1>8, <2>1
<1>11. CASE r = p /\ r \notin raced'
  <2>1. /\ \A u \in AtWork(r) : u = t
        /\ t \in AtWork(r) /\ r \notin raced
    BY <1>1, <1>2, <1>11 DEF NoneLost, AtWork
  <2>2. /\ DOMAIN frames[r] \subseteq Entries(h[t].was.frames)
        /\ h[t].open => manifest[r] = Torn
        /\ ~h[t].open => DOMAIN frames[r] = {}
    BY <1>1, <1>2, <2>1 DEF NoneLost
  <2>3. AtWork(r)' = {}
    BY <1>4, <2>1, IdleFacts DEF AtWork
  <2>4. DOMAIN frames'[r] \subseteq Entries(manifest'[r].frames)
    <3>1. CASE h[t].open
      <4>1. manifest'[r] = h[t].was
        BY <1>2, <1>11, <2>2, <3>1 DEF FlushManifest
      <4> QED BY <1>1, <2>2, <4>1
    <3>2. CASE ~h[t].open
      BY <1>1, <2>2, <3>2
    <3> QED BY <3>1, <3>2
  <2>5. NoneLost(r)'
    BY <1>1, <1>2, <2>3, <2>4 DEF NoneLost
  <2> QED BY <1>8, <2>5
<1> QED BY <1>9, <1>10, <1>11

\* At first there is nothing to show.
LEMMA ShownInitial == ReplayInit => ShownInv
<1> SUFFICES ASSUME ReplayInit, NEW r \in Runs PROVE NoneLost(r) /\ Ordered(r)
  BY ReplayInitial DEF ShownInv
<1>1. /\ h = [t \in Handlers |-> Idle] /\ frames[r] = <<>> /\ manifest[r] = Missing
  BY DEF ReplayInit
<1>2. DOMAIN frames[r] = {}
  BY <1>1
<1>3. AtWork(r) = {} /\ Capturing(r) = {}
  BY <1>1, IdleFacts DEF AtWork, Capturing
<1>4. Lists(r) = {<<>>}
  BY <1>1, IdleFacts, ListingsOK DEF Lists
<1>5. Increasing(<<>>) /\ UpTo(<<>>, clock)
  BY DEF Increasing, UpTo
<1> QED BY <1>2, <1>3, <1>4, <1>5 DEF NoneLost, Ordered

\* Every step keeps what the replay shows.
LEMMA ShownSteps == ShownInv /\ [ReplayNext]_replayVars => ShownInv'
<1> SUFFICES ASSUME ShownInv, [ReplayNext]_replayVars
             PROVE  \A r \in Runs : NoneLost(r)' /\ Ordered(r)'
  BY ReplaySteps DEF ShownInv
<1> DEFINE Ok == \A r \in Runs : NoneLost(r)' /\ Ordered(r)'
<1>1. CASE UNCHANGED <<exists, frames, manifest, h, history>>
  <2> SUFFICES ASSUME NEW r \in Runs PROVE NoneLost(r)' /\ Ordered(r)'
    OBVIOUS
  <2>1. AtWork(r)' = AtWork(r) /\ Capturing(r)' = Capturing(r)
    BY <1>1 DEF AtWork, Capturing
  <2>2. Lists(r)' = Lists(r)
    BY <1>1 DEF Lists
  <2>3. NoneLost(r) /\ Ordered(r)
    BY DEF ShownInv
  <2>4. NoneLost(r)'
    BY <1>1, <2>1, <2>3 DEF NoneLost
  <2>5. Ordered(r)'
    BY <1>1, <2>1, <2>2, <2>3 DEF Ordered
  <2> QED BY <2>4, <2>5
<1>2. ASSUME NEW t \in Handlers, NEW q \in Requests, Execute(t, q) PROVE Ok
  <2>1. UNCHANGED <<exists, frames, manifest, history>>
    BY <1>2 DEF Execute, directory
  <2>2. CASE q \in Strict
    <3>1. Begin(t, "execute", q, RunOf[q], 1)
      BY <1>2, <2>2 DEF Execute
    <3> QED BY <2>1, <3>1, BeginAside
  <2>3. CASE q \notin Strict
    BY <1>1, <1>2, <2>1, <2>3 DEF Execute
  <2> QED BY <2>2, <2>3
<1>3. ASSUME NEW t \in Handlers, Screenshot(t) PROVE Ok
  <2>1. /\ UNCHANGED <<exists, frames, manifest, raced>> /\ overlapped \subseteq overlapped'
        /\ \E time : Begin(t, "frame", current, run_id[current], time)
    BY <1>3 DEF Screenshot, directory
  <2>2. \A r \in Runs : NoneLost(r)'
    BY <2>1, BeginAside
  <2> QED BY <1>3, <2>2, ScreenshotOrdered
<1>4. ASSUME NEW t \in Handlers, Upload(t) PROVE Ok
  <2>1. /\ UNCHANGED <<exists, frames, manifest, history>>
        /\ \E q, id : Begin(t, "upload", id, run_id[q], 1)
    BY <1>4 DEF Upload, directory
  <2> QED BY <2>1, BeginAside
<1>5. ASSUME NEW t \in Handlers, mark_replay_reset(t) PROVE Ok
  <2>1. /\ h[t].pc = "mark" /\ UNCHANGED <<exists, frames, manifest, history>>
        /\ Goto(t, "rmtree") \/ Goto(t, "mkdir") \/ Return(t)
    BY <1>5 DEF mark_replay_reset, AfterReset, directory
  <2> QED BY <2>1, BothAside
<1>6. ASSUME NEW t \in Handlers, Rmtree(t) PROVE Ok
  <2>1. CASE h[t].run \in exists
    BY <1>6, <2>1, RmtreeShown
  <2>2. CASE h[t].run \notin exists
    <3>1. /\ h[t].pc = "rmtree" /\ UNCHANGED <<exists, frames, manifest, history>>
          /\ Goto(t, "mkdir") \/ Return(t)
      BY <1>6, <2>2 DEF Rmtree, AfterReset
    <3> QED BY <3>1, BothAside
  <2> QED BY <2>1, <2>2
<1>7. ASSUME NEW t \in Handlers, Rmdir(t) PROVE Ok
  <2>1. /\ h[t].pc = "rmdir" /\ UNCHANGED <<frames, manifest, history>>
        /\ Goto(t, "mkdir") \/ Return(t)
        /\ exists' = exists \/ (frames[h[t].run] = <<>> /\ exists' = exists \ {h[t].run})
    BY <1>7 DEF Rmdir, AfterReset
  <2>2. \A r \in Runs : DOMAIN frames[r] # {} /\ r \in exists => r \in exists'
    BY <2>1
  <2> QED BY <2>1, <2>2, BothAside
<1>8. ASSUME NEW t \in Handlers, Mkdir(t) PROVE Ok
  <2>1. /\ h[t].pc = "mkdir" /\ UNCHANGED <<frames, manifest, history>> /\ exists \subseteq exists'
        /\ Goto(t, "video") \/ Goto(t, "read")
    BY <1>8 DEF Mkdir
  <2> QED BY <2>1, BothAside
<1>9. ASSUME NEW t \in Handlers, VideoWrite(t) PROVE Ok
  <2>1. /\ h[t].pc = "video" /\ UNCHANGED <<exists, frames, manifest, history>>
        /\ Goto(t, "read") \/ Return(t)
    BY <1>9 DEF VideoWrite
  <2> QED BY <2>1, BothAside
<1>10. ASSUME NEW t \in Handlers, ReadManifest(t) PROVE Ok
  BY <1>10, ReadShown
<1>11. ASSUME NEW t \in Handlers, FrameWrite(t) PROVE Ok
  BY <1>11, FrameShown
<1>12. ASSUME NEW t \in Handlers, WriteManifest(t) PROVE Ok
  BY <1>12, TruncateShown
<1>13. ASSUME NEW t \in Handlers, FlushManifest(t) PROVE Ok
  BY <1>13, FlushShown
<1>14. CASE (\E q \in Requests : FirstEvent(q)) \/ FinishTask
  BY <1>1, <1>14 DEF FirstEvent, FinishTask, directory
<1>15. CASE UNCHANGED replayVars
  BY <1>1, <1>15 DEF replayVars
<1> HIDE DEF Ok
<1>16. Ok
  BY <1>2, <1>3, <1>4, <1>5, <1>6, <1>7, <1>8, <1>9, <1>10, <1>11, <1>12, <1>13, <1>14, <1>15
  DEF ReplayNext, Ok
<1> QED BY <1>16 DEF Ok

\* For any handlers, requests and runs, however the handlers and the resets of a
\* run overlap: when no handler is at work on its manifest, a replay shows each
\* frame file that is kept once, unless two handlers changed the manifest at the
\* same time; and the frames it shows are in the order of time, no time twice,
\* unless two screenshots of the run were recorded at the same time.
THEOREM ReplayCorrect == ReplaySpec => []ReplayShowsKeptFrames
<1>1. ShownInv => ReplayShowsKeptFrames
  <2> SUFFICES ASSUME ShownInv, NEW r \in Runs, AtWork(r) = {}
               PROVE  LET answer == ShownFrames(r) IN
                      /\ r \notin raced =>
                            \A f \in DOMAIN frames[r] :
                                \E i \in DOMAIN answer :
                                    \A j \in DOMAIN answer : answer[j] = f <=> j = i
                      /\ r \notin overlapped =>
                            \A i \in DOMAIN answer, j \in DOMAIN answer :
                                i < j => answer[i][2] < answer[j][2]
    BY DEF ReplayShowsKeptFrames
  <2> DEFINE s == manifest[r].frames
             answer == ShownFrames(r)
  <2>1. NoneLost(r) /\ Ordered(r) /\ manifest[r] \in Listing /\ Numbered(s)
    BY DEF ShownInv, ReplayInv, Directory
  <2>2. _read_replay_manifest(r).frames = s
    BY <2>1 DEF _read_replay_manifest, Listing
  <2>3. /\ DOMAIN answer = {i \in 1..Len(s) : s[i] \in DOMAIN frames[r]}
        /\ \A i \in DOMAIN answer : answer[i] = s[i]
    BY <2>2 DEF ShownFrames
  <2> HIDE DEF answer
  <2>4. ASSUME r \notin raced, NEW f \in DOMAIN frames[r]
        PROVE  \E i \in DOMAIN answer : \A j \in DOMAIN answer : answer[j] = f <=> j = i
    <3>1. f \in Entries(s)
      BY <2>1, <2>4 DEF NoneLost
    <3>2. PICK i \in 1..Len(s) : f = s[i]
      BY <3>1 DEF Entries
    <3>3. i \in DOMAIN answer
      BY <2>3, <3>2
    <3>4. ASSUME NEW j \in DOMAIN answer PROVE answer[j] = f <=> j = i
      <4>1. j \in 1..Len(s) /\ s[i][1] = i /\ s[j][1] = j
        BY <2>1, <2>3, <3>2 DEF Numbered
      <4> QED BY <2>3, <3>2, <3>3, <4>1
    <3> QED BY <3>3, <3>4
  <2>5. ASSUME r \notin overlapped, NEW i \in DOMAIN answer, NEW j \in DOMAIN answer, i < j
        PROVE  answer[i][2] < answer[j][2]
    <3>1. Increasing(s)
      BY <2>1, <2>5 DEF Ordered, Lists
    <3> QED BY <2>3, <2>5, <3>1 DEF Increasing
  <2> QED BY <2>4, <2>5 DEF answer
<1>2. ShownInv /\ [ReplayNext]_replayVars => ShownInv'
  BY ShownSteps
<1> QED BY <1>1, <1>2, ShownInitial, PTL DEF ReplaySpec

===============================================================================
