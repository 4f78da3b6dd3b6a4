------------------------------ MODULE TaskStream ------------------------------
(***************************************************************************)
(* How the progress of one playground task reaches its readers: the events *)
(* and previews its run records (playground/_execution.py), the state's    *)
(* condition variable and revision counter (_state.py), and the handlers   *)
(* of GET /task-stream and GET /task-progress (_server.py). A list index   *)
(* stands for an event; a payload is what its reader learns from it. One    *)
(* action is one section under the state's lock, with the thread's local    *)
(* work until its next one.                                                *)
(***************************************************************************)
EXTENDS Naturals, Sequences, FiniteSetsExt

CONSTANTS Reader,        \* clients that follow the task
          MaxEvents,     \* bound: events the run emits
          MaxPreviews,   \* bound: previews the run sets
          MaxOther       \* bound: revision up to which other tasks change it

ASSUME BoundAssumption == MaxEvents \in Nat /\ MaxPreviews \in Nat /\ MaxOther \in Nat

VARIABLES
    events,      \* TaskProgress.events: their sequence numbers
    preview,     \* TaskProgress.preview: how many were set
    status,      \* TaskProgress.status
    cancelReq,   \* TaskProgress.cancel_requested
    revision,    \* PlaygroundState._revision
    run,         \* where the run is
    emitted,     \* RunEventEmitter.sequence of an agent run
    rpc,         \* where the reader's handler is
    seq,         \* last_sequence: the last one the reader was sent
    rev,         \* last_revision of the stream's loop
    times,       \* how often the reader received the event at each index
    shown        \* status and preview of the last payload it received

taskVars == <<events, preview, status, cancelReq, revision>>
runVars == <<run, emitted>>
readerVars == <<seq, rev, times, shown>>
vars == <<taskVars, runVars, rpc, readerVars>>

Index == 1..MaxEvents

RunPC == {"agent", "adding", "previewing", "strict", "steps",
          "returned", "failing", "over"}
ReaderPC == {"off", "loop", "waiting", "woken", "told"}
Status == {"running", "finished", "error", "cancelled"}

TypeOK ==
    /\ events \in Seq(Nat) /\ Len(events) <= MaxEvents
    /\ preview \in 0..MaxPreviews
    /\ status \in Status
    /\ cancelReq \in BOOLEAN
    /\ revision \in Nat
    /\ run \in RunPC
    /\ emitted \in 0..MaxEvents
    /\ rpc \in [Reader -> ReaderPC]
    /\ seq \in [Reader -> Nat]
    /\ rev \in [Reader -> Nat]
    /\ times \in [Reader -> [Index -> Nat]]
    /\ shown \in [Reader -> [status : Status, preview : Nat]]

Init ==
    /\ events = <<>>
    /\ preview = 0
    /\ status = "running"
    /\ cancelReq = FALSE
    /\ revision = 0
    /\ run \in {"agent", "strict"}
    /\ emitted = 0
    /\ rpc = [c \in Reader |-> "off"]
    /\ seq = [c \in Reader |-> 0]
    /\ rev = [c \in Reader |-> 0]
    /\ times = [c \in Reader |-> [i \in Index |-> 0]]
    /\ shown = [c \in Reader |-> [status |-> "running", preview |-> 0]]

-------------------------------------------------------------------------------
(* PlaygroundState, under its lock.                                         *)

_notify ==
    /\ revision' = revision + 1
    /\ rpc' = [c \in Reader |-> IF rpc[c] = "waiting" THEN "woken" ELSE rpc[c]]

(* s is the event's own sequence number, 0 when it brings none.             *)
add_event(s) ==
    /\ events' = Append(events, IF s = 0 THEN Len(events) + 1 ELSE s)
    /\ _notify
    /\ UNCHANGED <<preview, status, cancelReq>>

(* set_preview had it not notified, like bind_run_id and set_replay.        *)
set_preview_quietly ==
    /\ preview < MaxPreviews
    /\ preview' = preview + 1
    /\ UNCHANGED <<events, status, cancelReq, revision, rpc>>

set_preview ==
    /\ preview < MaxPreviews
    /\ preview' = preview + 1
    /\ _notify
    /\ UNCHANGED <<events, status, cancelReq>>

(* request_cancel had it not notified.                                      *)
request_cancel_quietly ==
    /\ status = "running"
    /\ status' = "cancelled"
    /\ cancelReq' = TRUE
    /\ UNCHANGED <<events, preview, revision, rpc>>

(* request_cancel announcing a status of its own until the run reacts.      *)
request_cancel_pending ==
    /\ status = "running"
    /\ status' = "cancelling"
    /\ cancelReq' = TRUE
    /\ _notify
    /\ UNCHANGED <<events, preview>>

request_cancel ==
    /\ status = "running"
    /\ status' = "cancelled"
    /\ cancelReq' = TRUE
    /\ _notify
    /\ UNCHANGED <<events, preview>>

(* finish_task and fail_task.                                               *)
settle_task(s) ==
    IF cancelReq
    THEN UNCHANGED <<taskVars, rpc>>
    ELSE /\ status' = s
         /\ _notify
         /\ UNCHANGED <<events, preview, cancelReq>>

-------------------------------------------------------------------------------
(* The run. An agent run emits from its own loop, one event at a time; its  *)
(* events carry the emitter's sequence number.                              *)

(* A new emitter for each phase of the run, which numbers from 1 again.     *)
EmitAfresh ==
    /\ run = "agent" /\ emitted < MaxEvents
    /\ emitted' = 1
    /\ run' = IF cancelReq THEN "agent" ELSE "adding"
    /\ UNCHANGED <<taskVars, rpc, readerVars>>

(* emit, and the sink's check whether the task was cancelled.               *)
Emit ==
    /\ run = "agent" /\ emitted < MaxEvents
    /\ emitted' = emitted + 1
    /\ run' = IF cancelReq THEN "agent" ELSE "adding"
    /\ UNCHANGED <<taskVars, rpc, readerVars>>

(* The sink's second section; a completed tool call may bring a preview.    *)
SinkAdd ==
    /\ run = "adding"
    /\ add_event(emitted)
    /\ run' \in {"agent", "previewing"}
    /\ UNCHANGED <<emitted, readerVars>>

SinkPreview ==
    /\ run = "previewing"
    /\ \/ set_preview
       \/ preview = MaxPreviews /\ UNCHANGED <<taskVars, rpc>>
    /\ run' = "agent"
    /\ UNCHANGED <<emitted, readerVars>>

(* A strict case adds its two events and its previews unchecked, and a      *)
(* thread that a cancellation did not stop adds them to a cancelled task.   *)
StrictStarted ==
    /\ run = "strict" /\ Len(events) < MaxEvents
    /\ add_event(0)
    /\ run' = "steps"
    /\ UNCHANGED <<emitted, readerVars>>

StrictPreview ==
    /\ run = "steps"
    /\ set_preview
    /\ UNCHANGED <<runVars, readerVars>>

StrictCompleted ==
    /\ run = "steps" /\ Len(events) < MaxEvents
    /\ add_event(0)
    /\ run' = "returned"
    /\ UNCHANGED <<emitted, readerVars>>

(* The agent returned; it or the strict case raised; or it was cancelled.   *)
RunEnds ==
    /\ \/ run = "agent" /\ run' \in {"returned", "failing"}
       \/ run \in {"strict", "steps"} /\ run' = "failing"
       \/ run \in {"agent", "strict", "steps"} /\ cancelReq /\ run' = "over"
    /\ UNCHANGED <<taskVars, emitted, rpc, readerVars>>

Settle ==
    /\ \/ run = "returned" /\ settle_task("finished")
       \/ run = "failing" /\ settle_task("error")
    /\ run' = "over"
    /\ UNCHANGED <<emitted, readerVars>>

Cancel ==
    /\ request_cancel
    /\ UNCHANGED <<runVars, readerVars>>

(* An earlier run, or a later one, changes its own task.                    *)
OtherTask ==
    /\ revision < MaxOther
    /\ _notify
    /\ UNCHANGED <<events, preview, status, cancelReq, runVars, readerVars>>

-------------------------------------------------------------------------------
(* The readers.                                                             *)

(* Events from the last seen one on, instead of those after it.             *)
FreshFrom(after) == {i \in 1..Len(events) : events[i] >= after}

Fresh(after) == {i \in 1..Len(events) : events[i] > after}

_write_sse_progress(after) == Max({after} \cup {events[i] : i \in Fresh(after)})

(* A payload, read in one section and written to the client.                *)
Payload(c) ==
    /\ times' = [times EXCEPT ![c] = [i \in Index |->
                    times[c][i] + IF i \in Fresh(seq[c]) THEN 1 ELSE 0]]
    /\ seq' = [seq EXCEPT ![c] = _write_sse_progress(seq[c])]
    /\ shown' = [shown EXCEPT ![c] = [status |-> status, preview |-> preview]]
    /\ UNCHANGED <<taskVars, runVars>>

(* GET /task-progress?after_sequence=...                                    *)
Poll(c) ==
    /\ rpc[c] = "off"
    /\ Payload(c)
    /\ rpc' = [rpc EXCEPT ![c] = IF status = "running" THEN "off" ELSE "told"]
    /\ UNCHANGED rev

(* GET /task-stream?after_sequence=...: the first payload.                  *)
StreamOpen(c) ==
    /\ rpc[c] = "off"
    /\ Payload(c)
    /\ rpc' = [rpc EXCEPT ![c] = IF status = "running" THEN "loop" ELSE "told"]
    /\ rev' = [rev EXCEPT ![c] = 0]

(* wait_for_update without its comparison of revisions.                     *)
StreamWaitAlways(c) ==
    /\ rpc[c] = "loop"
    /\ rpc' = [rpc EXCEPT ![c] = "waiting"]
    /\ UNCHANGED <<taskVars, runVars, readerVars>>

(* wait_for_update: nothing new since the last payload.                     *)
StreamWait(c) ==
    /\ rpc[c] = "loop" /\ revision = rev[c]
    /\ rpc' = [rpc EXCEPT ![c] = "waiting"]
    /\ UNCHANGED <<taskVars, runVars, readerVars>>

StreamRead(c) ==
    /\ \/ rpc[c] = "loop" /\ revision # rev[c]
       \/ rpc[c] = "woken"
    /\ Payload(c)
    /\ rev' = [rev EXCEPT ![c] = revision]
    /\ rpc' = [rpc EXCEPT ![c] = IF status = "running" THEN "loop" ELSE "told"]

(* The wait's 15 seconds are over.                                          *)
StreamTimeout(c) ==
    /\ rpc[c] = "waiting"
    /\ rpc' = [rpc EXCEPT ![c] = "woken"]
    /\ UNCHANGED <<taskVars, runVars, readerVars>>

(* The connection breaks, perhaps on a write that the client then never      *)
(* sees: a payload that is written is one it received.                      *)
Disconnect(c) ==
    /\ rpc[c] \in {"loop", "waiting", "woken"}
    /\ rpc' = [rpc EXCEPT ![c] = "off"]
    /\ UNCHANGED <<taskVars, runVars, readerVars>>

-------------------------------------------------------------------------------
RunNext ==
    \/ Emit \/ SinkAdd \/ SinkPreview
    \/ StrictStarted \/ StrictPreview \/ StrictCompleted
    \/ RunEnds \/ Settle

StreamStep(c) == StreamWait(c) \/ StreamRead(c)

ReaderNext(c) ==
    Poll(c) \/ StreamOpen(c) \/ StreamStep(c) \/ StreamTimeout(c) \/ Disconnect(c)

Next == RunNext \/ Cancel \/ OtherTask \/ \E c \in Reader : ReaderNext(c)

Spec == Init /\ [][Next]_vars

(* Handler threads are scheduled. Nothing relies on the wait's timeout, on   *)
(* the run's progress, or on clients that poll.                             *)
FairSpec == Spec /\ \A c \in Reader : WF_vars(StreamStep(c))

-------------------------------------------------------------------------------
(* Properties.                                                              *)

(* However a reader mixes streams, polls and reconnects, it was sent the    *)
(* first events of the task once each: none twice, none left out.           *)
ReadersSeePrefix ==
    \A c \in Reader : \E n \in 0..Len(events) :
        times[c] = [i \in Index |-> IF i <= n THEN 1 ELSE 0]

(* A stream handler that sleeps has nothing to send: it was sent all events *)
(* with the current status and preview. No wakeup is lost between its last  *)
(* look at the task and its wait.                                           *)
SleepersAreCurrent ==
    \A c \in Reader : rpc[c] = "waiting" =>
        /\ seq[c] = Len(events)
        /\ shown[c] = [status |-> status, preview |-> preview]

(* A reader told that the run ended by itself has every event of it.        *)
ToldIsComplete ==
    \A c \in Reader :
        rpc[c] = "told" /\ shown[c].status \in {"finished", "error"}
            => \A i \in 1..Len(events) : times[c][i] = 1

(* The server implements the feed of events its readers rely on.            *)
Over == CASE status = "running" -> "running"
          [] status = "cancelled" -> "cancelled"
          [] OTHER -> "ended"

Feed == INSTANCE EventFeed WITH
            log <- Len(events), over <- Over, seen <- seq,
            told <- {c \in Reader : rpc[c] = "told"}
ImplementsEventFeed == Feed!Spec

(* A reader whose stream stays open receives every event that is there ...  *)
EventsReachStreams ==
    \A c \in Reader : \A i \in Index :
        (rpc[c] \in {"loop", "waiting", "woken"} /\ i <= Len(events))
            ~> (times[c][i] = 1 \/ rpc[c] = "off")

(* ... and the end of the task, without waiting for the 15 seconds.         *)
StreamsAreTold ==
    \A c \in Reader :
        (rpc[c] \in {"loop", "waiting", "woken"} /\ status # "running")
            ~> rpc[c] \in {"told", "off"}
===============================================================================
