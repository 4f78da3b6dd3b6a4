# Verification of FSQ-Agent

TLA+ specifications of FSQ-Agent, checked with TLC on small instances and proved
with TLAPS for all values of their constants. The specifications are translated
from the Python source; a comment above each definition says which function it
is, and `PROJECT.json` ("map") gives the lines.

    tlc -config <run>.cfg <MC module>      # the runs are listed below
    tlapm <module>Proofs.tla               # the proofs

## 1. The system

FSQ-Agent runs UI test cases on Android, Windows and Web applications. A case is
run *strictly* (its commands are executed one by one by the core runner) or
*dynamically* (an LLM agent reaches a goal through the same harness, and a second
agent verifies the outcome). The command line starts one run per process. The
*playground* is an HTTP server with a page that starts, follows and cancels runs.

| Component | Its state | Its operations | It interacts with | What is hard in it |
|---|---|---|---|---|
| Playground task execution (`playground/_state.py`, `_execution.py`) | tasks (status, events, preview, cancel flag), the one-task slot, the session, the revision counter, per run a handle (loop, task, cancel flag, harness) | start, finish, fail, cancel, add an event, wait for an update; the run's thread, coroutine and strict worker thread | handlers call it, runs report to it | threads that meet only in short lock sections; cancellation that must reach a run wherever it is |
| Playground server (`_server.py`) | handles by request id, replay directories | POST /execute, /cancel, /session; GET /task-progress, /task-stream, /screenshot, /replay... | state, execution, Web driver | checks made in other lock sections than the acts; condition-variable waits; reads of a driver in use |
| Step runner (`core/runner/_runner.py`) | the phases and reports of one step | `run_step`: prepare, invoke, finalize, with captures | any harness | every harness call may fail in its own way; which failures become results and which escape |
| Step sequence, evidence, report (`_sequence.py`, `_recorder.py`, `report/_core_evidence_report.py`) | the recorded events and results | body loop, teardown in `finally`, record, manifest, report | step runner | exceptions between two steps; what the report says of steps that never ran |
| Web driver (`core/harness/_playwright_driver.py`) | executor, page, browser objects | startBrowser, closeBrowser, page operations, screenshot, close | the run and preview threads | thread-bound objects behind unlocked fields; a start or close that fails halfway |
| Agent orchestration (`agent/_core.py`, `_openai_runtime.py`, `_verifier.py`, `_events.py`) | phase of the run, provider sessions, emitted events | pre-plan, run, verify, report | provider, harness, tools | failures and cancellation in every phase; a harness built after its timeout |
| Agent tools and artifacts (`tools/`, `_openai_runtime.py`) | call counter, artifact files, the event log and the SDK's stream | answer a call, file its output, cut old outputs from the model's input, read a slice | agent, harness, report, recording | two stores over one directory; events of two writers in one log |
| Replay storage (`_server.py`) | manifest file, frames, video | append a frame, reset, upload, list, byte ranges | screenshot handlers | read-modify-write of a file without a lock |
| Recording (`cli/_strict_case_recording.py`) | none | turn tool events into a strict case | the event log | pairing of starts and completions |
| Command line (`cli/`, `fsq/`) | the cases, their verdicts, the summary | `run`: strict and dynamic, one case or a directory | harness, step runner, agent | checks at different places before and between cases; a case that fails, raises or cannot start |
| Android and Windows harnesses, driver tools, AI assertion (`core/harness/`) | the driver's app and window, the context of an invocation | `invoke_action`, the drivers' methods | device libraries, the AI provider | targets that come and go during a step; a window that comes late or belongs to another process |
| Targets and parameters (`models/_core.py`, the three drivers) | none | accept parameters, build a locator, find the element, judge it | step parameters | three notions of what is given; locators used in part |
| Playground page (`static/playground.js`) | current run, last sequence, timers | start, cancel, poll, stream | server | overlapping requests whose answers come out of order |
| Capabilities, prompts, reports, configuration, providers, knowledge, logs | none or a file | lookup, formatting, I/O | | sequential |

What makes each correct:

* *task execution*: one running task; it ends exactly once, in a status it keeps;
  the slot and the statuses agree; a cancellation is never lost;
* *progress*: each reader gets each event once, in order, and the end;
* *step runner*: the verdict, the phase reports, the captures and the events of a
  step tell the same story whatever failed;
* *sequence*: teardown follows any body; a passed report means that all steps passed;
* *Web driver*: browser objects are used by their own thread only; previews do
  not disturb the run; no browser is lost; every call returns;
* *agent run*: it ends with the one event that says how; no provider session is
  left open; success is the verification's word, never the agent's own; the
  device is not touched without a plan; a cancellation takes the run down and is
  never taken for a failed step;
* *tool calls*: the path that the model was told of keeps its output; a report
  pairs a call's end with its own start; a recorded case repeats the actions in
  their order;
* *replay*: what is kept is shown, once and in the order of time, as long as
  handlers did not overlap; a request's own frames are not removed; a range of
  bytes is the one that was asked for;
* *command line*: nothing acts before what it needs is settled; a batch accounts
  for every case, and its exit code says so; the command ends;
* *harness*: a step is reported as what it did to the device;
* *targets*: what is acted on or judged bears a name the call gave; a step that
  passes did what its parameters ask for; and of both the exceptions are known.

The hazards these properties are for are listed in `PROJECT.json` at the lines
where they bite.

## 2. The modules

| Module | Models | How its state corresponds to the code |
|---|---|---|
| `TaskSlot` | what clients are promised of tasks: one at a time, one ending each | abstract |
| `Playground` | task execution, POST /execute, /cancel, /session, DELETE /session | `status`, `cancelReq`, `current`, `lastRun`, `session` are fields of `PlaygroundState`; `handles` the server's dictionary; `hCancel`, `hAttached` the handle's fields; `exec`, `worker`, `helper`, `canceller` the places of the four kinds of threads; `cancelQ` is a `task.cancel` queued on the run's loop |
| `CoreRun` | what a report may say of a run | abstract |
| `StepRunner` | `StepRunner.run_step` | `pc` is the next harness call; `captureErr`, `artErr`, `category`, `result`, `report` are its local variables; `refs` and `emitted` count artifacts in the reports and in the events |
| `StepSequence` | `run_steps` over `StepRunner`, recording, report | `part` and `n` are the loop; `verdict` the recorded results; `raised` an escaping exception |
| `EventFeed` | what readers are promised of a task's events | abstract |
| `TaskStream` | events, previews, revisions; GET /task-progress, /task-stream | `events` holds the sequence numbers; `seq`, `rev` are `last_sequence` and `revision` of `_stream_task_progress`; `times` and `shown` are what the client received |
| `WebDriver` | the driver's life cycle and its callers | `executor`, `page` are the fields, numbered by the worker they belong to; `held` stands for `_context`, `_browser` and `_playwright`, which are set and cleared together; `queue` and `shut` are the executors' |
| `AgentRun` | `FsqAgent.run` and its three SDK calls: pre-plan, run, verification | `pc` is the coroutine's place; `open` the calls whose `ModelProviderSession` has a client; `pending` an exception that waits for the `finally`; `builder` and `future` the harness thread and the future of `_build_harness_with_timeout`; `runner`, `verifier` what the two steps say; `evidence` whose tool calls `_load_tool_calls` reads; `log` the events of `FsqAgent.run` itself |
| `ToolCalls` | the tools of an agent run, their two artifact stores, the event log, the report's pairing, the recorded case | `stored` is `call_index` of the provider's store, `cached` the filter's `artifact_paths_by_call_id`, `files` the directory `artifacts/tools`, `queue` the SDK's stream, `log` `events.jsonl`, `shown` the paths in what the model was given |
| `ReplayStore` | the directory `playground-replay`: POST /replay-video, the frame that GET /screenshot records, the reset at POST /execute, what GET /replay and a byte range answer | `frames`, `video`, `manifest` are the files; `reset` the tasks with `replay_reset`; `h` the place and the local variables of each handler; `clock` is the time of the last screenshot; `overlapped` and `raced` are histories: the runs with two screenshots at once, and with two handlers at the manifest at once |
| `Harness` | `invoke_action` of the Android and Windows harnesses, common tools, AI assertion, the Windows app | `app`, `window` are `_app` and `_window` of the driver; `context` its invocation context; `at` the place in the method; `visible`, `running`, `opened` the world outside |
| `CommandLine` | the command `run` over `Harness` | `pc`, `i`, `todo` are the loops over cases and steps; `verdicts` the recorded results; `raising` an exception that waits for the teardown; `summary`, `exit` what the command leaves |
| `Targets` | parameter models, locators and their use in the three drivers | `call` is one call; `used` the elements it acted on or judged, each a set of names that fit it; `did` what the call asks for that was done; `pc`, `result` the place in the driver's method and its outcome |

An action is one section under a lock, or the code between two points at which
another thread can act. What the modules leave out: texts, timestamps, payloads,
delays. `Playground`, `TaskStream`, `WebDriver` and `AgentRun` look at one program
from four sides, and are not composed: the slot does not depend on events, the
events only on the running task and its cancellation (both in `TaskStream`), the
driver on neither, and an agent run is for the playground something that may end
at any time, with a result, an exception or a `CancelledError`, once it is
cancelled. `StepSequence` extends `StepRunner`, and `CommandLine` extends
`Harness`. `CommandLine` keeps of a step only its verdict, which `StepSequence`
explains; `Harness` keeps of a target only whether it is on the screen, and
`Targets` says which element that is; `ToolCalls` keeps of a harness tool only
its output.

An operator named after another with a suffix (`finish_task_unchecked`,
`_close_without_finally`) is a variant with a plausible bug. No specification
uses it: it stands next to the definition it varies, and the property listed with
it in `PROJECT.json` ("mutants") is violated when it takes that place.

Choices worth knowing:

* `Playground` is about Android, the platform with sessions. An agent or strict
  case may take any number of steps; only its uses of the device matter.
* In `TaskStream` a revision starts at 0 and other tasks may raise it, so that a
  stream begins at revision 0 (the value its handler starts from) or above.
* In `WebDriver` a Playwright object used outside its thread raises; this is
  how the library behaves. `page.url` and `viewport_size` are cached values.
  An object whose close raises counts as still running. `close()`, which no
  caller under `src/fsq_agent` uses, is included as a call the run may make.
  Drivers given a page from outside, as tests do, are not modelled.
* In `AgentRun` the event sinks of the repository do not suspend, so a
  cancellation is delivered only where the run awaits a stream, the harness or
  the close of a client. What the model says and does is external: any answer,
  at any time or never. A close that fails has still forgotten its client.
  `mute` marks a run whose first or last event could not be emitted: those two
  are outside the `try`, so nothing could report it.
* `TaskStream` assumes that writing the event log succeeds. If it raised, the
  emitter would skip a number, and the run would fail (`EmitRaises` in
  `AgentRun`).

* In `ToolCalls` handlers run one after another, since they do not suspend; the
  SDK's events are consumed whenever the consumer gets to them. Texts are
  `short`, `long` or `huge`. The pre-plan's outputs are there when the run begins.
* In `ReplayStore` a request is a thread that reads, changes and writes back the
  manifest step by step; `write_text` truncates first, so another handler may
  find it torn. Requests of a strict case share a directory, because their run id
  is the id of the case. Times come from the wall clock, which does not go back.
  Each handler may serve again; `MaxServed` bounds them all.
* In `Harness` the screen changes only while a step runs, and `visible` is all
  that is left of it. An input is one click, press, swipe, key or text; a text action
  sends three, or two when it does not clear the field. Any call into a library
  may raise. `Connects` takes any open window, because a title, or the active
  window, may be another process's; when `top_window` raises, the process is
  connected to and the window is still the one before.
* In `CommandLine` settings are loaded, options are valid and files are readable.
  A case is what the command looks at: platform, app id, whether it loads, and
  its commands. A dynamic run looks into no file. The Windows platform has no
  strict harness (`_main.py:381`), although its settings are accepted: a prepared
  case is an Android one; the Web platform takes the same path, with its driver
  in `WebDriver`.
* In `Targets` an element is the set of names that fit it, and the screen is
  arbitrary at each look. A field is absent, empty or blank, or given.
  `Strays` lists, from the code, the calls that may act on something nobody
  named; `ActsOnWhatWasNamed` says that there are no others. `Partly` lists the
  accepted calls of which a driver drops a part; `AcceptedIsCarriedOut` says that
  of these, and of no others, `did` differs from what the call asks for.

## 3. The runs

| Run | Instance | States | What it shows |
|---|---|---|---|
| `playground_safety` | 2 requests, 2 cancelling clients, 2 devices, symmetric | 1.6 M | only cancelled runs overlap, no cancellation is lost, `ImplementsTaskSlot` |
| `playground_liveness` | 1 request, 2 clients | 5 k | a cancelled run ends and leaves the device |
| `step_sequence` | 2 body and 2 teardown steps, 2 artifact kinds | 250 k | verdicts, evidence, artifacts, `ImplementsCoreRun` |
| `task_stream` | 2 readers, 2 events, 1 preview, 1 foreign update | 82 k | wakeups, `ImplementsEventFeed`, progress of streams |
| `web_driver` | 1 preview thread, 2 executors | 88 k | page, executor, losses, every call returns |
| `agent_run` | 1 run | 1.9 k | final event, sessions, cancellation, the wait for the harness |
| `tool_calls` | 3 calls in answers of 1 or 2, one tool of each kind | 1.6 M | artifact files, pairing in the report, order of the recorded case |
| `replay_store` | 2 handlers, 4 calls, 3 requests over 2 runs, 2 times, symmetric | 757 k | kept frames are shown, byte ranges, what a reset removes |
| `command_line` | 12 case files, directories of 2, 3 agent steps, 2 processes | 615 k | steps as reported, batches, preparation, the end of the command |
| `targets` | every call, locators of at most 2 fields | 458 k | named elements, what of the parameters is carried out |
| `playground_one_driver` | 2 requests, 1 client, 1 device | violated | finding 1 |
| `tool_calls_details` | as `tool_calls` | violated | finding 2 |

Why the bounds are enough. Two requests give overlapping runs, and two clients
concurrent cancels of one request, and one cancel that races with `attach`. Four
steps give a stop or an exception with steps left in the body and in the
teardown, two kinds a capture that fails after one that worked. Two events and
two readers give a reader ahead of another, and reconnects between events. Two
executors give a restart after a failed start, or after `close`, with a preview
holding the old one. (With three executors, which takes a minute, and with two
preview threads for the invariants, TLC finds nothing else.) Agent runs share
nothing but a run directory, which only `EvidenceIsOwn` is about, so one run is
enough for the others. Three tool calls give a file that is written over by each
of the two stores, and ends that cross starts of the same tool. Two handlers and
four calls give a reset between the read and the write of another handler, and a
second request of one case; two times give a repeated timestamp. The case files
of `command_line` each miss, or have, one thing that is checked somewhere, and
two in a directory give every order of a good and a bad one; three agent steps
and two processes give a launch, another launch, and a kill of either. A locator
of two fields gives one that is used and one that is not; the few actions with
more to vary (waits, options, text assertions) have one. Most safety properties
are proved for all values (section 5).

Deadlock is checked in `web_driver`. The other runs switch it off: requests are
used up, and a sequence, a task, an agent run, a command and a call come to their
end.

Fairness, where a run uses it:

* *Playground*: threads are scheduled, so every step that waits for nothing is
  weakly fair. An agent, and a strict case that is not cancelled, need not end.
  A strict case does reach its next harness call, where `_CancellableHarness`
  meets the cancellation, because the drivers bound their waits.
* *TaskStream*: handlers are scheduled. Nothing relies on the 15 s timeout of the
  wait, on the run making progress, or on a client that polls.
* *WebDriver*: threads and workers are scheduled, and browser calls return or
  raise (Playwright's have timeouts). Nobody has to make a call.
* *AgentRun*: the loop is scheduled, its timers fire and the close of a client
  ends. Neither the model nor the harness thread has to answer: `SetupEnds` rests
  on the timeout alone.
* *CommandLine*: the command's thread runs, and what it calls returns or raises:
  the drivers bound their waits. The agent, exceptions, the screen and the
  desktop are not fair: `CommandEnds` holds whatever they do, since the polls of a
  window are counted and an agent's steps are bounded by its run.

## 4. Findings

1. **Two runs on one device** (`OneDriver`): `request_cancel` frees the slot
   before the cancelled run has stopped. What does hold, and is proved, is that
   of two such runs one is cancelled (`OverlapOnlyCancelled`).
2. **Details that are gone** (`DetailsRecoverable`): the provider's artifact store
   and the one of the input filter number their files from 1 in one directory. The
   filter writes a preview over the file of a large `read_file`, and the next
   `read_file` over a file of the filter; the model is told to look there for the
   details. What does hold, and is proved, is that the outputs of tools that the
   provider does not file stay (`ArtifactsAreOwn`).

Observations without a run. Where a property is named, it stands in the module
and fails when it is added to the module's configuration as an `INVARIANT`:

* **A task that nobody can cancel** (`RunningIsCancellable` in `Playground`): an
  exception while the replay directory is reset, after the task took the slot.
* **Lost teardown** (`AllTeardownRuns` in `StepSequence`): an exception in a
  teardown step skips those after it.
* **Silent capture errors** (`CaptureErrorsRecorded` in `StepRunner`): an
  exception without a message counts as none.
* **The browser closed by the wrong thread** (`OneWorkerThread` in `WebDriver`):
  `new_page` fails, startBrowser drops the executor but the driver keeps the
  browser, and closeBrowser closes it on its caller's thread, where Playwright
  refuses: the browser stays open and the driver forgets it. Likewise, a preview
  that read `_executor` as None before the next start takes its screenshot of the
  new page on its own thread.
* **One directory for two runs** (`EvidenceIsOwn` in `AgentRun`, with two runs of
  one run id): run ids are a slug and the second of the start. Two runs of one
  goal started in one second write one event log, and each is verified by the
  tool calls of both.
* **Waits that are not recorded** (`WaitsRecorded` in `ToolCalls`):
  `_tool_output_payload` copies no `replay`, so the recorder drops every wait
  silently, although `cli/SPEC.md:50` says that `wait_ms` records as `waitMs`.
* **Screenshots that are not replayed** (`ScreenshotsAreReplayed` in
  `ReplayStore`): after an upload for a run whose screenshots are only in its
  evidence, the manifest has no frames, and GET /replay answers none instead of
  falling back to the evidence (`playground/SPEC.md:45`).
* DELETE /session between the check in POST /execute and `start_task` starts an
  Android run without a selected device (`ExecuteStart` in `Playground`).
* An event may reach a task after it was cancelled, since the sink checks and
  adds in two sections and a strict run's `run_completed` is not checked at all.
  `EventFeed` allows it for cancelled tasks and forbids it for all others.
* Closing a client in the `finally` of an SDK call may raise, which discards the
  call's result, or its failure, and fails the run (`Close` in `AgentRun`).
* A verification that fails leaves a verifier step, so the verdict is
  inconclusive and never falls back to the runner's claim; only without any
  verifier step would it. This is how the code reads "If the verification task is
  unavailable" (`agent/SPEC.md:148`).
* A harness that is built after its timeout, or after a cancellation, is dropped
  without being closed; nothing waits for its thread. Neither strict nor dynamic
  commands ever close a driver.
* Two handlers of one request may overlap so that the reset of the first, which
  runs outside the lock, removes frames of the second (`Rmtree` in `ReplayStore`).
* Manifests written back by overlapping handlers lose each other's frames, and
  screenshots that overlap are listed, and served, out of the order of time: TLC
  shows either when `ReplayShowsKeptFrames` is checked without its exemption
  (`raced`, `overlapped`), and finds no other way to it.
* A single strict case exits with 0 even if its report failed, and a dynamic
  directory always does (`CaseEnds`, `Summarized` in `CommandLine`).
* In a strict batch secrets, and after the first case with an AI assertion also
  commands, are checked per case, when earlier cases have already acted;
  `cli/SPEC.md:155` has such failures come before external actions begin.
* On Windows `killApp` ends only the connected process and passes when nothing is
  connected; a process whose launch timed out runs on; after a failed launch the
  driver still has the window of the one before, and without a `window_title_re`
  even with another process, so that input goes to the one and `killApp` to the
  other; and a window of another process may be connected to, and then killed
  (`Connects`, `_kill_app` in `Harness`).
* The calls of `Strays` in `Targets`: a Web locator with a name only is the root
  of the page, where assertVisible passes and click hits anything; a Windows
  locator hides the target, and one with blanks or parents only fits any control;
  on Android a blank XPath hides the other fields, blank fields go into the query,
  and an assertion of a state without a name asks any element; a blank locator or
  target makes waitFor wait for the page and hides its text or URL.
* Parameters that are accepted and dropped (`Partly` in `Targets`). Of several
  options the Web driver selects by one, of several conditions it waits for one,
  although `models/SPEC.md:98` says that `WebWaitForParams` "requires exactly one
  bounded wait condition"; a blank value hides the label, a blank text the URL; a
  wait with a time alone waits for a blank text, URL or target if there is one,
  and a wait without a target ignores its state. A text assertion with `contains`
  and `equals` passes if either holds, on Android a text hides the state, and a
  swipe along points forgets its direction.
* A swipe with a direction and one of its two points is accepted by its model and
  refused by the driver (`HalfPoints` in `Targets`).

## 5. The proofs

All theorems are `Spec => []...` of the same specifications, for any finite or
infinite sets of requests, clients, devices, readers and preview threads and any
numbers of steps, kinds, events, executors, tools, calls, cases and fields, under
the named assumptions of the modules (that `NoRequest` is no request, that bounds are
naturals, that the runner is no preview, that each request has a run id and that a
run's evidence is a list of paths with times). No theorem uses a bound of the runs.

| Module | Theorems | The argument |
|---|---|---|
| `PlaygroundProofs` | `TypeCorrect`, `SlotCorrect`, `EndedRunsSettled`, `LastRunCorrect`, `DeviceStaysSelected`, `SettledForEver`, `SlotRefinement`, `CancelNeverLost`, `OverlapSafe` | `Lifecycle` adds to the safety properties where a status may stand at each place of the handler and of the run (`Phases`): without it a run could be settled before it was started. `CancelInv` adds which handles are registered and attached, and which cancel handler runs: only a task whose handle is registered can be cancelled. `HelperInv` says why a device is still in use. |
| `StepSequenceProofs` | `TypeCorrect`, `VerdictCorrect`, `FailureEvidence`, `ArtifactsCorrect`, `TeardownReached`, `CoreRunRefinement` | `RunnerInv` says, for each place in `run_step`, what is already decided: the prepare report, the invoke report against the result, the evidence that must exist, the artifacts that are announced and not yet in a report (`pending`). `SequenceInv` says which verdicts are recorded when step `n` is the last started; `CoreRun` follows from it. |
| `PlaygroundServerProofs` | `TypeCorrect`, `PrefixCorrect`, `SleepersCorrect`, `EndIsComplete`, `FeedRefinement`; `ReplayTypeCorrect`, `ReplayCorrect`, `EarlierCorrect`, `RangeCorrect` | `TaskStream`: a run's events are numbered 1, 2, 3... (`TaskInv`): the agent's by its emitter and a strict run's by the list, and no run mixes them. So `seq` is the length of the prefix a reader received (`ReaderInv`), and a revision the reader has seen means that nothing changed since (`RevisionInv`). `ReplayStore`: `HandlerOK` says what a handler holds between its steps. As long as no two handlers of a run have been at its manifest at once, the copy of the one that is there lists all frame files, each once (`NoneLost`), so that what it writes back loses none. The manifest and every copy are sorted by time, and no later than a screenshot that is still to be recorded (`Ordered`), as long as no two screenshots of the run have overlapped. A request has frames only once it is marked (`Directory`), and a handler that found frames of its own request began after that mark, so it is not the one that removes the directory. `RangeOK` is arithmetic, for a file of any size. |
| `WebDriverProofs` | `TypeCorrect`, `PageCorrect`, `RunnerCorrect`, `LossCorrect` | The executor in use is the last made and is not shut down (`ExecutorInv`). Only the run's calls change fields, and what its call knows of the executor stays true (`CallerInv`). Queues hold just the calls that wait in them, each once (`QueueInv`), so that a call is performed on the worker it was given to. `Effect` says what performing a call may change. |
| `AgentRunProofs` | `TypeCorrect`, `FinalEventCorrect`, `SessionsCorrect`, `VerdictCorrect`, `PlanCorrect`, `CancelledCorrect` | `RunInv`, for each run: which sessions may be open at each place (`SessionsOf`: none outside a call, the call's own inside it), that a plan that is not ready leads only to failure, that the verdict is what the verifier said or is not made yet, and that a cancelled run is closing, failing or over. `RunStep` shows that a run's own actions keep it and `OtherRuns` that they leave the other runs alone. |
| `ToolCallsProofs` | `TypeCorrect`, `ArtifactsCorrect`, `PathsCorrect`, `ReportCorrect`, `RecordingCorrect` | The filter's file of call `n` is `<<n, its tool>>` (`FilterFiles`), and the provider writes only files of its own tools: so the two collide only in those (`Reserved` keeps other tools from their names). `AnswerKeeps` covers the handlers that write no file, `ProviderKeeps` those that do. For the report: the log followed by the events still in the queue is one stream, in which the starts and the answers of the SDK stand in the order of the calls and each answer behind its start (`Flow`); an AgentTool's own start and end are neighbours, since handlers do not suspend (`OwnPairs`). So the loop that pairs open starts with ends never has more than one open: `PairingIs` computes what it finds for any log, and `CollectIs` what the recorder's loop collects, by `InductionUpTo`. |
| `TargetsProofs` | `TypeCorrect`, `ActsOnNamed`, `AcceptedCorrect` | An element that was found fits the query (`used \subseteq Matching(call)`), and the lemma `QueryIsNamed` shows, platform by platform, that the query holds a name of the call, unless the call is in `Strays`; `FirstField` orders the fields of a Web locator. `Places` and `Configured` say which calls reach which place of a driver, and `Carried` what `did` holds there; that this is what the call asks for exactly outside `Partly` is a matter of the parameters alone (`OptionIsAsked`, `WaitIsAsked`, `CarriedIsAsked`). |
| `CommandLineProofs` | `TypeCorrect`, `DrivenCorrect`, `PreparedCorrect`, `BatchCorrect` | `HarnessPlaces`: no input is sent before a step acts, and how many while it does. `Settled`: what validation and preparation have established for the running case. `Running`: as long as nothing went wrong, recorded, running and coming steps add up to those of the case, so one that ends without a failure has recorded all of them. `Accounted`: the summary has a line for each case before the running one. `SplitRange` shows that the split into body and teardown exists, with `LeastNatural`. |

Properties that no run lists are proved here all the same, and hold in the runs
when they are added to the configuration: `SlotMatchesRunning`, `EndedIsSettled`,
`LastRunIsFinished`, `SelectedDevice`, `TerminalStatusIsFinal` (Playground),
`TeardownBegins` (StepSequence), `ReadersSeePrefix`, `ToldIsComplete`
(TaskStream), `NoSelfCertifiedSuccess`, `PlanBeforeAction` (AgentRun),
`PathsResolve` (ToolCalls), `TypeOK` of Targets.

Only model-checked: the liveness properties (`CancelStopsRun`, `EventsReachStreams`,
`StreamsAreTold`, `CallsEnd`, `SetupEnds`, `CommandEnds`), which are out of the prover's
reach, and of course the violations. The library's induction theorems cannot be
cited, since they take the property as a parameter. Where a loop over the log has to be solved for
logs of any length, the induction is over a set of numbers instead (`InductionUpTo`
in `ToolCallsProofs`, from the well-foundedness of the naturals), and the loops are
recursive functions. No module has needed a `RECURSIVE` operator.

## 6. Not modelled, and the plan

Not modelled for good: parsing, formatting, file and HTTP input and output,
device libraries, model calls. Their outcomes are nondeterministic where a
modelled component uses them. The registry of capabilities is built from
declarations before anything runs; prompts, knowledge, skills and log lines are
texts; `adb` listings and the evidence store are plain input and output.
`PROJECT.json` ("components") lists every part with its reason.

What could be taken up next:

1. **The page** (`static/playground.js`) over `EventFeed`: polls that overlap,
   answers out of order, cancel and restart; no event shown twice, no event of
   another run, one finish per run.
2. **Web sessions of the playground**: their selection and their browsers, beside
   the Android ones.
