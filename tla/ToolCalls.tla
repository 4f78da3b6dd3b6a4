------------------------------ MODULE ToolCalls ------------------------------
(***************************************************************************)
(* The tool calls of one agent run: the tools the agent is given, their    *)
(* handlers (AgentToolAdapter, HarnessToolAdapter), the files that keep    *)
(* their outputs (ToolArtifactStore), the filter that cuts old outputs     *)
(* from the model's input, and the event log from which the report and     *)
(* the recorded case are made.                                             *)
(*                                                                         *)
(* Handlers run one at a time on the event loop and never suspend.  The    *)
(* AgentTools emit events without a call id straight into the log; the     *)
(* SDK's events carry the id and wait in its stream until the consumer     *)
(* takes them, so the two kinds meet in the log in many orders.            *)
(*                                                                         *)
(* Two stores number files from 1 in one directory: the provider's writes  *)
(* what read_file and write_file return, the filter's writes every output  *)
(* when it first goes back to the model.  Calls are numbered in the order  *)
(* in which they run.  Texts are "short", "long" (cut from old history) or *)
(* "huge" (an AgentTool answers with a preview).                           *)
(***************************************************************************)
EXTENDS Integers, Sequences, FiniteSets

CONSTANTS
    FileTool,       \* AgentTools whose output is filed by the provider
    QueryTool,      \* AgentTools that search or read a filed output
    RuntimeTool,    \* the tools of the pre-plan, read_knowledge_*
    PlatformTool,   \* capabilities of the harness's driver
    CommonTool,     \* capabilities every harness has: wait_ms
    ActionSpaces,   \* the sequences of tool names a harness may announce
    Recent,         \* recent_full_output_count
    Sizes,          \* how long successful outputs may be, in the checked instance
    MaxCalls,       \* bound: the calls of a run
    MaxBatch        \* bound: the calls of one answer of the model

AgentTool == FileTool \cup QueryTool
HarnessTool == PlatformTool \cup CommonTool

ASSUME ToolAssumption ==
    /\ "unknown" \notin AgentTool \cup RuntimeTool \cup HarnessTool
    /\ ActionSpaces \subseteq Seq(HarnessTool \cup AgentTool \cup RuntimeTool)
    /\ FileTool \cap QueryTool = {}
    /\ AgentTool \cap RuntimeTool = {}
    /\ Sizes \subseteq {"short", "long", "huge"}
    /\ Recent \in Nat /\ MaxCalls \in Nat /\ MaxBatch \in Nat

VARIABLES
    pc,         \* where the run is
    schemas,    \* the harness's action space
    files,      \* artifacts/tools: [path -> what it holds]
    stored,     \* call_index of the provider's store
    cached,     \* artifact_paths_by_call_id: [call -> path], the filter's files
    calls,      \* the finished calls, in the order they ran
    pending,    \* the calls of the model's last answer that have not run
    queue,      \* SDK events nobody has consumed
    log,        \* events.jsonl
    shown,      \* the artifact paths the model was told
    case,       \* recorded.codex.yaml: its commands
    recording   \* the status in recording.json

vars == <<pc, schemas, files, stored, cached, calls, pending, queue, log,
          shown, case, recording>>

Tool == AgentTool \cup HarnessTool \cup RuntimeTool
Path == (Nat \ {0}) \X Tool
NoPath == <<0, "unknown">>
Content == [call : Nat, form : {"output", "response"}]
Size == {"short", "long", "huge"}
Request == [tool : Tool, redacted : BOOLEAN]
Call == [tool : Tool, redacted : BOOLEAN, status : {"passed", "failed"},
         size : Size, path : Path \cup {NoPath}]
SdkEvent == [name : {"tool_called", "tool_output"}, call : Nat, tool : Tool,
             redacted : BOOLEAN, status : {"none", "passed", "failed"}]
\* "of" is the call an entry is about; the code has only "id", 0 for none.
Entry == [type : {"started", "completed", "failed"}, id : Nat, of : Nat,
          tool : Tool, origin : {"agent_tool", "runtime", "platform", "common"},
          redacted : BOOLEAN, status : {"none", "passed", "failed"},
          replay : BOOLEAN]

\* The pre-plan of the run has filed the outputs of its own tools.
Init ==
    /\ pc = "setup"
    /\ schemas \in ActionSpaces
    /\ files = [p \in {1} \X RuntimeTool |-> [call |-> 0, form |-> "response"]]
    /\ stored = 0
    /\ cached = <<>> /\ calls = <<>> /\ pending = <<>> /\ queue = <<>> /\ log = <<>>
    /\ shown = {}
    /\ case = <<>>
    /\ recording = "none"

Announced == {schemas[i] : i \in 1..Len(schemas)}
Offered == AgentTool \cup Announced

\* Mutant: the names of the AgentTools are not reserved.
_discover_unreserved ==
    \A i, j \in 1..Len(schemas) : i # j => schemas[i] # schemas[j]

_discover_schemas ==
    /\ \A i, j \in 1..Len(schemas) : i # j => schemas[i] # schemas[j]
    /\ \A i \in 1..Len(schemas) : schemas[i] \notin AgentTool \cup RuntimeTool

Setup ==
    /\ pc = "setup"
    /\ pc' = IF _discover_schemas THEN "model" ELSE "failed"
    /\ UNCHANGED <<schemas, files, stored, cached, calls, pending, queue, log,
                   shown, case, recording>>

-----------------------------------------------------------------------------
(* The call of the model: the filter files the outputs it meets for the     *)
(* first time, then cuts the old and long ones down to a preview.           *)

_artifact_path_for(i) == <<i, calls[i].tool>>

Filed == {_artifact_path_for(i) : i \in (Len(cached) + 1)..Len(calls)}

FileOutputs ==
    /\ files' = [p \in DOMAIN files \cup Filed |->
                    IF p \in Filed THEN [call |-> p[1], form |-> "response"]
                    ELSE files[p]]
    /\ cached' = [i \in 1..Len(calls) |-> IF i <= Len(cached) THEN cached[i]
                                          ELSE _artifact_path_for(i)]

\* What an AgentTool answers is a preview, and short, when its output is huge.
Previewed(i) == calls[i].size = "huge" /\ calls[i].tool \in AgentTool
Trimmed(i) == calls[i].size # "short" /\ ~Previewed(i)

InputFilter ==
    /\ FileOutputs
    /\ shown' = shown \cup {_artifact_path_for(i) :
                    i \in {j \in 1..(Len(calls) - Recent) : Trimmed(j)}}

\* The model asks for calls that run one after the other.
RequestTools ==
    /\ pc = "model"
    /\ InputFilter
    /\ \E n \in 1..MaxBatch :
        /\ Len(calls) + n <= MaxCalls
        /\ pending' \in [1..n -> [tool : Offered, redacted : BOOLEAN]]
        /\ \A i \in 1..n : pending'[i].redacted => pending'[i].tool \in PlatformTool
        /\ queue' = queue \o [i \in 1..n |->
                        [name |-> "tool_called", call |-> Len(calls) + i,
                         tool |-> pending'[i].tool, redacted |-> pending'[i].redacted,
                         status |-> "none"]]
    /\ pc' = "tools"
    /\ UNCHANGED <<schemas, stored, calls, log, case, recording>>

\* The final answer: nothing more is put into the stream.
FinalOutput ==
    /\ pc = "model"
    /\ InputFilter
    /\ pc' = "drain"
    /\ UNCHANGED <<schemas, stored, calls, pending, queue, log, case, recording>>

-----------------------------------------------------------------------------
(* The handlers *)

Next_call == Len(calls) + 1
Asked == Head(pending)

\* Mutant: the model is asked again after the first call of its answer.
AnswerFirst(status, size, path) ==
    /\ calls' = Append(calls, [tool |-> Asked.tool, redacted |-> Asked.redacted,
                               status |-> status, size |-> size, path |-> path])
    /\ queue' = queue
    /\ pending' = Tail(pending)
    /\ pc' = "model"
    /\ UNCHANGED <<schemas, cached, case, recording>>

\* The end of every handler: its answer goes into the history and the stream.
Answer(status, size, path) ==
    /\ calls' = Append(calls, [tool |-> Asked.tool, redacted |-> Asked.redacted,
                               status |-> status, size |-> size, path |-> path])
    /\ queue' = Append(queue, [name |-> "tool_output", call |-> Next_call,
                               tool |-> Asked.tool, redacted |-> Asked.redacted,
                               status |-> status])
    /\ pending' = Tail(pending)
    /\ pc' = IF Len(pending) = 1 THEN "model" ELSE "tools"
    /\ UNCHANGED <<schemas, cached, case, recording>>

_tool_origin(t) ==
    IF t \in AgentTool THEN "agent_tool"
    ELSE IF t \in RuntimeTool THEN "runtime"
    ELSE IF t \in CommonTool THEN "common" ELSE "platform"

\* _emit_tool_started, _emit_tool_completed, _emit_tool_failed: no call id.
Emitted(type, status) ==
    [type |-> type, id |-> 0, of |-> Next_call, tool |-> Asked.tool,
     origin |-> "agent_tool", redacted |-> FALSE, status |-> status, replay |-> FALSE]

Started == Emitted("started", "none")

_with_optional_artifact ==
    LET path == <<stored + 1, Asked.tool>>
        held == [call |-> Next_call, form |-> "output"]
    IN  /\ stored' = stored + 1
        /\ files' = [p \in DOMAIN files \cup {path} |-> IF p = path THEN held ELSE files[p]]
        /\ shown' = shown \cup {path}
        /\ \E size \in Sizes : Answer("passed", size, path)

\* read_file and write_file: the provider files what they return.
FileOps ==
    /\ pc = "tools" /\ Asked.tool \in FileTool
    /\ _with_optional_artifact
    /\ log' = log \o <<Started, Emitted("completed", "none")>>

\* search_artifact and read_artifact_slice, on a path the model was told. (Their
\* answer may be longer; it is filed and cut like any other.)
QueryArtifact ==
    /\ pc = "tools" /\ Asked.tool \in QueryTool
    /\ shown \cap DOMAIN files # {}
    /\ Answer("passed", "short", NoPath)
    /\ log' = log \o <<Started, Emitted("completed", "none")>>
    /\ UNCHANGED <<files, stored, shown>>

\* Mutant: a failed result leaves the handler without an event.
AgentToolFailsSilently ==
    /\ pc = "tools" /\ Asked.tool \in AgentTool
    /\ Answer("failed", "short", NoPath)
    /\ log' = Append(log, Started)
    /\ UNCHANGED <<files, stored, shown>>

\* An OSError of the file, a path outside the run's directory or without file.
AgentToolFails ==
    /\ pc = "tools" /\ Asked.tool \in AgentTool
    /\ Answer("failed", "short", NoPath)
    /\ log' = log \o <<Started, Emitted("failed", "none")>>
    /\ UNCHANGED <<files, stored, shown>>

\* Arguments that are no JSON object: a failure that was never started.
AgentToolUnparsed ==
    /\ pc = "tools" /\ Asked.tool \in AgentTool
    /\ Answer("failed", "short", NoPath)
    /\ log' = Append(log, Emitted("failed", "none"))
    /\ UNCHANGED <<files, stored, shown>>

\* A step of the harness, or a failure to parse or to run it.
HarnessStep ==
    /\ pc = "tools" /\ Asked.tool \notin AgentTool
    /\ \/ \E size \in Sizes \ {"huge"} : Answer("passed", size, NoPath)
       \/ Answer("failed", "short", NoPath)
    /\ UNCHANGED <<files, stored, log, shown>>

-----------------------------------------------------------------------------
(* The consumer of the SDK's stream *)

\* The payload of an output names no replay policy: it is not among the keys
\* that are copied.  An output completes its call also when the tool failed.
_map_stream_event(e) ==
    [type |-> IF e.name = "tool_called" THEN "started" ELSE "completed",
     id |-> e.call, of |-> e.call, tool |-> e.tool, origin |-> _tool_origin(e.tool),
     redacted |-> e.redacted, status |-> e.status, replay |-> FALSE]

Consume ==
    /\ pc \in {"model", "tools", "drain"} /\ queue # <<>>
    /\ log' = Append(log, _map_stream_event(Head(queue)))
    /\ queue' = Tail(queue)
    /\ UNCHANGED <<pc, schemas, files, stored, cached, calls, pending, shown,
                   case, recording>>

Drained ==
    /\ pc = "drain" /\ queue = <<>>
    /\ pc' = "ended"
    /\ UNCHANGED <<schemas, files, stored, cached, calls, pending, queue, log,
                   shown, case, recording>>

\* An exception or a cancellation ends the run where it is.
RunFails ==
    /\ pc \in {"model", "tools", "drain"}
    /\ pc' = "failed" /\ pending' = <<>> /\ queue' = <<>>
    /\ UNCHANGED <<schemas, files, stored, cached, calls, log, shown, case, recording>>

-----------------------------------------------------------------------------
(* The pairing of starts and ends, for the report and for the recorder *)

IsEnd(e) == e.type # "started"

FirstOf(S) == CHOOSE k \in S : \A l \in S : k <= l

\* Which of the open starts without id the end e without id takes, 0 for none.
_pop_unpaired_start(open, e) ==
    LET same == {k \in 1..Len(open) : log[open[k]].tool = e.tool}
    IN  IF same # {} THEN FirstOf(same) ELSE IF open # <<>> THEN 1 ELSE 0

\* starts_by_call_id: the last start before n with its id, 0 for none.
StartById(n) ==
    LET S == {k \in 1..(n - 1) : log[k].type = "started" /\ log[k].id = log[n].id}
    IN  IF S = {} THEN 0 ELSE CHOOSE k \in S : \A l \in S : l <= k

Without(open, k) == SubSeq(open, 1, k - 1) \o SubSeq(open, k + 1, Len(open))

\* The n-th event: a start without id is open until an end without id takes it,
\* an end with an id has the last start with that id.
Pair(was, n) ==
    LET e == log[n]
        k == _pop_unpaired_start(was.open, e)
    IN  IF ~IsEnd(e) THEN
          [open |-> IF e.id = 0 THEN Append(was.open, n) ELSE was.open,
           start |-> Append(was.start, 0)]
        ELSE IF e.id # 0 THEN [open |-> was.open, start |-> Append(was.start, StartById(n))]
        ELSE [open |-> IF k = 0 THEN was.open ELSE Without(was.open, k),
              start |-> Append(was.start, IF k = 0 THEN 0 ELSE was.open[k])]

\* For each prefix of the log: the open starts without id, and [event -> start].
Paired[n \in 0..Len(log)] ==
    IF n = 0 THEN [open |-> <<>>, start |-> <<>>] ELSE Pair(Paired[n - 1], n)

Pairing == Paired[Len(log)].start

\* ReportGenerator._load_tool_calls: the ends, each with its start.
_load_tool_calls ==
    LET start == Pairing
    IN  {<<start[n], n>> : n \in {k \in 1..Len(log) : IsEnd(log[k])}}

-----------------------------------------------------------------------------
(* The recorder.  The names of secrets are one name, so never ambiguous.    *)

_collect_common(s, e) ==
    IF e.type # "completed" THEN s
    ELSE IF e.tool = "get_runtime_secret" THEN [s EXCEPT !.secret = TRUE]
    ELSE [s EXCEPT !.commands = Append(@, e.of)]

\* Mutant: whatever completed is recorded, its status is not looked at.
_collect_harness_unchecked(s, start, e) ==
    IF e.type # "completed" \/ (start.redacted /\ ~s.secret) THEN s
    ELSE [commands |-> Append(s.commands, e.of), secret |-> s.secret /\ ~start.redacted]

\* A redacted argument needs a secret that was fetched and not used yet.
_collect_harness(s, start, e) ==
    IF e.type # "completed" \/ e.status = "failed" \/ (start.redacted /\ ~s.secret) THEN s
    ELSE [commands |-> Append(s.commands, e.of), secret |-> s.secret /\ ~start.redacted]

\* What the n-th event adds to the commands; "start" is the pairing.
_collect_event(s, start, n) ==
    LET e == log[n] IN
    IF ~IsEnd(e) THEN s
    ELSE IF e.origin = "common" /\ e.replay THEN _collect_common(s, e)
    ELSE IF start[n] = 0 \/ log[start[n]].origin # "platform" THEN s
    ELSE _collect_harness(s, log[start[n]], e)

\* _RecordingCollector.collect, for each prefix of the log
Collected[n \in 0..Len(log)] ==
    IF n = 0 THEN [commands |-> <<>>, secret |-> FALSE]
    ELSE _collect_event(Collected[n - 1], Pairing, n)

collect == Collected[Len(log)].commands

\* record_dynamic_run_as_strict_case: not after a failure unless that is asked
\* for (--record-on-failure), not over the case of a run with the same id, not
\* without commands.  A case that was written may still not validate.
Record ==
    /\ pc \in {"ended", "failed"} /\ recording = "none"
    /\ \/ recording' = "skipped" /\ UNCHANGED case
       \/ recording' = "failed" /\ UNCHANGED case
       \/ /\ collect # <<>>
          /\ case' = collect
          /\ recording' \in {"recorded", "failed"}
    /\ UNCHANGED <<pc, schemas, files, stored, cached, calls, pending, queue, log, shown>>

-----------------------------------------------------------------------------
Next ==
    \/ Setup
    \/ RequestTools
    \/ FinalOutput
    \/ FileOps
    \/ QueryArtifact
    \/ AgentToolFails
    \/ AgentToolUnparsed
    \/ HarnessStep
    \/ Consume
    \/ Drained
    \/ RunFails
    \/ Record

Spec == Init /\ [][Next]_vars
-----------------------------------------------------------------------------
(* Properties *)

\* Every variable has its type, and the model is asked again only when every
\* call of its last answer has run.
TypeOK ==
    /\ pc \in {"setup", "model", "tools", "drain", "ended", "failed"}
    /\ schemas \in ActionSpaces
    /\ DOMAIN files \subseteq Path /\ \A p \in DOMAIN files : files[p] \in Content
    /\ stored \in Nat
    /\ cached \in Seq(Path) /\ Len(cached) <= Len(calls)
    /\ calls \in Seq(Call)
    /\ pending \in Seq(Request)
    /\ pc = "tools" => pending # <<>>
    /\ pc \in {"setup", "model", "drain", "ended"} => pending = <<>>
    /\ queue \in Seq(SdkEvent)
    /\ log \in Seq(Entry)
    /\ shown \subseteq Path
    /\ recording \in {"none", "skipped", "recorded", "failed"}
    /\ recording \in {"none", "skipped"} => case = <<>>

\* The file of a call that the provider does not file itself holds that call's
\* output for the rest of the run: neither store writes over it, although both
\* number from 1, because no harness tool may have an AgentTool's name.
ArtifactsAreOwn ==
    \A i \in DOMAIN cached :
        calls[i].tool \notin FileTool \/ calls[i].tool \in Announced =>
            cached[i] \in DOMAIN files /\ files[cached[i]].call = i

\* Every artifact path the model was told names a file.
PathsResolve == shown \subseteq DOMAIN files

\* The report pairs each end with the start of the same call, however the
\* AgentTools' own events and the SDK's fall into the log; and when the run
\* ended by itself every call is reported once by its id, with its start.
ReportPairsCalls ==
    LET report == _load_tool_calls IN
    /\ \A r \in report :
          r[1] # 0 => r[1] < r[2] /\ log[r[1]].of = log[r[2]].of /\ log[r[1]].id = log[r[2]].id
    /\ pc = "ended" =>
          \A i \in 1..Len(calls) :
              \E start \in 1..Len(log) :
                  {r[1] : r \in {q \in report : log[q[2]].id = i}} = {start}

\* The calls a case can repeat: actions of the platform that succeeded, with
\* all their arguments known.
Replayable == {i \in 1..Len(calls) : /\ _tool_origin(calls[i].tool) = "platform"
                                     /\ calls[i].status = "passed"
                                     /\ ~calls[i].redacted}

\* A case recorded by this run is made of such calls in the order they ran, each
\* once and without a gap: all of them if the run ended by itself, the first
\* ones if it was cut off.
RecordedInOrder ==
    case # <<>> =>
        LET recorded == {case[k] : k \in 1..Len(case)} IN
        /\ \A k \in 1..Len(case), l \in 1..Len(case) : k < l => case[k] < case[l]
        /\ recorded \subseteq Replayable
        /\ \A i \in Replayable \ recorded : pc # "ended" /\ \A j \in recorded : j < i

\* What the model was shown in part it finds in full under the path it was
\* given: _agents_adapter.py, "Use search_artifact or read_artifact_slice with
\* artifact.path when details beyond the preview are needed."
DetailsRecoverable ==
    \A i \in 1..Len(calls) :
        /\ Previewed(i) /\ calls[i].path # NoPath =>
              files[calls[i].path] = [call |-> i, form |-> "output"]
        /\ i \in DOMAIN cached /\ Trimmed(i) /\ cached[i] \in shown =>
              files[cached[i]].call = i

\* A wait that completed is part of the recorded case: cli/SPEC.md, "`wait_ms`
\* records as `waitMs` through its replay alias."
WaitsRecorded ==
    pc = "ended" /\ recording = "recorded" =>
        \A i \in 1..Len(calls) :
            calls[i].tool = "wait_ms" /\ calls[i].status = "passed" =>
                \E k \in 1..Len(case) : case[k] = i

=============================================================================
