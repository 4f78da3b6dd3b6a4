----------------------------- MODULE ReplayStore -----------------------------
(***************************************************************************)
(* The replay of a playground run: the directory playground-replay of a    *)
(* run, with its frames, its video and replay-manifest.json, and the       *)
(* handlers of the HTTP server that read, change and write it back without *)
(* a lock.  Each request is handled by a thread of its own.                *)
(*                                                                         *)
(* The requests of a strict case share the directory of their run, since   *)
(* the run id is the id of the case; the first handler to mark a request   *)
(* removes what earlier ones left.  A dynamic request has a fresh run id.  *)
(* Times are the wall clock's, which does not go back; captures that       *)
(* overlap may still be recorded in any order.                             *)
(***************************************************************************)
EXTENDS Integers, Sequences, FiniteSets

CONSTANTS
    Handlers,       \* threads of ThreadingHTTPServer
    Requests,       \* request ids
    Strict,         \* those that execute a strict case
    Runs,           \* run ids
    RunOf,          \* the run id each request will have
    MaxServed,      \* bound: calls of a handler
    MaxTime,        \* bound: timestamps of screenshots
    MaxFrames,      \* bound: frames of a manifest
    Sizes,          \* the bytes an uploaded video may have
    Evidence        \* the screenshot artifacts a finished run may list

ASSUME ReplayAssumption ==
    /\ Strict \subseteq Requests
    /\ RunOf \in [Requests -> Runs] /\ Runs # {}
    /\ MaxServed \in Nat /\ MaxTime \in Nat \ {0} /\ MaxFrames \in Nat /\ Sizes \subseteq Nat
    /\ "none" \notin Requests \cup Runs
    /\ Evidence \subseteq Seq([path : STRING, time : Nat])

VARIABLES
    started,    \* the requests start_task made
    current,    \* current_request_id
    run_id,     \* task.run_id: [Requests -> run id or "none"]
    reset,      \* the requests with task.replay_reset
    exists,     \* the runs that have a replay directory
    frames,     \* [run -> [frame name -> the request it was captured for]]
    video,      \* [run -> the bytes of replay.webm], -1 for none
    manifest,   \* [run -> what replay-manifest.json holds]
    evidence,   \* [run -> the screenshots of evidence-manifest.json]
    h,          \* [Handlers -> the handler's locals]
    handled,    \* the calls so far, for the bound
    clock,      \* the time of the last screenshot
    overlapped, \* history: the runs that had two screenshots at once,
    raced       \* and those whose manifest two handlers changed at once

history == <<clock, overlapped, raced>>
replayVars == <<started, current, run_id, reset, exists, frames, video, manifest,
                evidence, h, handled, history>>

\* A frame's name is its index and its timestamp.
Frame == (Nat \ {0}) \X (1..MaxTime)
Listing == [state : {"missing", "torn", "written"}, frames : Seq(Frame), video : BOOLEAN]
Nothing == [state |-> "written", frames |-> <<>>, video |-> FALSE]
Missing == [Nothing EXCEPT !.state = "missing"]
Torn == [Nothing EXCEPT !.state = "torn"]
\* "open": the handler holds the manifest that is in the directory now open.
\* "saw": the frames of its own request that were there when it began.
Handler ==
    [pc : {"idle", "mark", "rmtree", "rmdir", "mkdir", "video", "read", "frame",
           "write", "flush"},
     kind : {"frame", "upload", "execute"}, req : Requests \cup {"none"},
     run : Runs, time : 1..MaxTime, was : Listing, open : BOOLEAN, saw : SUBSET Frame]

Idle == [pc |-> "idle", kind |-> "execute", req |-> "none", run |-> CHOOSE r \in Runs : TRUE,
         time |-> 1, was |-> Nothing, open |-> FALSE, saw |-> {}]

ReplayInit ==
    /\ started = {} /\ reset = {} /\ exists = {}
    /\ current = "none"
    /\ run_id = [q \in Requests |-> "none"]
    /\ frames = [r \in Runs |-> <<>>]
    /\ video = [r \in Runs |-> -1]
    /\ manifest = [r \in Runs |-> Missing]
    /\ evidence = [r \in Runs |-> <<>>]
    /\ h = [t \in Handlers |-> Idle]
    /\ handled = 0 /\ clock = 1
    /\ overlapped = {} /\ raced = {}

\* The handlers that record a screenshot of a run, and those between reading its
\* manifest and having written it back.
Capturing(r) == {t \in Handlers : h[t].kind = "frame" /\ h[t].pc # "idle" /\ h[t].run = r}
AtWork(r) == {t \in Handlers : h[t].pc \in {"frame", "write", "flush"} /\ h[t].run = r}

Own(q, r) == {f \in DOMAIN frames[r] : frames[r][f] = q}
Begin(t, kind, q, r, time) ==
    /\ h[t].pc = "idle"
    /\ handled < MaxServed /\ handled' = handled + 1
    /\ h' = [h EXCEPT ![t] = [Idle EXCEPT !.pc = "mark", !.kind = kind, !.req = q, !.run = r,
                                       !.time = time, !.saw = Own(q, r)]]
Goto(t, pc) == h' = [h EXCEPT ![t].pc = pc]
Return(t) == h' = [h EXCEPT ![t] = Idle]

directory == <<exists, frames, video, manifest>>
tasks == <<started, current, run_id>>

-----------------------------------------------------------------------------
\* POST /execute: start_task, then bind_run_id for a strict case.  (A screenshot
\* between the two finds no run id and records nothing.)
Execute(t, q) ==
    /\ current = "none" /\ q \notin started
    /\ started' = started \cup {q} /\ current' = q
    /\ IF q \in Strict
       THEN run_id' = [run_id EXCEPT ![q] = RunOf[q]] /\ Begin(t, "execute", q, RunOf[q], 1)
       ELSE UNCHANGED <<run_id, h, handled>>
    /\ UNCHANGED <<reset, evidence, directory, history>>

\* The first event of a dynamic run names it.
FirstEvent(q) ==
    /\ q = current /\ run_id[q] = "none"
    /\ run_id' = [run_id EXCEPT ![q] = RunOf[q]]
    /\ UNCHANGED <<started, current, reset, evidence, directory, h, handled, history>>

\* The run ends; its evidence lists screenshots.
FinishTask ==
    /\ current # "none" /\ run_id[current] # "none"
    /\ current' = "none"
    /\ \E e \in Evidence : evidence' = [evidence EXCEPT ![run_id[current]] = e]
    /\ UNCHANGED <<started, run_id, reset, directory, h, handled, history>>

\* GET /screenshot, up to _record_replay_frame
Screenshot(t) ==
    /\ current # "none" /\ run_id[current] # "none"
    /\ \E time \in clock..MaxTime :
          Begin(t, "frame", current, run_id[current], time) /\ clock' = time
    /\ overlapped' = overlapped \cup {r \in {run_id[current]} : Capturing(r) # {}}
    /\ UNCHANGED <<tasks, reset, evidence, directory, raced>>

\* POST /replay-video/{request or run id}, with a valid body
Upload(t) ==
    /\ \E q \in started : \E id \in {q, "none"} :
          run_id[q] # "none" /\ Begin(t, "upload", id, run_id[q], 1)
    /\ UNCHANGED <<tasks, reset, evidence, directory, history>>

-----------------------------------------------------------------------------
AfterReset(t) == IF h[t].kind = "execute" THEN Return(t) ELSE Goto(t, "mkdir")

\* Mutant: the flag is not set.
mark_replay_reset_unset(t) ==
    /\ h[t].pc = "mark"
    /\ reset' = reset
    /\ IF h[t].req \in started THEN Goto(t, "rmtree") ELSE AfterReset(t)
    /\ UNCHANGED <<history, handled, tasks, evidence, directory>>

\* Under the lock: true once for each request, false for an id that is none.
mark_replay_reset(t) ==
    /\ h[t].pc = "mark"
    /\ reset' = reset \cup ({h[t].req} \cap started)
    /\ IF h[t].req \in started \ reset THEN Goto(t, "rmtree") ELSE AfterReset(t)
    /\ UNCHANGED <<history, handled, tasks, evidence, directory>>

\* shutil.rmtree removes the files, then the directory; it raises when another
\* handler has put a file there, or removed it, in between.
Rmtree(t) ==
    LET r == h[t].run IN
    /\ h[t].pc = "rmtree"
    /\ IF r \in exists THEN
          /\ h' = [u \in Handlers |->
                      IF u = t THEN [h[t] EXCEPT !.pc = "rmdir"]
                      ELSE IF h[u].run = r THEN [h[u] EXCEPT !.open = FALSE] ELSE h[u]]
          /\ frames' = [frames EXCEPT ![r] = <<>>]
          /\ video' = [video EXCEPT ![r] = -1]
          /\ manifest' = [manifest EXCEPT ![r] = Missing]
       ELSE AfterReset(t) /\ UNCHANGED <<frames, video, manifest>>
    /\ UNCHANGED <<history, handled, tasks, reset, evidence, exists>>

Rmdir(t) ==
    LET r == h[t].run IN
    /\ h[t].pc = "rmdir"
    /\ IF r \in exists /\ frames[r] = <<>> /\ video[r] = -1 /\ manifest[r] = Missing
       THEN exists' = exists \ {r} /\ AfterReset(t)
       ELSE UNCHANGED exists /\ Return(t)
    /\ UNCHANGED <<history, handled, tasks, reset, evidence, frames, video, manifest>>

Mkdir(t) ==
    /\ h[t].pc = "mkdir"
    /\ exists' = exists \cup {h[t].run}
    /\ Goto(t, IF h[t].kind = "upload" THEN "video" ELSE "read")
    /\ UNCHANGED <<history, handled, tasks, reset, evidence, frames, video, manifest>>

\* _store_replay_video writes the video first; what is no base64 is refused.
VideoWrite(t) ==
    LET r == h[t].run IN
    /\ h[t].pc = "video"
    /\ \/ /\ r \in exists
          /\ \E size \in Sizes : video' = [video EXCEPT ![r] = size]
          /\ Goto(t, "read")
       \/ Return(t) /\ UNCHANGED video
    /\ UNCHANGED <<history, handled, tasks, reset, evidence, exists, frames, manifest>>

\* A manifest that is missing or torn is an empty one.
_read_replay_manifest(r) == [manifest[r] EXCEPT !.state = "written"]

\* Mutant: an upload does not keep the frames that are listed.
ReadManifestForVideo(t) ==
    LET r == h[t].run
        m == _read_replay_manifest(r)
        n == Len(m.frames)
    IN  /\ h[t].pc = "read"
        /\ IF h[t].kind = "frame" /\ n > 0 /\ m.frames[n][2] = h[t].time
           THEN Return(t) /\ UNCHANGED raced
           ELSE /\ IF h[t].kind = "upload"
                   THEN h' = [h EXCEPT ![t].pc = "write", ![t].was = [Nothing EXCEPT !.video = TRUE]]
                   ELSE n < MaxFrames /\ h' = [h EXCEPT ![t].pc = "frame", ![t].was = m]
                /\ raced' = raced \cup {q \in {r} : AtWork(q) # {}}
        /\ UNCHANGED <<handled, tasks, reset, evidence, directory, clock, overlapped>>

\* Then a repeated timestamp is no new frame.
ReadManifest(t) ==
    LET r == h[t].run
        m == _read_replay_manifest(r)
        n == Len(m.frames)
    IN  /\ h[t].pc = "read"
        /\ IF h[t].kind = "frame" /\ n > 0 /\ m.frames[n][2] = h[t].time
           THEN Return(t) /\ UNCHANGED raced
           ELSE /\ IF h[t].kind = "upload"
                   THEN h' = [h EXCEPT ![t].pc = "write", ![t].was = [m EXCEPT !.video = TRUE]]
                   ELSE n < MaxFrames /\ h' = [h EXCEPT ![t].pc = "frame", ![t].was = m]
                /\ raced' = raced \cup {q \in {r} : AtWork(q) # {}}
        /\ UNCHANGED <<handled, tasks, reset, evidence, directory, clock, overlapped>>

\* Mutant: the frames are numbered from 0.
FrameNameFromZero(t) == <<Len(h[t].was.frames), h[t].time>>

FrameName(t) == <<Len(h[t].was.frames) + 1, h[t].time>>

FrameWrite(t) ==
    LET r == h[t].run
        f == FrameName(t)
    IN  /\ h[t].pc = "frame"
        /\ IF r \in exists THEN
              /\ frames' = [frames EXCEPT ![r] = [g \in DOMAIN @ \cup {f} |->
                                                    IF g = f THEN h[t].req ELSE @[g]]]
              /\ h' = [h EXCEPT ![t].pc = "write", ![t].was.frames = Append(@, f)]
           ELSE Return(t) /\ UNCHANGED frames
        /\ UNCHANGED <<history, handled, tasks, reset, evidence, exists, video, manifest>>

\* write_text truncates the manifest, then writes it.
WriteManifest(t) ==
    LET r == h[t].run IN
    /\ h[t].pc = "write"
    /\ IF r \in exists
       THEN manifest' = [manifest EXCEPT ![r] = Torn] /\ h' = [h EXCEPT ![t].pc = "flush", ![t].open = TRUE]
       ELSE Return(t) /\ UNCHANGED manifest
    /\ UNCHANGED <<history, handled, tasks, reset, evidence, exists, frames, video>>

\* A file that was removed takes the text with it; what another handler has
\* written since the truncation may show behind a shorter text.
FlushManifest(t) ==
    LET r == h[t].run IN
    /\ h[t].pc = "flush"
    /\ IF ~h[t].open THEN UNCHANGED manifest
       ELSE \/ manifest' = [manifest EXCEPT ![r] = h[t].was]
            \/ manifest[r] # Torn /\ manifest' = [manifest EXCEPT ![r] = Torn]
    /\ Return(t)
    /\ UNCHANGED <<history, handled, tasks, reset, evidence, exists, frames, video>>

ReplayNext ==
    \/ \E t \in Handlers :
        \/ \E q \in Requests : Execute(t, q)
        \/ Screenshot(t)
        \/ Upload(t)
        \/ mark_replay_reset(t)
        \/ Rmtree(t)
        \/ Rmdir(t)
        \/ Mkdir(t)
        \/ VideoWrite(t)
        \/ ReadManifest(t)
        \/ FrameWrite(t)
        \/ WriteManifest(t)
        \/ FlushManifest(t)
    \/ \E q \in Requests : FirstEvent(q)
    \/ FinishTask

ReplaySpec == ReplayInit /\ [][ReplayNext]_replayVars

-----------------------------------------------------------------------------
(* What the GET handlers answer in a state *)

\* _frames_from_artifact_refs: the first reference to each path.
_frames_from_artifact_refs(refs) ==
    {i \in 1..Len(refs) : \A j \in 1..(i - 1) : refs[j].path # refs[i].path}

\* Their order, by time and then as they are listed, and a frame's place in it.
Before(refs, i, j) ==
    refs[i].time < refs[j].time \/ (refs[i].time = refs[j].time /\ i < j)

Place(refs, i) ==
    Cardinality({j \in _frames_from_artifact_refs(refs) : Before(refs, j, i)})

\* _evidence_replay_response: sorted by time (a stable sort), then numbered.
_evidence_replay_response(r) ==
    LET refs == evidence[r]
        kept == _frames_from_artifact_refs(refs)
    IN  [n \in 1..Cardinality(kept) |-> refs[CHOOSE i \in kept : Place(refs, i) = n - 1]]

\* The frames of the manifest whose file is there, each at its index in the manifest.
ShownFrames(r) ==
    LET m == _read_replay_manifest(r)
    IN  [i \in {i \in 1..Len(m.frames) : m.frames[i] \in DOMAIN frames[r]} |-> m.frames[i]]

\* _replay_response: these; without a manifest the screenshots of the evidence.
_replay_response(r) ==
    IF manifest[r] = Missing THEN _evidence_replay_response(r) ELSE ShownFrames(r)

NoRange == <<-1, -1>>
Absent == -1

\* Mutant: an end past the file is not cut.
_parse_byte_range_uncut(spec, size) ==
    LET suffix == spec.start = Absent
        start == IF suffix THEN (IF spec.end > size THEN 0 ELSE size - spec.end) ELSE spec.start
        end == IF suffix \/ spec.end = Absent THEN size - 1 ELSE spec.end
    IN  IF size <= 0 \/ (suffix /\ spec.end <= 0) \/ start > size - 1 \/ end < start
        THEN NoRange ELSE <<start, end>>

\* The bytes served for "bytes=start-end", NoRange when it is the whole file.
_parse_byte_range(spec, size) ==
    LET last == size - 1
        suffix == spec.start = Absent
        start == IF suffix THEN (IF spec.end > size THEN 0 ELSE size - spec.end) ELSE spec.start
        end == IF suffix \/ spec.end = Absent THEN last ELSE spec.end
    IN  IF size <= 0 \/ (suffix /\ spec.end <= 0) \/ start > last \/ end < start
        THEN NoRange
        ELSE <<start, IF end > last THEN last ELSE end>>

-----------------------------------------------------------------------------
(* Properties *)

\* Every variable has its type, and only a handler at its manifest has it open.
ReplayTypeOK ==
    /\ started \subseteq Requests /\ reset \subseteq started /\ exists \subseteq Runs
    /\ current \in started \cup {"none"}
    /\ run_id \in [Requests -> Runs \cup {"none"}]
    /\ \A q \in Requests : run_id[q] \in {"none", RunOf[q]}
    /\ DOMAIN frames = Runs
    /\ \A r \in Runs : /\ DOMAIN frames[r] \subseteq Frame
                       /\ \A f \in DOMAIN frames[r] : frames[r][f] \in Requests
    /\ video \in [Runs -> Int]
    /\ manifest \in [Runs -> Listing]
    /\ DOMAIN evidence = Runs
    /\ h \in [Handlers -> Handler] /\ handled \in Nat
    /\ clock \in 1..MaxTime /\ overlapped \subseteq Runs /\ raced \subseteq Runs
    /\ \A t \in Handlers :
          /\ h[t].open => h[t].pc = "flush" /\ manifest[h[t].run].state # "missing"
          /\ h[t].pc \notin {"idle", "mark", "rmtree", "rmdir"} => h[t].kind # "execute"
          /\ h[t].kind # "upload" /\ h[t].pc # "idle" => h[t].req \in started

\* When no handler is between reading and writing the manifest of a run, its
\* replay shows every frame file that is kept, each once, unless two handlers
\* have changed the manifest at the same time (the last to write it wins); and
\* it shows them in the order they were taken, no time twice, unless two
\* screenshots of the run were recorded at the same time.
ReplayShowsKeptFrames ==
    \A r \in Runs :
        LET answer == ShownFrames(r) IN
        AtWork(r) = {} =>
            /\ r \notin raced =>
                  \A f \in DOMAIN frames[r] :
                      \E i \in DOMAIN answer : \A j \in DOMAIN answer : answer[j] = f <=> j = i
            /\ r \notin overlapped =>
                  \A i \in DOMAIN answer, j \in DOMAIN answer : i < j => answer[i][2] < answer[j][2]

\* What a Range header asks of a file of some size: the bytes it names.
Asked(spec, size) ==
    {b \in 0..(size - 1) :
        IF spec.start = Absent THEN b >= size - spec.end
        ELSE b >= spec.start /\ (spec.end = Absent \/ b <= spec.end)}

\* The bytes of the video that are served for a range are those it asks for;
\* the whole file is served only when it asks for none that exist.
RangeIsWhatWasAsked ==
    \A r \in Runs : \A a \in -1..(video[r] + 1), b \in -1..(video[r] + 1) :
        LET spec == [start |-> a, end |-> b]
            served == _parse_byte_range(spec, video[r])
        IN  IF served = NoRange THEN Asked(spec, video[r]) = {}
            ELSE served[1]..served[2] = Asked(spec, video[r]) /\ Asked(spec, video[r]) # {}

\* A handler never removes a frame of its own request that was there when it
\* began: of a request's handlers only one resets, and it is among the first.
EarlierFramesStay ==
    [][\A r \in Runs : \A f \in DOMAIN frames[r] \ DOMAIN frames'[r] :
          \E t \in Handlers : /\ h[t].pc = "rmtree" /\ h'[t] # h[t] /\ h[t].run = r
                              /\ ~(f \in h[t].saw /\ frames[r][f] = h[t].req)]_replayVars

\* A run whose screenshots are kept has a replay when no handler is at work:
\* playground/SPEC.md, "Return persisted timestamped screenshot frames for one
\* playground request id or run id".
ScreenshotsAreReplayed ==
    (\A t \in Handlers : h[t].pc = "idle") =>
        \A r \in Runs : evidence[r] # <<>> => _replay_response(r) # <<>>

=============================================================================
