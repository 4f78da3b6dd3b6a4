--------------------------- MODULE ToolCallsProofs ---------------------------
(***************************************************************************)
(* Proofs about ToolCalls, for any tools, action spaces, sizes and bounds. *)
(***************************************************************************)
EXTENDS ToolCalls, WellFoundedInduction, TLAPS

\* The invariant that carries both theorems: once discovery has passed, the
\* harness has no tool with a reserved name; and the i-th file of the filter is
\* numbered i and named after the i-th call.
Reserved == Announced \cap (AgentTool \cup RuntimeTool) = {}

FilterFiles ==
    \A i \in 1..Len(cached) :
        cached[i] = <<i, calls[i].tool>> /\ cached[i] \in DOMAIN files

IInv ==
    /\ TypeOK
    /\ pc \in {"model", "tools", "drain", "ended"} => Reserved
    /\ FilterFiles
    /\ ArtifactsAreOwn
    /\ PathsResolve

\* A sequence of functions over 1..n keeps its elements' type.
LEMMA SeqOfFunction ==
    ASSUME NEW S, NEW n \in Nat, NEW f \in [1..n -> S]
    PROVE  f \in Seq(S) /\ Len(f) = n
  OBVIOUS

\* What is left of a sequence, and its first element, keep the type.
LEMMA HeadTail ==
    ASSUME NEW S, NEW s \in Seq(S), s # <<>>
    PROVE  Head(s) \in S /\ Tail(s) \in Seq(S) /\ Len(s) \in Nat \ {0}
           /\ Len(Tail(s)) = Len(s) - 1
  OBVIOUS

\* Only the empty sequence has length 0.
LEMMA EmptyLen ==
    ASSUME NEW S, NEW s \in Seq(S)
    PROVE  s = <<>> <=> Len(s) = 0
  OBVIOUS

\* A run starts well typed.
THEOREM InitTyped == Init => TypeOK
  <1> SUFFICES ASSUME Init PROVE TypeOK
    OBVIOUS
  <1> USE ToolAssumption DEF Init
  <1>1. DOMAIN files \subseteq Path /\ \A p \in DOMAIN files : files[p] \in Content
    BY DEF Path, Tool, Content
  <1> QED
    BY <1>1 DEF TypeOK

\* What one answer of a handler does to the typed variables.
LEMMA AnswerTyped ==
    ASSUME TypeOK, pc = "tools", NEW status \in {"passed", "failed"}, NEW size \in Size,
           NEW path \in Path \cup {NoPath}, Answer(status, size, path)
    PROVE  /\ calls' \in Seq(Call) /\ Len(calls') = Len(calls) + 1
           /\ \A i \in 1..Len(calls) : calls'[i] = calls[i]
           /\ pending' \in Seq(Request) /\ queue' \in Seq(SdkEvent)
           /\ pc' \in {"model", "tools"}
           /\ pc' = "tools" => pending' # <<>>
           /\ pc' = "model" => pending' = <<>>
           /\ UNCHANGED <<schemas, cached, case, recording>>
           /\ Asked \in Request
  <1>1. Asked \in Request /\ Tail(pending) \in Seq(Request) /\ Len(pending) \in Nat \ {0}
        /\ Len(Tail(pending)) = Len(pending) - 1
    BY HeadTail DEF TypeOK, Asked
  <1> DEFINE c == [tool |-> Asked.tool, redacted |-> Asked.redacted,
                   status |-> status, size |-> size, path |-> path]
             e == [name |-> "tool_output", call |-> Next_call, tool |-> Asked.tool,
                   redacted |-> Asked.redacted, status |-> status]
  <1>2. c \in Call /\ e \in SdkEvent
    <2>1. calls \in Seq(Call)
      BY DEF TypeOK
    <2>2. Next_call \in Nat
      BY <2>1 DEF Next_call
    <2> QED
      BY <1>1, <2>2 DEF Call, SdkEvent, Request
  <1>3. calls' = Append(calls, c) /\ queue' = Append(queue, e) /\ pending' = Tail(pending)
    BY DEF Answer
  <1>4. calls' \in Seq(Call) /\ Len(calls') = Len(calls) + 1
        /\ \A i \in 1..Len(calls) : calls'[i] = calls[i]
    <2> HIDE DEF c
    <2> QED
      BY <1>2, <1>3 DEF TypeOK
  <1>5. queue' \in Seq(SdkEvent)
    <2> HIDE DEF e
    <2> QED
      BY <1>2, <1>3 DEF TypeOK
  <1>6. pc' = (IF Len(pending) = 1 THEN "model" ELSE "tools")
    BY DEF Answer
  <1>7. (pc' = "tools" => pending' # <<>>) /\ (pc' = "model" => pending' = <<>>)
    <2>1. Tail(pending) = <<>> <=> Len(Tail(pending)) = 0
      BY <1>1, EmptyLen
    <2> QED
      BY <2>1, <1>1, <1>3, <1>6
  <1>8. UNCHANGED <<schemas, cached, case, recording>>
    BY DEF Answer
  <1> QED
    BY <1>1, <1>3, <1>4, <1>5, <1>6, <1>7, <1>8

\* What an AgentTool emits is an entry of the log.
LEMMA EntryTyped ==
    ASSUME TypeOK, pc = "tools", NEW type \in {"started", "completed", "failed"}
    PROVE  Emitted(type, "none") \in Entry
  <1>1. Asked \in Request
    BY HeadTail DEF TypeOK, Asked
  <1>2. Next_call \in Nat
    BY DEF TypeOK, Next_call
  <1> QED
    BY <1>1, <1>2 DEF Emitted, Entry, Request

\* Writing files: the filter.
LEMMA FilterTyped ==
    ASSUME IInv, pc = "model", InputFilter
    PROVE  /\ DOMAIN files \subseteq DOMAIN files'
           /\ DOMAIN files' \subseteq Path /\ \A p \in DOMAIN files' : files'[p] \in Content
           /\ cached' \in Seq(Path) /\ Len(cached') = Len(calls)
           /\ \A i \in 1..Len(calls) : cached'[i] = <<i, calls[i].tool>> /\ cached'[i] \in DOMAIN files'
           /\ \A i \in 1..Len(calls) : calls[i].tool \notin FileTool \/ calls[i].tool \in Announced
                                            => files'[cached'[i]].call = i
           /\ shown' \subseteq DOMAIN files' /\ shown' \subseteq Path
  <1>1. /\ cached \in Seq(Path) /\ Len(cached) <= Len(calls) /\ calls \in Seq(Call)
        /\ DOMAIN files \subseteq Path /\ \A p \in DOMAIN files : files[p] \in Content
        /\ shown \subseteq Path /\ shown \subseteq DOMAIN files
    BY DEF IInv, TypeOK, PathsResolve
  <1>2. /\ files' = [p \in DOMAIN files \cup Filed |->
                        IF p \in Filed THEN [call |-> p[1], form |-> "response"] ELSE files[p]]
        /\ cached' = [i \in 1..Len(calls) |-> IF i <= Len(cached) THEN cached[i]
                                              ELSE _artifact_path_for(i)]
        /\ shown' = shown \cup {_artifact_path_for(i) :
                        i \in {j \in 1..(Len(calls) - Recent) : Trimmed(j)}}
    BY DEF InputFilter, FileOutputs
  <1>3. Len(cached) \in Nat /\ Len(calls) \in Nat
    BY <1>1
  <1>4. \A i \in 1..Len(calls) :
            /\ calls[i].tool \in Tool
            /\ _artifact_path_for(i) = <<i, calls[i].tool>>
            /\ _artifact_path_for(i) \in Path
    <2> SUFFICES ASSUME NEW i \in 1..Len(calls)
                 PROVE  /\ calls[i].tool \in Tool
                        /\ _artifact_path_for(i) = <<i, calls[i].tool>>
                        /\ _artifact_path_for(i) \in Path
      OBVIOUS
    <2>1. calls[i] \in Call /\ i \in Nat \ {0}
      BY <1>1
    <2>2. calls[i].tool \in Tool
      BY <2>1 DEF Call
    <2> QED
      BY <2>1, <2>2 DEF Path, _artifact_path_for
  <1>5. Filed \subseteq Path
    BY <1>3, <1>4 DEF Filed
  <1>6. \A p \in Filed : [call |-> p[1], form |-> "response"] \in Content
    BY <1>5 DEF Path, Content
  <1>7. DOMAIN files' = DOMAIN files \cup Filed
    BY <1>2
  <1>8. \A p \in DOMAIN files' : files'[p] \in Content
    BY <1>1, <1>2, <1>6
  <1>9. \A i \in 1..Len(calls) : cached'[i] = <<i, calls[i].tool>> /\ cached'[i] \in DOMAIN files'
    <2> SUFFICES ASSUME NEW i \in 1..Len(calls)
                 PROVE  cached'[i] = <<i, calls[i].tool>> /\ cached'[i] \in DOMAIN files'
      OBVIOUS
    <2>1. CASE i <= Len(cached)
      BY <2>1, <1>2, <1>3, <1>7 DEF IInv, FilterFiles
    <2>2. CASE ~(i <= Len(cached))
      <3>1. _artifact_path_for(i) \in Filed
        BY <2>2, <1>3 DEF Filed
      <3> QED
        BY <3>1, <2>2, <1>2, <1>4, <1>7
    <2> QED
      BY <2>1, <2>2
  <1>10. cached' \in Seq(Path) /\ Len(cached') = Len(calls)
    <2>1. \A i \in 1..Len(calls) : cached'[i] \in Path
      BY <1>9, <1>1, <1>5, <1>7
    <2>2. cached' \in [1..Len(calls) -> Path]
      BY <2>1, <1>2
    <2> QED
      BY <2>2, <1>3, SeqOfFunction
  <1>11. \A i \in 1..Len(calls) : calls[i].tool \notin FileTool \/ calls[i].tool \in Announced
                                      => files'[cached'[i]].call = i
    <2> SUFFICES ASSUME NEW i \in 1..Len(calls),
                        calls[i].tool \notin FileTool \/ calls[i].tool \in Announced
                 PROVE  files'[cached'[i]].call = i
      OBVIOUS
    <2>1. CASE cached'[i] \in Filed
      BY <2>1, <1>2, <1>7, <1>9
    <2>2. CASE cached'[i] \notin Filed
      <3>1. i \in 1..Len(cached)
        <4> SUFFICES ASSUME ~(i <= Len(cached)) PROVE FALSE
          BY <1>3
        <4>1. _artifact_path_for(i) \in Filed
          BY <1>3 DEF Filed
        <4> QED
          BY <4>1, <2>2, <1>2
      <3>2. cached'[i] = cached[i] /\ files'[cached[i]] = files[cached[i]]
        BY <3>1, <2>2, <1>2, <1>3, <1>7, <1>9
      <3>3. files[cached[i]].call = i
        BY <3>1, <1>1 DEF IInv, ArtifactsAreOwn
      <3> QED
        BY <3>2, <3>3
    <2> QED
      BY <2>1, <2>2
  <1>12. \A i \in 1..(Len(calls) - Recent) : i \in 1..Len(calls)
    BY <1>3, ToolAssumption
  <1>13. \A i \in 1..Len(calls) : _artifact_path_for(i) \in DOMAIN files'
    BY <1>4, <1>9
  <1>14. shown' \subseteq DOMAIN files'
    BY <1>1, <1>2, <1>7, <1>12, <1>13
  <1>15. shown' \subseteq Path
    BY <1>14, <1>7, <1>5, <1>1
  <1> QED
    BY <1>1, <1>5, <1>7, <1>8, <1>9, <1>10, <1>11, <1>14, <1>15

\* Writing files: the provider, whose paths are never those of a call of a
\* harness tool or of a query.
LEMMA ProviderKeeps ==
    ASSUME IInv, pc = "tools", Asked.tool \in FileTool, _with_optional_artifact
    PROVE  /\ DOMAIN files' = DOMAIN files \cup {<<stored + 1, Asked.tool>>}
           /\ \A p \in DOMAIN files : p[2] \notin FileTool => files'[p] = files[p]
           /\ \A p \in DOMAIN files' : files'[p] \in Content
           /\ DOMAIN files' \subseteq Path
           /\ shown' = shown \cup {<<stored + 1, Asked.tool>>}
           /\ stored' \in Nat
  <1>1. /\ stored \in Nat /\ calls \in Seq(Call) /\ DOMAIN files \subseteq Path
        /\ \A p \in DOMAIN files : files[p] \in Content
    BY DEF IInv, TypeOK
  <1>2. <<stored + 1, Asked.tool>> \in Path
    BY <1>1 DEF Path, Tool, AgentTool
  <1>3. [call |-> Next_call, form |-> "output"] \in Content
    BY <1>1 DEF Content, Next_call
  <1>4. /\ files' = [p \in DOMAIN files \cup {<<stored + 1, Asked.tool>>} |->
                        IF p = <<stored + 1, Asked.tool>> THEN [call |-> Next_call, form |-> "output"]
                        ELSE files[p]]
        /\ shown' = shown \cup {<<stored + 1, Asked.tool>>}
        /\ stored' = stored + 1
    BY DEF _with_optional_artifact
  <1>5. DOMAIN files' = DOMAIN files \cup {<<stored + 1, Asked.tool>>}
    BY <1>4
  <1>6. \A p \in DOMAIN files' : files'[p] \in Content
    BY <1>1, <1>3, <1>4
  <1>7. \A p \in DOMAIN files : p[2] \notin FileTool => files'[p] = files[p]
    BY <1>4
  <1>8. stored' \in Nat
    BY <1>1, <1>4
  <1> QED
    BY <1>1, <1>2, <1>4, <1>5, <1>6, <1>7, <1>8

\* A handler that leaves the files alone keeps what IInv says of them.
LEMMA AnswerKeeps ==
    ASSUME IInv, pc = "tools", NEW status \in {"passed", "failed"}, NEW size \in Size,
           Answer(status, size, NoPath), UNCHANGED <<files, stored, shown>>,
           log' \in Seq(Entry)
    PROVE  IInv'
  <1>1. /\ calls' \in Seq(Call) /\ Len(calls') = Len(calls) + 1
        /\ \A i \in 1..Len(calls) : calls'[i] = calls[i]
        /\ pending' \in Seq(Request) /\ queue' \in Seq(SdkEvent)
        /\ pc' \in {"model", "tools"}
        /\ pc' = "tools" => pending' # <<>>
        /\ pc' = "model" => pending' = <<>>
        /\ UNCHANGED <<schemas, cached, case, recording>>
    BY AnswerTyped DEF IInv
  <1>2. cached \in Seq(Path) /\ Len(cached) <= Len(calls) /\ Len(calls) \in Nat /\ Len(cached) \in Nat
    BY DEF IInv, TypeOK
  <1>3. TypeOK'
    BY <1>1, <1>2 DEF IInv, TypeOK
  <1>4. Reserved'
    BY <1>1 DEF IInv, Reserved, Announced
  <1>5. \A i \in 1..Len(cached) : calls'[i] = calls[i]
    BY <1>1, <1>2
  <1>6. FilterFiles'
    BY <1>1, <1>5 DEF IInv, FilterFiles
  <1>7. ArtifactsAreOwn'
    <2>1. Announced' = Announced /\ cached' = cached /\ files' = files
      BY <1>1 DEF Announced
    <2>2. DOMAIN cached = 1..Len(cached)
      BY <1>2
    <2>3. \A i \in DOMAIN cached :
            calls[i].tool \notin FileTool \/ calls[i].tool \in Announced =>
                cached[i] \in DOMAIN files /\ files[cached[i]].call = i
      BY DEF IInv, ArtifactsAreOwn
    <2> QED
      BY <1>5, <2>1, <2>2, <2>3 DEF ArtifactsAreOwn
  <1>8. PathsResolve'
    BY DEF IInv, PathsResolve
  <1> QED
    BY <1>3, <1>4, <1>6, <1>7, <1>8 DEF IInv

\* The invariant is kept by every handler, store and consumer.
THEOREM Inductive == Spec => []IInv
  <1>1. Init => IInv
    <2> SUFFICES ASSUME Init PROVE IInv
      OBVIOUS
    <2>1. TypeOK
      BY InitTyped
    <2>2. pc = "setup" /\ cached = <<>> /\ shown = {}
      BY DEF Init
    <2> QED
      BY <2>1, <2>2 DEF IInv, FilterFiles, ArtifactsAreOwn, PathsResolve
  <1>2. IInv /\ [Next]_vars => IInv'
    <2> SUFFICES ASSUME IInv, [Next]_vars PROVE IInv'
      OBVIOUS
    <2>1. CASE Setup
      <3>1. TypeOK'
        BY <2>1 DEF IInv, TypeOK, Setup
      <3>2. pc' = "model" => Reserved'
        BY <2>1 DEF Setup, Reserved, Announced, _discover_schemas
      <3>3. pc' \in {"model", "failed"}
        BY <2>1 DEF Setup
      <3>4. FilterFiles' /\ ArtifactsAreOwn' /\ PathsResolve'
        BY <2>1 DEF IInv, Setup, FilterFiles, ArtifactsAreOwn, PathsResolve, Announced
      <3> QED
        BY <3>1, <3>2, <3>3, <3>4 DEF IInv
    <2>2. CASE RequestTools \/ FinalOutput
      <3>1. pc = "model" /\ InputFilter /\ pc' \in {"tools", "drain"}
        BY <2>2 DEF RequestTools, FinalOutput
      <3>2. UNCHANGED <<schemas, stored, calls, log, case, recording>>
        BY <2>2 DEF RequestTools, FinalOutput
      <3> HIDE DEF IInv
      <3>3. /\ DOMAIN files' \subseteq Path /\ \A p \in DOMAIN files' : files'[p] \in Content
            /\ cached' \in Seq(Path) /\ Len(cached') = Len(calls)
            /\ \A i \in 1..Len(calls) : cached'[i] = <<i, calls[i].tool>> /\ cached'[i] \in DOMAIN files'
            /\ \A i \in 1..Len(calls) : calls[i].tool \notin FileTool \/ calls[i].tool \in Announced
                                            => files'[cached'[i]].call = i
            /\ shown' \subseteq DOMAIN files' /\ shown' \subseteq Path
        BY <3>1, FilterTyped
      <3>4. /\ pending' \in Seq(Request) /\ queue' \in Seq(SdkEvent)
            /\ pc' = "tools" => pending' # <<>>
            /\ pc' = "drain" => pending' = <<>>
        <4>1. CASE FinalOutput
          BY <4>1, <3>1 DEF IInv, TypeOK, FinalOutput
        <4>2. CASE RequestTools
          <5>1. PICK n \in 1..MaxBatch :
                  /\ pending' \in [1..n -> [tool : Offered, redacted : BOOLEAN]]
                  /\ queue' = queue \o [i \in 1..n |->
                        [name |-> "tool_called", call |-> Len(calls) + i,
                         tool |-> pending'[i].tool, redacted |-> pending'[i].redacted,
                         status |-> "none"]]
            BY <4>2 DEF RequestTools
          <5>2. n \in Nat /\ n >= 1 /\ Len(calls) \in Nat /\ queue \in Seq(SdkEvent)
            BY ToolAssumption DEF IInv, TypeOK
          <5>3. Offered \subseteq Tool
            <6>1. schemas \in Seq(HarnessTool \cup AgentTool \cup RuntimeTool)
              BY ToolAssumption DEF IInv, TypeOK
            <6> QED
              BY <6>1 DEF Offered, Announced, Tool
          <5>4. \A i \in 1..n : pending'[i] \in Request
            BY <5>1, <5>3 DEF Request
          <5>5. pending' \in Seq(Request) /\ Len(pending') = n
            BY <5>1, <5>2, <5>4, SeqOfFunction
          <5>6. pending' # <<>>
            BY <5>2, <5>5, EmptyLen
          <5> DEFINE called == [i \in 1..n |->
                        [name |-> "tool_called", call |-> Len(calls) + i,
                         tool |-> pending'[i].tool, redacted |-> pending'[i].redacted,
                         status |-> "none"]]
          <5>7. \A i \in 1..n : called[i] \in SdkEvent
            BY <5>2, <5>4 DEF SdkEvent, Request
          <5>8. called \in [1..n -> SdkEvent]
            BY <5>7
          <5>9. called \in Seq(SdkEvent)
            <6> HIDE DEF called
            <6> QED
              BY <5>2, <5>8, SeqOfFunction
          <5>10. queue' \in Seq(SdkEvent)
            <6>1. queue' = queue \o called
              BY <5>1
            <6> HIDE DEF called
            <6> QED
              BY <6>1, <5>2, <5>9
          <5>11. pc' = "tools"
            BY <4>2 DEF RequestTools
          <5> QED
            BY <5>5, <5>6, <5>10, <5>11
        <4> QED
          BY <4>1, <4>2, <2>2
      <3>5. TypeOK'
        BY <3>1, <3>2, <3>3, <3>4 DEF IInv, TypeOK
      <3>6. Reserved'
        BY <3>1, <3>2 DEF IInv, Reserved, Announced
      <3>7. DOMAIN cached' = 1..Len(calls) /\ Len(cached') = Len(calls)
        BY <3>3
      <3>8. FilterFiles'
        BY <3>2, <3>3 DEF FilterFiles
      <3>9. Announced' = Announced
        BY <3>2 DEF Announced
      <3>10. ArtifactsAreOwn'
        BY <3>2, <3>3, <3>7, <3>9 DEF ArtifactsAreOwn
      <3>11. PathsResolve'
        BY <3>3 DEF PathsResolve
      <3> QED
        BY <3>5, <3>6, <3>8, <3>10, <3>11 DEF IInv
    <2>3. CASE FileOps
      <3>1. pc = "tools" /\ Asked.tool \in FileTool /\ _with_optional_artifact
            /\ log' = log \o <<Started, Emitted("completed", "none")>>
        BY <2>3 DEF FileOps
      <3>2. PICK size \in Sizes : Answer("passed", size, <<stored + 1, Asked.tool>>)
        BY <3>1 DEF _with_optional_artifact
      <3>3. size \in Size /\ <<stored + 1, Asked.tool>> \in Path
        <4>1. Asked.tool \in Tool
          BY <3>1 DEF Tool, AgentTool
        <4>2. stored + 1 \in Nat \ {0}
          BY DEF IInv, TypeOK
        <4> QED
          BY <4>1, <4>2, ToolAssumption DEF Size, Path
      <3>4. /\ calls' \in Seq(Call) /\ Len(calls') = Len(calls) + 1
            /\ \A i \in 1..Len(calls) : calls'[i] = calls[i]
            /\ pending' \in Seq(Request) /\ queue' \in Seq(SdkEvent)
            /\ pc' \in {"model", "tools"}
            /\ pc' = "tools" => pending' # <<>>
            /\ pc' = "model" => pending' = <<>>
            /\ UNCHANGED <<schemas, cached, case, recording>>
        BY <3>1, <3>2, <3>3, AnswerTyped DEF IInv
      <3>5. /\ DOMAIN files' = DOMAIN files \cup {<<stored + 1, Asked.tool>>}
            /\ \A p \in DOMAIN files : p[2] \notin FileTool => files'[p] = files[p]
            /\ \A p \in DOMAIN files' : files'[p] \in Content
            /\ DOMAIN files' \subseteq Path
            /\ shown' = shown \cup {<<stored + 1, Asked.tool>>}
            /\ stored' \in Nat
        BY <3>1, ProviderKeeps
      <3>6. log' \in Seq(Entry)
        <4>1. Started \in Entry /\ Emitted("completed", "none") \in Entry
          BY <3>1, EntryTyped DEF IInv, Started
        <4>2. log \in Seq(Entry)
          BY DEF IInv, TypeOK
        <4> QED
          BY <3>1, <4>1, <4>2
      <3>7. cached \in Seq(Path) /\ Len(cached) <= Len(calls) /\ Len(calls) \in Nat
            /\ Len(cached) \in Nat /\ shown \subseteq Path /\ shown \subseteq DOMAIN files
        BY DEF IInv, TypeOK, PathsResolve
      <3>8. TypeOK'
        BY <3>3, <3>4, <3>5, <3>6, <3>7 DEF IInv, TypeOK
      <3>9. Announced' = Announced /\ Reserved /\ Reserved'
        BY <3>1, <3>4 DEF IInv, Reserved, Announced
      <3>10. \A i \in 1..Len(cached) : calls'[i] = calls[i]
        BY <3>4, <3>7
      <3>11. FilterFiles'
        BY <3>4, <3>5, <3>10 DEF IInv, FilterFiles
      <3>12. ArtifactsAreOwn'
        <4> SUFFICES ASSUME NEW i \in DOMAIN cached',
                            calls'[i].tool \notin FileTool \/ calls'[i].tool \in Announced'
                     PROVE  cached'[i] \in DOMAIN files' /\ files'[cached'[i]].call = i
          BY DEF ArtifactsAreOwn
        <4>1. i \in DOMAIN cached /\ i \in 1..Len(cached) /\ cached'[i] = cached[i] /\ calls'[i] = calls[i]
          BY <3>4, <3>7, <3>10
        <4>2. calls[i].tool \notin FileTool
          BY <4>1, <3>9 DEF Reserved, AgentTool
        <4>3. cached[i] = <<i, calls[i].tool>> /\ cached[i] \in DOMAIN files
          BY <4>1 DEF IInv, FilterFiles
        <4>4. cached[i][2] \notin FileTool
          BY <4>2, <4>3
        <4>5. files'[cached[i]] = files[cached[i]]
          BY <3>5, <4>3, <4>4
        <4>6. files[cached[i]].call = i
          BY <4>1, <4>2 DEF IInv, ArtifactsAreOwn
        <4> QED
          BY <3>5, <4>1, <4>3, <4>5, <4>6
      <3>13. PathsResolve'
        BY <3>5, <3>7 DEF PathsResolve
      <3> QED
        BY <3>8, <3>9, <3>11, <3>12, <3>13 DEF IInv
    <2>4. CASE QueryArtifact
      <3>1. log' \in Seq(Entry)
        <4>1. Started \in Entry /\ Emitted("completed", "none") \in Entry
          BY <2>4, EntryTyped DEF IInv, Started, QueryArtifact
        <4> QED
          BY <2>4, <4>1 DEF IInv, TypeOK, QueryArtifact
      <3> QED
        BY <2>4, <3>1, AnswerKeeps DEF QueryArtifact, Size
    <2>5. CASE AgentToolFails
      <3>1. log' \in Seq(Entry)
        <4>1. Started \in Entry /\ Emitted("failed", "none") \in Entry
          BY <2>5, EntryTyped DEF IInv, Started, AgentToolFails
        <4> QED
          BY <2>5, <4>1 DEF IInv, TypeOK, AgentToolFails
      <3> QED
        BY <2>5, <3>1, AnswerKeeps DEF AgentToolFails, Size
    <2>6. CASE AgentToolUnparsed
      <3>1. log' \in Seq(Entry)
        <4>1. Emitted("failed", "none") \in Entry
          BY <2>6, EntryTyped DEF IInv, AgentToolUnparsed
        <4> QED
          BY <2>6, <4>1 DEF IInv, TypeOK, AgentToolUnparsed
      <3> QED
        BY <2>6, <3>1, AnswerKeeps DEF AgentToolUnparsed, Size
    <2>7. CASE HarnessStep
      <3>1. log' \in Seq(Entry)
        BY <2>7 DEF HarnessStep, IInv, TypeOK
      <3>2. PICK status \in {"passed", "failed"}, size \in Size : Answer(status, size, NoPath)
        BY <2>7, ToolAssumption DEF HarnessStep, Size
      <3> QED
        BY <2>7, <3>1, <3>2, AnswerKeeps DEF HarnessStep
    <2>8. CASE Consume
      <3>1. queue \in Seq(SdkEvent) /\ queue # <<>> /\ log \in Seq(Entry)
        BY <2>8 DEF Consume, IInv, TypeOK
      <3>2. Head(queue) \in SdkEvent /\ Tail(queue) \in Seq(SdkEvent)
        BY <3>1, HeadTail
      <3>3. _map_stream_event(Head(queue)) \in Entry
        BY <3>2 DEF _map_stream_event, _tool_origin, SdkEvent, Entry
      <3>4. log' \in Seq(Entry) /\ queue' \in Seq(SdkEvent)
        BY <2>8, <3>1, <3>2, <3>3 DEF Consume
      <3>5. TypeOK'
        BY <2>8, <3>4 DEF Consume, IInv, TypeOK
      <3> QED
        BY <2>8, <3>5 DEF Consume, IInv, Reserved, FilterFiles, ArtifactsAreOwn, PathsResolve, Announced
    <2>9. CASE Drained
      BY <2>9 DEF Drained, IInv, TypeOK, Reserved, FilterFiles, ArtifactsAreOwn, PathsResolve, Announced
    <2>10. CASE RunFails
      <3>1. TypeOK'
        BY <2>10 DEF RunFails, IInv, TypeOK
      <3> QED
        BY <2>10, <3>1 DEF RunFails, IInv, FilterFiles, ArtifactsAreOwn, PathsResolve, Announced
    <2>11. CASE Record
      <3>1. TypeOK'
        BY <2>11 DEF Record, IInv, TypeOK
      <3> QED
        BY <2>11, <3>1 DEF Record, IInv, Reserved, FilterFiles, ArtifactsAreOwn, PathsResolve, Announced
    <2>12. CASE UNCHANGED vars
      BY <2>12 DEF vars, IInv, TypeOK, Reserved, FilterFiles, ArtifactsAreOwn, PathsResolve, Announced
    <2> QED
      BY <2>1, <2>2, <2>3, <2>4, <2>5, <2>6, <2>7, <2>8, <2>9, <2>10, <2>11, <2>12 DEF Next
  <1> QED
    BY <1>1, <1>2, PTL DEF Spec

\* Every variable of a run's tool calls keeps its type.
THEOREM TypeCorrect == Spec => []TypeOK
  <1>1. IInv => TypeOK
    BY DEF IInv
  <1> QED
    BY <1>1, Inductive, PTL

\* No store writes over the file of an action, a wait or a query, for any
\* action space a harness may announce.
THEOREM ArtifactsCorrect == Spec => []ArtifactsAreOwn
  <1>1. IInv => ArtifactsAreOwn
    BY DEF IInv
  <1> QED
    BY <1>1, Inductive, PTL

\* The model is never told the path of a file that does not exist.
THEOREM PathsCorrect == Spec => []PathsResolve
  <1>1. IInv => PathsResolve
    BY DEF IInv
  <1> QED
    BY <1>1, Inductive, PTL

-----------------------------------------------------------------------------
(* The stream of events: starts and answers stay in the order of the calls *)

\* Events with a call id: the SDK's start of a call, and its answer.
IsStart(e) == e.type = "started" /\ e.id # 0
IsAnswer(e) == e.type # "started" /\ e.id # 0

\* The i-th call the model asked for.
Asks(c, r, i) == IF i <= Len(c) THEN c[i] ELSE r[i - Len(c)]

\* The calls that ran (c) and those that wait (r) were started in their order in
\* the stream s, each with its tool and arguments; those that wait all were.
StartsInOrder(s, c, r) ==
    /\ \A p \in 1..Len(s), q \in 1..Len(s) :
          IsStart(s[p]) /\ IsStart(s[q]) /\ p < q /\ s[p].id <= Len(c) + Len(r)
              /\ s[q].id <= Len(c) + Len(r) => s[p].id < s[q].id
    /\ \A p \in 1..Len(s) :
          IsStart(s[p]) /\ s[p].id <= Len(c) + Len(r) =>
              /\ s[p].tool = Asks(c, r, s[p].id).tool
              /\ s[p].redacted = Asks(c, r, s[p].id).redacted
    /\ \A i \in 1..Len(r) : \E p \in 1..Len(s) : IsStart(s[p]) /\ s[p].id = Len(c) + i

\* The answer at p is about a call that ran, and has its status; its start came
\* before it, and so did the answers of all earlier calls.
EndFits(s, p, c) ==
    /\ s[p].id <= Len(c)
    /\ s[p].status = c[s[p].id].status
    /\ \E q \in 1..(p - 1) : IsStart(s[q]) /\ s[q].id = s[p].id
    /\ \A j \in 1..(s[p].id - 1) : \E q \in 1..(p - 1) : IsAnswer(s[q]) /\ s[q].id = j

\* Answers come in the order in which the calls ran.
EndsInOrder(s, c) ==
    /\ \A p \in 1..Len(s), q \in 1..Len(s) :
          IsAnswer(s[p]) /\ IsAnswer(s[q]) /\ p < q => s[p].id < s[q].id
    /\ \A p \in 1..Len(s) : IsAnswer(s[p]) => EndFits(s, p, c)

\* Nothing was lost: every call that ran has its answer, and nothing is started
\* that was not asked for.
Complete(s, c, r) ==
    /\ \A p \in 1..Len(s) : s[p].id <= Len(c) + Len(r)
    /\ \A i \in 1..Len(c) : \E p \in 1..Len(s) : IsAnswer(s[p]) /\ s[p].id = i

\* The types these proofs need.
Lengths(s, c, r) ==
    /\ Len(s) \in Nat /\ Len(c) \in Nat /\ Len(r) \in Nat
    /\ \A p \in 1..Len(s) : s[p].id \in Nat

\* The stream t is s with the starts of the calls r after it.
AsksMore(s, t, c, r) ==
    /\ Len(t) = Len(s) + Len(r)
    /\ \A p \in 1..Len(s) : t[p] = s[p]
    /\ \A p \in (Len(s) + 1)..Len(t) :
          /\ t[p].type = "started" /\ t[p].id = Len(c) + (p - Len(s))
          /\ t[p].tool = r[p - Len(s)].tool /\ t[p].redacted = r[p - Len(s)].redacted

\* When all calls have run, new ones are asked for in order.
LEMMA AskedInOrder ==
    ASSUME NEW s, NEW c, NEW r, NEW t, Lengths(s, c, r), AsksMore(s, t, c, r),
           StartsInOrder(s, c, <<>>), EndsInOrder(s, c), Complete(s, c, <<>>)
    PROVE  StartsInOrder(t, c, r) /\ EndsInOrder(t, c) /\ Complete(t, c, r)
<1>1. /\ Len(s) \in Nat /\ Len(c) \in Nat /\ Len(r) \in Nat /\ Len(t) = Len(s) + Len(r)
      /\ Len(t) \in Nat
  BY DEF Lengths, AsksMore
<1>2. \A p \in 1..Len(s) : s[p].id \in Nat /\ s[p].id <= Len(c) /\ p \in 1..Len(t) /\ t[p] = s[p]
  BY DEF Lengths, Complete, AsksMore
<1>3. ASSUME NEW p \in 1..Len(t), ~(p <= Len(s))
      PROVE  /\ IsStart(t[p]) /\ ~IsAnswer(t[p]) /\ p - Len(s) \in 1..Len(r)
             /\ t[p].id = Len(c) + (p - Len(s))
             /\ t[p].tool = r[p - Len(s)].tool /\ t[p].redacted = r[p - Len(s)].redacted
  <2>1. p \in (Len(s) + 1)..Len(t) /\ p - Len(s) \in 1..Len(r)
    BY <1>1, <1>3
  <2>2. Len(c) + (p - Len(s)) # 0
    BY <2>1, <1>1
  <2> QED BY <2>1, <2>2 DEF AsksMore, IsStart, IsAnswer
<1>7. StartsInOrder(t, c, r)
  <2>1. ASSUME NEW p \in 1..Len(t), NEW q \in 1..Len(t), IsStart(t[p]), IsStart(t[q]), p < q
        PROVE  t[p].id < t[q].id
    <3>1. CASE q <= Len(s)
      <4>1. p \in 1..Len(s) /\ q \in 1..Len(s) /\ t[p] = s[p] /\ t[q] = s[q]
        BY <2>1, <3>1, <1>1, <1>2
      <4>2. s[p].id <= Len(c) + 0 /\ s[q].id <= Len(c) + 0 
        BY <4>1, <1>1, <1>2
      <4> QED BY <4>1, <4>2, <2>1 DEF StartsInOrder
    <3>2. CASE p <= Len(s) /\ ~(q <= Len(s))
      <4>1. t[q].id = Len(c) + (q - Len(s)) /\ t[p].id <= Len(c) /\ t[p].id \in Nat
        BY <3>2, <1>2, <1>3, <1>1
      <4> QED BY <4>1, <3>2, <1>1
    <3>3. CASE ~(p <= Len(s)) /\ ~(q <= Len(s))
      <4>1. t[q].id = Len(c) + (q - Len(s)) /\ t[p].id = Len(c) + (p - Len(s))
        BY <3>3, <1>3
      <4> QED BY <4>1, <2>1, <1>1
    <3> QED BY <3>1, <3>2, <3>3, <2>1, <1>1
  <2>2. ASSUME NEW p \in 1..Len(t), IsStart(t[p])
        PROVE  t[p].tool = Asks(c, r, t[p].id).tool /\ t[p].redacted = Asks(c, r, t[p].id).redacted
    <3>1. CASE p <= Len(s)
      <4>1. p \in 1..Len(s) /\ t[p] = s[p] /\ s[p].id <= Len(c) /\ s[p].id <= Len(c) + 0
        BY <3>1, <1>1, <1>2
      <4>2. s[p].tool = Asks(c, <<>>, s[p].id).tool /\ s[p].redacted = Asks(c, <<>>, s[p].id).redacted
        BY <4>1, <2>2 DEF StartsInOrder
      <4> QED BY <4>1, <4>2 DEF Asks
    <3>2. CASE ~(p <= Len(s))
      <4>1. t[p].id = Len(c) + (p - Len(s)) /\ p - Len(s) \in 1..Len(r)
        BY <3>2, <1>3
      <4>2. ~(t[p].id <= Len(c)) /\ t[p].id - Len(c) = p - Len(s)
        BY <4>1, <1>1
      <4> QED BY <4>2, <3>2, <1>3 DEF Asks
    <3> QED BY <3>1, <3>2
  <2>3. ASSUME NEW i \in 1..Len(r)
        PROVE  \E p \in 1..Len(t) : IsStart(t[p]) /\ t[p].id = Len(c) + i
    <3>1. Len(s) + i \in 1..Len(t) /\ ~(Len(s) + i <= Len(s)) /\ Len(s) + i - Len(s) = i
      BY <1>1
    <3> QED BY <3>1, <1>3
  <2> QED BY <2>1, <2>2, <2>3 DEF StartsInOrder
<1>8. EndsInOrder(t, c)
  <2>1. \A p \in 1..Len(t) : IsAnswer(t[p]) => p \in 1..Len(s) /\ t[p] = s[p]
    BY <1>1, <1>2, <1>3
  <2>2. ASSUME NEW p \in 1..Len(t), IsAnswer(t[p])
        PROVE EndFits(t, p, c)
    <3>1. p \in 1..Len(s) /\ t[p] = s[p]  BY <2>1, <2>2
    <3>2. \A q \in 1..(p-1) : t[q] = s[q]  BY <3>1, <1>1, <1>2
    <3>3. EndFits(s, p, c) BY <3>1, <2>2 DEF EndsInOrder
    <3> QED BY <3>1, <3>2, <3>3 DEF EndFits
  <2> QED BY <2>1, <2>2 DEF EndsInOrder
<1>9. Complete(t, c, r)
  <2>1. ASSUME NEW p \in 1..Len(t) PROVE t[p].id <= Len(c) + Len(r)
    <3>1. CASE p <= Len(s)  BY <3>1, <1>1, <1>2
    <3>2. CASE ~(p <= Len(s))  BY <3>2, <1>1, <1>3
    <3> QED BY <3>1, <3>2
  <2>2. \A i \in 1..Len(c) : \E p \in 1..Len(t) : IsAnswer(t[p]) /\ t[p].id = i
    BY <1>2 DEF Complete
  <2> QED BY <2>1, <2>2 DEF Complete
<1> QED BY <1>7, <1>8, <1>9

\* What an answered call does to the calls.
Runs(c, r, cc, rr) ==
    /\ Len(r) >= 1 /\ Len(cc) = Len(c) + 1 /\ Len(rr) = Len(r) - 1
    /\ \A i \in 1..Len(c) : cc[i] = c[i]
    /\ \A i \in 1..Len(rr) : rr[i] = r[i + 1]
    /\ cc[Len(cc)].tool = r[1].tool /\ cc[Len(cc)].redacted = r[1].redacted

\* The log, the first k of the stream, gets m events without id; the answer is
\* the last of the stream.
AnswersOne(s, t, k, m, cc) ==
    /\ k \in 0..Len(s) /\ m \in Nat /\ Len(t) = Len(s) + m + 1
    /\ \A p \in 1..k : t[p] = s[p]
    /\ \A p \in (k + 1)..(k + m) : t[p].id = 0
    /\ \A p \in (k + m + 1)..(Len(s) + m) : t[p] = s[p - m]
    /\ t[Len(t)].type # "started" /\ t[Len(t)].id = Len(cc)
    /\ t[Len(t)].status = cc[Len(cc)].status

\* A handler that answers, whatever it emits itself, keeps the order of the stream.
LEMMA AnsweredInOrder ==
    ASSUME NEW s, NEW c, NEW r, NEW t, NEW k, NEW m, NEW cc, NEW rr,
           Lengths(s, c, r), Runs(c, r, cc, rr), AnswersOne(s, t, k, m, cc),
           StartsInOrder(s, c, r), EndsInOrder(s, c), Complete(s, c, r)
    PROVE  StartsInOrder(t, cc, rr) /\ EndsInOrder(t, cc) /\ Complete(t, cc, rr)
<1> DEFINE old(p) == IF p <= k THEN p ELSE p - m
           new(p) == IF p <= k THEN p ELSE p + m
<1>1. /\ Len(s) \in Nat /\ Len(c) \in Nat /\ k \in Nat /\ k <= Len(s) /\ Len(cc) = Len(c) + 1
      /\ m \in Nat /\ Len(t) = Len(s) + m + 1 /\ Len(r) \in Nat /\ Len(r) >= 1
      /\ Len(rr) = Len(r) - 1 /\ Len(cc) + Len(rr) = Len(c) + Len(r)
  BY DEF Lengths, AnswersOne, Runs
<1>2. \A p \in 1..Len(s) : s[p].id \in Nat /\ s[p].id <= Len(c) + Len(r)
  BY DEF Lengths, Complete
<1>3. /\ Len(t) \in Nat /\ Len(t) \in 1..Len(t) /\ t[Len(t)].id = Len(c) + 1
      /\ IsAnswer(t[Len(t)]) /\ ~IsStart(t[Len(t)])
  BY <1>1 DEF IsAnswer, IsStart, AnswersOne
<1>4. ASSUME NEW p \in 1..Len(t), t[p].id # 0, p # Len(t)
      PROVE  old(p) \in 1..Len(s) /\ t[p] = s[old(p)]
  <2>1. CASE p <= k
    BY <2>1, <1>1 DEF AnswersOne
  <2>2. CASE ~(p <= k)
    <3>1. p \in (k + m + 1)..(Len(s) + m)
      <4>1. p \in (k + 1)..(k + m) => FALSE
        BY <1>4 DEF AnswersOne
      <4> QED BY <4>1, <2>2, <1>1, <1>4
    <3>2. t[p] = s[p - m]
      BY <3>1 DEF AnswersOne
    <3> QED BY <3>1, <3>2, <2>2, <1>1
  <2> QED BY <2>1, <2>2
<1>5. ASSUME NEW p \in 1..Len(s)
      PROVE  new(p) \in 1..(Len(t) - 1) /\ new(p) \in 1..Len(t) /\ t[new(p)] = s[p]
  <2>1. CASE p <= k
    BY <2>1, <1>1 DEF AnswersOne
  <2>2. CASE ~(p <= k)
    <3>1. p + m \in (k + m + 1)..(Len(s) + m) /\ p + m - m = p
      BY <2>2, <1>1
    <3>2. t[p + m] = s[p]
      BY <3>1 DEF AnswersOne
    <3> QED BY <3>1, <3>2, <2>2, <1>1
  <2> QED BY <2>1, <2>2
<1>6. ASSUME NEW p \in 1..Len(t), NEW q \in 1..Len(t), t[p].id # 0, t[q].id # 0, p < q
      PROVE  old(p) < old(q)
  <2>1. \A i \in 1..Len(t) : t[i].id # 0 => i <= k \/ k + m < i
    <3> SUFFICES ASSUME NEW i \in 1..Len(t), t[i].id # 0, ~(i <= k), ~(k + m < i) PROVE FALSE
      BY <1>1
    <3>1. i \in (k + 1)..(k + m)
      BY <1>1
    <3> QED BY <3>1 DEF AnswersOne
  <2> QED BY <2>1, <1>1, <1>6
<1>7. ASSUME NEW p \in 1..Len(s), NEW q \in 1..Len(t), t[q].id # 0, p < old(q)
      PROVE  new(p) \in 1..(q - 1)
  BY <1>1, <1>7
<1> HIDE DEF old, new
<1>8. ASSUME NEW i \in 1..(Len(c) + Len(r))
      PROVE  /\ Asks(cc, rr, i).tool = Asks(c, r, i).tool
             /\ Asks(cc, rr, i).redacted = Asks(c, r, i).redacted
  <2>1. CASE i <= Len(c)
    <3>1. i \in 1..Len(c) /\ i <= Len(cc)  BY <2>1, <1>1
    <3>2. cc[i] = c[i]  BY <3>1 DEF Runs
    <3> QED BY <3>1, <3>2 DEF Asks
  <2>2. CASE i = Len(c) + 1
    <3>1. i = Len(cc) /\ i <= Len(cc) /\ ~(i <= Len(c)) /\ i - Len(c) = 1
      BY <2>2, <1>1
    <3> QED BY <3>1 DEF Asks, Runs
  <2>3. CASE i > Len(c) + 1
    <3>1. /\ i - Len(cc) \in 1..Len(rr) /\ i - Len(cc) + 1 = i - Len(c)
          /\ ~(i <= Len(c)) /\ ~(i <= Len(cc))
      BY <2>3, <1>1
    <3>2. rr[i - Len(cc)] = r[i - Len(c)]
      BY <3>1 DEF Runs
    <3> QED BY <3>1, <3>2 DEF Asks
  <2> QED BY <2>1, <2>2, <2>3, <1>1
<1>9. StartsInOrder(t, cc, rr)
  <2>1. ASSUME NEW p \in 1..Len(t), NEW q \in 1..Len(t), IsStart(t[p]), IsStart(t[q]), p < q
        PROVE  t[p].id < t[q].id
    <3>1. p # Len(t) /\ q # Len(t) /\ t[p].id # 0 /\ t[q].id # 0
      BY <2>1, <1>3 DEF IsStart
    <3>2. /\ old(p) \in 1..Len(s) /\ t[p] = s[old(p)] /\ old(q) \in 1..Len(s) /\ t[q] = s[old(q)]
          /\ old(p) < old(q)
      BY <2>1, <3>1, <1>4, <1>6
    <3> QED BY <3>2, <2>1, <1>2 DEF StartsInOrder
  <2>2. ASSUME NEW p \in 1..Len(t), IsStart(t[p])
        PROVE  t[p].tool = Asks(cc, rr, t[p].id).tool /\ t[p].redacted = Asks(cc, rr, t[p].id).redacted
    <3>1. old(p) \in 1..Len(s) /\ t[p] = s[old(p)] /\ t[p].id # 0
      BY <2>2, <1>3, <1>4 DEF IsStart
    <3>2. t[p].id \in 1..(Len(c) + Len(r)) /\ t[p].id <= Len(c) + Len(r)
      BY <3>1, <1>1, <1>2
    <3>3. t[p].tool = Asks(c, r, t[p].id).tool /\ t[p].redacted = Asks(c, r, t[p].id).redacted
      BY <3>1, <3>2, <2>2 DEF StartsInOrder
    <3> QED BY <3>2, <3>3, <1>8
  <2>3. ASSUME NEW i \in 1..Len(rr)
        PROVE  \E p \in 1..Len(t) : IsStart(t[p]) /\ t[p].id = Len(cc) + i
    <3>0. i + 1 \in 1..Len(r) /\ Len(c) + (i + 1) = Len(cc) + i
      BY <1>1
    <3>1. PICK p \in 1..Len(s) : IsStart(s[p]) /\ s[p].id = Len(c) + (i + 1)
      BY <3>0 DEF StartsInOrder
    <3>2. new(p) \in 1..Len(t) /\ t[new(p)] = s[p]
      BY <1>5
    <3> QED BY <3>0, <3>1, <3>2
  <2> QED BY <2>1, <2>2, <2>3 DEF StartsInOrder
<1>10. EndsInOrder(t, cc)
  <2>1. ASSUME NEW p \in 1..Len(t), NEW q \in 1..Len(t), IsAnswer(t[p]), IsAnswer(t[q]), p < q
        PROVE  t[p].id < t[q].id
    <3>1. p # Len(t) /\ t[p].id # 0 /\ t[q].id # 0
      BY <2>1, <1>3 DEF IsAnswer
    <3>2. old(p) \in 1..Len(s) /\ t[p] = s[old(p)]
      BY <2>1, <3>1, <1>4
    <3>3. CASE q = Len(t)
      <4>1. t[p].id <= Len(c)
        BY <3>2, <2>1 DEF EndsInOrder, EndFits
      <4>2. t[p].id \in Nat
        BY <3>2, <1>2
      <4> QED BY <4>1, <4>2, <3>3, <1>1, <1>3
    <3>4. CASE q # Len(t)
      <4>1. old(q) \in 1..Len(s) /\ t[q] = s[old(q)] /\ old(p) < old(q)
        BY <2>1, <3>1, <3>4, <1>4, <1>6
      <4> QED BY <4>1, <3>2, <2>1 DEF EndsInOrder
    <3> QED BY <3>3, <3>4
  <2>2. ASSUME NEW p \in 1..Len(t), IsAnswer(t[p]), p # Len(t)
        PROVE  EndFits(t, p, cc)
    <3>1. old(p) \in 1..Len(s) /\ t[p] = s[old(p)] /\ t[p].id # 0
      BY <2>2, <1>4 DEF IsAnswer
    <3>2. EndFits(s, old(p), c)
      BY <3>1, <2>2 DEF EndsInOrder
    <3>3. t[p].id \in 1..Len(c)
      BY <3>1, <3>2, <1>1, <1>2 DEF EndFits
    <3>4. t[p].status = cc[t[p].id].status
      BY <3>1, <3>2, <3>3 DEF EndFits, Runs
    <3>5. ASSUME NEW q \in 1..(old(p) - 1)
          PROVE  new(q) \in 1..(p - 1) /\ t[new(q)] = s[q]
      <4>1. q \in 1..Len(s) /\ q < old(p)
        BY <3>1, <1>1
      <4> QED BY <4>1, <3>1, <1>5, <1>7
    <3>6. \A j \in 1..(t[p].id - 1) : \E q \in 1..(p - 1) : IsAnswer(t[q]) /\ t[q].id = j
      BY <3>1, <3>2, <3>5 DEF EndFits
    <3>7. \E q \in 1..(p - 1) : IsStart(t[q]) /\ t[q].id = t[p].id
      BY <3>1, <3>2, <3>5 DEF EndFits
    <3>8. t[p].id <= Len(cc)
      BY <3>3, <1>1
    <3> QED BY <3>4, <3>6, <3>7, <3>8 DEF EndFits
  <2>3. EndFits(t, Len(t), cc)
    <3>0. 1 \in 1..Len(r)
      BY <1>1
    <3>1. PICK p \in 1..Len(s) : IsStart(s[p]) /\ s[p].id = Len(c) + 1
      BY <3>0 DEF StartsInOrder
    <3>2. \A j \in 1..Len(c) : \E q \in 1..(Len(t) - 1) : IsAnswer(t[q]) /\ t[q].id = j
      BY <1>5 DEF Complete
    <3>3. \E q \in 1..(Len(t) - 1) : IsStart(t[q]) /\ t[q].id = t[Len(t)].id
      BY <3>1, <1>3, <1>5
    <3>4. t[Len(t)].id - 1 = Len(c) /\ t[Len(t)].id <= Len(cc)
      BY <1>1, <1>3
    <3>5. t[Len(t)].status = cc[t[Len(t)].id].status
      BY DEF AnswersOne
    <3> QED BY <3>2, <3>3, <3>4, <3>5 DEF EndFits
  <2> QED BY <2>1, <2>2, <2>3 DEF EndsInOrder
<1>11. Complete(t, cc, rr)
  <2>1. ASSUME NEW p \in 1..Len(t) PROVE t[p].id <= Len(cc) + Len(rr)
    <3>1. CASE t[p].id = 0
      BY <3>1, <1>1
    <3>2. CASE p = Len(t)
      BY <3>2, <1>1, <1>3
    <3>3. CASE t[p].id # 0 /\ p # Len(t)
      BY <3>3, <1>1, <1>2, <1>4
    <3> QED BY <3>1, <3>2, <3>3
  <2>2. ASSUME NEW i \in 1..Len(cc) PROVE \E p \in 1..Len(t) : IsAnswer(t[p]) /\ t[p].id = i
    <3>1. CASE i = Len(c) + 1
      BY <3>1, <1>3
    <3>2. CASE i # Len(c) + 1
      <4>1. i \in 1..Len(c)
        BY <3>2, <1>1
      <4>2. PICK p \in 1..Len(s) : IsAnswer(s[p]) /\ s[p].id = i
        BY <4>1 DEF Complete
      <4> QED BY <4>2, <1>5
    <3> QED BY <3>1, <3>2
  <2> QED BY <2>1, <2>2 DEF Complete
<1> QED BY <1>9, <1>10, <1>11

\* A run that fails drops the events nobody has consumed.
LEMMA DroppedInOrder ==
    ASSUME NEW s, NEW c, NEW r, NEW t, NEW k \in 0..Len(s), Lengths(s, c, r),
           Len(t) = k, \A p \in 1..k : t[p] = s[p],
           StartsInOrder(s, c, r), EndsInOrder(s, c)
    PROVE  StartsInOrder(t, c, <<>>) /\ EndsInOrder(t, c)
<1>1. /\ Len(s) \in Nat /\ Len(c) \in Nat /\ Len(r) \in Nat /\ k \in Nat /\ k <= Len(s)
      /\ \A p \in 1..Len(s) : s[p].id \in Nat
  BY DEF Lengths
<1>2. \A p \in 1..Len(t) : p \in 1..Len(s) /\ t[p] = s[p]
  BY <1>1
<1>3. StartsInOrder(t, c, <<>>)
  <2>1. \A p \in 1..Len(t) : t[p].id <= Len(c) + Len(<<>>) => t[p].id <= Len(c) /\ t[p].id <= Len(c) + Len(r)
    BY <1>1, <1>2
  <2>2. \A p \in 1..Len(t), q \in 1..Len(t) :
          IsStart(t[p]) /\ IsStart(t[q]) /\ p < q /\ t[p].id <= Len(c) + Len(<<>>)
              /\ t[q].id <= Len(c) + Len(<<>>) => t[p].id < t[q].id
    BY <1>2, <2>1 DEF StartsInOrder
  <2>3. ASSUME NEW p \in 1..Len(t), IsStart(t[p]), t[p].id <= Len(c) + Len(<<>>)
        PROVE  /\ t[p].tool = Asks(c, <<>>, t[p].id).tool
               /\ t[p].redacted = Asks(c, <<>>, t[p].id).redacted
    <3>1. s[p].tool = Asks(c, r, s[p].id).tool /\ s[p].redacted = Asks(c, r, s[p].id).redacted
      BY <1>2, <2>1, <2>3 DEF StartsInOrder
    <3> QED BY <3>1, <1>2, <2>1, <2>3 DEF Asks
  <2> QED BY <2>2, <2>3 DEF StartsInOrder
<1>4. EndsInOrder(t, c)
  <2>1. ASSUME NEW p \in 1..Len(t), IsAnswer(t[p]) PROVE EndFits(t, p, c)
    <3>1. EndFits(s, p, c)
      BY <1>2, <2>1 DEF EndsInOrder
    <3>2. \A q \in 1..(p - 1) : t[q] = s[q]
      BY <1>1, <1>2
    <3> QED BY <3>1, <3>2, <1>2 DEF EndFits
  <2> QED BY <2>1, <1>2 DEF EndsInOrder
<1> QED BY <1>3, <1>4

-----------------------------------------------------------------------------
(* The two loops over the log: the report's pairing and the recorder *)

\* The order of the numbers, as a relation.
NatLess == {ss \in Nat \X Nat : ss[1] < ss[2]}

\* Induction over the numbers up to a bound, for a set of them: the property is
\* the membership in it.
LEMMA InductionUpTo ==
    ASSUME NEW m \in Nat, NEW T, 0 \in T, \A n \in 1..m : n - 1 \in T => n \in T
    PROVE  0..m \subseteq T
<1> DEFINE B == (0..m) \ T
<1>1. IsWellFoundedOn(NatLess, Nat)
  BY NatLessThanWellFounded DEF OpToRel, NatLess
<1>2. SUFFICES ASSUME B # {} PROVE FALSE
  OBVIOUS
<1>3. PICK x \in B : \A y \in B : ~ (<<y, x>> \in NatLess)
  <2>1. B \subseteq Nat
    OBVIOUS
  <2> HIDE DEF B
  <2> QED BY <1>1, <1>2, <2>1, WFMin
<1>4. x \in 1..m /\ x - 1 \in 0..m /\ <<x - 1, x>> \in NatLess
  BY DEF NatLess
<1> QED BY <1>3, <1>4

\* A start without call id.
IsOpen(e) == e.type = "started" /\ e.id = 0

\* An AgentTool's own start is followed at once by its own end.
PairsIn(l) ==
    \A n \in 1..Len(l) :
        IsOpen(l[n]) => /\ n < Len(l) /\ l[n + 1].id = 0 /\ IsEnd(l[n + 1])
                        /\ l[n + 1].tool = l[n].tool /\ l[n + 1].of = l[n].of

\* Handlers do not suspend: nothing comes between the two.
OwnPairs == PairsIn(log)

\* What the pairing comes to in such a log: the start of each end, 0 for none.
StartOf(n) ==
    IF ~IsEnd(log[n]) THEN 0
    ELSE IF log[n].id # 0 THEN StartById(n)
    ELSE IF n > 1 /\ IsOpen(log[n - 1]) THEN n - 1 ELSE 0

\* At most the last event is an open start; what the pairing knows after n events.
OpenAt(n) == IF n # 0 /\ IsOpen(log[n]) THEN <<n>> ELSE <<>>
Closed == [n \in 0..Len(log) |-> [open |-> OpenAt(n), start |-> [k \in 1..n |-> StartOf(k)]]]

\* Without open starts an end takes none.
LEMMA NoOpen ==
    ASSUME NEW e
    PROVE  _pop_unpaired_start(<<>>, e) = 0
BY DEF _pop_unpaired_start

\* The only open start, of the same tool, is taken.
LEMMA OneOpen ==
    ASSUME NEW e, NEW k \in Nat, log[k].tool = e.tool
    PROVE  /\ _pop_unpaired_start(<<k>>, e) = 1
           /\ Without(<<k>>, 1) = <<>>
<1> DEFINE same == {i \in 1..Len(<<k>>) : log[<<k>>[i]].tool = e.tool}
<1>1. same = {1}
  OBVIOUS
<1>2. FirstOf(same) = 1
  <2> HIDE DEF same
  <2> QED BY <1>1 DEF FirstOf
<1>3. _pop_unpaired_start(<<k>>, e) = 1
  BY <1>1, <1>2 DEF _pop_unpaired_start
<1>4. SubSeq(<<k>>, 1, 0) = <<>> /\ SubSeq(<<k>>, 2, 1) = <<>>
  OBVIOUS
<1>5. Without(<<k>>, 1) = <<>>
  BY <1>4 DEF Without
<1> QED BY <1>3, <1>5

\* A function over 1..n is its restriction to 1..(n - 1) with the last value.
LEMMA AppendFunction ==
    ASSUME NEW n \in Nat \ {0}, NEW f
    PROVE  Append([k \in 1..(n - 1) |-> f[k]], f[n]) = [k \in 1..n |-> f[k]]
  OBVIOUS

\* An end without id takes the open start that was popped.
LEMMA PairPops ==
    ASSUME NEW w, NEW n, IsEnd(log[n]), log[n].id = 0, _pop_unpaired_start(w.open, log[n]) = 1
    PROVE  Pair(w, n) = [open |-> Without(w.open, 1), start |-> Append(w.start, w.open[1])]
<1>1. Pair(w, n) =
        [open |-> IF _pop_unpaired_start(w.open, log[n]) = 0 THEN w.open
                  ELSE Without(w.open, _pop_unpaired_start(w.open, log[n])),
         start |-> Append(w.start, IF _pop_unpaired_start(w.open, log[n]) = 0 THEN 0
                                   ELSE w.open[_pop_unpaired_start(w.open, log[n])])]
  BY Zenon DEF Pair
<1> QED BY <1>1

\* One event: Closed goes on as Pair does.
LEMMA ClosedStep ==
    ASSUME log \in Seq(Entry), OwnPairs, NEW n \in 1..Len(log)
    PROVE  Closed[n] = Pair(Closed[n - 1], n)
<1> DEFINE st(m) == [k \in 1..m |-> StartOf(k)]
           e == log[n]
<1>1. Len(log) \in Nat /\ n - 1 \in 0..Len(log) /\ n \in 0..Len(log)
  OBVIOUS
<1>2. Closed[n] = [open |-> OpenAt(n), start |-> st(n)] /\ Closed[n - 1] = [open |-> OpenAt(n - 1), start |-> st(n - 1)]
  BY <1>1 DEF Closed
<1>3. Append(st(n - 1), StartOf(n)) = st(n)
  <2> DEFINE f == [k \in 1..n |-> StartOf(k)]
  <2>1. Append([k \in 1..(n - 1) |-> f[k]], f[n]) = [k \in 1..n |-> f[k]]
    BY AppendFunction
  <2>2. [k \in 1..(n - 1) |-> f[k]] = st(n - 1) /\ [k \in 1..n |-> f[k]] = st(n) /\ f[n] = StartOf(n)
    OBVIOUS
  <2> QED BY <2>1, <2>2
<1> HIDE DEF st
<1>4. Closed[n - 1].open = OpenAt(n - 1) /\ Closed[n - 1].start = st(n - 1)
  BY <1>2
<1>5. IsOpen(log[n - 1]) /\ n # 1 => IsEnd(e) /\ e.id = 0 /\ e.tool = log[n - 1].tool
  <2>1. n # 1 => n - 1 \in 1..Len(log) /\ (n - 1) + 1 = n
    BY <1>1
  <2> QED BY <2>1 DEF OwnPairs, PairsIn
<1>6. CASE ~IsEnd(e)
  <2>1. OpenAt(n - 1) = <<>>
    BY <1>5, <1>6, <1>1 DEF OpenAt
  <2>2. StartOf(n) = 0
    BY <1>6 DEF StartOf
  <2>3. OpenAt(n) = IF e.id = 0 THEN Append(<<>>, n) ELSE <<>>
    BY <1>6, <1>1 DEF OpenAt, IsOpen, IsEnd
  <2> QED BY <1>2, <1>3, <1>4, <1>6, <2>1, <2>2, <2>3 DEF Pair
<1>7. CASE IsEnd(e) /\ e.id # 0
  <2>1. OpenAt(n - 1) = <<>>
    BY <1>5, <1>7, <1>1 DEF OpenAt
  <2>2. StartOf(n) = StartById(n)
    BY <1>7 DEF StartOf
  <2>3. OpenAt(n) = <<>>
    BY <1>7 DEF OpenAt, IsOpen, IsEnd
  <2> QED BY <1>2, <1>3, <1>4, <1>7, <2>1, <2>2, <2>3 DEF Pair
<1>8. CASE IsEnd(e) /\ e.id = 0 /\ n # 1 /\ IsOpen(log[n - 1])
  <2>1. OpenAt(n - 1) = <<n - 1>>
    BY <1>8, <1>1 DEF OpenAt
  <2>2. StartOf(n) = n - 1
    BY <1>8, <1>1 DEF StartOf
  <2>3. OpenAt(n) = <<>>
    BY <1>8 DEF OpenAt, IsOpen, IsEnd
  <2>4. _pop_unpaired_start(<<n - 1>>, e) = 1 /\ Without(<<n - 1>>, 1) = <<>>
    BY <1>5, <1>8, <1>1, OneOpen
  <2>5. <<n - 1>>[1] = n - 1
    OBVIOUS
  <2>6. Pair(Closed[n - 1], n) = [open |-> Without(<<n - 1>>, 1),
                                   start |-> Append(st(n - 1), <<n - 1>>[1])]
    <3> DEFINE w == Closed[n - 1]
    <3>1. w.open = <<n - 1>> /\ w.start = st(n - 1) /\ _pop_unpaired_start(w.open, e) = 1
      BY <1>4, <2>1, <2>4
    <3> HIDE DEF w
    <3>2. Pair(w, n) = [open |-> Without(w.open, 1), start |-> Append(w.start, w.open[1])]
      BY <1>8, <3>1, PairPops
    <3> QED BY <3>1, <3>2 DEF w
  <2> QED BY <1>2, <1>3, <2>2, <2>3, <2>4, <2>5, <2>6
<1>9. CASE IsEnd(e) /\ e.id = 0 /\ ~(n # 1 /\ IsOpen(log[n - 1]))
  <2>1. OpenAt(n - 1) = <<>>
    BY <1>9, <1>1 DEF OpenAt
  <2>2. StartOf(n) = 0
    BY <1>9, <1>1 DEF StartOf
  <2>3. OpenAt(n) = <<>>
    BY <1>9 DEF OpenAt, IsOpen, IsEnd
  <2>4. _pop_unpaired_start(<<>>, e) = 0
    BY NoOpen
  <2> QED BY <1>2, <1>3, <1>4, <1>9, <2>1, <2>2, <2>3, <2>4 DEF Pair
<1> QED BY <1>6, <1>7, <1>8, <1>9

\* The loop of the report over the log finds StartOf for every event.
LEMMA PairingIs ==
    ASSUME log \in Seq(Entry), OwnPairs
    PROVE  Pairing = [k \in 1..Len(log) |-> StartOf(k)]
<1>1. Len(log) \in Nat
  OBVIOUS
<1>2. Closed = [n \in 0..Len(log) |->
                  IF n = 0 THEN [open |-> <<>>, start |-> <<>>] ELSE Pair(Closed[n - 1], n)]
  <2>1. Closed[0] = [open |-> <<>>, start |-> <<>>]
    <3>1. [k \in 1..0 |-> StartOf(k)] = <<>> /\ OpenAt(0) = <<>>
      BY DEF OpenAt
    <3> QED BY <3>1, <1>1 DEF Closed
  <2>2. \A n \in 0..Len(log) : n # 0 => Closed[n] = Pair(Closed[n - 1], n)
    <3>1. \A n \in 0..Len(log) : n # 0 => n \in 1..Len(log)
      BY <1>1
    <3> QED BY <3>1, ClosedStep
  <2>3. Closed = [n \in 0..Len(log) |-> Closed[n]]
    BY DEF Closed
  <2> QED BY <2>1, <2>2, <2>3
<1>3. Paired = [n \in 0..Len(log) |->
                  IF n = 0 THEN [open |-> <<>>, start |-> <<>>] ELSE Pair(Paired[n - 1], n)]
  BY <1>2 DEF Paired
<1>4. \A n \in 0..Len(log) : Paired[n] = Closed[n]
  <2> DEFINE T == {n \in 0..Len(log) : Paired[n] = Closed[n]}
  <2>1. 0 \in T
    BY <1>1, <1>2, <1>3
  <2>2. ASSUME NEW n \in 1..Len(log), n - 1 \in T PROVE n \in T
    <3>1. n \in 0..Len(log) /\ n # 0 /\ Paired[n - 1] = Closed[n - 1]
      BY <1>1, <2>2
    <3> QED BY <1>2, <1>3, <3>1
  <2> HIDE DEF T
  <2>3. 0..Len(log) \subseteq T
    BY <1>1, <2>1, <2>2, InductionUpTo
  <2> QED BY <2>3 DEF T
<1>5. Pairing = Closed[Len(log)].start
  BY <1>1, <1>4 DEF Pairing
<1> QED BY <1>1, <1>5 DEF Closed

\* The ends that become a command of the case.
Kept(n) ==
    /\ IsEnd(log[n]) /\ StartOf(n) # 0 /\ log[StartOf(n)].origin = "platform"
    /\ log[n].type = "completed" /\ log[n].status # "failed" /\ ~log[StartOf(n)].redacted

\* One event of the recorder's loop: it keeps such an end and skips any other.
LEMMA CollectStep ==
    ASSUME NEW s, s.secret = FALSE, NEW start, NEW n, start[n] = StartOf(n), ~log[n].replay
    PROVE  _collect_event(s, start, n)
              = IF Kept(n) THEN [commands |-> Append(s.commands, log[n].of), secret |-> FALSE]
                ELSE s
<1>1. CASE Kept(n)
  <2>1. _collect_event(s, start, n) = _collect_harness(s, log[StartOf(n)], log[n])
    BY <1>1 DEF Kept, _collect_event
  <2>2. _collect_harness(s, log[StartOf(n)], log[n])
          = [commands |-> Append(s.commands, log[n].of), secret |-> FALSE]
    BY <1>1 DEF Kept, _collect_harness
  <2> QED BY <1>1, <2>1, <2>2
<1>2. CASE ~Kept(n)
  <2>1. CASE ~IsEnd(log[n]) \/ StartOf(n) = 0 \/ log[StartOf(n)].origin # "platform"
    BY <1>2, <2>1 DEF _collect_event
  <2>2. CASE ~(~IsEnd(log[n]) \/ StartOf(n) = 0 \/ log[StartOf(n)].origin # "platform")
    <3>1. _collect_event(s, start, n) = _collect_harness(s, log[StartOf(n)], log[n])
      BY <2>2 DEF _collect_event
    <3>2. log[n].type # "completed" \/ log[n].status = "failed" \/ log[StartOf(n)].redacted
      BY <1>2, <2>2 DEF Kept
    <3>3. _collect_harness(s, log[StartOf(n)], log[n]) = s
      BY <3>2 DEF _collect_harness
    <3> QED BY <1>2, <3>1, <3>3
  <2> QED BY <1>2, <2>1, <2>2
<1> QED BY <1>1, <1>2

\* The recorder's loop has a value for each prefix of the log.
LEMMA CollectedIs ==
    ASSUME log \in Seq(Entry)
    PROVE  Collected = [n \in 0..Len(log) |->
                          IF n = 0 THEN [commands |-> <<>>, secret |-> FALSE]
                          ELSE _collect_event(Collected[n - 1], Pairing, n)]
<1>1. Len(log) \in Nat
  OBVIOUS
<1> DEFINE T == {m \in 0..Len(log) :
                   \E g : g = [n \in 0..m |-> IF n = 0 THEN [commands |-> <<>>, secret |-> FALSE]
                                              ELSE _collect_event(g[n - 1], Pairing, n)]}
<1>2. 0 \in T
  <2> DEFINE f == [n \in 0..0 |-> [commands |-> <<>>, secret |-> FALSE]]
  <2>1. f = [n \in 0..0 |-> IF n = 0 THEN [commands |-> <<>>, secret |-> FALSE]
                            ELSE _collect_event(f[n - 1], Pairing, n)]
    OBVIOUS
  <2> HIDE DEF f
  <2>2. 0 \in 0..Len(log)
    BY <1>1
  <2> QED BY <2>1, <2>2
<1>3. ASSUME NEW m \in 1..Len(log), m - 1 \in T PROVE m \in T
  <2>1. m \in Nat \ {0} /\ m \in 0..Len(log) /\ m - 1 \in 0..Len(log)
    BY <1>1
  <2>2. PICK g : g = [n \in 0..(m - 1) |-> IF n = 0 THEN [commands |-> <<>>, secret |-> FALSE]
                                           ELSE _collect_event(g[n - 1], Pairing, n)]
    BY <1>3
  <2> DEFINE f == [n \in 0..m |-> IF n = m THEN _collect_event(g[m - 1], Pairing, m) ELSE g[n]]
  <2>3. \A n \in 0..m : f[n] = IF n = 0 THEN [commands |-> <<>>, secret |-> FALSE]
                               ELSE _collect_event(f[n - 1], Pairing, n)
    <3> SUFFICES ASSUME NEW n \in 0..m
                 PROVE  f[n] = IF n = 0 THEN [commands |-> <<>>, secret |-> FALSE]
                               ELSE _collect_event(f[n - 1], Pairing, n)
      OBVIOUS
    <3>1. CASE n = m
      <4>1. f[m - 1] = g[m - 1] /\ f[m] = _collect_event(g[m - 1], Pairing, m)
        BY <2>1
      <4> QED BY <4>1, <3>1, <2>1
    <3>2. CASE n # m /\ n # 0
      <4>1. n \in 0..(m - 1) /\ n - 1 \in 0..m /\ n - 1 # m
        BY <3>2, <2>1
      <4>2. f[n] = g[n] /\ f[n - 1] = g[n - 1]
        BY <4>1, <3>2
      <4>3. g[n] = _collect_event(g[n - 1], Pairing, n)
        BY <2>2, <4>1, <3>2
      <4> QED BY <4>2, <4>3, <3>2
    <3>3. CASE n # m /\ n = 0
      <4>1. 0 \in 0..(m - 1) /\ f[0] = g[0]
        BY <3>3, <2>1
      <4>2. g[0] = [commands |-> <<>>, secret |-> FALSE]
        BY <2>2, <4>1
      <4> QED BY <4>1, <4>2, <3>3
    <3> QED BY <3>1, <3>2, <3>3
  <2>4. f = [n \in 0..m |-> f[n]]
    OBVIOUS
  <2> HIDE DEF f
  <2>5. f = [n \in 0..m |-> IF n = 0 THEN [commands |-> <<>>, secret |-> FALSE]
                            ELSE _collect_event(f[n - 1], Pairing, n)]
    BY <2>3, <2>4
  <2> QED BY <2>1, <2>5
<1>4. Len(log) \in T
  <2>1. \A m \in 1..Len(log) : m - 1 \in T => m \in T
    BY <1>3
  <2> HIDE DEF T
  <2>2. 0..Len(log) \subseteq T
    BY <1>1, <1>2, <2>1, InductionUpTo
  <2>3. Len(log) \in 0..Len(log)
    BY <1>1
  <2> QED BY <2>2, <2>3
<1>5. \E g : g = [n \in 0..Len(log) |-> IF n = 0 THEN [commands |-> <<>>, secret |-> FALSE]
                                        ELSE _collect_event(g[n - 1], Pairing, n)]
  BY <1>4
<1> QED BY <1>5 DEF Collected

\* The commands after n events: those of the kept ends, in increasing order.
Gathers(s, n) ==
    /\ s.secret = FALSE
    /\ s.commands \in Seq(Nat)
    /\ \A k \in 1..Len(s.commands) : \E j \in 1..n : Kept(j) /\ s.commands[k] = log[j].of
    /\ \A j \in 1..n : Kept(j) => \E k \in 1..Len(s.commands) : s.commands[k] = log[j].of
    /\ \A k \in 1..Len(s.commands), l \in 1..Len(s.commands) :
          k < l => s.commands[k] < s.commands[l]

\* A kept end adds the next command.
LEMMA GathersMore ==
    ASSUME NEW n \in Nat \ {0}, NEW s, Gathers(s, n - 1), log[n].of \in Nat, Kept(n),
           \A j \in 1..(n - 1) : Kept(j) => log[j].of < log[n].of
    PROVE  Gathers([commands |-> Append(s.commands, log[n].of), secret |-> FALSE], n)
<1> DEFINE c == s.commands
           cc == Append(c, log[n].of)
<1>1. c \in Seq(Nat)
  BY DEF Gathers
<1>2. Len(c) \in Nat /\ cc \in Seq(Nat) /\ Len(cc) = Len(c) + 1 /\ cc[Len(c) + 1] = log[n].of
      /\ \A k \in 1..Len(c) : cc[k] = c[k]
  <2> HIDE DEF c
  <2> QED BY <1>1
<1>3. \A j \in 1..n : j = n \/ j \in 1..(n - 1)
  OBVIOUS
<1>4. /\ \A k \in 1..Len(c) : \E j \in 1..(n - 1) : Kept(j) /\ c[k] = log[j].of
      /\ \A j \in 1..(n - 1) : Kept(j) => \E k \in 1..Len(c) : c[k] = log[j].of
      /\ \A k \in 1..Len(c), l \in 1..Len(c) : k < l => c[k] < c[l]
  BY DEF Gathers
<1> HIDE DEF c, cc
<1>5. \A k \in 1..Len(cc) : k = Len(c) + 1 \/ k \in 1..Len(c)
  BY <1>2
<1>6. ASSUME NEW k \in 1..Len(cc) PROVE \E j \in 1..n : Kept(j) /\ cc[k] = log[j].of
  <2>1. CASE k = Len(c) + 1
    <3>1. n \in 1..n /\ cc[k] = log[n].of
      BY <1>2, <2>1
    <3> QED BY <3>1
  <2>2. CASE k \in 1..Len(c)
    <3>1. PICK j \in 1..(n - 1) : Kept(j) /\ c[k] = log[j].of
      BY <1>4, <2>2
    <3>2. j \in 1..n /\ cc[k] = log[j].of
      BY <1>2, <2>2, <3>1
    <3> QED BY <3>1, <3>2
  <2> QED BY <1>5, <2>1, <2>2
<1>7. \A j \in 1..n : Kept(j) => \E k \in 1..Len(cc) : cc[k] = log[j].of
  <2>1. Len(c) + 1 \in 1..Len(cc) /\ \A k \in 1..Len(c) : k \in 1..Len(cc)
    BY <1>2
  <2> QED BY <2>1, <1>2, <1>3, <1>4
<1>8. ASSUME NEW k \in 1..Len(cc), NEW l \in 1..Len(cc), k < l PROVE cc[k] < cc[l]
  <2>1. k \in 1..Len(c)
    BY <1>2, <1>8
  <2>2. CASE l = Len(c) + 1
    BY <2>1, <2>2, <1>2, <1>4
  <2>3. CASE l # Len(c) + 1
    BY <2>1, <2>3, <1>2, <1>4, <1>5, <1>8
  <2> QED BY <2>2, <2>3
<1>9. [commands |-> cc, secret |-> FALSE].commands = cc /\ [commands |-> cc, secret |-> FALSE].secret = FALSE
  OBVIOUS
<1>10. Gathers([commands |-> cc, secret |-> FALSE], n)
  BY <1>2, <1>6, <1>7, <1>8, <1>9 DEF Gathers
<1> QED BY <1>10 DEF c, cc

\* Any other event adds none.
LEMMA GathersSame ==
    ASSUME NEW n \in Nat \ {0}, NEW s, Gathers(s, n - 1), ~Kept(n)
    PROVE  Gathers(s, n)
<1>1. \A j \in 1..n : j = n \/ j \in 1..(n - 1)
  OBVIOUS
<1>2. \A j \in 1..(n - 1) : j \in 1..n
  OBVIOUS
<1> QED BY <1>1, <1>2 DEF Gathers

\* What the recorder's loop has gathered at the end of the log.
LEMMA CollectIs ==
    ASSUME log \in Seq(Entry), OwnPairs,
           \A n \in 1..Len(log) : ~log[n].replay,
           \A i \in 1..Len(log), j \in 1..Len(log) :
              Kept(i) /\ Kept(j) /\ i < j => log[i].of < log[j].of
    PROVE  Gathers([commands |-> collect, secret |-> FALSE], Len(log))
<1>1. Len(log) \in Nat /\ \A n \in 1..Len(log) : log[n].of \in Nat /\ log[n].redacted \in BOOLEAN
  <2>1. \A n \in 1..Len(log) : log[n] \in Entry
    OBVIOUS
  <2> QED BY <2>1 DEF Entry
<1>2. Pairing = [k \in 1..Len(log) |-> StartOf(k)]
  BY PairingIs
<1> DEFINE T == {n \in 0..Len(log) : Gathers(Collected[n], n)}
<1>3. 0 \in T
  <2>1. Collected[0] = [commands |-> <<>>, secret |-> FALSE]
    BY <1>1, CollectedIs
  <2>2. Gathers([commands |-> <<>>, secret |-> FALSE], 0)
    BY DEF Gathers
  <2> QED BY <1>1, <2>1, <2>2
<1>4. ASSUME NEW n \in 1..Len(log), n - 1 \in T PROVE n \in T
  <2>1. n \in Nat \ {0} /\ n \in 0..Len(log) /\ Gathers(Collected[n - 1], n - 1)
    BY <1>1, <1>4
  <2>2. Collected[n] = _collect_event(Collected[n - 1], Pairing, n)
    BY <2>1, CollectedIs
  <2>3. Pairing[n] = StartOf(n) /\ ~log[n].replay /\ Collected[n - 1].secret = FALSE
    BY <1>2, <2>1 DEF Gathers
  <2>4. CASE Kept(n)
    <3>2. Collected[n] = [commands |-> Append(Collected[n - 1].commands, log[n].of),
                          secret |-> FALSE]
      BY <2>2, <2>3, <2>4, CollectStep
    <3>3. \A j \in 1..(n - 1) : Kept(j) => log[j].of < log[n].of
      BY <1>1, <2>4
    <3>4. log[n].of \in Nat
      BY <1>1
    <3> QED BY <2>1, <2>4, <3>2, <3>3, <3>4, GathersMore
  <2>5. CASE ~Kept(n)
    BY <2>1, <2>2, <2>3, <2>5, CollectStep, GathersSame
  <2> QED BY <2>4, <2>5
<1>5. Gathers(Collected[Len(log)], Len(log))
  <2> HIDE DEF T
  <2>1. 0..Len(log) \subseteq T
    BY <1>1, <1>3, <1>4, InductionUpTo
  <2> QED BY <1>1, <2>1 DEF T
<1> QED BY <1>5 DEF Gathers, collect

-----------------------------------------------------------------------------
(* The log during a run *)

\* The log as it will be when the consumer has taken what waits in the queue.
StreamOf(l, q) ==
    [p \in 1..(Len(l) + Len(q)) |->
        IF p <= Len(l) THEN l[p] ELSE _map_stream_event(q[p - Len(l)])]

\* It is the log followed by the mapped events.
LEMMA StreamIs ==
    ASSUME NEW l \in Seq(Entry), NEW q \in Seq(SdkEvent)
    PROVE  /\ Len(StreamOf(l, q)) = Len(l) + Len(q)
           /\ \A p \in 1..Len(l) : StreamOf(l, q)[p] = l[p]
           /\ \A p \in 1..Len(q) : StreamOf(l, q)[Len(l) + p] = _map_stream_event(q[p])
           /\ StreamOf(l, q) \in Seq(Entry)
<1>1. Len(l) \in Nat /\ Len(q) \in Nat /\ Len(l) + Len(q) \in Nat
  OBVIOUS
<1>2. ASSUME NEW e \in SdkEvent PROVE _map_stream_event(e) \in Entry
  BY DEF _map_stream_event, _tool_origin, SdkEvent, Entry
<1>3. ASSUME NEW p \in 1..(Len(l) + Len(q)) PROVE StreamOf(l, q)[p] \in Entry
  <2>1. CASE p <= Len(l)
    BY <1>1, <2>1 DEF StreamOf
  <2>2. CASE ~(p <= Len(l))
    <3>1. p - Len(l) \in 1..Len(q)
      BY <1>1, <2>2
    <3>2. q[p - Len(l)] \in SdkEvent
      BY <3>1
    <3>3. StreamOf(l, q)[p] = _map_stream_event(q[p - Len(l)])
      BY <2>2 DEF StreamOf
    <3> QED BY <1>2, <3>2, <3>3
  <2> QED BY <2>1, <2>2
<1>4. StreamOf(l, q) \in [1..(Len(l) + Len(q)) -> Entry]
  BY <1>3 DEF StreamOf
<1>5. \A p \in 1..Len(q) : StreamOf(l, q)[Len(l) + p] = _map_stream_event(q[p])
  <2> TAKE p \in 1..Len(q)
  <2>1. Len(l) + p \in 1..(Len(l) + Len(q)) /\ ~(Len(l) + p <= Len(l)) /\ Len(l) + p - Len(l) = p
    BY <1>1
  <2> QED BY <2>1 DEF StreamOf
<1>6. \A p \in 1..Len(l) : StreamOf(l, q)[p] = l[p]
  BY <1>1 DEF StreamOf
<1>7. StreamOf(l, q) \in Seq(Entry) /\ Len(StreamOf(l, q)) = Len(l) + Len(q)
  <2> DEFINE f == StreamOf(l, q)
  <2> HIDE DEF f
  <2>1. f \in [1..(Len(l) + Len(q)) -> Entry]
    BY <1>4 DEF f
  <2>2. f \in Seq(Entry) /\ Len(f) = Len(l) + Len(q)
    BY <1>1, <2>1, SeqOfFunction
  <2> QED BY <2>2 DEF f
<1> QED BY <1>5, <1>6, <1>7

\* Consuming an event does not change it.
LEMMA ConsumedSame ==
    ASSUME NEW l \in Seq(Entry), NEW q \in Seq(SdkEvent), q # <<>>
    PROVE  StreamOf(Append(l, _map_stream_event(Head(q))), Tail(q)) = StreamOf(l, q)
<1> DEFINE e == _map_stream_event(Head(q))
<1>1. /\ Len(l) \in Nat /\ Len(q) \in Nat /\ Len(q) >= 1 /\ Head(q) = q[1]
      /\ Len(Tail(q)) = Len(q) - 1
      /\ \A i \in 1..(Len(q) - 1) : Tail(q)[i] = q[i + 1]
  OBVIOUS
<1>2. /\ Len(Append(l, e)) = Len(l) + 1 /\ Append(l, e)[Len(l) + 1] = e
      /\ \A i \in 1..Len(l) : Append(l, e)[i] = l[i]
  <2> HIDE DEF e
  <2> QED OBVIOUS
<1>3. Len(Append(l, e)) + Len(Tail(q)) = Len(l) + Len(q)
  BY <1>1, <1>2
<1>4. ASSUME NEW p \in 1..(Len(l) + Len(q))
      PROVE  (IF p <= Len(Append(l, e)) THEN Append(l, e)[p]
              ELSE _map_stream_event(Tail(q)[p - Len(Append(l, e))]))
             = (IF p <= Len(l) THEN l[p] ELSE _map_stream_event(q[p - Len(l)]))
  <2>1. CASE p <= Len(l)
    BY <1>1, <1>2, <2>1
  <2>2. CASE p = Len(l) + 1
    <3>1. p - Len(l) = 1 /\ ~(p <= Len(l)) /\ p <= Len(Append(l, e))
      BY <1>1, <1>2, <2>2
    <3> QED BY <1>1, <1>2, <2>2, <3>1
  <2>3. CASE p > Len(l) + 1
    <3>1. /\ p - Len(Append(l, e)) \in 1..(Len(q) - 1)
          /\ p - Len(Append(l, e)) + 1 = p - Len(l) /\ ~(p <= Len(l)) /\ ~(p <= Len(Append(l, e)))
      BY <1>1, <1>2, <2>3
    <3>2. Tail(q)[p - Len(Append(l, e))] = q[p - Len(l)]
      BY <1>1, <3>1
    <3> QED BY <3>1, <3>2
  <2> QED BY <1>1, <2>1, <2>2, <2>3
<1> HIDE DEF e
<1>5. StreamOf(Append(l, e), Tail(q)) = StreamOf(l, q)
  BY <1>3, <1>4 DEF StreamOf
<1> QED BY <1>5 DEF e

\* Events put into the queue are at its end,
LEMMA AskedAppends ==
    ASSUME NEW l \in Seq(Entry), NEW q \in Seq(SdkEvent), NEW a \in Seq(SdkEvent),
           NEW c, Len(c) \in Nat, NEW r, Len(r) = Len(a),
           \A i \in 1..Len(a) : a[i].name = "tool_called" /\ a[i].call = Len(c) + i
                                /\ a[i].tool = r[i].tool /\ a[i].redacted = r[i].redacted
    PROVE  AsksMore(StreamOf(l, q), StreamOf(l, q \o a), c, r)
<1> DEFINE s == StreamOf(l, q)
           t == StreamOf(l, q \o a)
<1>1. /\ Len(l) \in Nat /\ Len(q) \in Nat /\ Len(a) \in Nat
      /\ q \o a \in Seq(SdkEvent) /\ Len(q \o a) = Len(q) + Len(a)
      /\ \A i \in 1..Len(q) : (q \o a)[i] = q[i]
      /\ \A i \in 1..Len(a) : (q \o a)[Len(q) + i] = a[i]
  OBVIOUS
<1>2. /\ Len(s) = Len(l) + Len(q) /\ \A p \in 1..Len(l) : s[p] = l[p]
      /\ \A p \in 1..Len(q) : s[Len(l) + p] = _map_stream_event(q[p])
  BY StreamIs
<1>3. /\ Len(t) = Len(l) + Len(q \o a) /\ \A p \in 1..Len(l) : t[p] = l[p]
      /\ \A p \in 1..Len(q \o a) : t[Len(l) + p] = _map_stream_event((q \o a)[p])
  BY <1>1, StreamIs
<1> HIDE DEF s, t
<1>4. ASSUME NEW p \in 1..Len(s) PROVE t[p] = s[p]
  <2>1. CASE p <= Len(l)
    BY <1>1, <1>2, <1>3, <2>1
  <2>2. CASE ~(p <= Len(l))
    <3>1. p - Len(l) \in 1..Len(q) /\ p - Len(l) \in 1..Len(q \o a) /\ Len(l) + (p - Len(l)) = p
      BY <1>1, <1>2, <2>2
    <3>2. t[Len(l) + (p - Len(l))] = _map_stream_event((q \o a)[p - Len(l)])
      BY <1>3, <3>1
    <3>3. s[Len(l) + (p - Len(l))] = _map_stream_event(q[p - Len(l)])
      BY <1>2, <3>1
    <3>4. (q \o a)[p - Len(l)] = q[p - Len(l)]
      BY <1>1, <3>1
    <3> QED BY <3>1, <3>2, <3>3, <3>4
  <2> QED BY <2>1, <2>2
<1>5. ASSUME NEW p \in (Len(s) + 1)..Len(t)
      PROVE  /\ t[p].type = "started" /\ t[p].id = Len(c) + (p - Len(s))
             /\ t[p].tool = r[p - Len(s)].tool /\ t[p].redacted = r[p - Len(s)].redacted
  <2>1. /\ p - Len(s) \in 1..Len(a) /\ Len(q) + (p - Len(s)) \in 1..Len(q \o a)
        /\ Len(l) + (Len(q) + (p - Len(s))) = p
    BY <1>1, <1>2, <1>3
  <2>2. t[p] = _map_stream_event(a[p - Len(s)])
    BY <1>1, <1>3, <2>1
  <2>3. a[p - Len(s)].name = "tool_called" /\ a[p - Len(s)].call = Len(c) + (p - Len(s))
        /\ a[p - Len(s)].tool = r[p - Len(s)].tool /\ a[p - Len(s)].redacted = r[p - Len(s)].redacted
    BY <2>1
  <2> QED BY <2>2, <2>3 DEF _map_stream_event
<1>6. AsksMore(s, t, c, r)
  BY <1>1, <1>2, <1>3, <1>4, <1>5 DEF AsksMore
<1> QED BY <1>6 DEF s, t

\* and those emitted by a handler come before what waits in the queue.
LEMMA AnswerAppends ==
    ASSUME NEW l \in Seq(Entry), NEW q \in Seq(SdkEvent), NEW v \in Seq(Entry),
           NEW a \in SdkEvent, NEW cc,
           \A i \in 1..Len(v) : v[i].id = 0,
           a.name = "tool_output", a.call = Len(cc), a.status = cc[Len(cc)].status
    PROVE  AnswersOne(StreamOf(l, q), StreamOf(l \o v, Append(q, a)), Len(l), Len(v), cc)
<1> DEFINE s == StreamOf(l, q)
           qq == Append(q, a)
           ll == l \o v
           t == StreamOf(ll, qq)
<1>1. /\ Len(l) \in Nat /\ Len(q) \in Nat /\ Len(v) \in Nat
      /\ qq \in Seq(SdkEvent) /\ Len(qq) = Len(q) + 1 /\ qq[Len(q) + 1] = a
      /\ \A i \in 1..Len(q) : qq[i] = q[i]
      /\ ll \in Seq(Entry) /\ Len(ll) = Len(l) + Len(v)
      /\ \A i \in 1..Len(l) : ll[i] = l[i]
      /\ \A i \in 1..Len(v) : ll[Len(l) + i] = v[i]
  OBVIOUS
<1>2. /\ Len(s) = Len(l) + Len(q) /\ \A p \in 1..Len(l) : s[p] = l[p]
      /\ \A p \in 1..Len(q) : s[Len(l) + p] = _map_stream_event(q[p])
  BY StreamIs
<1> HIDE DEF ll, qq
<1>3. /\ Len(t) = Len(ll) + Len(qq) /\ \A p \in 1..Len(ll) : t[p] = ll[p]
      /\ \A p \in 1..Len(qq) : t[Len(ll) + p] = _map_stream_event(qq[p])
  BY <1>1, StreamIs
<1> HIDE DEF s, t
<1>4. Len(l) \in 0..Len(s) /\ Len(t) = Len(s) + Len(v) + 1
  BY <1>1, <1>2, <1>3
<1>5. \A p \in 1..Len(l) : t[p] = s[p]
  BY <1>1, <1>2, <1>3
<1>6. ASSUME NEW p \in (Len(l) + 1)..(Len(l) + Len(v)) PROVE t[p].id = 0
  <2>1. p - Len(l) \in 1..Len(v) /\ p \in 1..Len(ll) /\ Len(l) + (p - Len(l)) = p
    BY <1>1
  <2>2. ll[Len(l) + (p - Len(l))] = v[p - Len(l)]
    BY <1>1, <2>1
  <2> QED BY <1>3, <2>1, <2>2
<1>7. ASSUME NEW p \in (Len(l) + Len(v) + 1)..(Len(s) + Len(v)) PROVE t[p] = s[p - Len(v)]
  <2> DEFINE i == p - Len(ll)
  <2>1. i \in 1..Len(q) /\ i \in 1..Len(qq) /\ Len(ll) + i = p /\ Len(l) + i = p - Len(v)
    BY <1>1, <1>2
  <2> HIDE DEF i
  <2>2. t[Len(ll) + i] = _map_stream_event(qq[i]) /\ s[Len(l) + i] = _map_stream_event(q[i])
    BY <1>2, <1>3, <2>1
  <2>3. qq[i] = q[i]
    BY <1>1, <2>1
  <2> QED BY <2>1, <2>2, <2>3
<1>8. t[Len(t)].type # "started" /\ t[Len(t)].id = Len(cc) /\ t[Len(t)].status = cc[Len(cc)].status
  <2>1. Len(q) + 1 \in 1..Len(qq) /\ Len(ll) + (Len(q) + 1) = Len(t)
    BY <1>1, <1>3
  <2>2. t[Len(t)] = _map_stream_event(a)
    BY <1>1, <1>3, <2>1
  <2> QED BY <2>2 DEF _map_stream_event
<1>9. AnswersOne(s, t, Len(l), Len(v), cc)
  BY <1>1, <1>4, <1>5, <1>6, <1>7, <1>8 DEF AnswersOne
<1> QED BY <1>9 DEF s, t, ll, qq

\* An entry names no replay policy; without id it is an AgentTool's own.
Plain(e) ==
    /\ ~e.replay
    /\ e.id = 0 => e.origin = "agent_tool"
    /\ e.id # 0 => e.of = e.id /\ e.origin = _tool_origin(e.tool) /\ e.type # "failed"

\* What the log and the queue are made of.
LogShape ==
    /\ \A i \in 1..Len(queue) : queue[i].call # 0
    /\ \A n \in 1..Len(log) : Plain(log[n])
    /\ OwnPairs

\* Both writers of the log keep the order of the calls.
Flow ==
    /\ StartsInOrder(StreamOf(log, queue), calls, pending)
    /\ EndsInOrder(StreamOf(log, queue), calls)
    /\ pc # "failed" => Complete(StreamOf(log, queue), calls, pending)

\* A case is recorded only when the run is over, and nothing waits then.
Recorded ==
    /\ recording # "none" => pc \in {"ended", "failed"}
    /\ pc = "ended" => queue = <<>>
    /\ RecordedInOrder

\* The types that the proofs below use.
LEMMA Typed ==
    ASSUME TypeOK
    PROVE  /\ log \in Seq(Entry) /\ queue \in Seq(SdkEvent) /\ Len(log) \in Nat /\ Len(queue) \in Nat
           /\ calls \in Seq(Call) /\ pending \in Seq(Request) /\ Len(calls) \in Nat
           /\ Len(pending) \in Nat
           /\ Lengths(StreamOf(log, queue), calls, pending)
<1>1. log \in Seq(Entry) /\ queue \in Seq(SdkEvent) /\ calls \in Seq(Call) /\ pending \in Seq(Request)
  BY DEF TypeOK
<1>2. StreamOf(log, queue) \in Seq(Entry)
  BY <1>1, StreamIs
<1>3. \A p \in 1..Len(StreamOf(log, queue)) : StreamOf(log, queue)[p].id \in Nat
  <2>1. \A p \in 1..Len(StreamOf(log, queue)) : StreamOf(log, queue)[p] \in Entry
    BY <1>2
  <2> QED BY <2>1 DEF Entry
<1> QED BY <1>1, <1>2, <1>3 DEF Lengths

\* An answer in the log has one start before it, the one with its id.
LEMMA StartByIdIs ==
    ASSUME TypeOK, Flow, NEW n \in 1..Len(log), IsAnswer(log[n])
    PROVE  /\ StartById(n) \in 1..(n - 1)
           /\ IsStart(log[StartById(n)]) /\ log[StartById(n)].id = log[n].id
           /\ log[n].id \in 1..Len(calls)
           /\ log[n].status = calls[log[n].id].status
           /\ log[StartById(n)].tool = calls[log[n].id].tool
           /\ log[StartById(n)].redacted = calls[log[n].id].redacted
           /\ \A j \in 1..(log[n].id - 1) : \E q \in 1..(n - 1) : IsAnswer(log[q]) /\ log[q].id = j
<1> DEFINE s == StreamOf(log, queue)
<1>1. /\ Len(s) = Len(log) + Len(queue) /\ \A p \in 1..Len(log) : s[p] = log[p] /\ p \in 1..Len(s)
      /\ Len(log) \in Nat /\ Len(calls) \in Nat /\ Len(pending) \in Nat
  <2>1. \A p \in 1..Len(log) : p \in 1..(Len(log) + Len(queue))
    BY Typed
  <2> QED BY <2>1, Typed, StreamIs
<1>2. n \in 1..Len(s) /\ s[n] = log[n] /\ \A q \in 1..(n - 1) : s[q] = log[q] /\ q \in 1..Len(log)
  BY <1>1
<1>3. EndFits(s, n, calls)
  BY <1>2 DEF Flow, EndsInOrder
<1>4. log[n].id \in Nat
  <2>1. log[n] \in Entry
    BY Typed
  <2> QED BY <2>1 DEF Entry
<1>5. log[n].id \in 1..Len(calls) /\ log[n].id <= Len(calls) + Len(pending) /\ log[n].id <= Len(calls)
  BY <1>1, <1>2, <1>3, <1>4 DEF EndFits, IsAnswer
<1>6. PICK k \in 1..(n - 1) : IsStart(log[k]) /\ log[k].id = log[n].id
  BY <1>2, <1>3 DEF EndFits
<1>7. ASSUME NEW l \in 1..(n - 1), log[l].type = "started", log[l].id = log[n].id
      PROVE  l = k
  <2>1. k \in 1..Len(s) /\ l \in 1..Len(s) /\ s[k] = log[k] /\ s[l] = log[l] /\ k \in Nat /\ l \in Nat
    BY <1>1, <1>2
  <2>2. IsStart(s[l]) /\ IsStart(s[k]) /\ s[k].id = s[l].id /\ s[k].id <= Len(calls) + Len(pending)
    BY <1>5, <1>6, <1>7, <2>1 DEF IsStart
  <2>3. StartsInOrder(s, calls, pending)
    BY DEF Flow
  <2>4. s[k].id \in Nat
    BY <1>4, <1>6, <2>1
  <2> HIDE DEF s
  <2>5. ~(l < k) /\ ~(k < l)
    BY <2>1, <2>2, <2>3, <2>4 DEF StartsInOrder
  <2> QED BY <2>1, <2>5
<1>8. StartById(n) = k
  <2> DEFINE S == {l \in 1..(n - 1) : log[l].type = "started" /\ log[l].id = log[n].id}
  <2>1. S = {k}
    BY <1>6, <1>7 DEF IsStart
  <2>2. StartById(n) = IF S = {} THEN 0 ELSE CHOOSE i \in S : \A l \in S : l <= i
    BY DEF StartById
  <2> HIDE DEF S
  <2> QED BY <2>1, <2>2
<1>9. log[k].tool = calls[log[n].id].tool /\ log[k].redacted = calls[log[n].id].redacted
  <2>1. k \in 1..Len(s) /\ s[k] = log[k]
    BY <1>1, <1>2
  <2>2. s[k].tool = Asks(calls, pending, s[k].id).tool /\ s[k].redacted = Asks(calls, pending, s[k].id).redacted
    BY <1>5, <1>6, <2>1 DEF Flow, StartsInOrder
  <2> QED BY <1>5, <1>6, <2>1, <2>2 DEF Asks
<1>10. log[n].status = calls[log[n].id].status
  BY <1>2, <1>3 DEF EndFits
<1>11. \A j \in 1..(log[n].id - 1) : \E q \in 1..(n - 1) : IsAnswer(log[q]) /\ log[q].id = j
  BY <1>2, <1>3 DEF EndFits
<1> QED BY <1>5, <1>6, <1>8, <1>9, <1>10, <1>11

\* The kept ends are the answers to the calls that a case can repeat.
LEMMA KeptIs ==
    ASSUME TypeOK, Flow, LogShape, NEW n \in 1..Len(log)
    PROVE  Kept(n) <=> IsAnswer(log[n]) /\ log[n].id \in Replayable
<1>1. log[n] \in Entry /\ Plain(log[n])
  BY Typed DEF LogShape
<1>2. CASE IsAnswer(log[n])
  <2>1. StartOf(n) = StartById(n) /\ IsEnd(log[n]) /\ log[n].type = "completed"
    BY <1>1, <1>2 DEF IsAnswer, IsEnd, StartOf, Plain, Entry
  <2>2. /\ StartById(n) \in 1..(n - 1)
        /\ IsStart(log[StartById(n)]) /\ log[StartById(n)].id = log[n].id
        /\ log[n].id \in 1..Len(calls)
        /\ log[n].status = calls[log[n].id].status
        /\ log[StartById(n)].tool = calls[log[n].id].tool
        /\ log[StartById(n)].redacted = calls[log[n].id].redacted
    BY <1>2, StartByIdIs
  <2>3. StartById(n) # 0 /\ StartById(n) \in 1..Len(log)
    BY <2>2, Typed
  <2>4. log[StartById(n)].origin = _tool_origin(calls[log[n].id].tool)
    BY <2>2, <2>3 DEF LogShape, Plain, IsStart
  <2>5. calls[log[n].id].status \in {"passed", "failed"}
    <3>1. calls[log[n].id] \in Call
      BY <2>2, Typed
    <3> QED BY <3>1 DEF Call
  <2> QED BY <1>2, <2>1, <2>2, <2>3, <2>4, <2>5 DEF Kept, Replayable
<1>3. CASE ~IsAnswer(log[n])
  <2>1. ASSUME Kept(n) PROVE FALSE
    <3>1. IsEnd(log[n]) /\ log[n].id = 0
      BY <1>3, <2>1 DEF Kept, IsAnswer, IsEnd
    <3>2. StartOf(n) = n - 1 /\ n > 1 /\ IsOpen(log[n - 1])
      BY <2>1, <3>1 DEF StartOf, Kept
    <3>3. n - 1 \in 1..Len(log)
      BY <3>2, Typed
    <3>4. log[n - 1].origin = "agent_tool"
      BY <3>2, <3>3 DEF LogShape, Plain, IsOpen
    <3> QED BY <2>1, <3>2, <3>4 DEF Kept
  <2> QED BY <1>3, <2>1
<1> QED BY <1>2, <1>3

\* Answers in the log come in the order of their ids.
LEMMA AnswersIncrease ==
    ASSUME TypeOK, Flow, NEW m \in 1..Len(log), NEW n \in 1..Len(log),
           IsAnswer(log[m]), IsAnswer(log[n]), m < n
    PROVE  log[m].id < log[n].id
<1>1. /\ Len(StreamOf(log, queue)) = Len(log) + Len(queue)
      /\ \A p \in 1..Len(log) : StreamOf(log, queue)[p] = log[p]
      /\ Len(log) \in Nat /\ Len(queue) \in Nat
  BY Typed, StreamIs
<1>2. m \in 1..Len(StreamOf(log, queue)) /\ n \in 1..Len(StreamOf(log, queue))
  BY <1>1
<1> QED BY <1>1, <1>2 DEF Flow, EndsInOrder

\* What is recorded from such a log.
LEMMA RecordsInOrder ==
    ASSUME TypeOK, Flow, LogShape, pc = "ended" => queue = <<>>, pc \in {"ended", "failed"}
    PROVE  /\ collect \in Seq(Nat)
           /\ \A k \in 1..Len(collect), l \in 1..Len(collect) : k < l => collect[k] < collect[l]
           /\ {collect[k] : k \in 1..Len(collect)} \subseteq Replayable
           /\ \A i \in Replayable \ {collect[k] : k \in 1..Len(collect)} :
                 pc # "ended" /\ \A j \in {collect[k] : k \in 1..Len(collect)} : j < i
<1>1. log \in Seq(Entry) /\ Len(log) \in Nat /\ Len(calls) \in Nat /\ Len(queue) \in Nat
  BY Typed
<1>2. \A n \in 1..Len(log) : Kept(n) => IsAnswer(log[n]) /\ log[n].id \in Replayable /\ log[n].of = log[n].id
  BY KeptIs DEF LogShape, Plain, IsAnswer
<1>3. Gathers([commands |-> collect, secret |-> FALSE], Len(log))
  <2>1. \A n \in 1..Len(log) : ~log[n].replay
    BY DEF LogShape, Plain
  <2>2. ASSUME NEW i \in 1..Len(log), NEW j \in 1..Len(log), Kept(i), Kept(j), i < j
        PROVE  log[i].of < log[j].of
    BY <1>2, <2>2, AnswersIncrease
  <2>3. OwnPairs
    BY DEF LogShape
  <2> QED BY <1>1, <2>1, <2>2, <2>3, CollectIs
<1>4. /\ collect \in Seq(Nat)
      /\ \A k \in 1..Len(collect) : \E j \in 1..Len(log) : Kept(j) /\ collect[k] = log[j].of
      /\ \A j \in 1..Len(log) : Kept(j) => \E k \in 1..Len(collect) : collect[k] = log[j].of
      /\ \A k \in 1..Len(collect), l \in 1..Len(collect) : k < l => collect[k] < collect[l]
  BY <1>3 DEF Gathers
<1>5. \A k \in 1..Len(collect) : collect[k] \in Replayable
  BY <1>2, <1>4
<1>6. ASSUME NEW i \in Replayable, NEW p \in 1..Len(log), IsAnswer(log[p]), log[p].id = i
      PROVE  \E k \in 1..Len(collect) : collect[k] = i
  <2>1. Kept(p)
    BY <1>6, KeptIs
  <2> QED BY <1>2, <1>4, <1>6, <2>1
<1>7. Replayable \subseteq 1..Len(calls)
  BY DEF Replayable
<1>8. ASSUME NEW i \in Replayable, \A k \in 1..Len(collect) : collect[k] # i
      PROVE  pc # "ended"
  <2> SUFFICES ASSUME pc = "ended" PROVE FALSE
    OBVIOUS
  <2>1. /\ Len(StreamOf(log, queue)) = Len(log)
        /\ \A p \in 1..Len(log) : StreamOf(log, queue)[p] = log[p]
    <3>1. Len(queue) = 0 /\ queue \in Seq(SdkEvent)
      BY Typed
    <3>2. /\ Len(StreamOf(log, queue)) = Len(log) + Len(queue)
          /\ \A p \in 1..Len(log) : StreamOf(log, queue)[p] = log[p]
      BY <1>1, <3>1, StreamIs
    <3> QED BY <1>1, <3>1, <3>2
  <2>2. PICK p \in 1..Len(log) : IsAnswer(log[p]) /\ log[p].id = i
    <3>1. Complete(StreamOf(log, queue), calls, pending) /\ i \in 1..Len(calls)
      BY <1>7 DEF Flow
    <3> QED BY <2>1, <3>1 DEF Complete
  <2> QED BY <1>6, <1>8, <2>2
<1>9. ASSUME NEW i \in Replayable, \A k \in 1..Len(collect) : collect[k] # i,
             NEW k \in 1..Len(collect)
      PROVE  collect[k] < i
  <2>1. PICK n \in 1..Len(log) : Kept(n) /\ collect[k] = log[n].of
    BY <1>4
  <2>2. IsAnswer(log[n]) /\ collect[k] = log[n].id
    BY <1>2, <2>1
  <2>3. /\ log[n].id \in 1..Len(calls)
        /\ \A j \in 1..(log[n].id - 1) : \E q \in 1..(n - 1) : IsAnswer(log[q]) /\ log[q].id = j
    BY <2>2, StartByIdIs
  <2>4. i \in 1..Len(calls) /\ i # collect[k]
    BY <1>7, <1>9
  <2>5. ~(i < log[n].id)
    <3> SUFFICES ASSUME i < log[n].id PROVE FALSE
      OBVIOUS
    <3>1. i \in 1..(log[n].id - 1)
      BY <1>1, <2>3, <2>4
    <3>2. PICK q \in 1..(n - 1) : IsAnswer(log[q]) /\ log[q].id = i
      BY <2>3, <3>1
    <3>3. q \in 1..Len(log)
      BY <1>1
    <3> QED BY <1>6, <1>9, <3>2, <3>3
  <2> QED BY <1>1, <2>2, <2>3, <2>4, <2>5
<1> QED BY <1>4, <1>5, <1>8, <1>9


\* Two logs of pairs joined are a log of pairs,
LEMMA PairsJoin ==
    ASSUME NEW l \in Seq(Entry), NEW v \in Seq(Entry), PairsIn(l), PairsIn(v)
    PROVE  PairsIn(l \o v)
<1> DEFINE w == l \o v
<1>1. /\ Len(l) \in Nat /\ Len(v) \in Nat /\ Len(w) = Len(l) + Len(v)
      /\ \A i \in 1..Len(l) : w[i] = l[i]
      /\ \A i \in 1..Len(v) : w[Len(l) + i] = v[i]
  OBVIOUS
<1> HIDE DEF w
<1>2. ASSUME NEW n \in 1..Len(w), IsOpen(w[n])
      PROVE  /\ n < Len(w) /\ w[n + 1].id = 0 /\ IsEnd(w[n + 1])
             /\ w[n + 1].tool = w[n].tool /\ w[n + 1].of = w[n].of
  <2>1. CASE n <= Len(l)
    <3>1. n \in 1..Len(l) /\ w[n] = l[n]
      BY <1>1, <2>1
    <3>2. n < Len(l) /\ l[n + 1].id = 0 /\ IsEnd(l[n + 1])
          /\ l[n + 1].tool = l[n].tool /\ l[n + 1].of = l[n].of
      BY <1>2, <3>1 DEF PairsIn
    <3>3. n + 1 \in 1..Len(l) /\ n < Len(w)
      BY <1>1, <3>1, <3>2
    <3> QED BY <1>1, <3>1, <3>2, <3>3
  <2>2. CASE ~(n <= Len(l))
    <3> DEFINE i == n - Len(l)
    <3>1. i \in 1..Len(v) /\ Len(l) + i = n
      BY <1>1, <2>2
    <3> HIDE DEF i
    <3>2. w[n] = v[i]
      BY <1>1, <3>1
    <3>3. i < Len(v) /\ v[i + 1].id = 0 /\ IsEnd(v[i + 1])
          /\ v[i + 1].tool = v[i].tool /\ v[i + 1].of = v[i].of
      BY <1>2, <3>1, <3>2 DEF PairsIn
    <3>4. i + 1 \in 1..Len(v) /\ Len(l) + (i + 1) = n + 1 /\ n < Len(w)
      <4>1. Len(l) \in Nat /\ Len(v) \in Nat /\ Len(w) = Len(l) + Len(v) /\ i < Len(v) /\ n \in Nat
        BY <1>1, <3>3
      <4> QED BY <3>1, <4>1
    <3>5. w[n + 1] = v[i + 1]
      <4>1. w[Len(l) + (i + 1)] = v[i + 1]
        BY <1>1, <3>4
      <4> QED BY <3>4, <4>1
    <3> QED BY <3>2, <3>3, <3>4, <3>5
  <2> QED BY <2>1, <2>2
<1>3. PairsIn(w)
  BY <1>2 DEF PairsIn
<1> QED BY <1>3 DEF w

\* and of plain entries.
LEMMA ShapeGrows ==
    ASSUME NEW l \in Seq(Entry), NEW v \in Seq(Entry), PairsIn(l), PairsIn(v),
           \A n \in 1..Len(l) : Plain(l[n]), \A n \in 1..Len(v) : Plain(v[n])
    PROVE  PairsIn(l \o v) /\ \A n \in 1..Len(l \o v) : Plain((l \o v)[n])
<1> DEFINE w == l \o v
<1>1. /\ Len(l) \in Nat /\ Len(v) \in Nat /\ Len(w) = Len(l) + Len(v)
      /\ \A i \in 1..Len(l) : w[i] = l[i]
      /\ \A i \in 1..Len(v) : w[Len(l) + i] = v[i]
  OBVIOUS
<1>2. PairsIn(w)
  BY PairsJoin
<1> HIDE DEF w
<1>3. ASSUME NEW n \in 1..Len(w) PROVE Plain(w[n])
  <2>1. CASE n <= Len(l)
    BY <1>1, <2>1
  <2>2. CASE ~(n <= Len(l))
    <3>1. n - Len(l) \in 1..Len(v) /\ Len(l) + (n - Len(l)) = n
      BY <1>1, <2>2
    <3>2. w[n] = v[n - Len(l)]
      BY <1>1, <3>1
    <3> QED BY <3>1, <3>2
  <2> QED BY <2>1, <2>2
<1> QED BY <1>2, <1>3 DEF w

\* What the handlers of the AgentTools emit.
LEMMA EmittedShape ==
    ASSUME TypeOK, pc = "tools", NEW type \in {"completed", "failed"},
           NEW v, v = <<Started, Emitted(type, "none")>> \/ v = <<Emitted(type, "none")>>
    PROVE  v \in Seq(Entry) /\ PairsIn(v) /\ \A n \in 1..Len(v) : Plain(v[n]) /\ v[n].id = 0
<1>1. Started \in Entry /\ Emitted(type, "none") \in Entry
  BY EntryTyped DEF Started
<1>2. /\ Started.type = "started" /\ Started.id = 0 /\ Emitted(type, "none").type = type
      /\ Emitted(type, "none").id = 0 /\ Emitted(type, "none").tool = Started.tool
      /\ Emitted(type, "none").of = Started.of
      /\ ~Started.replay /\ ~Emitted(type, "none").replay
      /\ Started.origin = "agent_tool" /\ Emitted(type, "none").origin = "agent_tool"
  BY DEF Started, Emitted
<1> DEFINE a == Started
           b == Emitted(type, "none")
<1> HIDE DEF a, b
<1>3. /\ a \in Entry /\ b \in Entry /\ a.id = 0 /\ b.id = 0 /\ b.tool = a.tool /\ b.of = a.of
      /\ IsEnd(b) /\ Plain(a) /\ Plain(b) /\ ~IsOpen(b)
  BY <1>1, <1>2 DEF a, b, IsEnd, IsOpen, Plain
<1>4. v = <<a, b>> \/ v = <<b>>
  BY DEF a, b
<1>5. CASE v = <<a, b>>
  BY <1>3, <1>5 DEF PairsIn
<1>6. CASE v = <<b>>
  BY <1>3, <1>6 DEF PairsIn
<1> QED BY <1>4, <1>5, <1>6

\* The end of a handler, with the events it emitted.
LEMMA HandlerFlows ==
    ASSUME TypeOK, pc = "tools", LogShape, Flow, Recorded,
           NEW v \in Seq(Entry), PairsIn(v), \A i \in 1..Len(v) : Plain(v[i]) /\ v[i].id = 0,
           NEW status \in {"passed", "failed"}, NEW size \in Size, NEW path \in Path \cup {NoPath},
           Answer(status, size, path), log' = log \o v
    PROVE  LogShape' /\ Flow' /\ Recorded'
<1> DEFINE c == [tool |-> Asked.tool, redacted |-> Asked.redacted,
                 status |-> status, size |-> size, path |-> path]
           e == [name |-> "tool_output", call |-> Next_call, tool |-> Asked.tool,
                 redacted |-> Asked.redacted, status |-> status]
           s == StreamOf(log, queue)
           t == StreamOf(log', queue')
<1>1. /\ log \in Seq(Entry) /\ queue \in Seq(SdkEvent) /\ calls \in Seq(Call)
      /\ pending \in Seq(Request) /\ pending # <<>> /\ Len(calls) \in Nat /\ Len(pending) \in Nat
      /\ Lengths(s, calls, pending) /\ Len(queue) \in Nat
  BY Typed DEF TypeOK
<1>2. Asked \in Request /\ Asked = pending[1] /\ Next_call = Len(calls) + 1
  BY <1>1 DEF Asked, Next_call
<1>3. c \in Call /\ e \in SdkEvent
  BY <1>1, <1>2 DEF Call, SdkEvent, Request
<1>4. /\ c.tool = Asked.tool /\ c.redacted = Asked.redacted /\ c.status = status
      /\ e.name = "tool_output" /\ e.call = Len(calls) + 1 /\ e.status = status
  BY <1>2
<1>5. /\ calls' = Append(calls, c) /\ queue' = Append(queue, e) /\ pending' = Tail(pending)
      /\ pc' \in {"model", "tools"} /\ UNCHANGED <<case, recording>>
  BY DEF Answer
<1> HIDE DEF c, e
<1>6. Len(calls') = Len(calls) + 1 /\ calls'[Len(calls')] = c /\ \A i \in 1..Len(calls) : calls'[i] = calls[i]
  BY <1>1, <1>3, <1>5
<1>7. /\ Len(pending) >= 1 /\ Len(pending') = Len(pending) - 1
      /\ \A i \in 1..Len(pending') : pending'[i] = pending[i + 1]
  BY <1>1, <1>5
<1>8. Runs(calls, pending, calls', pending')
  BY <1>2, <1>4, <1>6, <1>7 DEF Runs
<1>9. AnswersOne(s, t, Len(log), Len(v), calls')
  <2>1. AnswersOne(s, StreamOf(log \o v, Append(queue, e)), Len(log), Len(v), calls')
    BY <1>1, <1>3, <1>4, <1>6, AnswerAppends
  <2> QED BY <2>1, <1>5
<1>10. Flow'
  <2>1. StartsInOrder(s, calls, pending) /\ EndsInOrder(s, calls) /\ Complete(s, calls, pending)
    BY DEF Flow
  <2> HIDE DEF s, t
  <2>2. StartsInOrder(t, calls', pending') /\ EndsInOrder(t, calls') /\ Complete(t, calls', pending')
    BY <1>1, <1>8, <1>9, <2>1, AnsweredInOrder
  <2> QED BY <2>2 DEF Flow, t
<1>11. LogShape'
  <2>1. PairsIn(log \o v) /\ \A n \in 1..Len(log \o v) : Plain((log \o v)[n])
    BY <1>1, ShapeGrows DEF LogShape, OwnPairs
  <2>2. \A i \in 1..Len(queue') : queue'[i].call # 0
    <3>1. Len(queue') = Len(queue) + 1 /\ queue'[Len(queue) + 1] = e /\ \A i \in 1..Len(queue) : queue'[i] = queue[i]
      BY <1>1, <1>3, <1>5
    <3>2. \A i \in 1..(Len(queue) + 1) : i = Len(queue) + 1 \/ i \in 1..Len(queue)
      BY <1>1
    <3>3. e.call # 0
      BY <1>1, <1>4
    <3> QED BY <3>1, <3>2, <3>3 DEF LogShape
  <2>3. OwnPairs' /\ \A n \in 1..Len(log') : Plain(log'[n])
    BY <2>1 DEF OwnPairs
  <2> QED BY <2>2, <2>3 DEF LogShape, OwnPairs, Plain, _tool_origin
<1>12. Recorded'
  BY <1>5 DEF Recorded, RecordedInOrder, TypeOK
<1> QED BY <1>10, <1>11, <1>12

\* Nothing is recorded before the run is over.
LEMMA NotYetRecorded ==
    ASSUME TypeOK, Recorded, pc \notin {"ended", "failed"}, UNCHANGED <<case, recording>>,
           pc' = "ended" => queue' = <<>>
    PROVE  Recorded'
BY DEF Recorded, RecordedInOrder, TypeOK

\* Every event in the queue has a call id.
LEMMA CallsJoin ==
    ASSUME NEW q \in Seq(SdkEvent), NEW a \in Seq(SdkEvent),
           \A i \in 1..Len(q) : q[i].call # 0, \A i \in 1..Len(a) : a[i].call # 0
    PROVE  \A i \in 1..Len(q \o a) : (q \o a)[i].call # 0
<1> DEFINE w == q \o a
<1>1. /\ Len(q) \in Nat /\ Len(a) \in Nat /\ Len(w) = Len(q) + Len(a)
      /\ \A i \in 1..Len(q) : w[i] = q[i]
      /\ \A i \in 1..Len(a) : w[Len(q) + i] = a[i]
  OBVIOUS
<1> HIDE DEF w
<1>2. ASSUME NEW i \in 1..Len(w) PROVE w[i].call # 0
  <2>1. CASE i <= Len(q)
    BY <1>1, <2>1
  <2>2. CASE ~(i <= Len(q))
    <3>1. i - Len(q) \in 1..Len(a) /\ Len(q) + (i - Len(q)) = i
      BY <1>1, <2>2
    <3>2. w[i] = a[i - Len(q)]
      BY <1>1, <3>1
    <3> QED BY <3>1, <3>2
  <2> QED BY <2>1, <2>2
<1> QED BY <1>2 DEF w

\* The model's answer puts its calls into the stream.
LEMMA RequestFlows ==
    ASSUME TypeOK, LogShape, Flow, RequestTools
    PROVE  LogShape' /\ Flow'
<1> DEFINE s == StreamOf(log, queue)
           t == StreamOf(log', queue')
<1>1. /\ log \in Seq(Entry) /\ queue \in Seq(SdkEvent) /\ calls \in Seq(Call)
      /\ pending = <<>> /\ Len(calls) \in Nat /\ Len(queue) \in Nat
      /\ Lengths(s, calls, <<>>) /\ pc = "model"
  BY Typed DEF TypeOK, RequestTools
<1>2. PICK n \in 1..MaxBatch :
        /\ pending' \in [1..n -> [tool : Offered, redacted : BOOLEAN]]
        /\ queue' = queue \o [i \in 1..n |->
              [name |-> "tool_called", call |-> Len(calls) + i,
               tool |-> pending'[i].tool, redacted |-> pending'[i].redacted,
               status |-> "none"]]
  BY DEF RequestTools
<1>3. UNCHANGED <<calls, log>> /\ pc' = "tools"
  BY DEF RequestTools
<1> DEFINE a == [i \in 1..n |->
              [name |-> "tool_called", call |-> Len(calls) + i,
               tool |-> pending'[i].tool, redacted |-> pending'[i].redacted,
               status |-> "none"]]
<1>4. n \in Nat /\ Offered \subseteq Tool
  <2>1. schemas \in Seq(HarnessTool \cup AgentTool \cup RuntimeTool) /\ n \in Nat
    BY ToolAssumption DEF TypeOK
  <2> QED BY <2>1 DEF Offered, Announced, Tool
<1>5. \A i \in 1..n : pending'[i].tool \in Tool /\ pending'[i].redacted \in BOOLEAN
  BY <1>2, <1>4
<1>6. \A i \in 1..n : a[i] \in SdkEvent
  BY <1>1, <1>4, <1>5 DEF SdkEvent
<1>7. \A i \in 1..n : a[i].name = "tool_called" /\ a[i].call = Len(calls) + i
                      /\ a[i].tool = pending'[i].tool /\ a[i].redacted = pending'[i].redacted
  OBVIOUS
<1>8. a \in [1..n -> SdkEvent]
  BY <1>6
<1>9. queue' = queue \o a
  BY <1>2
<1> HIDE DEF a
<1>10. a \in Seq(SdkEvent) /\ Len(a) = n
  BY <1>4, <1>8, SeqOfFunction
<1>11. Len(pending') = n
  BY <1>2, <1>4, SeqOfFunction
<1>12. AsksMore(s, t, calls, pending')
  <2>1. AsksMore(s, StreamOf(log, queue \o a), calls, pending')
    BY <1>1, <1>7, <1>10, <1>11, AskedAppends
  <2> QED BY <1>3, <1>9, <2>1
<1>13. Flow'
  <2>1. StartsInOrder(s, calls, <<>>) /\ EndsInOrder(s, calls) /\ Complete(s, calls, <<>>)
    BY <1>1 DEF Flow
  <2>2. Lengths(s, calls, pending')
    BY <1>1, <1>4, <1>11 DEF Lengths
  <2> HIDE DEF s, t
  <2>3. StartsInOrder(t, calls, pending') /\ EndsInOrder(t, calls) /\ Complete(t, calls, pending')
    BY <1>12, <2>1, <2>2, AskedInOrder
  <2> QED BY <1>3, <2>3 DEF Flow, t
<1>14. LogShape'
  <2>1. \A i \in 1..Len(queue) : queue[i].call # 0
    BY DEF LogShape
  <2>2. \A i \in 1..Len(a) : a[i].call # 0
    BY <1>1, <1>7, <1>10
  <2>3. \A i \in 1..Len(queue') : queue'[i].call # 0
    BY <1>1, <1>9, <1>10, <2>1, <2>2, CallsJoin
  <2> QED BY <1>3, <2>3 DEF LogShape, OwnPairs, Plain, _tool_origin
<1> QED BY <1>13, <1>14

\* The consumer moves an event from the queue into the log.
LEMMA ConsumeFlows ==
    ASSUME TypeOK, LogShape, Flow, Consume
    PROVE  LogShape' /\ Flow'
<1> DEFINE e == _map_stream_event(Head(queue))
<1>1. /\ log \in Seq(Entry) /\ queue \in Seq(SdkEvent) /\ queue # <<>>
      /\ log' = Append(log, e) /\ queue' = Tail(queue) /\ UNCHANGED <<pc, calls, pending>>
  BY DEF TypeOK, Consume
<1>2. Head(queue) \in SdkEvent /\ Head(queue) = queue[1] /\ 1 \in 1..Len(queue)
  BY <1>1
<1>3. e \in Entry /\ Plain(e) /\ ~IsOpen(e)
  <2>1. Head(queue).call # 0
    BY <1>2 DEF LogShape
  <2> QED BY <1>2, <2>1 DEF _map_stream_event, _tool_origin, SdkEvent, Entry, Plain, IsOpen
<1>4. StreamOf(log', queue') = StreamOf(log, queue)
  BY <1>1, ConsumedSame
<1>5. Flow'
  BY <1>1, <1>4 DEF Flow
<1> HIDE DEF e
<1>6. <<e>> \in Seq(Entry) /\ PairsIn(<<e>>) /\ \A n \in 1..Len(<<e>>) : Plain(<<e>>[n])
  BY <1>3 DEF PairsIn
<1>7. log' = log \o <<e>>
  BY <1>1, <1>3
<1>8. OwnPairs' /\ \A n \in 1..Len(log') : Plain(log'[n])
  <2>1. PairsIn(log \o <<e>>) /\ \A n \in 1..Len(log \o <<e>>) : Plain((log \o <<e>>)[n])
    BY <1>1, <1>6, ShapeGrows DEF LogShape, OwnPairs
  <2> QED BY <1>7, <2>1 DEF OwnPairs
<1>9. \A i \in 1..Len(queue') : queue'[i].call # 0
  <2>1. Len(Tail(queue)) = Len(queue) - 1 /\ Len(queue) \in Nat
        /\ \A i \in 1..(Len(queue) - 1) : Tail(queue)[i] = queue[i + 1] /\ i + 1 \in 1..Len(queue)
    BY <1>1
  <2> QED BY <1>1, <2>1 DEF LogShape
<1> QED BY <1>5, <1>8, <1>9 DEF LogShape, Plain, _tool_origin

\* A run that fails drops what waits in the queue.
LEMMA FailFlows ==
    ASSUME TypeOK, LogShape, Flow, RunFails
    PROVE  LogShape' /\ Flow'
<1> DEFINE s == StreamOf(log, queue)
           t == StreamOf(log, <<>>)
<1>1. /\ log \in Seq(Entry) /\ queue \in Seq(SdkEvent) /\ Len(log) \in Nat /\ Len(queue) \in Nat
      /\ Lengths(s, calls, pending) /\ <<>> \in Seq(SdkEvent) /\ Len(<<>>) = 0
  BY Typed
<1>2. pc' = "failed" /\ pending' = <<>> /\ queue' = <<>> /\ UNCHANGED <<calls, log>>
  BY DEF RunFails
<1>3. /\ Len(s) = Len(log) + Len(queue) /\ \A p \in 1..Len(log) : s[p] = log[p]
      /\ Len(t) = Len(log) + 0 /\ \A p \in 1..Len(log) : t[p] = log[p]
  BY <1>1, StreamIs
<1> HIDE DEF s, t
<1>4. Len(log) \in 0..Len(s) /\ Len(t) = Len(log) /\ \A p \in 1..Len(log) : t[p] = s[p]
  BY <1>1, <1>3
<1>5. StartsInOrder(s, calls, pending) /\ EndsInOrder(s, calls)
  BY DEF Flow, s
<1>6. StartsInOrder(t, calls, <<>>) /\ EndsInOrder(t, calls)
  BY <1>1, <1>4, <1>5, DroppedInOrder
<1>7. Flow'
  BY <1>2, <1>6 DEF Flow, t
<1>8. LogShape'
  BY <1>2 DEF LogShape, OwnPairs, Plain, _tool_origin
<1> QED BY <1>7, <1>8

\* Every answer in the log comes after the start of the same call.
LEMMA ReportIs ==
    ASSUME TypeOK, Flow, LogShape, pc = "ended" => queue = <<>>
    PROVE  ReportPairsCalls
<1> DEFINE report == {<<StartOf(n), n>> : n \in {k \in 1..Len(log) : IsEnd(log[k])}}
<1>1. log \in Seq(Entry) /\ Len(log) \in Nat /\ Len(calls) \in Nat /\ Len(queue) \in Nat
  BY Typed
<1>2. _load_tool_calls = report
  <2>1. Pairing = [k \in 1..Len(log) |-> StartOf(k)]
    BY <1>1, PairingIs DEF LogShape
  <2>2. \A n \in 1..Len(log) : Pairing[n] = StartOf(n)
    BY <2>1
  <2> QED BY <2>2 DEF _load_tool_calls
<1>3. ASSUME NEW n \in 1..Len(log), IsAnswer(log[n])
      PROVE  StartOf(n) = StartById(n) /\ IsEnd(log[n])
  BY <1>3 DEF IsAnswer, IsEnd, StartOf
<1>4. ASSUME NEW n \in 1..Len(log), IsEnd(log[n]), StartOf(n) # 0
      PROVE  StartOf(n) < n /\ log[StartOf(n)].of = log[n].of /\ log[StartOf(n)].id = log[n].id
  <2>1. CASE log[n].id # 0
    <3>1. IsAnswer(log[n])
      BY <1>4, <2>1 DEF IsAnswer, IsEnd
    <3>2. StartOf(n) \in 1..(n - 1) /\ log[StartOf(n)].id = log[n].id
      BY <1>3, <3>1, StartByIdIs
    <3>3. StartOf(n) \in 1..Len(log)
      BY <1>1, <3>2
    <3> QED BY <2>1, <3>2, <3>3 DEF LogShape, Plain
  <2>2. CASE log[n].id = 0
    <3>1. StartOf(n) = n - 1 /\ n > 1 /\ IsOpen(log[n - 1])
      BY <1>4, <2>2 DEF StartOf
    <3>2. n - 1 \in 1..Len(log) /\ (n - 1) + 1 = n
      BY <1>1, <3>1
    <3>3. log[n - 1].of = log[n].of
      BY <3>1, <3>2 DEF LogShape, OwnPairs, PairsIn
    <3> QED BY <1>1, <2>2, <3>1, <3>3 DEF IsOpen
  <2> QED BY <2>1, <2>2
<1>5. ASSUME pc = "ended", NEW i \in 1..Len(calls)
      PROVE  \E start \in 1..Len(log) :
                {r[1] : r \in {q \in report : log[q[2]].id = i}} = {start}
  <2>1. /\ Len(StreamOf(log, queue)) = Len(log)
        /\ \A p \in 1..Len(log) : StreamOf(log, queue)[p] = log[p]
    <3>1. Len(queue) = 0 /\ queue \in Seq(SdkEvent)
      BY <1>5, Typed
    <3>2. /\ Len(StreamOf(log, queue)) = Len(log) + Len(queue)
          /\ \A p \in 1..Len(log) : StreamOf(log, queue)[p] = log[p]
      BY <1>1, <3>1, StreamIs
    <3> QED BY <1>1, <3>1, <3>2
  <2>2. PICK p \in 1..Len(log) : IsAnswer(log[p]) /\ log[p].id = i
    <3>1. Complete(StreamOf(log, queue), calls, pending)
      BY <1>5 DEF Flow
    <3> QED BY <2>1, <3>1 DEF Complete
  <2>3. StartOf(p) \in 1..Len(log) /\ IsEnd(log[p])
    <3>1. StartById(p) \in 1..(p - 1)
      BY <2>2, StartByIdIs
    <3> QED BY <1>1, <1>3, <2>2, <3>1
  <2>4. ASSUME NEW n \in 1..Len(log), IsEnd(log[n]), log[n].id = i PROVE n = p
    <3>1. IsAnswer(log[n]) /\ log[n].id \in Nat
      BY <2>4 DEF IsAnswer, IsEnd
    <3>2. ~(n < p)
      BY <2>2, <2>4, <3>1, AnswersIncrease
    <3>3. ~(p < n)
      BY <2>2, <2>4, <3>1, AnswersIncrease
    <3> QED BY <1>1, <3>2, <3>3
  <2>5. {q \in report : log[q[2]].id = i} = {<<StartOf(p), p>>}
    BY <2>2, <2>3, <2>4
  <2>6. {r[1] : r \in {q \in report : log[q[2]].id = i}} = {StartOf(p)}
    <3> DEFINE X == {q \in report : log[q[2]].id = i}
    <3>1. X = {<<StartOf(p), p>>} /\ <<StartOf(p), p>>[1] = StartOf(p)
      BY <2>5
    <3> HIDE DEF X
    <3>2. {r[1] : r \in X} = {StartOf(p)}
      BY <3>1
    <3> QED BY <3>2 DEF X
  <2> QED BY <2>3, <2>6
<1>6. \A r \in report : r[1] # 0 => r[1] < r[2] /\ log[r[1]].of = log[r[2]].of /\ log[r[1]].id = log[r[2]].id
  BY <1>4
<1> HIDE DEF report
<1> QED BY <1>2, <1>5, <1>6 DEF ReportPairsCalls

\* The invariant of the log, the stream and the recording.
ReportInv == LogShape /\ Flow /\ Recorded

\* It holds of the empty log.
LEMMA InitReport == Init => ReportInv
<1> SUFFICES ASSUME Init PROVE ReportInv
  OBVIOUS
<1>1. /\ log = <<>> /\ queue = <<>> /\ calls = <<>> /\ pending = <<>> /\ case = <<>>
      /\ recording = "none" /\ pc = "setup"
  BY DEF Init
<1>2. Len(StreamOf(<<>>, <<>>)) = 0
  <2>1. <<>> \in Seq(Entry) /\ <<>> \in Seq(SdkEvent) /\ Len(<<>>) = 0
    OBVIOUS
  <2>2. Len(StreamOf(<<>>, <<>>)) = Len(<<>>) + Len(<<>>)
    BY <2>1, StreamIs
  <2> QED BY <2>1, <2>2
<1>3. LogShape
  BY <1>1 DEF LogShape, OwnPairs, PairsIn
<1>4. Flow
  BY <1>1, <1>2 DEF Flow, StartsInOrder, EndsInOrder, Complete
<1>5. Recorded
  BY <1>1 DEF Recorded, RecordedInOrder
<1> QED BY <1>3, <1>4, <1>5 DEF ReportInv

\* Actions that leave calls, queue and log alone.
LEMMA StillFlows ==
    ASSUME LogShape, Flow, UNCHANGED <<calls, pending, queue, log>>, pc' # "failed" => pc # "failed"
    PROVE  LogShape' /\ Flow'
BY DEF LogShape, Flow, OwnPairs, Plain, _tool_origin

\* It is kept by every handler, by the consumer and by the recorder.
THEOREM ReportInductive == Spec => []ReportInv
<1>1. TypeOK /\ ReportInv /\ [Next]_vars => ReportInv'
  <2> SUFFICES ASSUME TypeOK, ReportInv, [Next]_vars PROVE ReportInv'
    OBVIOUS
  <2> USE DEF ReportInv
  <2>1. CASE Setup
    <3>1. UNCHANGED <<calls, pending, queue, log, case, recording>> /\ pc = "setup" /\ pc' # "ended"
      BY <2>1 DEF Setup
    <3> QED BY <3>1, StillFlows, NotYetRecorded
  <2>2. CASE RequestTools
    <3>1. UNCHANGED <<case, recording>> /\ pc = "model" /\ pc' # "ended"
      BY <2>2 DEF RequestTools
    <3> QED BY <2>2, <3>1, RequestFlows, NotYetRecorded
  <2>3. CASE FinalOutput
    <3>1. UNCHANGED <<calls, pending, queue, log, case, recording>> /\ pc = "model" /\ pc' # "ended"
      BY <2>3 DEF FinalOutput
    <3> QED BY <3>1, StillFlows, NotYetRecorded
  <2>4. CASE FileOps
    <3> DEFINE v == <<Started, Emitted("completed", "none")>>
               path == <<stored + 1, Asked.tool>>
    <3>1. pc = "tools" /\ Asked.tool \in FileTool /\ log' = log \o v
      BY <2>4 DEF FileOps
    <3>2. PICK size \in Sizes : Answer("passed", size, path)
      BY <2>4 DEF FileOps, _with_optional_artifact
    <3>3. path \in Path /\ size \in Size
      BY <3>1, ToolAssumption DEF TypeOK, Path, Tool, AgentTool, Size
    <3>4. v \in Seq(Entry) /\ PairsIn(v) /\ \A n \in 1..Len(v) : Plain(v[n]) /\ v[n].id = 0
      BY <3>1, EmittedShape
    <3> HIDE DEF v, path
    <3> QED BY <3>1, <3>2, <3>3, <3>4, HandlerFlows
  <2>5. CASE QueryArtifact
    <3> DEFINE v == <<Started, Emitted("completed", "none")>>
    <3>1. pc = "tools" /\ log' = log \o v /\ Answer("passed", "short", NoPath)
      BY <2>5 DEF QueryArtifact
    <3>2. v \in Seq(Entry) /\ PairsIn(v) /\ \A n \in 1..Len(v) : Plain(v[n]) /\ v[n].id = 0
      BY <3>1, EmittedShape
    <3> HIDE DEF v
    <3> QED BY <3>1, <3>2, HandlerFlows DEF Size
  <2>6. CASE AgentToolFails
    <3> DEFINE v == <<Started, Emitted("failed", "none")>>
    <3>1. pc = "tools" /\ log' = log \o v /\ Answer("failed", "short", NoPath)
      BY <2>6 DEF AgentToolFails
    <3>2. v \in Seq(Entry) /\ PairsIn(v) /\ \A n \in 1..Len(v) : Plain(v[n]) /\ v[n].id = 0
      BY <3>1, EmittedShape
    <3> HIDE DEF v
    <3> QED BY <3>1, <3>2, HandlerFlows DEF Size
  <2>7. CASE AgentToolUnparsed
    <3> DEFINE v == <<Emitted("failed", "none")>>
    <3>1. pc = "tools" /\ log' = Append(log, Emitted("failed", "none")) /\ Answer("failed", "short", NoPath)
      BY <2>7 DEF AgentToolUnparsed
    <3>2. v \in Seq(Entry) /\ PairsIn(v) /\ \A n \in 1..Len(v) : Plain(v[n]) /\ v[n].id = 0
      BY <3>1, EmittedShape
    <3>3. log' = log \o v
      <4> DEFINE e == Emitted("failed", "none")
      <4>1. e \in Entry /\ log \in Seq(Entry)
        BY <3>1, EntryTyped, Typed
      <4> HIDE DEF e
      <4>2. Append(log, e) = log \o <<e>>
        BY <4>1
      <4> QED BY <3>1, <4>2 DEF e
    <3> HIDE DEF v
    <3> QED BY <3>1, <3>2, <3>3, HandlerFlows DEF Size
  <2>8. CASE HarnessStep
    <3>1. pc = "tools" /\ log' = log
      BY <2>8 DEF HarnessStep
    <3>2. PICK status \in {"passed", "failed"}, size \in Size : Answer(status, size, NoPath)
      BY <2>8, ToolAssumption DEF HarnessStep, Size
    <3>3. <<>> \in Seq(Entry) /\ PairsIn(<<>>) /\ \A n \in 1..Len(<<>>) : Plain(<<>>[n]) /\ <<>>[n].id = 0
      BY DEF PairsIn
    <3>4. log' = log \o <<>>
      BY <3>1, Typed
    <3> QED BY <3>1, <3>2, <3>3, <3>4, HandlerFlows
  <2>9. CASE Consume
    <3>1. pc \in {"model", "tools", "drain"} /\ UNCHANGED <<pc, case, recording>>
      BY <2>9 DEF Consume
    <3> QED BY <2>9, <3>1, ConsumeFlows, NotYetRecorded
  <2>10. CASE Drained
    <3>1. UNCHANGED <<calls, pending, queue, log, case, recording>> /\ pc = "drain" /\ queue = <<>>
      BY <2>10 DEF Drained
    <3> QED BY <3>1, StillFlows, NotYetRecorded
  <2>11. CASE RunFails
    <3>1. pc \in {"model", "tools", "drain"} /\ pc' = "failed" /\ UNCHANGED <<case, recording>>
      BY <2>11 DEF RunFails
    <3> QED BY <2>11, <3>1, FailFlows, NotYetRecorded
  <2>12. CASE Record
    <3>1. /\ UNCHANGED <<pc, calls, pending, queue, log>> /\ pc \in {"ended", "failed"}
          /\ case' = case \/ case' = collect
      BY <2>12 DEF Record
    <3>2. LogShape' /\ Flow'
      BY <3>1, StillFlows
    <3>3. Replayable' = Replayable /\ pc' = pc /\ queue' = queue
      BY <3>1 DEF Replayable, _tool_origin
    <3>4. RecordedInOrder'
      <4>1. CASE case' = case
        BY <3>3, <4>1 DEF Recorded, RecordedInOrder
      <4>2. CASE case' = collect
        <5>1. /\ \A k \in 1..Len(case'), l \in 1..Len(case') : k < l => case'[k] < case'[l]
              /\ {case'[k] : k \in 1..Len(case')} \subseteq Replayable
              /\ \A i \in Replayable \ {case'[k] : k \in 1..Len(case')} :
                    pc # "ended" /\ \A j \in {case'[k] : k \in 1..Len(case')} : j < i
          BY <3>1, <4>2, RecordsInOrder DEF Recorded
        <5> QED BY <3>3, <5>1 DEF RecordedInOrder
      <4> QED BY <3>1, <4>1, <4>2
    <3>5. Recorded'
      BY <3>1, <3>3, <3>4 DEF Recorded
    <3> QED BY <3>2, <3>5
  <2>13. CASE UNCHANGED vars
    <3>1. UNCHANGED <<pc, calls, pending, queue, log, case, recording>>
      BY <2>13 DEF vars
    <3> QED BY <3>1, StillFlows DEF Recorded, RecordedInOrder, Replayable, _tool_origin
  <2> QED
    BY <2>1, <2>2, <2>3, <2>4, <2>5, <2>6, <2>7, <2>8, <2>9, <2>10, <2>11, <2>12, <2>13 DEF Next
<1> QED BY <1>1, InitReport, TypeCorrect, PTL DEF Spec

\* In the report every end stands with the start of its own call, and when the run
\* ended by itself every call is in it once, for any tools and any interleaving of
\* the two writers of the log.
THEOREM ReportCorrect == Spec => []ReportPairsCalls
<1>1. TypeOK /\ ReportInv => ReportPairsCalls
  BY ReportIs DEF ReportInv, Recorded
<1> QED BY <1>1, TypeCorrect, ReportInductive, PTL

\* A recorded case repeats the actions in the order they ran, none twice and none
\* left out between two others, for any tools and any run.
THEOREM RecordingCorrect == Spec => []RecordedInOrder
<1>1. ReportInv => RecordedInOrder
  BY DEF ReportInv, Recorded
<1> QED BY <1>1, ReportInductive, PTL
=============================================================================
