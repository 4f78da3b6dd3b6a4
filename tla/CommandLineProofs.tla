-------------------------- MODULE CommandLineProofs --------------------------
(***************************************************************************)
(* Proofs about Harness and CommandLine, for any case files, directories   *)
(* of any length, and any number of agent steps, polls and processes.      *)
(***************************************************************************)
EXTENDS CommandLine, SequenceTheorems, FiniteSetTheorems,
        WellFoundedInduction, TLAPS

\* What the places of an invocation say of its step and of the input it sent.
HarnessPlaces ==
    /\ at \notin {"idle", "act"} => inputs = 0
    /\ at = "act" => inputs <= Inputs(step)
    /\ at = "leave" => step.action = "assert_not_visible"
    /\ at = "read" => step.action = "assert_state"
    /\ at \in {"start", "connect"} => step.action = "launch_app"
    /\ at = "judge" => step.action = "assert_with_ai"

HInv == HarnessTypeOK /\ HarnessPlaces /\ DrivenAsReported

\* Where the command may be, and which case it is at.
Places ==
    /\ strict => pc # "task"
    /\ ~strict => pc \notin {"validate", "case", "body", "teardown"}
    /\ stepping => pc \in {"body", "teardown", "task"}
    /\ pc \notin {"summary", "exit"} => i <= Len(cases)

\* What the validation of a batch and the start of a case have settled.
Settled ==
    /\ strict /\ pc \in {"case", "body", "teardown"} =>
          /\ \A k \in 1..Len(cases) :
                /\ cases[k].loads /\ cases[k].platform = platform
                /\ platform = "android" => _strict_case_app_id(cases[k])
          /\ AssertingCase # {} => settings.provider
    /\ strict /\ pc \in {"body", "teardown"} =>
          /\ Prepared(cases[i])
          /\ evaluator = _case_requires_ai_assertion(cases[i])

PassedAs(vs, c) ==
    /\ Len(vs) = Len(c.commands)
    /\ \A j \in 1..Len(vs) : vs[j] = "passed"

AllPassed(k) == PassedAs(verdicts[k], cases[k])

\* The steps of the running case, as long as nothing went wrong: those that
\* passed, the one under way and those to come.
Running ==
    /\ strict =>
          /\ pc \in {"validate", "case"} => verdicts[i] = <<>>
          /\ \A k \in (i + 1)..Len(cases) : verdicts[k] = <<>>
    /\ strict /\ pc \in {"body", "teardown"} /\ ~bad /\ ~raising =>
          /\ ~stepping => Len(verdicts[i]) + Len(todo.body) + Len(todo.teardown)
                             = Len(cases[i].commands)
          /\ stepping => Len(verdicts[i]) + Len(todo.body) + Len(todo.teardown) + 1
                            = Len(cases[i].commands)
          /\ \A j \in 1..Len(verdicts[i]) : verdicts[i][j] = "passed"
    /\ pc = "teardown" => todo.body = <<>>

\* The summary has a line for each case that is over.
Accounted ==
    strict /\ dir =>
        /\ pc = "validate" => i = 1
        /\ pc # "exit" => Len(summary) = i - 1
        /\ pc = "summary" => i = Len(cases) + 1
        /\ \A k \in 1..Len(summary) :
              /\ summary[k] \in {"passed", "failed"}
              /\ summary[k] = "passed" => AllPassed(k)
        /\ pc = "exit" /\ summary # <<>> =>
              /\ Len(summary) = Len(cases)
              /\ exit = IF \E k \in 1..Len(summary) : summary[k] = "failed" THEN 1 ELSE 0

IInv == TypeOK /\ HInv /\ Places /\ Settled /\ Running /\ Accounted
------------------------------------------------------------------------------
(* The teardown of a case.                                                  *)

\* Some number of a set of naturals is the least.
LEMMA LeastNatural ==
    ASSUME NEW T, T \subseteq Nat, T # {}
    PROVE  \E m \in T : \A k \in T : m <= k
  <1> DEFINE Initial == {0..k : k \in T}
  <1>1. Initial \subseteq FiniteSubsetsOf(Nat) /\ Initial # {}
    <2>1. ASSUME NEW k \in T
          PROVE  0..k \in SUBSET Nat /\ IsFiniteSet(0..k)
      BY FS_Interval
    <2> QED
      BY <2>1 DEF FiniteSubsetsOf
  <1>2. PICK x \in Initial : \A y \in Initial : <<y, x>> \notin StrictSubsetOrdering(Nat)
    BY <1>1, FS_StrictSubsetOrderingWellFounded, WFMin
  <1>3. PICK m \in T : x = 0..m
    BY <1>2
  <1>4. ASSUME NEW k \in T, k < m
        PROVE  FALSE
    <2>1. 0..k \subseteq 0..m /\ 0..k # 0..m /\ 0..m \subseteq Nat
      BY <1>4
    <2>2. <<0..k, 0..m>> \in StrictSubsetOrdering(Nat)
      BY <2>1 DEF StrictSubsetOrdering
    <2> QED
      BY <1>2, <1>3, <2>2
  <1> QED
    BY <1>4

\* The trailing kill_app commands begin somewhere in the case.
LEMMA SplitRange ==
    ASSUME NEW s \in Seq(Step)
    PROVE  SplitAt(s) \in 0..Len(s)
  <1> DEFINE Tail_(k) == \A j \in (k + 1)..Len(s) : s[j].action = "kill_app"
             T == {k \in 0..Len(s) : Tail_(k)}
             P(k) == Tail_(k) /\ (k > 0 => ~Tail_(k - 1))
  <1>1. Len(s) \in Nat
    BY LenProperties
  <1>2. Len(s) \in T
    BY <1>1
  <1>3. PICK m \in T : \A k \in T : m <= k
    <2>1. T \subseteq Nat /\ T # {}
      BY <1>1, <1>2
    <2> QED
      BY <2>1, LeastNatural
  <1>4. m > 0 => ~Tail_(m - 1)
    <2>1. ASSUME m > 0, Tail_(m - 1)
          PROVE  FALSE
      <3>1. m - 1 \in 0..Len(s)
        BY <1>1, <2>1
      <3>2. m - 1 \in T
        BY <2>1, <3>1
      <3>3. m <= m - 1
        BY <1>3, <3>2
      <3>4. m \in Int
        BY <1>1, <1>3
      <3> QED
        BY <3>3, <3>4
    <2> QED
      BY <2>1
  <1>5. \E k \in 0..Len(s) : P(k)
    BY <1>3, <1>4
  <1>6. SplitAt(s) = CHOOSE k \in 0..Len(s) : P(k)
    BY DEF SplitAt
  <1> QED
    BY <1>5, <1>6

\* Body and teardown together are the steps of the case.
LEMMA SplitTypes ==
    ASSUME NEW s \in Seq(Step)
    PROVE  LET t == _split_trailing_teardown_steps(s) IN
           /\ t \in [body : Seq(Step), teardown : Seq(Step)]
           /\ Len(t.body) + Len(t.teardown) = Len(s)
  <1> DEFINE n == SplitAt(s)
  <1>1. n \in 0..Len(s) /\ Len(s) \in Nat
    BY SplitRange, LenProperties
  <1> HIDE DEF n
  <1>2. \A j \in 1..Len(s) : s[j] \in Step
    BY ElementOfSeq
  <1>3. /\ SubSeq(s, 1, n) \in Seq(Step)
        /\ Len(SubSeq(s, 1, n)) = n
    BY <1>1, <1>2, SubSeqProperties
  <1>4. /\ SubSeq(s, n + 1, Len(s)) \in Seq(Step)
        /\ Len(SubSeq(s, n + 1, Len(s))) = Len(s) - n
    BY <1>1, <1>2, SubSeqProperties
  <1> QED
    BY <1>1, <1>3, <1>4 DEF _split_trailing_teardown_steps, n

------------------------------------------------------------------------------
(* The harness: each of its steps keeps HInv, and leaves what the command   *)
(* chose for it.                                                            *)

LEMMA ResultTypes ==
    /\ Passed \in [status : Status, category : Category]
    /\ Raised \in [status : Status, category : Category]
    /\ \A c \in Category : Failed(c) \in [status : Status, category : Category]
  BY DEF Passed, Raised, Failed, Status, Category

LEMMA InputsType == \A s : Inputs(s) \in 0..3
  BY DEF Inputs

LEMMA HarnessStarts == HarnessInit => HInv
  <1> SUFFICES ASSUME HarnessInit
               PROVE  HInv
    OBVIOUS
  <1>1. MaxStarts \in Nat /\ Polls \in Nat
    BY HarnessAssumption
  <1>2. NoStep \in Step
    BY DEF NoStep, Step, Action, Secret
  <1>3. HarnessTypeOK
    <2>1. /\ platform \in Platform /\ evaluator \in BOOLEAN
          /\ step \in Step /\ at = "idle"
          /\ result \in [status : Status, category : Category]
          /\ context \in BOOLEAN /\ visible \in BOOLEAN
      BY <1>2, ResultTypes DEF HarnessInit
    <2>2. /\ inputs \in 0..3 /\ started \in 0..MaxStarts /\ waited \in 0..Polls
          /\ running \subseteq Process /\ opened \subseteq running
      BY <1>1 DEF HarnessInit, Process, Foreign
    <2>3. app \in Process \cup {NoProcess} /\ window \in Process \cup {NoProcess}
      BY DEF HarnessInit
    <2> QED
      BY <2>1, <2>2, <2>3 DEF HarnessTypeOK
  <1>4. HarnessPlaces /\ DrivenAsReported
    BY DEF HarnessInit, HarnessPlaces, DrivenAsReported, NoStep, Passed, Inputs
  <1> QED
    BY <1>3, <1>4 DEF HInv

LEMMA NewHarnessKeeps ==
    ASSUME HInv, NEW e \in BOOLEAN, NewHarness(e)
    PROVE  HInv' /\ evaluator' = e /\ UNCHANGED platform
  BY DEF HInv, NewHarness, HarnessTypeOK, HarnessPlaces, DrivenAsReported

LEMMA InvokeKeeps ==
    ASSUME HInv, NEW s \in Step, invoke_action(s)
    PROVE  HInv' /\ UNCHANGED <<platform, evaluator>>
  <1> USE HarnessAssumption
  <1>1. HarnessTypeOK'
    <2>1. /\ at' \in {"idle", "find", "act", "start", "judge"}
          /\ result' \in [status : Status, category : Category]
          /\ context' \in BOOLEAN /\ visible' \in BOOLEAN
      BY ResultTypes DEF HInv, HarnessTypeOK, invoke_action, Return, FirstMove, Category,
         invoke_common_tool
    <2>2. inputs' \in 0..3 /\ waited' \in 0..Polls /\ step' \in Step
      BY DEF invoke_action
    <2> QED
      BY <2>1, <2>2 DEF HInv, HarnessTypeOK, invoke_action
  <1>2. HarnessPlaces'
    BY DEF HInv, HarnessTypeOK, invoke_action, Return, FirstMove, HarnessPlaces, Inputs
  <1>3. DrivenAsReported'
    BY DEF HInv, HarnessTypeOK, invoke_action, Return, FirstMove, DrivenAsReported, Inputs,
       invoke_common_tool, Passed, Failed, CommonAction
  <1> QED
    BY <1>1, <1>2, <1>3 DEF HInv, invoke_action

LEMMA DriverKeeps ==
    ASSUME HInv, DriverNext \/ DriverRaises \/ World
    PROVE  HInv' /\ UNCHANGED <<platform, evaluator>>
  <1> USE HarnessAssumption
  <1>1. HarnessTypeOK'
    <2> USE ResultTypes DEF HInv, HarnessTypeOK, Return, settled, desktop
    <2>1. CASE DriverRaises \/ TargetGone \/ Found \/ NotFound \/ Leaves
      BY <2>1 DEF DriverRaises, TargetGone, Found, NotFound, Leaves, Category
    <2>2. CASE Reads \/ Sent \/ HalfSwipe
      BY <2>2 DEF Reads, Sent, HalfSwipe, Category
    <2>3. CASE Sends
      BY <2>3, InputsType DEF Sends
    <2>4. CASE _launch_app
      <3>1. CASE started' = started
        <4>1. Return(Failed("configuration_error")) /\ running' = running
          BY <2>4, <3>1 DEF _launch_app
        <4> QED
          BY <2>4, <3>1, <4>1 DEF _launch_app, Category
      <3>2. CASE started' # started
        <4>1. started' \in 0..MaxStarts /\ started' \in Process
          BY <2>4, <3>2 DEF _launch_app, Process, Foreign
        <4>2. running' \subseteq Process /\ opened' \subseteq running'
          BY <2>4, <3>2, <4>1 DEF _launch_app
        <4> QED
          BY <2>4, <3>2, <4>1, <4>2 DEF _launch_app
      <3> QED
        BY <3>1, <3>2
    <2>5. CASE Connects
      BY <2>5 DEF Connects
    <2>6. CASE Polled
      <3>1. waited' \in 0..Polls
        BY <2>6 DEF Polled
      <3> QED
        BY <2>6, <3>1 DEF Polled
    <2>7. CASE _kill_app
      BY <2>7 DEF _kill_app
    <2>8. CASE _run_ai_assertion_tool
      BY <2>8 DEF _run_ai_assertion_tool, evaluate, Category
    <2>9. CASE World
      BY <2>9 DEF World, ScreenChanges, DesktopChanges
    <2> QED
      BY <2>1, <2>2, <2>3, <2>4, <2>5, <2>6, <2>7, <2>8, <2>9 DEF DriverNext
  <1>2. HarnessPlaces' /\ DrivenAsReported'
    <2> USE DEF HInv, HarnessTypeOK, HarnessPlaces, DrivenAsReported, Return, settled, desktop,
            Passed, Failed, Raised
    <2>1. CASE DriverRaises \/ TargetGone
      BY <2>1 DEF DriverRaises, TargetGone
    <2>2. CASE Found \/ NotFound
      BY <2>2 DEF Found, NotFound, Inputs
    <2>3. CASE Leaves \/ Reads \/ HalfSwipe
      BY <2>3 DEF Leaves, Reads, HalfSwipe, Inputs
    <2>4. CASE Sends \/ Sent
      BY <2>4 DEF Sends, Sent, Inputs
    <2>5. CASE _launch_app \/ Connects \/ Polled
      BY <2>5 DEF _launch_app, Connects, Polled, Inputs
    <2>6. CASE _kill_app
      BY <2>6 DEF _kill_app, Inputs
    <2>7. CASE _run_ai_assertion_tool
      BY <2>7 DEF _run_ai_assertion_tool, evaluate, Inputs
    <2>8. CASE World
      BY <2>8 DEF World, ScreenChanges, DesktopChanges
    <2> QED
      BY <2>1, <2>2, <2>3, <2>4, <2>5, <2>6, <2>7, <2>8 DEF DriverNext
  <1>3. UNCHANGED <<platform, evaluator>>
    BY DEF DriverNext, DriverRaises, World, TargetGone, Found, NotFound, Leaves, Reads, Sends,
       Sent, HalfSwipe, _launch_app, Connects, Polled, _kill_app, _run_ai_assertion_tool, ScreenChanges,
       DesktopChanges, settled
  <1> QED
    BY <1>1, <1>2, <1>3 DEF HInv
------------------------------------------------------------------------------
(* The command: its starts, and one lemma for each kind of step.            *)

\* What is left of the type invariant beside the harness.
CommandTypeOK ==
    /\ strict \in BOOLEAN /\ dir \in BOOLEAN
    /\ settings \in [appId : BOOLEAN, provider : BOOLEAN]
    /\ cases \in Seq(Cases) /\ i \in 1..(Len(cases) + 1)
    /\ pc \in {"validate", "case", "body", "teardown", "task", "summary", "exit"}
    /\ todo \in [body : Seq(Step), teardown : Seq(Step)]
    /\ stepping \in BOOLEAN /\ bad \in BOOLEAN /\ raising \in BOOLEAN
    /\ verdicts \in Seq(Seq(Status)) /\ Len(verdicts) = Len(cases)
    /\ summary \in Seq({"passed", "failed", "inconclusive"})
    /\ exit \in {-1, 0, 1}

LEMMA Types == TypeOK <=> HarnessTypeOK /\ CommandTypeOK
  BY DEF TypeOK, CommandTypeOK

\* The part of IInv that is not about the harness.
CInv == CommandTypeOK /\ Places /\ Settled /\ Running /\ Accounted

LEMMA Parts == IInv <=> HInv /\ CInv
  BY Types DEF IInv, HInv, CInv

LEMMA PartsNext == HInv' /\ CInv' => IInv'
  BY DEF IInv, HInv, CInv, TypeOK, CommandTypeOK

LEMMA Starts == Init => IInv
  <1> SUFFICES ASSUME Init
               PROVE  IInv
    OBVIOUS
  <1> USE CommandAssumption
  <1>1. HInv
    BY HarnessStarts DEF Init
  <1>2. (CHOOSE c \in Cases : TRUE) \in Cases
    OBVIOUS
  <1>3. PICK n \in Nat \ {0} : cases \in Batches(n) \/ cases \in RawTasks(n)
    BY DEF Init
  <1>4. PICK k \in 1..n : cases \in [1..k -> Cases]
    BY <1>2, <1>3 DEF Batches, RawTasks
  <1>5. cases \in Seq(Cases) /\ Len(cases) = k /\ k \in Nat /\ k >= 1
    BY <1>3, <1>4, IsASeq
  <1>6. /\ verdicts = [j \in 1..Len(cases) |-> <<>>]
        /\ verdicts \in Seq(Seq(Status)) /\ Len(verdicts) = Len(cases)
    <2>1. verdicts = [j \in 1..Len(cases) |-> <<>>]
      BY DEF Init
    <2>2. <<>> \in Seq(Status)
      BY EmptySeq
    <2>3. verdicts \in [1..k -> Seq(Status)]
      BY <1>5, <2>1, <2>2
    <2> QED
      BY <1>5, <2>1, <2>3, IsASeq
  <1>7. CommandTypeOK
    <2>1. NoSteps \in [body : Seq(Step), teardown : Seq(Step)]
      BY EmptySeq DEF NoSteps
    <2>2. settings \in [appId : BOOLEAN, provider : BOOLEAN]
      BY DEF Init
    <2>3. summary \in Seq({"passed", "failed", "inconclusive"})
      BY EmptySeq DEF Init
    <2>4. i \in 1..(Len(cases) + 1)
      BY <1>5 DEF Init
    <2> QED
      BY <1>5, <1>6, <2>1, <2>2, <2>3, <2>4 DEF Init, CommandTypeOK
  <1>8. Places /\ Settled
    BY <1>5 DEF Init, Places, Settled
  <1>9. Running
    BY <1>5, <1>6 DEF Init, Running
  <1>10. Accounted
    BY <1>5 DEF Init, Accounted
  <1> QED
    BY <1>1, <1>7, <1>8, <1>9, <1>10, Parts DEF CInv

\* What was settled stays so while cases, settings, platform and evaluator do.
LEMMA SettledStays ==
    ASSUME Settled, UNCHANGED <<strict, settings, cases, platform, evaluator, i>>,
           strict /\ pc' \in {"case", "body", "teardown"} => pc \in {"case", "body", "teardown"},
           strict /\ pc' \in {"body", "teardown"} => pc \in {"body", "teardown"}
    PROVE  Settled'
  <1>1. AssertingCase' = AssertingCase
    BY DEF AssertingCase, Parses, _case_requires_ai_assertion
  <1>2. /\ (Prepared(cases[i]))' <=> Prepared(cases[i])
        /\ (_case_requires_ai_assertion(cases[i]))' <=> _case_requires_ai_assertion(cases[i])
    BY DEF Prepared, Parses, SecretsResolve, _case_requires_ai_assertion
  <1>3. evaluator' = _case_requires_ai_assertion(cases[i])
            => evaluator' = (_case_requires_ai_assertion(cases[i]))'
    BY DEF _case_requires_ai_assertion
  <1>4. strict /\ pc' \in {"body", "teardown"} =>
           (Prepared(cases[i]))' /\ evaluator' = (_case_requires_ai_assertion(cases[i]))'
    BY <1>2, <1>3 DEF Settled
  <1>5. strict /\ pc' \in {"case", "body", "teardown"} =>
           /\ \A k \in 1..Len(cases) :
                 /\ cases[k].loads /\ cases[k].platform = platform
                 /\ platform = "android" => _strict_case_app_id(cases[k])
           /\ AssertingCase # {} => settings.provider
    BY DEF Settled
  <1> QED
    BY <1>1, <1>4, <1>5 DEF Settled, _strict_case_app_id

\* A step that moves only the harness.
LEMMA HarnessMoves ==
    ASSUME CInv, UNCHANGED <<cvars, platform, evaluator>>
    PROVE  CInv'
  <1> USE DEF CInv, cvars
  <1>1. CommandTypeOK'
    BY DEF CommandTypeOK
  <1>2. Settled'
    BY SettledStays
  <1>3. Places' /\ Running'
    BY DEF Places, Running
  <1>4. Accounted'
    BY DEF Accounted, AllPassed
  <1> QED
    BY <1>1, <1>2, <1>3, <1>4

LEMMA ValidationKeeps ==
    ASSUME IInv, _run_strict
    PROVE  IInv'
  <1> USE DEF IInv, hvars, HInv
  <1>1. HInv' /\ UNCHANGED <<platform, evaluator>>
    BY DEF _run_strict, HarnessTypeOK, HarnessPlaces, DrivenAsReported
  <1>2. CommandTypeOK'
    BY Types DEF _run_strict, Exits, CommandTypeOK
  <1>3. Places'
    BY DEF _run_strict, Exits, Places
  <1>4. Settled'
    <2>1. /\ pc' \in {"case", "exit"}
          /\ pc' = "case" =>
                /\ \A k \in 1..Len(cases) :
                      /\ cases[k].loads /\ cases[k].platform = platform
                      /\ platform = "android" => _strict_case_app_id(cases[k])
                /\ AssertingCase # {} => settings.provider
      BY DEF _run_strict, Exits, validate_strict_core_settings
    <2>2. UNCHANGED <<platform, settings, cases>>
      BY DEF _run_strict
    <2>3. AssertingCase' = AssertingCase
      BY <2>2 DEF AssertingCase, Parses, _case_requires_ai_assertion
    <2> QED
      BY <2>1, <2>2, <2>3 DEF Settled, _strict_case_app_id
  <1>5. Running'
    BY DEF _run_strict, Exits, Running
  <1>6. Accounted'
    BY Types, EmptySeq DEF _run_strict, Exits, Accounted, AllPassed, Places, CommandTypeOK
  <1> QED
    BY <1>1, <1>2, <1>3, <1>4, <1>5, <1>6, PartsNext DEF CInv
\* The case that ended counts as passed only if all its steps did.
LEMMA CaseEndKeeps ==
    ASSUME IInv, strict, pc \in {"case", "body", "teardown"}, ~stepping,
           NEW v \in Seq(Seq(Status)), verdicts' = v, Len(v) = Len(verdicts),
           \A k \in 1..Len(verdicts) : k # i => v[k] = verdicts[k],
           NEW status \in {"passed", "failed"}, NEW raised \in BOOLEAN,
           CaseEnds(status, raised), status = "passed" => PassedAs(v[i], cases[i]),
           HInv', UNCHANGED <<platform, strict, dir, settings, cases, stepping>>
    PROVE  IInv'
  <1> DEFINE S == {"passed", "failed", "inconclusive"}
  <1>1. TypeOK /\ Places /\ Settled /\ Running /\ Accounted
    BY DEF IInv
  <1>2. /\ i \in 1..Len(cases) /\ Len(cases) \in Nat /\ Len(verdicts) = Len(cases)
        /\ summary \in Seq(S) /\ exit \in {-1, 0, 1}
    BY <1>1, LenProperties DEF TypeOK, Places
  <1>3. /\ i' = i + 1 /\ todo' = NoSteps /\ bad' = FALSE /\ raising' = FALSE
        /\ dir => /\ summary' = Append(summary, status) /\ exit' = exit
                  /\ pc' = IF i < Len(cases) THEN "case" ELSE "summary"
        /\ ~dir => pc' = "exit" /\ summary' = summary /\ exit' \in {0, 1}
    BY DEF CaseEnds, Exits
  <1>4. /\ Append(summary, status) \in Seq(S)
        /\ Len(Append(summary, status)) = Len(summary) + 1
        /\ Append(summary, status)[Len(summary) + 1] = status
        /\ \A k \in 1..Len(summary) : Append(summary, status)[k] = summary[k]
    <2>1. status \in S
      OBVIOUS
    <2> QED
      BY <1>2, <2>1, AppendProperties
  <1>5. CommandTypeOK'
    <2>1. todo' \in [body : Seq(Step), teardown : Seq(Step)]
      BY <1>3, EmptySeq DEF NoSteps
    <2>2. summary' \in Seq(S)
      BY <1>2, <1>3, <1>4
    <2>3. i' \in 1..(Len(cases) + 1)
      BY <1>2, <1>3
    <2>4. pc' \in {"case", "summary", "exit"} /\ exit' \in {-1, 0, 1}
      BY <1>1, <1>2, <1>3 DEF TypeOK
    <2>5. verdicts' \in Seq(Seq(Status)) /\ Len(verdicts') = Len(cases)
      BY <1>2
    <2> QED
      BY <1>1, <1>3, <2>1, <2>2, <2>3, <2>4, <2>5 DEF TypeOK, CommandTypeOK
  <1>6. Places'
    BY <1>1, <1>2, <1>3 DEF TypeOK, Places
  <1>7. Settled'
    <2>1. pc' \in {"case", "summary", "exit"}
      BY <1>1, <1>3 DEF TypeOK
    <2>2. AssertingCase' = AssertingCase
      BY DEF AssertingCase, Parses, _case_requires_ai_assertion
    <2>3. /\ \A k \in 1..Len(cases) :
                /\ cases[k].loads /\ cases[k].platform = platform
                /\ platform = "android" => _strict_case_app_id(cases[k])
          /\ AssertingCase # {} => settings.provider
      BY <1>1 DEF Settled
    <2> QED
      BY <2>1, <2>2, <2>3 DEF Settled, _strict_case_app_id
  <1>8. Running'
    <2>1. \A k \in (i + 1)..Len(cases) : verdicts'[k] = <<>>
      <3>1. \A k \in (i + 1)..Len(cases) : verdicts[k] = <<>>
        BY <1>1 DEF Running
      <3>2. \A k \in (i + 1)..Len(cases) : k \in 1..Len(verdicts) /\ k # i
        BY <1>2
      <3> QED
        BY <3>1, <3>2
    <2>2. /\ pc' \in {"case", "summary", "exit"}
          /\ pc' = "case" => i < Len(cases)
      BY <1>1, <1>3 DEF TypeOK
    <2>3. pc' = "case" => verdicts'[i'] = <<>>
      <3>1. pc' = "case" => i + 1 \in (i + 1)..Len(cases)
        BY <1>2, <2>2
      <3> QED
        BY <1>3, <2>1, <3>1
    <2>4. \A k \in (i' + 1)..Len(cases') : verdicts'[k] = <<>>
      BY <1>2, <1>3, <2>1
    <2> QED
      BY <2>2, <2>3, <2>4 DEF Running
  <1>9. Accounted'
    <2> SUFFICES ASSUME dir
                 PROVE  Accounted'
      BY DEF Accounted
    <2>1. Len(summary) = i - 1
      BY <1>1 DEF Accounted
    <2>2. /\ Len(summary') = i
          /\ summary'[i] = status
          /\ \A k \in 1..(i - 1) : summary'[k] = summary[k]
      <3>1. Len(summary) + 1 = i /\ summary' = Append(summary, status)
        BY <1>2, <1>3, <2>1
      <3> QED
        BY <1>4, <2>1, <3>1
    <2>3. ASSUME NEW k \in 1..(i - 1), AllPassed(k)
          PROVE  AllPassed(k)'
      <3>1. k \in 1..Len(verdicts) /\ k # i
        BY <1>2
      <3>2. verdicts'[k] = verdicts[k]
        BY <3>1
      <3> QED
        BY <2>3, <3>2 DEF AllPassed
    <2>4. ASSUME NEW k \in 1..i
          PROVE  /\ summary'[k] \in {"passed", "failed"}
                 /\ summary'[k] = "passed" => AllPassed(k)'
      <3>1. CASE k = i
        BY <2>2, <3>1 DEF AllPassed
      <3>2. CASE k # i
        <4>1. k \in 1..(i - 1) /\ k \in 1..Len(summary)
          BY <1>2, <2>1, <3>2
        <4>2. /\ summary[k] \in {"passed", "failed"}
              /\ summary[k] = "passed" => AllPassed(k)
          BY <1>1, <4>1 DEF Accounted
        <4> QED
          BY <2>2, <2>3, <4>1, <4>2
      <3> QED
        BY <3>1, <3>2
    <2> QED
      BY <1>2, <1>3, <2>2, <2>4 DEF Accounted
  <1> QED
    BY <1>5, <1>6, <1>7, <1>8, <1>9, PartsNext DEF CInv
\* Preparing a case, and refusing one.
LEMMA CaseStartKeeps ==
    ASSUME IInv, _run_strict_case
    PROVE  IInv'
  <1>1. /\ pc = "case" /\ pc' = "body" /\ Prepared(cases[i])
        /\ todo' = _split_trailing_teardown_steps(cases[i].commands)
        /\ UNCHANGED <<strict, dir, settings, cases, i, stepping, bad, raising, verdicts,
                       summary, exit>>
    BY DEF _run_strict_case
  <1>2. TypeOK /\ HInv /\ Places /\ Settled /\ Running /\ Accounted
    BY DEF IInv
  <1>3. _case_requires_ai_assertion(cases[i]) \in BOOLEAN
    BY DEF _case_requires_ai_assertion
  <1>4. HInv' /\ evaluator' = _case_requires_ai_assertion(cases[i]) /\ platform' = platform
    BY <1>2, <1>3, NewHarnessKeeps DEF _run_strict_case
  <1>5. strict /\ i \in 1..Len(cases)
    BY <1>1, <1>2 DEF Places, TypeOK
  <1>6. cases[i].commands \in Seq(Step)
    <2>1. cases[i] \in Case
      BY <1>2, <1>5, ElementOfSeq, CommandAssumption DEF TypeOK
    <2> QED
      BY <2>1 DEF Case
  <1>7. /\ todo' \in [body : Seq(Step), teardown : Seq(Step)]
        /\ Len(todo'.body) + Len(todo'.teardown) = Len(cases[i].commands)
    BY <1>1, <1>6, SplitTypes
  <1>8. CommandTypeOK' /\ Places'
    BY <1>1, <1>2, <1>5, <1>7 DEF TypeOK, CommandTypeOK, Places
  <1>9. Settled'
    <2>1. (Prepared(cases[i]))'
      BY <1>1, <1>4 DEF Prepared, Parses, SecretsResolve
    <2>2. evaluator' = (_case_requires_ai_assertion(cases[i]))'
      BY <1>1, <1>4 DEF _case_requires_ai_assertion
    <2>3. AssertingCase' = AssertingCase
      BY <1>1, <1>4 DEF AssertingCase, Parses, _case_requires_ai_assertion
    <2>4. /\ \A k \in 1..Len(cases) :
                /\ cases[k].loads /\ cases[k].platform = platform
                /\ platform = "android" => _strict_case_app_id(cases[k])
          /\ AssertingCase # {} => settings.provider
      BY <1>1, <1>2, <1>5 DEF Settled
    <2>5. settings' = settings /\ cases' = cases /\ platform' = platform
      BY <1>1, <1>4
    <2> QED
      BY <2>1, <2>2, <2>3, <2>4, <2>5 DEF Settled, _strict_case_app_id
  <1>10. Running'
    <2>1. verdicts'[i'] = <<>> /\ stepping' = FALSE
      BY <1>1, <1>2, <1>5 DEF Running, Places, TypeOK
    <2>2. \A k \in (i' + 1)..Len(cases') : verdicts'[k] = <<>>
      BY <1>1, <1>2, <1>5 DEF Running
    <2>3. Len(todo'.body) \in Nat /\ Len(todo'.teardown) \in Nat
      BY <1>7, LenProperties
    <2>4. /\ Len(verdicts'[i']) + Len(todo'.body) + Len(todo'.teardown)
                = Len(cases'[i'].commands)
          /\ \A j \in 1..Len(verdicts'[i']) : verdicts'[i'][j] = "passed"
      <3>1. Len(verdicts'[i']) = 0 /\ Len(cases'[i'].commands) = Len(cases[i].commands)
        BY <1>1, <2>1
      <3> QED
        BY <1>7, <2>1, <2>3, <3>1
    <2> QED
      BY <1>1, <2>1, <2>2, <2>4 DEF Running
  <1>11. Accounted'
    BY <1>1, <1>2 DEF Accounted, AllPassed
  <1> QED
    BY <1>4, <1>8, <1>9, <1>10, <1>11, PartsNext DEF CInv

LEMMA RefusalKeeps ==
    ASSUME IInv, CaseRefused
    PROVE  IInv'
  <1>1. HInv' /\ platform' = platform
    BY DEF CaseRefused, IInv, HInv, hvars, HarnessTypeOK, HarnessPlaces, DrivenAsReported
  <1>2. strict /\ ~stepping /\ verdicts \in Seq(Seq(Status))
    BY DEF IInv, TypeOK, Places, CaseRefused
  <1> QED
    BY <1>1, <1>2, CaseEndKeeps DEF CaseRefused
\* A step of the body or the teardown begins.
LEMMA StepStartKeeps ==
    ASSUME IInv, StepStarts
    PROVE  IInv'
  <1>1. TypeOK /\ HInv /\ Places /\ Settled /\ Running /\ Accounted
    BY DEF IInv
  <1>2. /\ pc \in {"body", "teardown"} /\ stepping = FALSE /\ stepping' = TRUE
        /\ todo' = [todo EXCEPT ![pc] = Tail(Left)]
        /\ UNCHANGED <<strict, dir, settings, cases, i, pc, bad, raising, verdicts,
                       summary, exit>>
    BY <1>1 DEF StepStarts, TypeOK
  <1>3. /\ Left \in Seq(Step) /\ Left # <<>>
        /\ pc = "body" => Left = todo.body
        /\ pc = "teardown" => Left = todo.teardown /\ todo.body = <<>>
    BY <1>1, <1>2 DEF StepStarts, Left, TypeOK, Running
  <1>4. /\ Head(Left) \in Step /\ Tail(Left) \in Seq(Step)
        /\ Len(Tail(Left)) = Len(Left) - 1
    BY <1>3, HeadTailProperties
  <1>5. HInv' /\ UNCHANGED <<platform, evaluator>>
    BY <1>1, <1>4, InvokeKeeps DEF StepStarts
  <1>6. /\ todo' \in [body : Seq(Step), teardown : Seq(Step)]
        /\ Len(todo'.body) + Len(todo'.teardown) + 1 = Len(todo.body) + Len(todo.teardown)
        /\ pc = "teardown" => todo'.body = <<>>
    <2>1. /\ Len(todo.body) \in Nat /\ Len(todo.teardown) \in Nat
          /\ todo \in [body : Seq(Step), teardown : Seq(Step)]
      BY <1>1, LenProperties DEF TypeOK
    <2>2. CASE pc = "body"
      <3>1. todo'.body = Tail(todo.body) /\ todo'.teardown = todo.teardown
        BY <1>2, <1>3, <2>1, <2>2
      <3>2. todo' = [body |-> todo'.body, teardown |-> todo'.teardown]
        BY <1>2, <2>1, <2>2
      <3>3. todo'.body \in Seq(Step) /\ Len(todo'.body) = Len(todo.body) - 1
        BY <1>3, <1>4, <2>2, <3>1
      <3>4. todo'.teardown \in Seq(Step) /\ Len(todo'.teardown) = Len(todo.teardown)
        BY <2>1, <3>1
      <3>5. todo' \in [body : Seq(Step), teardown : Seq(Step)]
        BY <3>2, <3>3, <3>4
      <3> QED
        BY <1>3, <2>1, <2>2, <3>1, <3>3, <3>4, <3>5
    <2>3. CASE pc = "teardown"
      <3>1. todo'.teardown = Tail(todo.teardown) /\ todo'.body = todo.body
        BY <1>2, <1>3, <2>1, <2>3
      <3>2. todo' = [body |-> todo'.body, teardown |-> todo'.teardown]
        BY <1>2, <2>1, <2>3
      <3>3. todo'.teardown \in Seq(Step) /\ Len(todo'.teardown) = Len(todo.teardown) - 1
        BY <1>3, <1>4, <2>3, <3>1
      <3>4. todo'.body \in Seq(Step) /\ Len(todo'.body) = Len(todo.body)
        BY <2>1, <3>1
      <3>5. todo' \in [body : Seq(Step), teardown : Seq(Step)]
        BY <3>2, <3>3, <3>4
      <3> QED
        BY <1>3, <2>1, <2>3, <3>1, <3>3, <3>4, <3>5
    <2> QED
      BY <1>2, <2>2, <2>3
  <1>7. CommandTypeOK' /\ Places'
    BY <1>1, <1>2, <1>6 DEF TypeOK, CommandTypeOK, Places
  <1>8. Settled'
    BY <1>1, <1>2, <1>5, SettledStays
  <1>9. Running'
    <2>1. ASSUME strict, ~bad, ~raising
          PROVE  /\ Len(verdicts[i]) + Len(todo'.body) + Len(todo'.teardown) + 1
                        = Len(cases[i].commands)
                 /\ \A j \in 1..Len(verdicts[i]) : verdicts[i][j] = "passed"
      <3>1. Len(todo.body) \in Nat /\ Len(todo.teardown) \in Nat
        BY <1>1, LenProperties DEF TypeOK
      <3>2. Len(todo'.body) \in Nat /\ Len(todo'.teardown) \in Nat
        BY <1>6, LenProperties
      <3>3. Len(verdicts[i]) \in Nat
        <4>1. i \in 1..Len(verdicts)
          BY <1>1, <1>2 DEF TypeOK, Places
        <4> QED
          BY <1>1, <4>1, ElementOfSeq, LenProperties DEF TypeOK
      <3>4. /\ Len(verdicts[i]) + Len(todo.body) + Len(todo.teardown)
                    = Len(cases[i].commands)
            /\ \A j \in 1..Len(verdicts[i]) : verdicts[i][j] = "passed"
        BY <1>1, <1>2, <2>1 DEF Running
      <3> DEFINE r == Len(verdicts[i])
                 b == Len(todo.body)
                 t == Len(todo.teardown)
                 b1 == Len(todo'.body)
                 t1 == Len(todo'.teardown)
      <3>5. r \in Nat /\ b \in Nat /\ t \in Nat /\ b1 \in Nat /\ t1 \in Nat
        BY <3>1, <3>2, <3>3
      <3>6. b1 + t1 + 1 = b + t
        BY <1>6
      <3> HIDE DEF r, b, t, b1, t1
      <3>7. r + b1 + t1 + 1 = r + b + t
        BY <3>5, <3>6
      <3> QED
        BY <3>4, <3>7 DEF r, b, t, b1, t1
    <2>2. strict => \A k \in (i + 1)..Len(cases) : verdicts[k] = <<>>
      BY <1>1 DEF Running
    <2> QED
      BY <1>2, <1>6, <2>1, <2>2 DEF Running
  <1>10. Accounted'
    BY <1>1, <1>2 DEF Accounted, AllPassed
  <1> QED
    BY <1>5, <1>7, <1>8, <1>9, <1>10, PartsNext DEF CInv

\* What recording a verdict for the running case does.
LEMMA RecordTypes ==
    ASSUME TypeOK, i <= Len(cases), NEW v \in Status, Records(v)
    PROVE  /\ verdicts' \in Seq(Seq(Status)) /\ Len(verdicts') = Len(verdicts)
           /\ \A k \in 1..Len(verdicts) : k # i => verdicts'[k] = verdicts[k]
           /\ Len(verdicts[i]) \in Nat /\ Len(verdicts'[i]) = Len(verdicts[i]) + 1
           /\ verdicts'[i][Len(verdicts[i]) + 1] = v
           /\ \A j \in 1..Len(verdicts[i]) : verdicts'[i][j] = verdicts[i][j]
  <1>1. verdicts \in Seq(Seq(Status)) /\ i \in 1..Len(verdicts)
    BY DEF TypeOK
  <1>2. verdicts[i] \in Seq(Status)
    BY <1>1, ElementOfSeq
  <1>3. /\ Append(verdicts[i], v) \in Seq(Status)
        /\ Len(Append(verdicts[i], v)) = Len(verdicts[i]) + 1
        /\ Append(verdicts[i], v)[Len(verdicts[i]) + 1] = v
        /\ \A j \in 1..Len(verdicts[i]) : Append(verdicts[i], v)[j] = verdicts[i][j]
    BY <1>2, AppendProperties
  <1>4. verdicts' = [verdicts EXCEPT ![i] = Append(verdicts[i], v)]
    BY DEF Records
  <1>5. /\ verdicts' \in Seq(Seq(Status)) /\ Len(verdicts') = Len(verdicts)
        /\ \A k \in 1..Len(verdicts) :
              verdicts'[k] = IF k = i THEN Append(verdicts[i], v) ELSE verdicts[k]
    BY <1>1, <1>3, <1>4, ExceptSeq
  <1> QED
    BY <1>1, <1>2, <1>3, <1>5, LenProperties
\* The cases that are over stay accounted for while the running one goes on.
LEMMA StillAccounted ==
    ASSUME TypeOK, Accounted, pc \in {"body", "teardown"}, pc' \in {"body", "teardown"},
           \A k \in 1..Len(verdicts) : k # i => verdicts'[k] = verdicts[k],
           UNCHANGED <<strict, dir, cases, i, summary, exit>>
    PROVE  Accounted'
  <1> SUFFICES ASSUME strict, dir
               PROVE  Accounted'
    BY DEF Accounted
  <1>1. Len(summary) = i - 1
    BY DEF Accounted
  <1>2. ASSUME NEW k \in 1..Len(summary)
        PROVE  AllPassed(k)' <=> AllPassed(k)
    <2>1. k \in 1..Len(verdicts) /\ k # i
      BY <1>1 DEF TypeOK
    <2> QED
      BY <2>1 DEF AllPassed
  <1> QED
    BY <1>1, <1>2 DEF Accounted

\* A step has its result.
LEMMA StepEndKeeps ==
    ASSUME IInv, StepEnds
    PROVE  IInv'
  <1>1. TypeOK /\ HInv /\ Places /\ Settled /\ Running /\ Accounted
    BY DEF IInv
  <1>2. PICK v \in {"passed", "failed"} :
           /\ Records(v)
           /\ bad' = (bad \/ v # "passed")
           /\ todo' = IF pc = "body" /\ v # "passed" THEN [todo EXCEPT !.body = <<>>]
                      ELSE todo
    BY DEF StepEnds
  <1>3. /\ pc \in {"body", "teardown"} /\ stepping = TRUE /\ stepping' = FALSE
        /\ UNCHANGED <<hvars, strict, dir, settings, cases, i, pc, raising, summary, exit>>
    BY <1>1 DEF StepEnds, TypeOK
  <1>4. HInv' /\ UNCHANGED <<platform, evaluator>>
    BY <1>1, <1>3 DEF HInv, hvars, HarnessTypeOK, HarnessPlaces, DrivenAsReported
  <1>5. i \in 1..Len(cases) /\ i \in 1..Len(verdicts) /\ strict
    BY <1>1, <1>3 DEF TypeOK, Places
  <1>6. /\ verdicts' \in Seq(Seq(Status)) /\ Len(verdicts') = Len(verdicts)
        /\ \A k \in 1..Len(verdicts) : k # i => verdicts'[k] = verdicts[k]
        /\ Len(verdicts[i]) \in Nat /\ Len(verdicts'[i]) = Len(verdicts[i]) + 1
        /\ verdicts'[i][Len(verdicts[i]) + 1] = v
        /\ \A j \in 1..Len(verdicts[i]) : verdicts'[i][j] = verdicts[i][j]
    BY <1>1, <1>2, <1>5, RecordTypes DEF Status
  <1>7. /\ todo' \in [body : Seq(Step), teardown : Seq(Step)]
        /\ todo.body = <<>> => todo'.body = <<>>
        /\ v = "passed" => todo' = todo
    BY <1>1, <1>2, EmptySeq DEF TypeOK
  <1>8. CommandTypeOK' /\ Places'
    BY <1>1, <1>2, <1>3, <1>6, <1>7 DEF TypeOK, CommandTypeOK, Places
  <1>9. Settled'
    BY <1>1, <1>3, <1>4, SettledStays
  <1>10. Running'
    <2>1. ASSUME ~bad', ~raising'
          PROVE  /\ Len(verdicts'[i]) + Len(todo'.body) + Len(todo'.teardown)
                       = Len(cases[i].commands)
                 /\ \A j \in 1..Len(verdicts'[i]) : verdicts'[i][j] = "passed"
      <3>1. v = "passed" /\ todo' = todo /\ ~bad /\ ~raising
        BY <1>2, <1>3, <1>7, <2>1
      <3>2. Len(todo.body) \in Nat /\ Len(todo.teardown) \in Nat
        BY <1>1, LenProperties DEF TypeOK
      <3>3. /\ Len(verdicts[i]) + Len(todo.body) + Len(todo.teardown) + 1
                   = Len(cases[i].commands)
            /\ \A j \in 1..Len(verdicts[i]) : verdicts[i][j] = "passed"
        BY <1>1, <1>3, <1>5, <3>1 DEF Running
      <3>4. Len(verdicts'[i]) + Len(todo.body) + Len(todo.teardown)
               = Len(verdicts[i]) + Len(todo.body) + Len(todo.teardown) + 1
        <4> DEFINE r == Len(verdicts[i])
                   b == Len(todo.body)
                   t == Len(todo.teardown)
        <4>1. r \in Nat /\ b \in Nat /\ t \in Nat /\ Len(verdicts'[i]) = r + 1
          BY <1>6, <3>2
        <4> HIDE DEF r, b, t
        <4>2. r + 1 + b + t = r + b + t + 1
          BY <4>1
        <4> QED
          BY <4>1, <4>2 DEF r, b, t
      <3>5. \A j \in 1..Len(verdicts'[i]) :
               j \in 1..Len(verdicts[i]) \/ j = Len(verdicts[i]) + 1
        BY <1>6
      <3> QED
        BY <1>6, <3>1, <3>3, <3>4, <3>5
    <2>2. \A k \in (i + 1)..Len(cases) : verdicts'[k] = <<>>
      <3>1. \A k \in (i + 1)..Len(cases) : verdicts[k] = <<>>
        BY <1>1, <1>5 DEF Running
      <3>2. \A k \in (i + 1)..Len(cases) : k \in 1..Len(verdicts) /\ k # i
        BY <1>1, <1>5 DEF TypeOK
      <3> QED
        BY <1>6, <3>1, <3>2
    <2>3. pc' = "teardown" => todo'.body = <<>>
      BY <1>1, <1>3, <1>7 DEF Running
    <2> QED
      BY <1>3, <2>1, <2>2, <2>3 DEF Running
  <1>11. Accounted'
    BY <1>1, <1>3, <1>6, StillAccounted
  <1> QED
    BY <1>4, <1>8, <1>9, <1>10, <1>11, PartsNext DEF CInv
\* The harness raises before a step has a result.
LEMMA RaiseKeeps ==
    ASSUME IInv, StepRaises
    PROVE  IInv'
  <1>1. TypeOK /\ HInv /\ Places /\ Settled /\ Running /\ Accounted
    BY DEF IInv
  <1>2. /\ pc \in {"body", "teardown"} /\ stepping = FALSE /\ Records("raised")
        /\ UNCHANGED <<hvars, strict, dir, settings, cases, stepping>>
    BY <1>1 DEF StepRaises, TypeOK
  <1>3. HInv' /\ UNCHANGED <<platform, evaluator>>
    BY <1>1, <1>2 DEF HInv, hvars, HarnessTypeOK, HarnessPlaces, DrivenAsReported
  <1>4. i \in 1..Len(cases) /\ i \in 1..Len(verdicts) /\ strict
    BY <1>1, <1>2 DEF TypeOK, Places
  <1>5. /\ verdicts' \in Seq(Seq(Status)) /\ Len(verdicts') = Len(verdicts)
        /\ \A k \in 1..Len(verdicts) : k # i => verdicts'[k] = verdicts[k]
    BY <1>1, <1>2, <1>4, RecordTypes DEF Status
  <1>6. CASE pc = "body"
    <2>1. /\ todo' = [todo EXCEPT !.body = <<>>] /\ raising' = TRUE
          /\ UNCHANGED <<i, pc, bad, summary, exit>>
      BY <1>6 DEF StepRaises
    <2>2. todo' \in [body : Seq(Step), teardown : Seq(Step)]
      BY <1>1, <2>1, EmptySeq DEF TypeOK
    <2>3. CommandTypeOK' /\ Places'
      BY <1>1, <1>2, <1>5, <2>1, <2>2 DEF TypeOK, CommandTypeOK, Places
    <2>4. Settled'
      BY <1>1, <1>2, <1>3, <2>1, SettledStays
    <2>5. \A k \in (i + 1)..Len(cases) : verdicts'[k] = <<>>
      <3>1. \A k \in (i + 1)..Len(cases) : verdicts[k] = <<>>
        BY <1>1, <1>4 DEF Running
      <3>2. \A k \in (i + 1)..Len(cases) : k \in 1..Len(verdicts) /\ k # i
        BY <1>1, <1>4 DEF TypeOK
      <3> QED
        BY <1>5, <3>1, <3>2
    <2>6. Running'
      BY <1>2, <1>6, <2>1, <2>5 DEF Running
    <2>7. Accounted'
      BY <1>1, <1>2, <1>5, <2>1, StillAccounted
    <2> QED
      BY <1>3, <2>3, <2>4, <2>6, <2>7, PartsNext DEF CInv
  <1>7. CASE pc = "teardown"
    <2>1. CaseEnds("failed", TRUE)
      BY <1>7 DEF StepRaises
    <2> QED
      BY <1>2, <1>3, <1>4, <1>5, <2>1, CaseEndKeeps
  <1> QED
    BY <1>2, <1>6, <1>7

LEMMA BodyEndKeeps ==
    ASSUME IInv, BodyEnds
    PROVE  IInv'
  <1>1. TypeOK /\ HInv /\ Places /\ Settled /\ Running /\ Accounted
    BY DEF IInv
  <1>2. /\ pc = "body" /\ pc' = "teardown" /\ todo.body = <<>>
        /\ UNCHANGED <<hvars, strict, dir, settings, cases, i, todo, stepping, bad, raising,
                       verdicts, summary, exit>>
    BY DEF BodyEnds
  <1>3. HInv' /\ UNCHANGED <<platform, evaluator>>
    BY <1>1, <1>2 DEF HInv, hvars, HarnessTypeOK, HarnessPlaces, DrivenAsReported
  <1>4. CommandTypeOK' /\ Places'
    BY <1>1, <1>2 DEF TypeOK, CommandTypeOK, Places
  <1>5. Settled'
    BY <1>1, <1>2, <1>3, SettledStays
  <1>6. Running'
    BY <1>1, <1>2 DEF Running
  <1>7. Accounted'
    BY <1>1, <1>2, StillAccounted
  <1> QED
    BY <1>3, <1>4, <1>5, <1>6, <1>7, PartsNext DEF CInv

LEMMA ReportKeeps ==
    ASSUME IInv, CaseReported
    PROVE  IInv'
  <1>1. TypeOK /\ HInv /\ Places /\ Settled /\ Running /\ Accounted
    BY DEF IInv
  <1>2. /\ pc = "teardown" /\ ~stepping /\ todo.teardown = <<>>
        /\ CaseEnds(IF raising \/ bad THEN "failed" ELSE "passed", raising)
        /\ UNCHANGED <<hvars, strict, dir, settings, cases, stepping, verdicts>>
    BY DEF CaseReported
  <1>3. HInv' /\ UNCHANGED platform
    BY <1>1, <1>2 DEF HInv, hvars, HarnessTypeOK, HarnessPlaces, DrivenAsReported
  <1>4. strict /\ i \in 1..Len(verdicts) /\ raising \in BOOLEAN
        /\ verdicts \in Seq(Seq(Status))
    BY <1>1, <1>2 DEF TypeOK, Places
  <1>5. ~raising /\ ~bad => PassedAs(verdicts[i], cases[i])
    <2>1. Len(todo.body) = 0 /\ Len(todo.teardown) = 0
      BY <1>1, <1>2, EmptySeq DEF Running
    <2>2. Len(verdicts[i]) \in Nat
      BY <1>4, ElementOfSeq, LenProperties
    <2>3. Len(verdicts[i]) + Len(todo.body) + Len(todo.teardown) = Len(verdicts[i])
      BY <2>1, <2>2
    <2> QED
      BY <1>1, <1>2, <1>4, <2>3 DEF Running, PassedAs
  <1> QED
    BY <1>2, <1>3, <1>4, <1>5, CaseEndKeeps

LEMMA SummaryKeeps ==
    ASSUME IInv, Summarized
    PROVE  IInv'
  <1>1. TypeOK /\ HInv /\ Places /\ Settled /\ Running /\ Accounted
    BY DEF IInv
  <1>2. /\ pc = "summary" /\ pc' = "exit"
        /\ exit' = IF strict /\ \E k \in 1..Len(summary) : summary[k] = "failed" THEN 1 ELSE 0
        /\ UNCHANGED <<hvars, strict, dir, settings, cases, i, todo, stepping, bad, raising,
                       verdicts, summary>>
    BY DEF Summarized, Exits
  <1>3. HInv'
    BY <1>1, <1>2 DEF HInv, hvars, HarnessTypeOK, HarnessPlaces, DrivenAsReported
  <1>4. CommandTypeOK' /\ Places' /\ Settled' /\ Running'
    BY <1>1, <1>2 DEF TypeOK, CommandTypeOK, Places, Settled, Running
  <1>5. Accounted'
    <2>1. strict /\ dir => Len(summary) = Len(cases)
      BY <1>1, <1>2 DEF Accounted, TypeOK
    <2> QED
      BY <1>1, <1>2, <2>1 DEF Accounted, AllPassed
  <1> QED
    BY <1>3, <1>4, <1>5, PartsNext DEF CInv

\* Nothing is settled or accounted for in a dynamic run.
LEMMA DynamicKeeps ==
    ASSUME IInv, ~strict, UNCHANGED strict, HInv', CommandTypeOK', Places'
    PROVE  IInv'
  BY PartsNext DEF CInv, Settled, Running, Accounted, Places

LEMMA AgentKeeps ==
    ASSUME IInv, AgentStepStarts \/ AgentStepEnds \/ TaskEnds
    PROVE  IInv'
  <1>1. TypeOK /\ HInv /\ Places
    BY DEF IInv
  <1>2. pc = "task" /\ i \in 1..Len(cases) /\ i \in 1..Len(verdicts) /\ ~strict
    BY <1>1 DEF AgentStepStarts, AgentStepEnds, TaskEnds, TypeOK, Places
  <1>3. CASE AgentStepStarts
    <2>1. PICK s \in Step : invoke_action(s)
      BY <1>3, CommandAssumption DEF AgentStepStarts
    <2>2. HInv'
      BY <1>1, <2>1, InvokeKeeps
    <2>3. CommandTypeOK' /\ Places'
      BY <1>1, <1>3 DEF TypeOK, CommandTypeOK, Places, AgentStepStarts
    <2> QED
      BY <1>2, <1>3, <2>2, <2>3, DynamicKeeps DEF AgentStepStarts
  <1>4. CASE AgentStepEnds
    <2>1. HInv'
      BY <1>1, <1>4 DEF AgentStepEnds, HInv, hvars, HarnessTypeOK, HarnessPlaces,
         DrivenAsReported
    <2>2. result.status \in Status
      BY <1>1 DEF TypeOK, HarnessTypeOK
    <2>3. verdicts' \in Seq(Seq(Status)) /\ Len(verdicts') = Len(verdicts)
      BY <1>1, <1>2, <1>4, <2>2, RecordTypes DEF AgentStepEnds
    <2>4. CommandTypeOK' /\ Places'
      BY <1>1, <1>4, <2>3 DEF TypeOK, CommandTypeOK, Places, AgentStepEnds
    <2> QED
      BY <1>2, <1>4, <2>1, <2>4, DynamicKeeps DEF AgentStepEnds
  <1>5. CASE TaskEnds
    <2>1. settings.provider \in BOOLEAN
      BY <1>1 DEF TypeOK
    <2>2. HInv'
      BY <1>1, <1>5, <2>1, NewHarnessKeeps DEF TaskEnds
    <2>3. verdicts' \in Seq(Seq(Status)) /\ Len(verdicts') = Len(verdicts)
      <3>1. <<>> \in Seq(Status)
        BY EmptySeq
      <3> QED
        BY <1>1, <1>2, <1>5, <3>1, ExceptSeq DEF TypeOK, TaskEnds
    <2>4. /\ summary' \in Seq({"passed", "failed", "inconclusive"})
          /\ pc' \in {"task", "summary", "exit"} /\ exit' \in {-1, 0, 1}
          /\ pc' = "task" => i < Len(cases)
      <3> DEFINE S == {"passed", "failed", "inconclusive"}
      <3>1. PICK status \in S, raised \in BOOLEAN :
               IF dir
               THEN /\ summary' = Append(summary, IF raised THEN "failed" ELSE status)
                    /\ pc' = IF i < Len(cases) THEN "task" ELSE "summary"
                    /\ UNCHANGED exit
               ELSE Exits(IF raised THEN 1 ELSE 0) /\ UNCHANGED summary
        BY <1>5 DEF TaskEnds
      <3>2. Append(summary, IF raised THEN "failed" ELSE status) \in Seq(S)
        <4>1. (IF raised THEN "failed" ELSE status) \in S /\ summary \in Seq(S)
          BY <1>1 DEF TypeOK
        <4> QED
          BY <4>1, AppendProperties
      <3> QED
        BY <1>1, <3>1, <3>2 DEF TypeOK, Exits
    <2>5. /\ i' = i + 1 /\ i' \in 1..(Len(cases) + 1) /\ stepping' = FALSE
          /\ UNCHANGED <<strict, dir, settings, cases, todo, stepping, bad, raising>>
      BY <1>1, <1>2, <1>5 DEF TaskEnds, TypeOK
    <2>6. CommandTypeOK'
      BY <1>1, <2>3, <2>4, <2>5 DEF TypeOK, CommandTypeOK
    <2>7. Places'
      BY <1>1, <1>2, <2>4, <2>5 DEF TypeOK, Places
    <2> QED
      BY <1>2, <2>2, <2>5, <2>6, <2>7, DynamicKeeps
  <1> QED
    BY <1>3, <1>4, <1>5

LEMMA Stuttering ==
    ASSUME IInv, UNCHANGED vars
    PROVE  IInv'
  <1>1. HInv'
    BY DEF IInv, HInv, vars, hvars, HarnessTypeOK, HarnessPlaces, DrivenAsReported
  <1>2. CInv'
    BY HarnessMoves, Parts DEF vars, hvars
  <1> QED
    BY <1>1, <1>2, PartsNext

LEMMA Keeps == IInv /\ [Next]_vars => IInv'
  <1> SUFFICES ASSUME IInv, [Next]_vars
               PROVE  IInv'
    OBVIOUS
  <1>1. CASE _run_strict
    BY <1>1, ValidationKeeps
  <1>2. CASE _run_strict_case
    BY <1>2, CaseStartKeeps
  <1>3. CASE CaseRefused
    BY <1>3, RefusalKeeps
  <1>4. CASE StepStarts
    BY <1>4, StepStartKeeps
  <1>5. CASE Steps \/ StepFails \/ WorldMoves
    <2>1. HInv /\ CInv
      BY Parts
    <2>2. HInv' /\ UNCHANGED <<platform, evaluator>>
      BY <1>5, <2>1, DriverKeeps DEF Steps, StepFails, WorldMoves
    <2>3. CInv'
      BY <1>5, <2>1, <2>2, HarnessMoves DEF Steps, StepFails, WorldMoves
    <2> QED
      BY <2>2, <2>3, PartsNext
  <1>6. CASE StepEnds
    BY <1>6, StepEndKeeps
  <1>7. CASE StepRaises
    BY <1>7, RaiseKeeps
  <1>8. CASE BodyEnds
    BY <1>8, BodyEndKeeps
  <1>9. CASE CaseReported
    BY <1>9, ReportKeeps
  <1>10. CASE Summarized
    BY <1>10, SummaryKeeps
  <1>11. CASE AgentStepStarts \/ AgentStepEnds \/ TaskEnds
    BY <1>11, AgentKeeps
  <1>12. CASE UNCHANGED vars
    BY <1>12, Stuttering
  <1> QED
    BY <1>1, <1>2, <1>3, <1>4, <1>5, <1>6, <1>7, <1>8, <1>9, <1>10, <1>11, <1>12
    DEF Next, FairNext

LEMMA Invariant == Spec => []IInv
  BY Starts, Keeps, PTL DEF Spec

------------------------------------------------------------------------------
(* The theorems.                                                            *)

\* Every variable of the command and of its harness keeps its type.
THEOREM TypeCorrect == Spec => []TypeOK
  <1>1. IInv => TypeOK
    BY DEF IInv
  <1> QED
    BY <1>1, Invariant, PTL

\* A step is reported as what it did to the device, whatever the screen, the
\* desktop and the backends do meanwhile.
THEOREM DrivenCorrect == Spec => []DrivenAsReported
  <1>1. IInv => DrivenAsReported
    BY DEF IInv, HInv
  <1> QED
    BY <1>1, Invariant, PTL

\* No step of a strict case runs before all that a batch and the case need is
\* settled.
THEOREM PreparedCorrect == Spec => []PreparedBeforeActing
  <1>1. IInv => PreparedBeforeActing
    <2> SUFFICES ASSUME IInv, strict, stepping
                 PROVE  /\ Parses(cases[i]) /\ SecretsResolve(cases[i])
                        /\ _case_requires_ai_assertion(cases[i])
                              => settings.provider /\ evaluator
                        /\ \A k \in 1..Len(cases) :
                              /\ cases[k].loads /\ cases[k].platform = platform
                              /\ _strict_case_app_id(cases[k])
      BY DEF PreparedBeforeActing
    <2>1. pc \in {"body", "teardown"} /\ i \in 1..Len(cases)
      BY DEF IInv, Places, TypeOK
    <2>2. Prepared(cases[i]) /\ evaluator = _case_requires_ai_assertion(cases[i])
      BY <2>1 DEF IInv, Settled
    <2>3. _case_requires_ai_assertion(cases[i]) => i \in AssertingCase
      BY <2>1, <2>2 DEF AssertingCase, Prepared
    <2> QED
      BY <2>1, <2>2, <2>3 DEF IInv, Settled, Prepared
  <1> QED
    BY <1>1, Invariant, PTL

\* A batch has a line for each of its cases, "passed" only for those whose
\* every step passed, and its exit code says whether there is another.
THEOREM BatchCorrect == Spec => []BatchAccountsForEveryCase
  <1>1. IInv => BatchAccountsForEveryCase
    BY DEF IInv, Accounted, AllPassed, PassedAs, BatchAccountsForEveryCase
  <1> QED
    BY <1>1, Invariant, PTL
=============================================================================
