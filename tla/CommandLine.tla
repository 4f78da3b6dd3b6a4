----------------------------- MODULE CommandLine -----------------------------
(***************************************************************************)
(* The command "run": strict cases, replayed step by step through the      *)
(* harness, and dynamic tasks, whose steps the agent decides.  A strict    *)
(* batch is validated as far as the code validates it, then its cases run  *)
(* one after the other, each with a harness of its own.                    *)
(*                                                                         *)
(* A case is the YAML file as far as the command looks into it.  A step is *)
(* run as StepRunner and StepSequence say, which have modules of their     *)
(* own: here it has a status or raises.                                    *)
(***************************************************************************)
EXTENDS Harness

CONSTANTS
    Cases,      \* the case files there may be
    MaxCases,   \* bound: the cases of a directory
    AgentSteps, \* the steps an agent may take
    MaxSteps    \* bound: the steps of a dynamic task

Case == [platform : Platform, appId : BOOLEAN, loads : BOOLEAN, commands : Seq(Step)]

ASSUME CommandAssumption ==
    /\ Cases \subseteq Case /\ Cases # {} /\ AgentSteps \subseteq Step
    /\ MaxCases \in Nat \ {0} /\ MaxSteps \in Nat

VARIABLES
    strict,     \* --strict
    dir,        \* --case-dir
    settings,   \* whether an app id is configured and the provider is ready
    cases,      \* the cases to run
    i,          \* the case that runs
    pc,         \* where the command is
    todo,       \* the steps left: the body's, then the teardown's
    stepping,   \* whether a step is inside run_step
    bad,        \* a recorded step of the case did not pass
    raising,    \* an exception of a body step waits for the teardown to end
    verdicts,   \* what the steps of each case came to, in order; those of a
                \* dynamic task while it runs
    summary,    \* the batch summary: the status of each case
    exit        \* the exit code, -1 before

cvars == <<strict, dir, settings, cases, i, pc, todo, stepping, bad, raising,
           verdicts, summary, exit>>
vars == <<hvars, cvars>>

TypeOK ==
    /\ HarnessTypeOK
    /\ strict \in BOOLEAN /\ dir \in BOOLEAN
    /\ settings \in [appId : BOOLEAN, provider : BOOLEAN]
    /\ cases \in Seq(Cases) /\ i \in 1..(Len(cases) + 1)
    /\ pc \in {"validate", "case", "body", "teardown", "task", "summary", "exit"}
    /\ todo \in [body : Seq(Step), teardown : Seq(Step)]
    /\ stepping \in BOOLEAN /\ bad \in BOOLEAN /\ raising \in BOOLEAN
    /\ verdicts \in Seq(Seq(Status)) /\ Len(verdicts) = Len(cases)
    /\ summary \in Seq({"passed", "failed", "inconclusive"})
    /\ exit \in {-1, 0, 1}

NoSteps == [body |-> <<>>, teardown |-> <<>>]

Batches(n) == UNION {[1..k -> Cases] : k \in 1..n}

\* A dynamic run does not look into its files.
RawTasks(n) == UNION {[1..k -> {CHOOSE c \in Cases : TRUE}] : k \in 1..n}

\* _validate_run_inputs has let the options pass: one source, and for --strict
\* a case. The agent can be built for either platform.
Init ==
    /\ HarnessInit
    /\ strict \in BOOLEAN /\ dir \in BOOLEAN
    /\ settings \in [appId : IF strict THEN BOOLEAN ELSE {TRUE}, provider : BOOLEAN]
    /\ evaluator = (~strict /\ settings.provider)
    /\ LET n == IF dir THEN MaxCases ELSE 1
       IN  cases \in IF strict THEN Batches(n) ELSE RawTasks(n)
    /\ i = 1 /\ todo = NoSteps
    /\ pc = IF strict THEN "validate" ELSE "task"
    /\ stepping = FALSE /\ bad = FALSE /\ raising = FALSE
    /\ verdicts = [k \in 1..Len(cases) |-> <<>>]
    /\ summary = <<>> /\ exit = -1

------------------------------------------------------------------------------
(* What a case is, before it runs.                                          *)

\* to_executable_steps: the shape of every command, the parameters of those
\* whose capability is known.
Parses(c) == \A k \in 1..Len(c.commands) :
    LET s == c.commands[k] IN
    /\ s.params # "shape"
    /\ s.action \in CommonAction \cup DriverAction(platform) => s.params = "ok"

\* resolve_strict_replay_steps
SecretsResolve(c) == \A k \in 1..Len(c.commands) :
    c.commands[k].secret \in {"none", "set"}

_case_requires_ai_assertion(c) ==
    \E k \in 1..Len(c.commands) : c.commands[k].action = "assert_with_ai"

_strict_case_app_id(c) == settings.appId \/ c.appId

\* any() stops at the first case with an AI assertion; the commands of those
\* before it are parsed on the way, and an error in one ends the command.
AssertingCase == {k \in 1..Len(cases) : Parses(cases[k])
                                        /\ _case_requires_ai_assertion(cases[k])}
ParsedFirst == {k \in 1..Len(cases) : \A a \in AssertingCase : k <= a}

validate_strict_core_settings ==
    /\ \A k \in ParsedFirst : Parses(cases[k])
    /\ AssertingCase # {} => settings.provider

\* _split_trailing_teardown_steps
SplitAt(s) ==
    LET Tail_(k) == \A j \in (k + 1)..Len(s) : s[j].action = "kill_app"
    IN  CHOOSE k \in 0..Len(s) : Tail_(k) /\ (k > 0 => ~Tail_(k - 1))

_split_trailing_teardown_steps(s) ==
    [body |-> SubSeq(s, 1, SplitAt(s)), teardown |-> SubSeq(s, SplitAt(s) + 1, Len(s))]

------------------------------------------------------------------------------
Exits(code) == pc' = "exit" /\ exit' = code

\* Mutant: secrets are left to the harness
PreparedWithoutSecrets(c) == Parses(c) /\ platform = "android"

\* What _run_strict_case settles before the first step. Windows has no strict
\* harness, although the settings are accepted.
Prepared(c) == Parses(c) /\ SecretsResolve(c) /\ platform = "android"

_run_strict ==
    /\ pc = "validate"
    /\ IF /\ \A k \in 1..Len(cases) : cases[k].loads /\ cases[k].platform = platform
          /\ validate_strict_core_settings
          /\ platform = "android" =>
                \A k \in 1..Len(cases) : _strict_case_app_id(cases[k])
       THEN pc' = "case" /\ UNCHANGED exit
       ELSE Exits(1)
    /\ UNCHANGED <<hvars, strict, dir, settings, cases, i, todo, stepping, bad,
                   raising, verdicts, summary>>

\* A case of a batch is over: its line of the summary. A single case leaves
\* with 0 when it ran, whatever its report says, and with 1 on an exception.
CaseEnds(status, raised) ==
    /\ i' = i + 1 /\ todo' = NoSteps
    /\ bad' = FALSE /\ raising' = FALSE
    /\ IF dir THEN /\ summary' = Append(summary, status)
                   /\ pc' = IF i < Len(cases) THEN "case" ELSE "summary"
                   /\ UNCHANGED exit
       ELSE /\ Exits(IF raised THEN 1 ELSE 0)
            /\ UNCHANGED summary

_run_strict_case ==
    /\ pc = "case" /\ Prepared(cases[i])
    /\ NewHarness(_case_requires_ai_assertion(cases[i]))
    /\ todo' = _split_trailing_teardown_steps(cases[i].commands)
    /\ pc' = "body"
    /\ UNCHANGED <<strict, dir, settings, cases, i, stepping, bad, raising, verdicts,
                   summary, exit>>

\* Also for a device that does not answer.
CaseRefused ==
    /\ pc = "case"
    /\ CaseEnds("failed", TRUE)
    /\ UNCHANGED <<hvars, strict, dir, settings, cases, stepping, verdicts>>

------------------------------------------------------------------------------
(* The steps of a strict case.                                              *)

Left == IF pc = "body" THEN todo.body ELSE todo.teardown

StepStarts ==
    /\ pc \in {"body", "teardown"} /\ ~stepping /\ Left # <<>>
    /\ invoke_action(Head(Left))
    /\ todo' = [todo EXCEPT ![pc] = Tail(Left)]
    /\ stepping' = TRUE
    /\ UNCHANGED <<strict, dir, settings, cases, i, pc, bad, raising, verdicts,
                   summary, exit>>

Steps ==
    /\ stepping /\ DriverNext
    /\ UNCHANGED cvars

StepFails ==
    /\ stepping /\ DriverRaises
    /\ UNCHANGED cvars

WorldMoves ==
    /\ stepping /\ World
    /\ UNCHANGED cvars

Records(v) == verdicts' = [verdicts EXCEPT ![i] = Append(@, v)]

\* A step has its result; a failing capture makes it a failed one. The body
\* stops at the first that did not pass.
StepEnds ==
    /\ pc \in {"body", "teardown"} /\ stepping /\ at = "idle"
    /\ \E v \in {"passed", "failed"} :
         /\ v = "passed" => result.status = "passed"
         /\ Records(v)
         /\ bad' = (bad \/ v # "passed")
         /\ todo' = IF pc = "body" /\ v # "passed" THEN [todo EXCEPT !.body = <<>>]
                    ELSE todo
    /\ stepping' = FALSE
    /\ UNCHANGED <<hvars, strict, dir, settings, cases, i, pc, raising, summary, exit>>

\* get_context of the harness raises, and the step leaves no result; the
\* teardown follows a body, but not a teardown step.
StepRaises ==
    /\ pc \in {"body", "teardown"} /\ ~stepping /\ Left # <<>>
    /\ Records("raised")
    /\ IF pc = "body"
       THEN /\ todo' = [todo EXCEPT !.body = <<>>] /\ raising' = TRUE
            /\ UNCHANGED <<i, pc, bad, summary, exit>>
       ELSE CaseEnds("failed", TRUE)
    /\ UNCHANGED <<hvars, strict, dir, settings, cases, stepping>>

BodyEnds ==
    /\ pc = "body" /\ ~stepping /\ todo.body = <<>>
    /\ pc' = "teardown"
    /\ UNCHANGED <<hvars, strict, dir, settings, cases, i, todo, stepping, bad, raising,
                   verdicts, summary, exit>>

\* Mutant: the exception is lost on its way through the teardown
CaseReportedForgetting ==
    /\ pc = "teardown" /\ ~stepping /\ todo.teardown = <<>>
    /\ CaseEnds(IF bad THEN "failed" ELSE "passed", FALSE)
    /\ UNCHANGED <<hvars, strict, dir, settings, cases, stepping, verdicts>>

\* The report counts the recorded steps that did not pass.
CaseReported ==
    /\ pc = "teardown" /\ ~stepping /\ todo.teardown = <<>>
    /\ CaseEnds(IF raising \/ bad THEN "failed" ELSE "passed", raising)
    /\ UNCHANGED <<hvars, strict, dir, settings, cases, stepping, verdicts>>

\* The batch summary is written; only a failed case of a strict batch counts.
Summarized ==
    /\ pc = "summary"
    /\ Exits(IF strict /\ \E k \in 1..Len(summary) : summary[k] = "failed" THEN 1 ELSE 0)
    /\ UNCHANGED <<hvars, strict, dir, settings, cases, i, todo, stepping, bad, raising,
                   verdicts, summary>>

------------------------------------------------------------------------------
(* A dynamic task: the agent takes steps until it, or an exception, ends    *)
(* it; without a provider there is no agent. Steps that the agent may take  *)
(* at any moment are not fair. An exception of a task of a directory is a   *)
(* line of its summary; one of the recording changes nothing.               *)

AgentStepStarts ==
    /\ pc = "task" /\ ~stepping /\ settings.provider
    /\ Len(verdicts[i]) < MaxSteps
    /\ \E s \in AgentSteps : invoke_action(s)
    /\ stepping' = TRUE
    /\ UNCHANGED <<strict, dir, settings, cases, i, pc, todo, bad, raising, verdicts,
                   summary, exit>>

AgentStepEnds ==
    /\ pc = "task" /\ stepping /\ at = "idle"
    /\ Records(result.status)
    /\ stepping' = FALSE
    /\ UNCHANGED <<hvars, strict, dir, settings, cases, i, pc, todo, bad, raising,
                   summary, exit>>

TaskEnds ==
    /\ pc = "task" /\ ~stepping
    /\ NewHarness(settings.provider)
    /\ i' = i + 1
    /\ \E status \in {"passed", "failed", "inconclusive"}, raised \in BOOLEAN :
         /\ ~settings.provider => raised
         /\ IF dir
            THEN /\ summary' = Append(summary, IF raised THEN "failed" ELSE status)
                 /\ pc' = IF i < Len(cases) THEN "task" ELSE "summary"
                 /\ UNCHANGED exit
            ELSE Exits(IF raised THEN 1 ELSE 0) /\ UNCHANGED summary
    /\ verdicts' = [verdicts EXCEPT ![i] = <<>>]
    /\ UNCHANGED <<strict, dir, settings, cases, todo, stepping, bad, raising>>

------------------------------------------------------------------------------
FairNext ==
    \/ _run_strict \/ _run_strict_case \/ CaseRefused \/ StepStarts \/ Steps \/ StepEnds
    \/ BodyEnds \/ CaseReported \/ Summarized \/ AgentStepEnds \/ TaskEnds

Next == FairNext \/ StepFails \/ WorldMoves \/ StepRaises \/ AgentStepStarts

Spec == Init /\ [][Next]_vars

\* The command's own thread runs, and calls into a device or provider return.
FairSpec == Spec /\ WF_vars(FairNext)

------------------------------------------------------------------------------
(* A batch accounts for every case once and in order, whatever happened to  *)
(* it: "passed" stands for a case whose every step ran and passed, and the  *)
(* command exits with 0 exactly then.                                       *)
BatchAccountsForEveryCase ==
    strict /\ dir /\ pc = "exit" /\ summary # <<>> =>
        /\ Len(summary) = Len(cases)
        /\ \A k \in 1..Len(cases) : summary[k] = "passed" =>
              /\ Len(verdicts[k]) = Len(cases[k].commands)
              /\ \A j \in 1..Len(verdicts[k]) : verdicts[k][j] = "passed"
        /\ exit = 0 <=> \A k \in 1..Len(cases) : summary[k] = "passed"

(* No input reaches the device, and no assertion the provider, for a case   *)
(* that could not be prepared: an app id, parsed commands, resolved secrets *)
(* and the provider of its assertions, and the platform of every case.      *)
PreparedBeforeActing ==
    strict /\ stepping =>
        /\ Parses(cases[i]) /\ SecretsResolve(cases[i])
        /\ _case_requires_ai_assertion(cases[i]) => settings.provider /\ evaluator
        /\ \A k \in 1..Len(cases) : /\ cases[k].loads /\ cases[k].platform = platform
                                    /\ _strict_case_app_id(cases[k])

(* The command ends, however its steps fare.                                *)
CommandEnds == <>(pc = "exit")
=============================================================================
