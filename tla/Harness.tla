------------------------------- MODULE Harness -------------------------------
(***************************************************************************)
(* invoke_action of a platform harness: how a step reaches a common tool   *)
(* or a method of the Android (uiautomator2) or the Windows (pywinauto)    *)
(* driver, and what the drivers do to the device.  The web driver has a    *)
(* module of its own.                                                      *)
(*                                                                         *)
(* The screen changes by itself while a step looks for its target and      *)
(* while it sends its input, and so do the processes of the desktop: only  *)
(* the target of the step under way matters, so "visible" is all that is   *)
(* kept of the screen.  An input is one click, key, swipe or text sent to  *)
(* the device: input_text sends three, click, clear and text, and so does  *)
(* type_text when it is asked to clear.                                    *)
(***************************************************************************)
EXTENDS Integers, Sequences, FiniteSets

CONSTANTS
    Polls,      \* times _resolve_main_window tries within its 30 seconds
    MaxStarts   \* bound: processes started by launch_app

ASSUME HarnessAssumption == Polls \in Nat /\ MaxStarts \in Nat

VARIABLES
    platform,   \* the driver's platform
    evaluator,  \* whether the harness has an AI assertion evaluator
    step,       \* the last step invoked
    at,         \* where its invocation is, "idle" outside of one
    result,     \* the HarnessActionResult, or "raised" for an exception
    context,    \* the invocation assert_with_ai would find in the driver
    visible,    \* whether the step's target is on the screen
    inputs,     \* the inputs the step has sent
    running,    \* Windows: the processes with a main window, or about to
    opened,     \* Windows: those whose window is there
    started,    \* Windows: how many launch_app has started
    app,        \* Windows driver: _app, the process it is connected to
    window,     \* Windows driver: _window, by the process it belongs to
    waited      \* polls of _resolve_main_window

hvars == <<platform, evaluator, step, at, result, context, visible, inputs,
           running, opened, started, app, window, waited>>

Platform == {"android", "windows"}
NoProcess == -1
Foreign == 0            \* a window that nobody launched
Process == Foreign..MaxStarts

CommonAction == {"wait_ms", "get_runtime_secret"}

AndroidAction == {"launch_app", "kill_app", "tap_on", "long_press_on", "input_text",
                  "press_key", "swipe", "assert_visible", "assert_not_visible",
                  "assert_state", "assert_with_ai"}

WindowsAction == {"launch_app", "kill_app", "click_on", "double_click_on",
                  "right_click_on", "type_text", "press_key", "assert_visible",
                  "assert_with_ai"}

\* What the driver's decorated methods declare.
DriverAction(p) == IF p = "android" THEN AndroidAction ELSE WindowsAction

Action == CommonAction \cup AndroidAction \cup WindowsAction \cup {"unknown"}
Secret == {"none", "set", "unset", "forbidden"}
Step == [action : Action, params : {"ok", "bad", "shape"}, secret : Secret,
         clear : BOOLEAN]

Category == {"none", "configuration_error", "target_resolution_error",
             "assertion_error", "artifact_error", "harness_error"}
Status == {"passed", "failed", "raised"}

Passed == [status |-> "passed", category |-> "none"]
Failed(c) == [status |-> "failed", category |-> c]
\* classify_error of the harness, when the step runner catches it
Raised == [status |-> "raised", category |-> "harness_error"]

NoStep == [action |-> "unknown", params |-> "ok", secret |-> "none", clear |-> FALSE]

HarnessTypeOK ==
    /\ platform \in Platform /\ evaluator \in BOOLEAN
    /\ step \in Step
    /\ at \in {"idle", "find", "leave", "act", "read", "start", "connect",
               "judge"}
    /\ result \in [status : Status, category : Category]
    /\ context \in BOOLEAN /\ visible \in BOOLEAN
    /\ inputs \in 0..3
    /\ running \subseteq Process /\ opened \subseteq running
    /\ started \in 0..MaxStarts
    /\ app \in Process \cup {NoProcess} /\ window \in Process \cup {NoProcess}
    /\ waited \in 0..Polls

HarnessInit ==
    /\ platform \in Platform /\ evaluator \in BOOLEAN
    /\ step = NoStep /\ at = "idle" /\ result = Passed
    /\ context = FALSE /\ visible = FALSE /\ inputs = 0
    /\ running \in SUBSET {Foreign} /\ opened = running /\ started = 0
    /\ platform = "android" => running = {}
    /\ app = NoProcess /\ window = NoProcess /\ waited = 0

\* A new driver: nothing connected. The desktop is what it was.
NewHarness(e) ==
    /\ at = "idle"
    /\ evaluator' = e /\ app' = NoProcess /\ window' = NoProcess
    /\ UNCHANGED <<platform, step, at, result, context, visible, inputs,
                   running, opened, started, waited>>

\* The finally of invoke_action takes the invocation from the driver.
Return(r) == at' = "idle" /\ result' = r /\ context' = FALSE

desktop == <<running, opened, started, app, window, waited>>
settled == <<platform, evaluator, step>>

------------------------------------------------------------------------------
Inputs(s) == CASE s.action \in {"tap_on", "long_press_on", "click_on", "double_click_on",
                                 "right_click_on", "press_key", "swipe"} -> 1
               [] s.action = "input_text" \/ (s.action = "type_text" /\ s.clear) -> 3
               [] s.action = "type_text" /\ ~s.clear -> 2
               [] OTHER -> 0

\* What the driver's method does first; the app methods of Android, press_key
\* and swipe are one call to the device.
FirstMove(s) ==
    IF s.action = "assert_with_ai" THEN "judge"
    ELSE IF s.action = "launch_app" /\ platform = "windows" THEN "start"
    ELSE IF s.action \in {"launch_app", "kill_app", "press_key", "swipe"} THEN "act"
    ELSE "find"

invoke_common_tool(s) ==
    IF s.params # "ok" \/ (s.action = "get_runtime_secret" /\ s.secret # "set")
    THEN Failed("configuration_error") ELSE Passed

invoke_action(s) ==
    /\ at = "idle"
    /\ step' = s /\ inputs' = 0 /\ waited' = 0
    /\ IF s.action \in CommonAction THEN Return(invoke_common_tool(s))
       ELSE IF s.action \in DriverAction(platform) /\ s.params = "ok"
       THEN at' = FirstMove(s) /\ context' = TRUE /\ UNCHANGED result
       ELSE Return(Failed("configuration_error"))
    /\ visible' \in IF at' = "find" THEN BOOLEAN ELSE {FALSE}
    /\ UNCHANGED <<platform, evaluator, running, opened, started, app, window>>

\* Any call into the device, the desktop or the provider may raise; the step
\* runner then asks classify_error.
DriverRaises ==
    /\ at # "idle"
    /\ Return(Raised)
    /\ UNCHANGED <<settled, visible, inputs, desktop>>

------------------------------------------------------------------------------
(* Finding the target. Android waits for it up to ten seconds; Windows asks *)
(* once, and not at all for a target that is no locator.                    *)

NeedsWindow == platform = "windows" /\ window = NoProcess
OnScreen == visible /\ (platform = "windows" => window \in opened)

Found ==
    /\ at = "find" /\ ~NeedsWindow
    /\ OnScreen \/ (platform = "windows" /\ Inputs(step) > 0)
    /\ IF step.action = "assert_visible" THEN Return(Passed)
       ELSE /\ at' = CASE step.action = "assert_not_visible" -> "leave"
                       [] step.action = "assert_state" -> "read"
                       [] OTHER -> "act"
            /\ UNCHANGED <<result, context>>
    /\ UNCHANGED <<settled, visible, inputs, desktop>>

NotFound ==
    /\ at = "find" /\ ~NeedsWindow /\ ~OnScreen
    /\ Return(IF step.action = "assert_not_visible" THEN Passed
              ELSE Failed("target_resolution_error"))
    /\ UNCHANGED <<settled, visible, inputs, desktop>>

\* wait_gone
Leaves ==
    /\ at = "leave"
    /\ Return(IF OnScreen THEN Failed("assertion_error") ELSE Passed)
    /\ UNCHANGED <<settled, visible, inputs, desktop>>

\* assert_state: the text or the state is as expected or not, or the step says
\* neither text nor state nor locator.
Reads ==
    /\ at = "read" /\ OnScreen
    /\ \E r \in {Passed, Failed("assertion_error"), Failed("configuration_error")} :
         Return(r)
    /\ UNCHANGED <<settled, visible, inputs, desktop>>

------------------------------------------------------------------------------
(* Acting. Every input needs the target (press_key only the window, swipe   *)
(* only the device); one that has gone raises, whatever was sent before.    *)

Reachable == IF step.action \in {"press_key", "swipe"} THEN ~NeedsWindow ELSE OnScreen

\* Mutant: a target that goes away ends the step without an exception
SendsWhatItCan ==
    /\ at = "act" /\ inputs < Inputs(step)
    /\ IF Reachable
       THEN inputs' = inputs + 1 /\ UNCHANGED <<at, result, context>>
       ELSE Return(Passed) /\ UNCHANGED inputs
    /\ UNCHANGED <<settled, visible, desktop>>

Sends ==
    /\ at = "act" /\ inputs < Inputs(step) /\ Reachable
    /\ inputs' = inputs + 1
    /\ UNCHANGED <<settled, at, result, context, visible, desktop>>

\* A swipe with one of its two points
HalfSwipe ==
    /\ at = "act" /\ step.action = "swipe" /\ inputs = 0
    /\ Return(Failed("configuration_error"))
    /\ UNCHANGED <<settled, visible, inputs, desktop>>

\* What it looked at or wanted to act on is not there any more, or there never
\* was a window (_require_window).
TargetGone ==
    /\ \/ at = "find" /\ NeedsWindow
       \/ at = "read" /\ ~OnScreen
       \/ at = "act" /\ inputs < Inputs(step) /\ ~Reachable
    /\ Return(Raised)
    /\ UNCHANGED <<settled, visible, inputs, desktop>>

Sent ==
    /\ at = "act" /\ inputs = Inputs(step)
    /\ ~(platform = "windows" /\ step.action = "kill_app")
    /\ Return(Passed)
    /\ UNCHANGED <<settled, visible, inputs, desktop>>

------------------------------------------------------------------------------
(* The Windows app.                                                         *)

\* Without a path there is nothing to start: params or settings may name it.
_launch_app ==
    /\ at = "start"
    /\ \/ /\ Return(Failed("configuration_error"))
          /\ UNCHANGED <<running, started>>
       \/ /\ started < MaxStarts
          /\ started' = started + 1 /\ running' = running \cup {started + 1}
          /\ at' = "connect" /\ UNCHANGED <<result, context>>
    /\ UNCHANGED <<settled, visible, inputs, opened, app, window, waited>>

\* connect() wants one window with the title, or takes the active one when no
\* title is configured: then any window will do, and one that has gone in
\* between leaves the driver connected to its process, with the window it had.
Connects ==
    /\ at = "connect"
    /\ \E p \in opened :
          /\ app' = p
          /\ \/ window' = p /\ Return(Passed)
             \/ UNCHANGED window /\ Return(Raised)
    /\ UNCHANGED <<settled, visible, inputs, running, opened, started, waited>>

\* Mutant: the loop looks at no deadline
PollsForEver ==
    /\ at = "connect" /\ waited' = waited
    /\ UNCHANGED <<settled, at, result, context, visible, inputs, running, opened,
                   started, app, window>>

\* Mutant: one poll too many
PolledOnceMore ==
    /\ at = "connect"
    /\ IF waited <= Polls
       THEN waited' = waited + 1 /\ UNCHANGED <<at, result, context>>
       ELSE Return(Raised) /\ UNCHANGED waited
    /\ UNCHANGED <<settled, visible, inputs, running, opened, started, app, window>>

\* The process that was started runs on when its window does not come in time,
\* and the driver keeps what it was connected to before.
Polled ==
    /\ at = "connect"
    /\ IF waited < Polls
       THEN waited' = waited + 1 /\ UNCHANGED <<at, result, context>>
       ELSE Return(Raised) /\ UNCHANGED waited
    /\ UNCHANGED <<settled, visible, inputs, running, opened, started, app, window>>

_kill_app ==
    /\ at = "act" /\ platform = "windows" /\ step.action = "kill_app"
    /\ running' = running \ {app} /\ opened' = opened \ {app}
    /\ app' = NoProcess /\ window' = NoProcess
    /\ Return(Passed)
    /\ UNCHANGED <<settled, visible, inputs, started, waited>>

------------------------------------------------------------------------------
(* assert_with_ai: a screenshot, then the provider's verdict; an error of   *)
(* the provider other than a ConfigurationError is a verdict "error".       *)

evaluate == {Passed, Failed("assertion_error"), Failed("harness_error"), Raised}

_run_ai_assertion_tool ==
    /\ at = "judge"
    /\ IF ~evaluator THEN Return(Failed("configuration_error"))
       ELSE IF ~context THEN Return(Failed("harness_error"))
       ELSE \E r \in {Failed("artifact_error")}
                    \cup (IF NeedsWindow THEN {} ELSE evaluate) : Return(r)
    /\ UNCHANGED <<settled, visible, inputs, desktop>>

------------------------------------------------------------------------------
\* The screen and the desktop: a target comes and goes, a process opens its
\* window or ends.
ScreenChanges ==
    /\ at \in {"find", "leave", "act", "read"}
    /\ visible' = ~visible
    /\ UNCHANGED <<settled, at, result, context, inputs, desktop>>

DesktopChanges ==
    /\ at # "idle"
    /\ \E p \in running :
         \/ opened' = opened \cup {p} /\ p \notin opened /\ UNCHANGED running
         \/ opened' = opened \ {p} /\ running' = running \ {p}
    /\ UNCHANGED <<settled, at, result, context, visible, inputs, started, app,
                   window, waited>>

\* The steps the code takes by itself, without an exception of the backends.
DriverNext ==
    \/ TargetGone \/ Found \/ NotFound \/ Leaves \/ Reads \/ Sends \/ Sent
    \/ HalfSwipe
    \/ _launch_app \/ Connects \/ Polled \/ _kill_app \/ _run_ai_assertion_tool

World == ScreenChanges \/ DesktopChanges

------------------------------------------------------------------------------
(* A step is reported as what it did to the device: one that passed has     *)
(* sent all its input, also when its target came and went meanwhile, and    *)
(* one that found no target, or was refused, has sent none.                 *)
DrivenAsReported ==
    at = "idle" =>
        CASE result = Passed -> inputs = Inputs(step)
          [] result.category \in {"target_resolution_error", "configuration_error"} ->
                inputs = 0
          [] OTHER -> TRUE
=============================================================================
