------------------------------- MODULE Targets -------------------------------
(***************************************************************************)
(* One call of a driver action that names a target, from its parameters to *)
(* the element it is about: what the parameter models accept, which query  *)
(* the Android, Web and Windows drivers make of it, and what they do with  *)
(* the elements the query finds.                                           *)
(*                                                                         *)
(* An element is the set of names of the call that fit it; a query is the  *)
(* set of names it asks for, {} where the driver asks for anything: ":root"*)
(* of a page, device() of Android, a window's first control.  The screen   *)
(* changes between any two looks, so every look finds what it likes.       *)
(***************************************************************************)
EXTENDS Naturals, FiniteSets

CONSTANT Calls      \* the calls, of the shape of Call below

VARIABLES call,     \* the call
          open,     \* whether the browser or the app was started
          pc,       \* "call", then what the driver does, then "done"
          used,     \* the elements it sent input to, or whose look passed it
          did,      \* history: what it did of what the call asks for
          result    \* the failure category, "none" of a step that passed

vars == <<call, open, pc, used, did, result>>

\* An optional string that is there: "", white space, or something.
Value == {"empty", "blank", "given"}

AndroidLocator == {"resourceId", "accessibilityId", "text", "className", "xpath"}
AndroidElementState == AndroidLocator \cup {"state"}
WebLocator == {"role", "name", "text", "label", "placeholder", "testId", "css",
               "xpath", "altText", "title"}
WindowsLocator == {"title", "control_type", "automation_id", "class_name", "index",
                   "parent_title", "parent_control_type", "parent_automation_id"}

AndroidAction == {"tap_on", "long_press_on", "input_text", "assert_visible",
                  "assert_not_visible", "assert_state", "press_key", "swipe"}
WebAction == {"click_on", "type_text", "select_option", "hover_on", "press_key",
              "wait_for", "assert_visible", "assert_not_visible", "assert_text"}
WindowsAction == {"click_on", "double_click_on", "right_click_on", "type_text",
                  "press_key", "assert_visible"}

Param == {"target", "locator", "text", "contains", "equals", "hidden", "url", "key",
          "timeout_ms", "values", "value", "label", "index", "direction", "start", "end"}

\* The locator of assert_state is its element.
LocatorFields(c) == CASE c.platform = "web" -> WebLocator
                      [] c.platform = "windows" -> WindowsLocator
                      [] OTHER -> IF c.action = "assert_state" THEN AndroidElementState
                                  ELSE AndroidLocator

\* Parameters and fields that are None are left out (exclude_none).
IsCall(c) ==
    /\ \/ c.platform = "android" /\ c.action \in AndroidAction
       \/ c.platform = "web" /\ c.action \in WebAction
       \/ c.platform = "windows" /\ c.action \in WindowsAction
    /\ DOMAIN c.params \subseteq Param
    /\ DOMAIN c.locator \subseteq LocatorFields(c)
    /\ \A n \in DOMAIN c.params : c.params[n] \in Value
    /\ \A n \in DOMAIN c.locator : c.locator[n] \in Value
    /\ "locator" \notin DOMAIN c.params => DOMAIN c.locator = {}

ASSUME CallsAssumption == \A c \in Calls : IsCall(c)

Has(c, n) == n \in DOMAIN c.params
Gives(c, n) == Has(c, n) /\ c.params[n] = "given"

------------------------------------------------------------------------------
(* What the parameter models accept.                                        *)

GivenFields(c) == {n \in DOMAIN c.locator : c.locator[n] = "given"}

has_value(c) ==
    GivenFields(c) \cap
        (CASE c.platform = "android" -> AndroidLocator
           [] c.platform = "web" -> WebLocator
           [] OTHER -> {"title", "control_type", "automation_id", "class_name"}) # {}

_has_target_value(c) == Gives(c, "target") \/ has_value(c)

\* Mutant: any point will do
_require_one_point(c) == Has(c, "direction") \/ Has(c, "start") \/ Has(c, "end")

_require_direction_or_points(c) ==
    Has(c, "direction") \/ (Has(c, "start") /\ Has(c, "end"))

AndroidAccepts(c) ==
    CASE c.action = "press_key" -> Gives(c, "key")
      [] c.action = "swipe" -> _require_direction_or_points(c)
      [] c.action = "assert_state" ->
            \/ Has(c, "contains") \/ Has(c, "equals")
            \/ has_value(c) \/ "state" \in DOMAIN c.locator
      [] OTHER -> _has_target_value(c)

WebAccepts(c) ==
    CASE c.action = "press_key" -> Gives(c, "key")
      [] c.action = "wait_for" ->
            _has_target_value(c) \/ Gives(c, "text") \/ Gives(c, "url") \/ Has(c, "timeout_ms")
      [] c.action = "select_option" ->
            /\ _has_target_value(c)
            /\ Gives(c, "value") \/ Gives(c, "label") \/ Has(c, "index") \/ Gives(c, "values")
      [] c.action = "assert_text" ->
            _has_target_value(c) /\ (Has(c, "contains") \/ Has(c, "equals"))
      [] OTHER -> _has_target_value(c)

WindowsAccepts(c) ==
    IF c.action = "press_key" THEN Gives(c, "key") ELSE _has_target_value(c)

Accepts(c) == CASE c.platform = "android" -> AndroidAccepts(c)
                [] c.platform = "web" -> WebAccepts(c)
                [] OTHER -> WindowsAccepts(c)

------------------------------------------------------------------------------
(* The query a driver makes of the target.                                  *)

TargetText(c) == IF Gives(c, "target") THEN {"target"} ELSE {}

_selector_query(c) == DOMAIN c.locator \cap (AndroidLocator \ {"xpath"})

_selector(c) ==
    IF "xpath" \in DOMAIN c.locator THEN {"xpath"}
    ELSE IF _selector_query(c) # {} THEN _selector_query(c) ELSE TargetText(c)

\* The locators of the page, the one that is tried first before the others.
Before(f) == CASE f = "text" -> {} [] f = "label" -> {"text"}
               [] f = "placeholder" -> {"text", "label"}
               [] f = "testId" -> {"text", "label", "placeholder"}
               [] f = "altText" -> {"text", "label", "placeholder", "testId"}
               [] f = "title" -> {"text", "label", "placeholder", "testId", "altText"}
               [] f = "css" -> WebLocator \ {"role", "name", "css", "xpath"}
               [] OTHER -> WebLocator \ {"role", "name", "xpath"}

\* Mutant: a locator object hides the target, as in the Windows driver
_locator_or_root(c) ==
    LET fields == GivenFields(c) IN
    IF "role" \in fields THEN {"role", "name"} \cap fields
    ELSE IF Has(c, "locator")
    THEN {f \in fields \ {"name"} : Before(f) \cap fields = {}}
    ELSE TargetText(c)

_locator(c) ==
    LET fields == GivenFields(c) IN
    IF "role" \in fields THEN {"role", "name"} \cap fields
    ELSE IF fields \ {"name"} # {}
    THEN {f \in fields \ {"name"} : Before(f) \cap fields = {}}
    ELSE TargetText(c)

_control(c) ==
    IF Has(c, "locator")
    THEN DOMAIN c.locator \cap {"title", "control_type", "automation_id", "class_name", "index"}
    ELSE TargetText(c)

\* What waitFor waits for: "if params.target or params.locator", and a locator
\* object is true whatever is in it.
Awaited(c) ==
    IF Has(c, "locator") \/ (Has(c, "target") /\ c.params["target"] # "empty") THEN "target"
    ELSE IF Has(c, "text") /\ c.params["text"] # "empty" THEN "text"
    ELSE IF Has(c, "url") /\ c.params["url"] # "empty" THEN "url"
    ELSE "timeout_ms"

Query(c) == CASE c.platform = "android" -> _selector(c)
              [] c.platform = "windows" -> _control(c)
              [] OTHER -> IF c.action = "wait_for" /\ Awaited(c) = "text"
                          THEN {"params.text"} ELSE _locator(c)

\* What waits for the target to go
AwaitsGone(c) ==
    \/ c.action = "assert_not_visible"
    \/ c.action = "wait_for" /\ Has(c, "hidden") /\ Awaited(c) = "target"

\* Mutant: the label is forgotten.
OptionByValue(c) == IF Has(c, "values") THEN "values" ELSE IF Has(c, "value") THEN "value"
                    ELSE "index"

\* The option that is selected: the first that is not None.
Option(c) == IF Has(c, "values") THEN "values" ELSE IF Has(c, "value") THEN "value"
             ELSE IF Has(c, "label") THEN "label" ELSE "index"

Element(c) == SUBSET (DOMAIN c.locator \cup (DOMAIN c.params \cap {"target", "contains", "equals"})
                      \cup {"params.text"})
Matching(c) == {e \in Element(c) : Query(c) \subseteq e}

\* What an element's text fulfils; the first of the two that it does will do.
Contains(c, e) == Has(c, "contains") /\ (c.params["contains"] = "empty" \/ "contains" \in e)
Says(c, e) == Contains(c, e) \/ (Has(c, "equals") /\ "equals" \in e)

\* What a wait takes of the call: what it waits for, its state and its time.
Waited(c) ==
    IF c.action # "wait_for" THEN {}
    ELSE {Awaited(c)} \cup (DOMAIN c.params \cap {"timeout_ms"})
         \cup (IF AwaitsGone(c) THEN {"hidden"} ELSE {})

------------------------------------------------------------------------------
Init ==
    /\ call \in Calls /\ open \in BOOLEAN /\ (call.platform = "android" => open)
    /\ pc = "call" /\ used = {} /\ did = {} /\ result = "none"

Return(category) == pc' = "done" /\ result' = category /\ UNCHANGED <<call, open>>
Goto(l) == pc' = l /\ UNCHANGED <<call, open, used, did, result>>
Nothing == UNCHANGED <<used, did>>

_validate_params ==
    /\ pc = "call"
    /\ IF ~Accepts(call) THEN Return("configuration_error") /\ Nothing
       ELSE IF ~open /\ call.platform = "web" THEN Return("context_error") /\ Nothing
       ELSE IF ~open THEN Return("harness_error") /\ Nothing
       ELSE Goto(IF call.action \in {"press_key", "swipe"} THEN call.action
                 ELSE IF AwaitsGone(call) THEN "gone"
                 ELSE IF call.action = "wait_for" /\ Awaited(call) \in {"url", "timeout_ms"}
                 THEN "sleep" ELSE "find")

press_key == pc = "press_key" /\ Return("none") /\ did' = {"key"} /\ UNCHANGED used

\* A point of the call comes before its direction.
swipe ==
    /\ pc = "swipe" /\ UNCHANGED used
    /\ IF ~Has(call, "start") /\ ~Has(call, "end")
       THEN Return("none") /\ did' = {"direction"}
       ELSE IF Has(call, "start") /\ Has(call, "end")
       THEN Return("none") /\ did' = {"start", "end"}
       ELSE Return("configuration_error") /\ UNCHANGED did

------------------------------------------------------------------------------
\* Waiting for the target; a Windows control named by a text is not looked for.
_wait_for_exists ==
    /\ pc = "find"
    /\ \/ /\ call.action \in {"assert_visible", "wait_for"}
          /\ \E e \in Matching(call) : used' = {e}
          /\ did' = Waited(call)
          /\ Return("none")
       \/ /\ call.action \notin {"assert_visible", "wait_for"}
          /\ Goto(IF call.action \in {"assert_text", "assert_state"} THEN "read" ELSE "act")

_target_missing ==
    /\ pc = "find"
    /\ call.platform = "windows" /\ ~Has(call, "locator") => call.action = "assert_visible"
    /\ Return(IF call.action = "wait_for" THEN "timeout_error" ELSE "target_resolution_error")
    /\ Nothing

\* No look has found it, or all of them have until the time was up.
_wait_for_not_exists ==
    /\ pc = "gone" /\ UNCHANGED used
    /\ \/ Return("none") /\ did' = Waited(call)
       \/ /\ Return(IF call.action = "wait_for" THEN "timeout_error" ELSE "assertion_error")
          /\ UNCHANGED did

\* The url or the time has come.
_wait_for == pc = "sleep" /\ Return("none") /\ did' = Waited(call) /\ UNCHANGED used

\* Every input looks for the target again: a click, the text, a selection.
Sends ==
    /\ pc = "act" /\ Cardinality(used) < 2
    /\ \E e \in Matching(call) : used' = used \cup {e}
    /\ did' = IF call.action = "select_option" THEN {Option(call)} ELSE {}
    /\ UNCHANGED <<call, open, pc, result>>

Sent == pc = "act" /\ used # {} /\ Return("none") /\ Nothing

\* The target has gone, or the device or browser has; _wait_for_locator of the
\* Web driver takes any exception for a target that is not there.
Raises ==
    /\ pc \notin {"call", "done"}
    /\ call.platform = "web" => pc \notin {"find", "gone"}
    /\ Return("harness_error") /\ Nothing

_assert_text ==
    /\ pc = "read" /\ (Has(call, "contains") \/ Has(call, "equals"))
    /\ \E e \in Matching(call) :
          /\ used' = {e} /\ did' = {IF Contains(call, e) THEN "contains" ELSE "equals"}
          /\ Return(IF Says(call, e) THEN "none" ELSE "assertion_error")

assert_state ==
    /\ pc = "read" /\ ~Has(call, "contains") /\ ~Has(call, "equals")
    /\ did' = DOMAIN call.locator \cap {"state"}
    /\ \E e \in Matching(call) : used' = {e}
         /\ Return(IF "state" \in DOMAIN call.locator
                   THEN IF "state" \in e THEN "none" ELSE "assertion_error"
                   ELSE IF has_value(call) THEN "none" ELSE "configuration_error")

Next ==
    \/ _validate_params \/ press_key \/ swipe
    \/ _wait_for_exists \/ _target_missing \/ _wait_for_not_exists \/ _wait_for
    \/ Sends \/ Sent \/ Raises \/ _assert_text \/ assert_state

Spec == Init /\ [][Next]_vars

------------------------------------------------------------------------------
(* Properties.                                                              *)

TypeOK ==
    /\ IsCall(call) /\ open \in BOOLEAN
    /\ pc \in {"call", "press_key", "swipe", "find", "gone", "sleep", "act", "read", "done"}
    /\ used \subseteq Element(call) /\ Cardinality(used) <= 2 /\ did \subseteq Param \cup {"state"}
    /\ result \in {"none", "configuration_error", "context_error", "harness_error",
                   "target_resolution_error", "timeout_error", "assertion_error"}

NamesTarget(c) == c.action \notin {"press_key", "swipe"}
                  /\ (c.action = "wait_for" => Awaited(c) \in {"target", "text"})
Named(c) == (GivenFields(c) \ {"state"}) \cup TargetText(c)
            \cup (IF c.action = "wait_for" /\ Gives(c, "text") THEN {"params.text"} ELSE {})

\* The accepted calls that are about any element, or about a blank name: a name
\* without a role; a Windows locator that has only blanks and parents, or
\* nothing; a blank field of an Android locator; an assertion about no element
\* in particular; and a waitFor that a blank target or locator makes wait for
\* the page, or a blank text for nothing.
Strays(c) ==
    CASE c.platform = "web" ->
            IF c.action = "wait_for" /\ Awaited(c) = "text" THEN ~Gives(c, "text")
            ELSE GivenFields(c) \subseteq {"name"} /\ ~Gives(c, "target")
      [] c.platform = "windows" ->
            Has(c, "locator") /\ GivenFields(c) \cap {"title", "control_type", "automation_id",
                                                      "class_name", "index"} = {}
      [] OTHER ->
            IF "xpath" \in DOMAIN c.locator THEN c.locator["xpath"] # "given"
            ELSE /\ ~has_value(c)
                 /\ DOMAIN c.locator \subseteq {"state"} => ~Gives(c, "target")

(* Whatever elements a call clicks, types into or reads a verdict from, each  *)
(* bears a name the call gave, although the three drivers choose among        *)
(* several names in three ways and look again before every input; and the     *)
(* accepted calls of which that is not true are those Strays lists.           *)
ActsOnWhatWasNamed ==
    pc # "call" /\ Accepts(call) /\ NamesTarget(call) =>
        IF Strays(call) THEN Query(call) \cap Named(call) = {}
        ELSE \A e \in used : e \cap Named(call) # {}

\* What a call asks for beside its target: what it gives to select, to wait for,
\* to assert or to swipe along.
Asked(c) ==
    CASE c.action = "select_option" ->
            {p \in {"values", "value", "label"} : Gives(c, p)} \cup (DOMAIN c.params \cap {"index"})
      [] c.action = "wait_for" ->
            {p \in {"text", "url"} : Gives(c, p)} \cup (DOMAIN c.params \cap {"hidden", "timeout_ms"})
            \cup (IF _has_target_value(c) THEN {"target"} ELSE {})
      [] c.action \in {"assert_text", "assert_state"} ->
            (DOMAIN c.params \cap {"contains", "equals"}) \cup (DOMAIN c.locator \cap {"state"})
      [] c.action = "swipe" -> DOMAIN c.params \cap {"direction", "start", "end"}
      [] OTHER -> IF c.action = "press_key" THEN {"key"} ELSE {}

\* Parameters of which the driver takes one, and those that come before one.
Alternatives(c) == IF c.action = "wait_for" THEN {"target", "text", "url"}
                   ELSE {"values", "value", "label", "index"}
Sooner(p) == CASE p = "text" -> {"target"} [] p = "url" -> {"target", "text"}
               [] p = "value" -> {"values"} [] p = "label" -> {"values", "value"}
               [] p = "index" -> {"values", "value", "label"} [] OTHER -> {}

\* A parameter that gives nothing, yet is taken for one that does.
Hollow(c, p) ==
    /\ p \notin Asked(c)
    /\ CASE p = "target" -> Has(c, "locator") \/ (Has(c, p) /\ c.params[p] # "empty")
         [] p \in {"text", "url"} -> Has(c, p) /\ c.params[p] # "empty"
         [] OTHER -> Has(c, p)

\* The accepted calls of which a part is dropped: two options or two conditions
\* are given, or a blank one hides the given one; a waitFor gives only a time
\* and waits for something blank, or gives a state and no target; an assertion
\* is of two texts, or of a text and a state; a swipe gives a point and a
\* direction.
Partly(c) ==
    LET one == Asked(c) \cap Alternatives(c) IN
    CASE c.action \in {"select_option", "wait_for"} ->
            \/ \E p \in one, q \in one : p # q
            \/ \E q \in Alternatives(c) : Hollow(c, q) /\ \A p \in one : q \in Sooner(p)
            \/ "hidden" \in Asked(c) /\ "target" \notin Asked(c)
      [] c.action = "swipe" -> Has(c, "direction") /\ (Has(c, "start") \/ Has(c, "end"))
      [] OTHER -> \E p \in Asked(c), q \in Asked(c) : p # q

\* A swipe the model accepts and the driver refuses.
HalfPoints(c) == /\ c.action = "swipe" /\ Has(c, "direction")
                 /\ Has(c, "start") # Has(c, "end")

(* A step that passes did all its call asks for beside the target: it selected *)
(* the option that is given, waited for the condition that is given in the    *)
(* state that is given, saw the text and the state that are asserted, swiped  *)
(* along the points or the direction. The accepted calls of which that is not *)
(* true are those Partly lists, and of these the driver refuses HalfPoints.   *)
AcceptedIsCarriedOut ==
    pc = "done" /\ Accepts(call) =>
        /\ result = "configuration_error" => HalfPoints(call)
        /\ result = "none" => (did = Asked(call) <=> ~Partly(call)) /\ ~HalfPoints(call)
=============================================================================
