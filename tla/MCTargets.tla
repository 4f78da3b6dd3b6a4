------------------------------ MODULE MCTargets ------------------------------
(* Targets for TLC: calls whose locator has at most two of its fields.      *)
EXTENDS Targets, FiniteSetsExt, TLC

CONSTANT MaxFields      \* bound: fields of a locator that are not None

\* The optional strings of S, at most n of them there; an index is a number.
Optional(S, n) ==
    {f \in UNION {[D -> {"blank", "given"}] : D \in UNION {kSubset(k, S) : k \in 0..n}} :
        "index" \in DOMAIN f => f["index"] = "given"}

Fields(platform) == CASE platform = "android" -> AndroidLocator
                      [] platform = "web" -> WebLocator
                      [] OTHER -> WindowsLocator

\* The target and a locator of at most n fields, with further parameters from
\* More.
On(platform, actions, n, More) ==
    {[platform |-> platform, action |-> a, params |-> target @@ more, locator |-> <<>>] :
        a \in actions, target \in Optional({"target"}, 1), more \in More}
    \cup {[platform |-> platform, action |-> a, locator |-> l,
           params |-> target @@ ("locator" :> "given") @@ more] :
        a \in actions, target \in Optional({"target"}, 1),
        l \in Optional(Fields(platform), n), more \in More}

Whatever(platform, a, More) ==
    {[platform |-> platform, action |-> a, params |-> more, locator |-> <<>>] : more \in More}

Flags(S) == UNION {[D -> {"given"}] : D \in SUBSET S}
Texts == UNION {[D -> {"empty", "given"}] : D \in SUBSET {"contains", "equals"}}
Conditions == {f @@ g : f \in UNION {[D -> Value] : D \in SUBSET {"text", "url"}},
                        g \in Flags({"hidden", "timeout_ms"})}
Options == {f @@ g : f \in UNION {[D -> Value] : D \in SUBSET {"values", "value", "label"}},
                     g \in Flags({"index"})}
Assertions == {[platform |-> "android", action |-> "assert_state", locator |-> s @@ l,
              params |-> ("locator" :> "given") @@ t] :
                s \in Flags({"state"}), l \in Optional(AndroidLocator, MaxFields), t \in Texts}

AllCalls ==
    On("android", AndroidAction \ {"assert_state", "press_key", "swipe"}, MaxFields, {<<>>})
    \cup Assertions \cup Whatever("android", "assert_state", Texts)
    \cup Whatever("android", "press_key", Optional({"key"}, 1))
    \cup Whatever("android", "swipe", Flags({"direction", "start", "end"}))
    \cup On("web", WebAction \ {"press_key", "wait_for", "select_option", "assert_text"},
            MaxFields, {<<>>})
    \cup On("web", {"select_option"}, 1, Options)
    \cup On("web", {"assert_text"}, 1, Texts)
    \cup Whatever("web", "wait_for", Conditions)
    \cup On("web", {"wait_for"}, 1, Conditions)
    \cup Whatever("web", "press_key", Optional({"key"}, 1))
    \cup On("windows", WindowsAction \ {"press_key"}, MaxFields, {<<>>})
    \cup Whatever("windows", "press_key", Optional({"key"}, 1))
=============================================================================
