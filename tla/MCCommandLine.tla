---------------------------- MODULE MCCommandLine ----------------------------
(* CommandLine for TLC: cases that differ in what can be wrong with them.   *)
EXTENDS CommandLine

S(a) == [action |-> a, params |-> "ok", secret |-> "none", clear |-> TRUE]
Bad(a, p) == [S(a) EXCEPT !.params = p]
Input(secret) == [S("input_text") EXCEPT !.secret = secret]
AndroidCase(s) == [platform |-> "android", appId |-> TRUE, loads |-> TRUE,
                   commands |-> s]

CaseFiles == {
    AndroidCase(<<S("tap_on"), S("kill_app")>>),
    AndroidCase(<<S("kill_app"), S("launch_app"), S("kill_app"), S("kill_app")>>),
    AndroidCase(<<Input("set"), S("assert_state")>>),
    AndroidCase(<<S("assert_not_visible"), S("assert_with_ai")>>),
    AndroidCase(<<S("tap_on"), Input("unset")>>),
    AndroidCase(<<Input("forbidden")>>),
    AndroidCase(<<S("press_key"), Bad("tap_on", "bad")>>),
    AndroidCase(<<S("swipe"), S("long_press_on")>>),
    AndroidCase(<<Bad("unknown", "shape")>>),
    AndroidCase(<<Bad("unknown", "bad"), S("wait_ms"), S("kill_app")>>),
    [AndroidCase(<<S("tap_on")>>) EXCEPT !.appId = FALSE],
    [AndroidCase(<<S("tap_on")>>) EXCEPT !.loads = FALSE],
    [AndroidCase(<<S("click_on")>>) EXCEPT !.platform = "windows"]}

Taken == {S("launch_app"), S("kill_app"), [S("type_text") EXCEPT !.clear = FALSE], S("assert_visible"),
          [S("get_runtime_secret") EXCEPT !.secret = "set"],
          [S("get_runtime_secret") EXCEPT !.secret = "unset"],
          S("assert_with_ai"), S("input_text")}
=============================================================================
