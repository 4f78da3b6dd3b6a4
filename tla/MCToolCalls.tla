----------------------------- MODULE MCToolCalls -----------------------------
(* ToolCalls for TLC: action spaces with a name twice or with the name of   *)
(* an AgentTool are those that discovery must refuse.                       *)
EXTENDS ToolCalls

Spaces == {<<"tap", "wait_ms">>, <<"tap", "tap">>, <<"tap", "read_file">>}

=============================================================================
