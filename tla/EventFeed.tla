------------------------------ MODULE EventFeed ------------------------------
(***************************************************************************)
(* What the playground promises about the progress of one task: a reader   *)
(* has always seen the first events of the task, in order and without      *)
(* gaps, and one that was told the task is over will miss nothing, unless   *)
(* the task was cancelled: then its run may still leave a few events.       *)
(***************************************************************************)
EXTENDS Naturals

CONSTANT Reader

VARIABLES
    log,       \* how many events the task has
    over,      \* "running", "ended" by its run, or "cancelled"
    seen,      \* how many of the events each reader has received
    told       \* the readers that received the end of the task

vars == <<log, over, seen, told>>

Init ==
    /\ log = 0
    /\ over = "running"
    /\ seen = [c \in Reader |-> 0]
    /\ told = {}

Append ==
    /\ over # "ended"
    /\ log' = log + 1
    /\ UNCHANGED <<over, seen, told>>

Settle ==
    /\ over = "running"
    /\ over' \in {"ended", "cancelled"}
    /\ UNCHANGED <<log, seen, told>>

Read(c) ==
    /\ c \notin told
    /\ seen' = [seen EXCEPT ![c] = log]
    /\ told' = IF over = "running" THEN told ELSE told \cup {c}
    /\ UNCHANGED <<log, over>>

Next == Append \/ Settle \/ \E c \in Reader : Read(c)

Spec == Init /\ [][Next]_vars
===============================================================================
