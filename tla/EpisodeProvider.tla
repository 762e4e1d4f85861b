--------------------------- MODULE EpisodeProvider ---------------------------
(***************************************************************************)
(* What the episode resources rely on when they call a provider: it runs   *)
(* one search or resolve at a time, a call that was cancelled does not     *)
(* return a value, and every call returns.                                 *)
(***************************************************************************)
VARIABLES
    call,     \* "idle", "running" or "cancelled"
    result    \* what the last call returned: "none" before the first one

vars == <<call, result>>

Init == call = "idle" /\ result = "none"

Start ==
    /\ call = "idle"
    /\ call' = "running"
    /\ UNCHANGED result

Cancel ==
    /\ call = "running"
    /\ call' = "cancelled"
    /\ UNCHANGED result

\* "expired": the result to resolve was made by a mirror no longer in use.
Return ==
    /\ call # "idle"
    /\ call' = "idle"
    /\ result' \in IF call = "running" THEN {"value", "error", "expired"}
                                       ELSE {"error"}

Next == Start \/ Cancel \/ Return

Safety == Init /\ [][Next]_vars

Spec == Safety /\ WF_vars(Return)
=============================================================================
