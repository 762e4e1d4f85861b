------------------------- MODULE PipelineOwnership -------------------------
(***************************************************************************)
(* How the playback session may use its media pipelines: there is at most  *)
(* one, it has one reader from its creation on, it is shut down once the   *)
(* reader has ended, and only then is it released, or replaced by the      *)
(* pipeline of the next medium.                                            *)
(***************************************************************************)
CONSTANTS Urls, NoUrl

VARIABLES
    phase,    \* "none", "live" or "shut" (told to go to the state Null)
    medium,   \* the medium it was created for
    reader    \* whether a coroutine reads its messages

vars == <<phase, medium, reader>>

Init == phase = "none" /\ medium = NoUrl /\ reader = FALSE

\* A pipeline is created when there is none, or in place of one shut down.
Create ==
    /\ phase \in {"none", "shut"}
    /\ phase' = "live"
    /\ medium' \in Urls
    /\ reader' = TRUE

ReaderEnds ==
    /\ phase = "live" /\ reader
    /\ reader' = FALSE
    /\ UNCHANGED <<phase, medium>>

ShutDown ==
    /\ phase = "live" /\ ~reader
    /\ phase' = "shut"
    /\ UNCHANGED <<medium, reader>>

Release ==
    /\ phase = "shut"
    /\ phase' = "none"
    /\ medium' = NoUrl
    /\ UNCHANGED reader

Next == Create \/ ReaderEnds \/ ShutDown \/ Release

Spec == Init /\ [][Next]_vars
=============================================================================
