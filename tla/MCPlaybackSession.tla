------------------------- MODULE MCPlaybackSession -------------------------
(***************************************************************************)
(* Instances of PlaybackSession for TLC.                                   *)
(***************************************************************************)
EXTENDS PlaybackSession

CONSTANTS u1, u2, bad, none

MCUrls == {u1, u2}

\* The second medium starts at a time that lies past its duration.
MCStartTime == [url \in MCUrls \cup {none} |-> IF url = u2 THEN 2 ELSE 0]

\* Media come and go, are played, paused, and sought below zero and past their end.
LifecycleCommands ==
    {OpenMedia(u1), OpenMedia(u2), OpenMedia(bad), Plain("play"),
     Plain("pause"), Plain("stop"), Plain("tune"), SeekTo(-1), SeekTo(2)}

\* The fewest commands that show a seek and a close racing it.
SeekCommands == {OpenMedia(u1), Plain("play"), SeekTo(1)}
=============================================================================
