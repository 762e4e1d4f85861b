------------------------ MODULE MCPlaybackController ------------------------
(***************************************************************************)
(* An instance of PlaybackController for TLC.                              *)
(***************************************************************************)
EXTENDS PlaybackController

CONSTANTS u1, u2, bad, none

MCUrls == {u1, u2}
\* The second medium starts before zero.
MCStartTime == [url \in MCUrls \cup {none} |-> IF url = u2 THEN -1 ELSE 0]
MCTargets == {2}
MCCommands ==
    {OpenMedia(u1), OpenMedia(u2), Plain("play"), Plain("pause"),
     Plain("stop"), SeekTo(0), SeekTo(1)}
=============================================================================
