------------------------- MODULE PlaybackController -------------------------
(***************************************************************************)
(* The controller behind the player's buttons, as the one client of a      *)
(* PlaybackSession.  Every button starts a task that sends one or two      *)
(* commands; what the buttons show, and what a toggle decides on, is a     *)
(* copy of the snapshot that a timer refreshes.                            *)
(*                                                                         *)
(* The constructor spawns run(), which is taken to have started before any *)
(* button is pressed.                                                      *)
(***************************************************************************)
EXTENDS PlaybackSession

CONSTANTS
    Targets,    \* positions the user drags the slider to
    MaxCalls    \* bound: buttons pressed (MaxSends is twice as much)

\* The buttons send commands; the slider stays within the medium.
ASSUME ControllerAssumption ==
    /\ Targets \subseteq Int
    /\ MaxCalls \in Nat
    /\ MaxSends = 2 * MaxCalls
    /\ {Plain("play"), Plain("pause"), Plain("stop")} \subseteq Commands
    /\ \A url \in Urls : OpenMedia(url) \in Commands
    /\ \A t \in 0..MediaLength : SeekTo(t) \in Commands

VARIABLES
    shown,     \* mSnapshot
    flows,     \* what the task of each suspended send does next
    follows,   \* tasks whose first command was taken: Play is next
    ctrl,      \* shutdown(): "open", "cancelling", "closing" or "closed"
    calls,     \* buttons pressed so far
    intent     \* history: what the last button asks for, and of which medium

sessionVars == vars
controllerVars == <<shown, flows, follows, ctrl, calls, intent>>
allVars == <<sessionVars, controllerVars>>

------------------------------------------------------------------------------
(* Buttons.                                                                *)

\* A button: its task sends c, and then plays or ends.
Press(c, next, what, medium) ==
    /\ ctrl = "open"
    /\ calls < MaxCalls /\ calls' = calls + 1
    /\ Send(c)
    /\ flows' = Append(flows, next)
    /\ intent' = [what |-> what, medium |-> medium]
    /\ UNCHANGED <<shown, follows, ctrl>>

\* Broken: the medium is opened and not played.
OpenUrl_NotPlayed(url) == Press(OpenMedia(url), "end", "play", url)

\* openMedia() and openAndPlay(); an address that is not valid is refused.
OpenUrl(url) == Press(OpenMedia(url), "play", "play", url)

PressPlay  == Press(Plain("play"), "end", "play", NoUrl)
PressPause == Press(Plain("pause"), "end", "pause", NoUrl)
PressStop  == Press(Plain("stop"), "end", "stop", NoUrl)

\* togglePlayback(): what it does follows from the snapshot on show, which
\* may be older than the commands under way.
Toggle ==
    \/ shown.state = "Playing" /\ PressPause
    \/ shown.state = "Ended" /\ Press(SeekTo(0), "play", "play", NoUrl)
    \/ shown.state \notin {"Playing", "Ended"} /\ PressPlay

\* seek(): the target is brought within the duration on show.
PressSeek(t) ==
    Press(SeekTo(AtMost(AtLeast0(t), shown.duration)), "end", "seek", NoUrl)

Button ==
    \/ \E url \in Urls : OpenUrl(url)
    \/ PressPlay \/ PressPause \/ PressStop \/ Toggle
    \/ \E t \in Targets : PressSeek(t)

------------------------------------------------------------------------------
(* Tasks, the timer and the session.                                       *)

\* The channel takes a command, and the task that sent it goes on.
Taken ==
    /\ Admit
    /\ flows' = Tail(flows)
    /\ follows' = IF Head(flows) = "play" THEN follows + 1 ELSE follows
    /\ UNCHANGED <<shown, ctrl, calls, intent>>

FollowUp ==
    /\ follows > 0 /\ follows' = follows - 1
    /\ Send(Plain("play"))
    /\ flows' = Append(flows, "end")
    /\ UNCHANGED <<shown, ctrl, calls, intent>>

\* refreshSnapshot(), every 50 ms.
Refresh ==
    /\ ctrl = "open"
    /\ shown' = snapshot
    /\ UNCHANGED <<sessionVars, flows, follows, ctrl, calls, intent>>

SessionGoesOn == (Run \/ Watcher \/ Pipeline) /\ UNCHANGED controllerVars

------------------------------------------------------------------------------
(* shutdown().                                                             *)

\* The timer is stopped, and the tasks are told to stop.
BeginShutdown ==
    /\ ctrl = "open"
    /\ ctrl' = "cancelling"
    /\ UNCHANGED <<sessionVars, shown, flows, follows, calls, intent>>

\* The tasks have ended, suspended sends have been withdrawn, and the session
\* is closed.
TasksEnded ==
    /\ ctrl = "cancelling"
    /\ ctrl' = "closing"
    /\ follows' = 0
    /\ closing' = TRUE
    /\ waiters' = <<Shutdown>>
    /\ flows' = <<"end">>
    /\ UNCHANGED <<queue, closed, sends, runVars, viewVars, watchVars, pipeVars,
                   shown, calls, intent>>

\* Broken: what is shown stays what the timer saw last.
ShutdownEnds_NotRefreshed ==
    /\ ctrl = "closing" /\ closed /\ pc = "done"
    /\ ctrl' = "closed"
    /\ UNCHANGED <<sessionVars, shown, flows, follows, calls, intent>>

\* close() has returned and run() with it; the last snapshot is shown.
ShutdownEnds ==
    /\ ctrl = "closing" /\ closed /\ pc = "done"
    /\ ctrl' = "closed"
    /\ shown' = snapshot
    /\ UNCHANGED <<sessionVars, flows, follows, calls, intent>>

------------------------------------------------------------------------------
ControllerInit ==
    /\ queue = <<>> /\ waiters = <<>>
    /\ closing = FALSE /\ closed = FALSE /\ sends = 0
    /\ runStarted = TRUE /\ pc = "recv" /\ after = "none"
    /\ current = Plain("none") /\ pending = <<>>
    /\ snapshot = Blank(0) /\ stateBeforeSeek = "Ready"
    /\ watcher = "none" /\ watcherGen = 0 /\ held = <<>>
    /\ pipe = "none" /\ pipeUrl = NoUrl /\ pipePos = 0 /\ pipeEnded = FALSE
    /\ pipeSeeks = 0 /\ pipeMessages = <<>> /\ faults = 0
    /\ shown = Blank(0) /\ flows = <<>> /\ follows = 0 /\ ctrl = "open"
    /\ calls = 0 /\ intent = [what |-> "none", medium |-> NoUrl]

ControllerNext ==
    \/ Button \/ Taken \/ FollowUp \/ Refresh \/ SessionGoesOn
    \/ BeginShutdown \/ TasksEnded \/ ShutdownEnds

ControllerSpec == ControllerInit /\ [][ControllerNext]_allVars

\* The executor, the pipeline and the timer go on; the user owes nothing.
ControllerFairness ==
    /\ WF_allVars(Taken) /\ WF_allVars(FollowUp) /\ WF_allVars(Refresh)
    /\ WF_allVars(TasksEnded) /\ WF_allVars(ShutdownEnds)
    /\ WF_allVars(Run /\ UNCHANGED controllerVars)
    /\ WF_allVars((WatcherReads \/ WatcherApplies) /\ UNCHANGED controllerVars)
    /\ WF_allVars(WatcherStops /\ UNCHANGED controllerVars)
    /\ WF_allVars(PipelineSettles /\ UNCHANGED controllerVars)
    /\ WF_allVars(PipelineEndsSeek /\ UNCHANGED controllerVars)

FairController == ControllerSpec /\ ControllerFairness

------------------------------------------------------------------------------
(* Properties.                                                             *)

\* When the user does nothing else, a medium that was to be opened or played
\* is in the end shown as playing, as played to its end, or with an error - the
\* medium asked for last, however many others were asked for before and are
\* still being opened, and whatever the toggle had to decide it on
\* (playback_controller.cpp:114-133, 161-179, 197-203).
PlayIsShown ==
    []<>(\/ ctrl # "open"
         \/ intent.what # "play"
         \/ /\ shown.state \in {"Playing", "Ended"} \/ shown.error # "none"
            /\ intent.medium \in {NoUrl, shown.source})

\* A shutdown ends, with the pipeline released, nothing left to send and the
\* last snapshot on show, whatever was going on when it began
\* (playback_controller.cpp:135-147).
NothingLeft == pipe = "none" /\ Outstanding = <<>> /\ shown = snapshot
ShutdownCompletes == ctrl = "cancelling" ~> ctrl = "closed" /\ NothingLeft

\* Commands are taken in the order of the buttons, seeks apart that a later
\* one right behind them replaces, and none is lost until shutdown withdraws
\* those that were not taken (playback_session.cpp:59-70,
\* playback_controller.cpp:140).
ButtonsInOrder ==
    [][(ctrl = "cancelling" /\ ctrl' = "closing") \/ TakesInOrder]_allVars
=============================================================================
