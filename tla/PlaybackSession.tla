--------------------------- MODULE PlaybackSession ---------------------------
(***************************************************************************)
(* The media control plane: one coroutine (run) takes commands from a      *)
(* bounded channel and drives at most one media pipeline; a second         *)
(* coroutine (watchMessages) copies the pipeline's messages into the       *)
(* snapshot that the user interface reads.  Both run on one thread, so a   *)
(* step of this module is what happens between two awaits.                 *)
(*                                                                         *)
(* The pipeline itself (nekoav) is external: it completes every call with  *)
(* success or failure, and posts messages while it lives.                  *)
(***************************************************************************)
EXTENDS Integers, Sequences

CONSTANTS
    Urls,          \* valid media addresses
    BadUrl,        \* an address that is invalid or empty
    NoUrl,         \* std::nullopt of PlaybackSnapshot::source
    Commands,      \* the commands clients may send
    Capacity,      \* kPlaybackCommandCapacity, the size of the channel
    MediaLength,   \* the duration the pipeline reports for any medium
    StartTime,     \* the start time it reports for each medium
    MaxSends,      \* bound: calls of send()
    MaxMessages,   \* bound: unread pipeline messages before a clock tick waits
    MaxFaults      \* bound: error messages the pipeline posts by itself

OpenMedia(url) == [op |-> "open", url |-> url, position |-> 0]
SeekTo(t)      == [op |-> "seek", url |-> NoUrl, position |-> t]
Plain(op)      == [op |-> op, url |-> NoUrl, position |-> 0]
Shutdown       == Plain("shutdown")

Command ==
    [op : {"open", "play", "pause", "stop", "seek", "tune"},
     url : Urls \cup {BadUrl, NoUrl}, position : Int]

ASSUME SessionAssumption ==
    /\ BadUrl \notin Urls
    /\ NoUrl \notin Urls
    /\ Commands \subseteq Command
    /\ \A c \in Commands : c.op = "open" => c.url # NoUrl
    /\ Capacity \in Nat \ {0}
    /\ MediaLength \in Nat \ {0}
    /\ StartTime \in [Urls \cup {NoUrl} -> Int] /\ StartTime[NoUrl] = 0
    /\ MaxSends \in Nat
    /\ MaxMessages \in Nat
    /\ MaxFaults \in Nat

VARIABLES
    \* the command channel and its clients
    queue,         \* commands in the channel
    waiters,       \* sends suspended because the channel is full
    closing,       \* mClosing
    closed,        \* mClosed and mClosedEvent
    sends,         \* calls of send() so far
    \* the run coroutine
    runStarted,    \* mRunStarted
    pc,            \* the await at which run() is suspended
    after,         \* what follows stopCurrent: "stop", "open" or "exit"
    current,       \* the command being handled
    pending,       \* run()'s local `pending`: <<>> or one command
    \* the snapshot
    snapshot,
    stateBeforeSeek,
    \* the message watcher
    watcher,       \* "none", "reading" or "stopping" (stop() was requested)
    watcherGen,    \* the generation the watcher was started with
    held,          \* <<>> or the message read and not yet applied
    \* the external pipeline
    pipe,          \* "none", "created", "paused" or "running"
    pipeUrl, pipePos, pipeEnded, pipeSeeks, pipeMessages, faults

channelVars == <<queue, waiters, closing, closed, sends>>
runVars     == <<runStarted, pc, after, current, pending>>
viewVars    == <<snapshot, stateBeforeSeek>>
watchVars   == <<watcher, watcherGen, held>>
pipeVars    == <<pipe, pipeUrl, pipePos, pipeEnded, pipeSeeks, pipeMessages,
                 faults>>
vars == <<channelVars, runVars, viewVars, watchVars, pipeVars>>

------------------------------------------------------------------------------
(* Snapshots and messages.                                                 *)

PlaybackState ==
    {"Idle", "Opening", "Ready", "Playing", "Paused", "Seeking", "Stopping",
     "Ended", "Error"}
ErrorCode == {"none", "InvalidSource", "InvalidState", "PipelineFailure"}

\* tuning stands for volume, rate and the selected tracks: values that
\* commands store in the snapshot and that only a fresh snapshot resets.
Blank(gen) ==
    [generation |-> gen, state |-> "Idle", source |-> NoUrl, position |-> 0,
     duration |-> 0, tuning |-> "default", error |-> "none"]

Failed(s, code) == [s EXCEPT !.state = "Error", !.error = code]

Message(kind, t) == [kind |-> kind, time |-> t, length |-> 0]

\* MediaLoaded: where the medium starts, and how long it is.
Loaded(url) ==
    [kind |-> "loaded", time |-> StartTime[url], length |-> MediaLength]

AtLeast0(t)   == IF t < 0 THEN 0 ELSE t
AtMost(t, m)  == IF t > m THEN m ELSE t

\* The times of a medium, as its pipeline counts them, and the one of them
\* that is nearest to t.
EndTime(url)    == StartTime[url] + MediaLength
Nearest(t, url) ==
    IF t < StartTime[url] THEN StartTime[url] ELSE AtMost(t, EndTime(url))

\* mStateBeforeSeek: what SeekEnd returns to.
StateToRestore(state) == IF state = "Playing" THEN "Playing" ELSE "Paused"

\* Broken: the position of a seek is shown as it was asked for.
ShownTarget_Unclamped(t, duration) == t

\* The position shown for a seek to t; the duration is 0 until it is known.
ShownTarget(t, duration) == IF duration > 0 THEN AtMost(t, duration) ELSE t

------------------------------------------------------------------------------
(* Clients.                                                                *)

\* send(): refused once close() was called, else suspended until the channel
\* has room.
Send(c) ==
    /\ sends < MaxSends
    /\ sends' = sends + 1
    /\ IF closing \/ closed
       THEN UNCHANGED waiters
       ELSE waiters' = Append(waiters, c)
    /\ UNCHANGED <<queue, closing, closed, runVars, viewVars, watchVars,
                   pipeVars>>

\* The channel hands a free slot to the send that has waited longest.
Admit ==
    /\ waiters # <<>>
    /\ Len(queue) < Capacity
    /\ queue' = Append(queue, Head(waiters))
    /\ waiters' = Tail(waiters)
    /\ UNCHANGED <<closing, closed, sends, runVars, viewVars, watchVars,
                   pipeVars>>

\* close(): without a running loop it only records the end; otherwise the
\* first caller sends the shutdown command, and every caller waits for closed.
Close ==
    /\ ~closing
    /\ closing' = TRUE
    /\ IF runStarted
       THEN waiters' = Append(waiters, Shutdown) /\ UNCHANGED closed
       ELSE closed' = TRUE /\ UNCHANGED waiters
    /\ UNCHANGED <<queue, sends, runVars, viewVars, watchVars, pipeVars>>

------------------------------------------------------------------------------
(* The command loop.                                                       *)

RunStart ==
    /\ ~runStarted
    /\ runStarted' = TRUE
    /\ pc' = "recv"
    /\ UNCHANGED <<channelVars, after, current, pending, viewVars, watchVars,
                   pipeVars>>

Backlog   == pending \o queue
IsSeek(c) == c.op = "seek"

\* A seek is replaced by the last of the seeks queued right behind it; the
\* command that ended the run of seeks is kept aside in `pending`.
Coalesces(k) ==
    /\ k > 1 => \A i \in 1..k : IsSeek(Backlog[i])
    /\ IsSeek(Backlog[k]) /\ k < Len(Backlog) => ~IsSeek(Backlog[k + 1])

\* Broken: the command that ended a run of seeks is dropped.
Dequeue_NoPending(k) ==
    /\ pc = "recv"
    /\ Coalesces(k)
    /\ current' = Backlog[k]
    /\ pending' = <<>>
    /\ queue' = SubSeq(Backlog, IF IsSeek(Backlog[k]) THEN k + 2 ELSE k + 1,
                       Len(Backlog))
    /\ UNCHANGED <<waiters, closing, sends, runStarted>>

Dequeue(k) ==
    /\ pc = "recv"
    /\ Coalesces(k)
    /\ current' = Backlog[k]
    /\ IF IsSeek(Backlog[k]) /\ k < Len(Backlog)
       THEN /\ pending' = <<Backlog[k + 1]>>
            /\ queue' = SubSeq(Backlog, k + 2, Len(Backlog))
       ELSE /\ pending' = <<>>
            /\ queue' = SubSeq(Backlog, k + 1, Len(Backlog))
    /\ UNCHANGED <<waiters, closing, sends, runStarted>>

\* The factory returned no pipeline: the new medium fails at once.
OpenWithoutPipeline(s, url) ==
    /\ snapshot' = Failed([s EXCEPT !.generation = @ + 1, !.source = url,
                                    !.position = 0, !.duration = 0],
                          "PipelineFailure")
    /\ pc' = "recv"
    /\ pipe' = "none"
    /\ UNCHANGED <<watcher, watcherGen, pipeUrl, pipePos>>

\* Broken: open() leaves the generation alone.
OpenWithPipeline_SameGeneration(s, url) ==
    /\ snapshot' = [s EXCEPT !.state = "Opening", !.source = url,
                             !.position = 0, !.duration = 0, !.error = "none"]
    /\ pc' = "awaitOpen"
    /\ pipe' = "created"
    /\ pipeUrl' = url
    /\ pipePos' = StartTime[url]
    /\ watcher' = "reading"
    /\ watcherGen' = s.generation

\* A new pipeline with a watcher of its own; run() awaits its open().
OpenWithPipeline(s, url) ==
    /\ snapshot' = [s EXCEPT !.generation = @ + 1, !.state = "Opening",
                             !.source = url, !.position = 0, !.duration = 0,
                             !.error = "none"]
    /\ pc' = "awaitOpen"
    /\ pipe' = "created"
    /\ pipeUrl' = url
    /\ pipePos' = StartTime[url]
    /\ watcher' = "reading"
    /\ watcherGen' = s.generation + 1

\* open() from the point where the previous pipeline is gone.
StartOpen(s, url) ==
    /\ OpenWithoutPipeline(s, url) \/ OpenWithPipeline(s, url)
    /\ held' = <<>>
    /\ pipeEnded' = FALSE
    /\ pipeSeeks' = 0
    /\ pipeMessages' = <<>>
    /\ UNCHANGED <<closed, stateBeforeSeek, faults>>

\* stopCurrent() up to its first await: a live pipeline outlives it.
BeginStop(next) ==
    /\ pipe # "none"
    /\ snapshot' = [snapshot EXCEPT !.state = "Stopping",
                                    !.generation = @ + 1]
    /\ watcher' = IF watcher = "none" THEN "none" ELSE "stopping"
    /\ pc' = "joinWatcher"
    /\ after' = next
    /\ UNCHANGED <<closed, stateBeforeSeek, watcherGen, held, pipeVars>>

FinishRun == pc' = "done" /\ closed' = TRUE

\* A handler that ends at once, with the snapshot as its only effect.
Return(s) ==
    /\ snapshot' = s
    /\ pc' = "recv"
    /\ UNCHANGED <<closed, after, stateBeforeSeek, watchVars, pipeVars>>

HandleOpen(c) ==
    /\ c.op = "open"
    /\ \/ /\ c.url = BadUrl
          /\ Return(Failed(snapshot, "InvalidSource"))
       \/ /\ c.url # BadUrl /\ pipe = "none"
          /\ StartOpen(Blank(snapshot.generation), c.url)
          /\ UNCHANGED after
       \/ /\ c.url # BadUrl
          /\ BeginStop("open")

HandleStop(c) ==
    /\ c.op = "stop"
    /\ \/ pipe = "none" /\ Return(Blank(snapshot.generation + 1))
       \/ BeginStop("stop")

HandleShutdown(c) ==
    /\ c.op = "shutdown"
    /\ \/ /\ pipe = "none"
          /\ snapshot' = Blank(snapshot.generation)
          /\ FinishRun
          /\ UNCHANGED <<after, stateBeforeSeek, watchVars, pipeVars>>
       \/ BeginStop("exit")

HandlePlayPause(c) ==
    /\ c.op \in {"play", "pause"}
    /\ \/ pipe = "none" /\ Return(Failed(snapshot, "InvalidState"))
       \/ /\ pipe # "none"
          /\ pc' = IF c.op = "play" THEN "awaitPlay" ELSE "awaitPause"
          /\ UNCHANGED <<closed, after, viewVars, watchVars, pipeVars>>

HandleSeek(c) ==
    /\ c.op = "seek"
    /\ \/ /\ pipe = "none" \/ c.position < 0
          /\ Return(Failed(snapshot, "InvalidState"))
       \/ /\ pipe # "none" /\ c.position >= 0
          /\ stateBeforeSeek' = StateToRestore(snapshot.state)
          /\ snapshot' = [snapshot EXCEPT
                !.state = "Seeking",
                !.position = ShownTarget(c.position, snapshot.duration),
                !.error = "none"]
          /\ pc' = "awaitSeek"
          /\ UNCHANGED <<closed, after, watchVars, pipeVars>>

HandleTune(c) ==
    /\ c.op = "tune"
    /\ Return([snapshot EXCEPT !.tuning = "custom"])

\* The loop takes the next command and runs its handler to the first await.
Handle ==
    \E k \in 1..Len(Backlog) :
        /\ Dequeue(k)
        /\ \/ HandleOpen(Backlog[k])
           \/ HandleStop(Backlog[k])
           \/ HandleShutdown(Backlog[k])
           \/ HandlePlayPause(Backlog[k])
           \/ HandleSeek(Backlog[k])
           \/ HandleTune(Backlog[k])

------------------------------------------------------------------------------
(* The loop resumes after an await.                                        *)

\* pipeline->open() succeeded.
OpenSucceeds ==
    /\ pc = "awaitOpen" /\ pipe = "paused"
    /\ pc' = "recv"
    /\ snapshot' = IF /\ snapshot.generation = watcherGen
                      /\ snapshot.state = "Opening"
                   THEN [snapshot EXCEPT !.state = "Ready"]
                   ELSE snapshot
    /\ UNCHANGED <<channelVars, runStarted, after, current, pending,
                   stateBeforeSeek, watchVars, pipeVars>>

\* pipeline->open() failed: the watcher is stopped first.
OpenFails ==
    /\ pc = "awaitOpen"
    /\ pc' = "joinFailed"
    /\ watcher' = "stopping"
    /\ UNCHANGED <<channelVars, runStarted, after, current, pending, viewVars,
                   watcherGen, held, pipeVars>>

\* play() or pause() succeeded.
TransportSucceeds ==
    /\ \/ pc = "awaitPlay" /\ pipe = "running"
       \/ pc = "awaitPause" /\ pipe = "paused"
    /\ pc' = "recv"
    /\ snapshot' = [snapshot EXCEPT
            !.state = IF pc = "awaitPlay" THEN "Playing" ELSE "Paused",
            !.error = "none"]
    /\ UNCHANGED <<channelVars, runStarted, after, current, pending,
                   stateBeforeSeek, watchVars, pipeVars>>

TransportFails ==
    /\ pc \in {"awaitPlay", "awaitPause"}
    /\ pc' = "recv"
    /\ snapshot' = Failed(snapshot, "PipelineFailure")
    /\ UNCHANGED <<channelVars, runStarted, after, current, pending,
                   stateBeforeSeek, watchVars, pipeVars>>

\* pipeline->seek() accepted the position given with the command, which is
\* not the clamped one of the snapshot; the pipeline announces the seek.
SeekAccepted ==
    /\ pc = "awaitSeek"
    /\ pc' = "recv"
    /\ pipePos' = Nearest(current.position, pipeUrl)
    /\ pipeEnded' = FALSE
    /\ pipeSeeks' = pipeSeeks + 1
    /\ pipeMessages' = Append(pipeMessages, Message("seekBegin", 0))
    /\ UNCHANGED <<channelVars, runStarted, after, current, pending, viewVars,
                   watchVars, pipe, pipeUrl, faults>>

\* Broken: a refused seek is not published.
SeekFails_Silent ==
    /\ pc = "awaitSeek"
    /\ pc' = "recv"
    /\ UNCHANGED <<channelVars, runStarted, after, current, pending, viewVars,
                   watchVars, pipeVars>>

SeekFails ==
    /\ pc = "awaitSeek"
    /\ pc' = "recv"
    /\ snapshot' = Failed(snapshot, "PipelineFailure")
    /\ UNCHANGED <<channelVars, runStarted, after, current, pending,
                   stateBeforeSeek, watchVars, pipeVars>>

\* Broken: the watcher is not awaited.
WatcherJoined_NotAwaited ==
    /\ pc \in {"joinWatcher", "joinFailed"}
    /\ pc' = IF pc = "joinWatcher" THEN "awaitShutdown" ELSE "shutdownFailed"
    /\ UNCHANGED <<channelVars, runStarted, after, current, pending, viewVars,
                   watchVars, pipeVars>>

\* The watcher has ended; the pipeline's shutdown() is awaited next.
WatcherJoined ==
    /\ pc \in {"joinWatcher", "joinFailed"}
    /\ watcher = "none"
    /\ pc' = IF pc = "joinWatcher" THEN "awaitShutdown" ELSE "shutdownFailed"
    /\ UNCHANGED <<channelVars, runStarted, after, current, pending, viewVars,
                   watchVars, pipeVars>>

\* The end of stopCurrent(), and what its caller does next.
StopEnds(s) ==
    \/ /\ after = "open"
       /\ StartOpen(s, current.url)
    \/ /\ after \in {"stop", "exit"}
       /\ snapshot' = s
       /\ pipe' = "none"
       /\ IF after = "exit" THEN FinishRun
                            ELSE pc' = "recv" /\ UNCHANGED closed
       /\ UNCHANGED <<stateBeforeSeek, watchVars, pipeUrl, pipePos, pipeEnded,
                      pipeSeeks, pipeMessages, faults>>

\* shutdown() returned inside stopCurrent(): the pipeline is released whether
\* or not it succeeded, but a failure leaves the old snapshot in error.
PipelineStopped ==
    /\ pc = "awaitShutdown"
    /\ after' = "none"
    /\ \/ StopEnds(Blank(snapshot.generation))
       \/ StopEnds(Failed(snapshot, "PipelineFailure"))
    /\ UNCHANGED <<queue, waiters, closing, sends, runStarted, current,
                   pending>>

\* shutdown() returned after a failed open(); its result is ignored.
FailedOpenCleaned ==
    /\ pc = "shutdownFailed"
    /\ pc' = "recv"
    /\ pipe' = "none"
    /\ snapshot' = Failed(snapshot, "PipelineFailure")
    /\ UNCHANGED <<channelVars, runStarted, after, current, pending,
                   stateBeforeSeek, watchVars, pipeUrl, pipePos, pipeEnded,
                   pipeSeeks, pipeMessages, faults>>

------------------------------------------------------------------------------
(* The watcher.                                                            *)

WatcherReads ==
    /\ watcher # "none" /\ held = <<>> /\ pipeMessages # <<>>
    /\ held' = <<Head(pipeMessages)>>
    /\ pipeMessages' = Tail(pipeMessages)
    /\ UNCHANGED <<channelVars, runVars, viewVars, watcher, watcherGen, pipe,
                   pipeUrl, pipePos, pipeEnded, pipeSeeks, faults>>

\* Broken: SeekEnd restores the state, whatever was done since.
AfterSeek_Always(state) == stateBeforeSeek

\* The state that SeekEnd leaves.
AfterSeek(state) == IF state = "Seeking" THEN stateBeforeSeek ELSE state

\* What applyMessage() does to the snapshot s.
Applied(s, m) ==
    CASE m.kind = "clock"  -> [s EXCEPT !.position = AtLeast0(m.time)]
      [] m.kind = "loaded" ->
            [s EXCEPT !.position = AtLeast0(m.time),
                      !.duration = AtLeast0(m.length),
                      !.state = IF @ = "Opening" THEN "Ready" ELSE @]
      [] m.kind = "seekBegin" -> [s EXCEPT !.state = "Seeking"]
      [] m.kind = "seekEnd" -> [s EXCEPT !.state = AfterSeek(@)]
      [] m.kind = "ended" ->
            [s EXCEPT !.state = "Ended", !.position = s.duration]
      [] OTHER -> Failed(s, "PipelineFailure")

\* Broken: a message of another generation is applied.
ApplyMessage_AnyGeneration(m) ==
    /\ snapshot' = Applied(snapshot, m)
    /\ stateBeforeSeek' =
            IF m.kind = "seekBegin" /\ snapshot.state # "Seeking"
            THEN StateToRestore(snapshot.state)
            ELSE stateBeforeSeek

\* applyMessage(): a message of another generation is dropped.
ApplyMessage(m) ==
    IF watcherGen # snapshot.generation
    THEN UNCHANGED viewVars
    ELSE /\ snapshot' = Applied(snapshot, m)
         /\ stateBeforeSeek' =
                IF m.kind = "seekBegin" /\ snapshot.state # "Seeking"
                THEN StateToRestore(snapshot.state)
                ELSE stateBeforeSeek

WatcherApplies ==
    /\ held # <<>>
    /\ ApplyMessage(Head(held))
    /\ held' = <<>>
    /\ UNCHANGED <<channelVars, runVars, watcher, watcherGen, pipeVars>>

\* stop() takes effect at the watcher's await; a message it held is lost.
WatcherStops ==
    /\ watcher = "stopping"
    /\ watcher' = "none"
    /\ held' = <<>>
    /\ UNCHANGED <<channelVars, runVars, viewVars, watcherGen, pipeVars>>

------------------------------------------------------------------------------
(* The external pipeline.                                                  *)

Post(m) == pipeMessages' = Append(pipeMessages, m)

\* setState() takes effect before its awaiter is resumed.
PipelineSettles ==
    /\ \/ /\ pc = "awaitOpen" /\ pipe = "created"
          /\ pipe' = "paused"
          /\ Post(Loaded(pipeUrl))
       \/ /\ pc = "awaitPlay" /\ pipe = "paused"
          /\ pipe' = "running"
          /\ UNCHANGED pipeMessages
       \/ /\ pc = "awaitPause" /\ pipe = "running"
          /\ pipe' = "paused"
          /\ UNCHANGED pipeMessages
    /\ UNCHANGED <<channelVars, runVars, viewVars, watchVars, pipeUrl,
                   pipePos, pipeEnded, pipeSeeks, faults>>

Emit ==
    UNCHANGED <<channelVars, runVars, viewVars, watchVars, pipe, pipeUrl>>

\* The clock of a running pipeline, and the end of the stream.
PipelineTicks ==
    /\ pipe = "running" /\ ~pipeEnded /\ pipeSeeks = 0
    /\ Len(pipeMessages) < MaxMessages
    /\ IF pipePos < EndTime(pipeUrl)
       THEN /\ pipePos' = pipePos + 1
            /\ Post(Message("clock", pipePos + 1))
            /\ UNCHANGED pipeEnded
       ELSE /\ pipeEnded' = TRUE
            /\ Post(Message("ended", 0))
            /\ UNCHANGED pipePos
    /\ UNCHANGED <<pipeSeeks, faults>>
    /\ Emit

\* An accepted seek ends with the new clock value and SeekEnd.
PipelineEndsSeek ==
    /\ pipe \in {"paused", "running"} /\ pipeSeeks > 0
    /\ pipeSeeks' = pipeSeeks - 1
    /\ pipeMessages' = pipeMessages
                       \o <<Message("clock", pipePos), Message("seekEnd", 0)>>
    /\ UNCHANGED <<pipePos, pipeEnded, faults>>
    /\ Emit

PipelineFaults ==
    /\ pipe # "none" /\ faults < MaxFaults
    /\ faults' = faults + 1
    /\ Post(Message("error", 0))
    /\ UNCHANGED <<pipePos, pipeEnded, pipeSeeks>>
    /\ Emit

------------------------------------------------------------------------------
Init ==
    /\ queue = <<>> /\ waiters = <<>>
    /\ closing = FALSE /\ closed = FALSE /\ sends = 0
    /\ runStarted = FALSE /\ pc = "unstarted" /\ after = "none"
    /\ current = Plain("none") /\ pending = <<>>
    /\ snapshot = Blank(0) /\ stateBeforeSeek = "Ready"
    /\ watcher = "none" /\ watcherGen = 0 /\ held = <<>>
    /\ pipe = "none" /\ pipeUrl = NoUrl /\ pipePos = 0 /\ pipeEnded = FALSE
    /\ pipeSeeks = 0 /\ pipeMessages = <<>> /\ faults = 0

Resume ==
    \/ OpenSucceeds \/ OpenFails
    \/ TransportSucceeds \/ TransportFails
    \/ SeekAccepted \/ SeekFails
    \/ WatcherJoined \/ PipelineStopped \/ FailedOpenCleaned

Run      == RunStart \/ Handle \/ Resume
Watcher  == WatcherReads \/ WatcherApplies \/ WatcherStops
Pipeline == PipelineSettles \/ PipelineTicks \/ PipelineEndsSeek
            \/ PipelineFaults

\* Run, watcher, channel and pipeline: everything but the clients' calls.
Internal == Admit \/ Run \/ Watcher \/ Pipeline

Next == (\E c \in Commands : Send(c)) \/ Close \/ Internal

Spec == Init /\ [][Next]_vars

\* The executor resumes every coroutine that can run, and the pipeline
\* completes every call and every seek; clients owe nothing.
Fairness ==
    /\ WF_vars(Admit)
    /\ WF_vars(Run)
    /\ WF_vars(WatcherReads \/ WatcherApplies)
    /\ WF_vars(WatcherStops)
    /\ WF_vars(PipelineSettles)
    /\ WF_vars(PipelineEndsSeek)

FairSpec == Spec /\ Fairness

------------------------------------------------------------------------------
(* Properties.                                                             *)

\* What the channel holds: QueuedCommand.
Queued == Commands \cup {Shutdown}

SessionMessage ==
    [kind : {"clock", "loaded", "seekBegin", "seekEnd", "ended", "error"},
     time : Int, length : Int]

Snapshot ==
    [generation : Nat, state : PlaybackState, source : Urls \cup {NoUrl},
     position : Nat, duration : Nat, tuning : {"default", "custom"},
     error : ErrorCode]

ChannelType ==
    /\ queue \in Seq(Queued) /\ waiters \in Seq(Queued)
    /\ closing \in BOOLEAN /\ closed \in BOOLEAN /\ sends \in Nat

RunType ==
    /\ runStarted \in BOOLEAN
    /\ pc \in {"unstarted", "recv", "awaitOpen", "awaitPlay", "awaitPause",
               "awaitSeek", "joinWatcher", "awaitShutdown", "joinFailed",
               "shutdownFailed", "done"}
    /\ after \in {"none", "stop", "open", "exit"}
    /\ current \in Queued \cup {Plain("none")}
    /\ pending \in Seq(Queued)

ViewType ==
    /\ snapshot \in Snapshot
    /\ stateBeforeSeek \in {"Ready", "Playing", "Paused"}

WatchType ==
    /\ watcher \in {"none", "reading", "stopping"}
    /\ watcherGen \in Nat
    /\ held \in Seq(SessionMessage)

PipeType ==
    /\ pipe \in {"none", "created", "paused", "running"}
    /\ pipeUrl \in Urls \cup {NoUrl} /\ pipePos \in Int
    /\ pipeEnded \in BOOLEAN /\ pipeSeeks \in Nat
    /\ pipeMessages \in Seq(SessionMessage) /\ faults \in Nat

\* Every variable keeps to its type; positions are never negative, whatever
\* position a seek names (playback_session.cpp:161, 316-324).
TypeOK == ChannelType /\ RunType /\ ViewType /\ WatchType /\ PipeType

\* A snapshot that shows a medium shows the one that is open: its pipeline is
\* alive, and the watcher's messages are the ones of this generation.  A late
\* message of the pipeline being closed (playback_session.cpp:307), or a
\* pipeline released while its state is still on show, would break it.
ShownMediumIsOpen ==
    snapshot.state \in {"Opening", "Ready", "Playing", "Paused", "Seeking",
                        "Ended"}
    => /\ pipe # "none"
       /\ snapshot.source = pipeUrl
       /\ snapshot.generation = watcherGen

\* A state to return to after a seek, or shown, is Playing only if the
\* pipeline runs: a pause that overlaps a seek is not undone by its SeekEnd,
\* nor by the one of a seek that ends once the pause is done
\* (playback_session.cpp:157, 168-172, 341).
PlayingMeansRunning ==
    /\ pc \notin {"awaitPlay", "awaitPause"}
    /\ \/ snapshot.state = "Playing"
       \/ snapshot.state = "Seeking" /\ stateBeforeSeek = "Playing"
    => pipe = "running"

\* Once the duration is known, the position on show is one of the slider's, from
\* zero to the duration, or else a time of the medium on show as its pipeline
\* counts it: the start that "loaded" brings, which may lie past the duration,
\* or a clock.  A seek past the end or handled before the medium was loaded
\* does not stay on show, nor does a time of the medium before
\* (playback_session.cpp:173-176, 307, 316-324, 348).
PositionWithinMedium ==
    snapshot.duration > 0
    => \/ snapshot.position \in 0 .. snapshot.duration
       \/ snapshot.position \in StartTime[snapshot.source] .. EndTime(snapshot.source)

\* Two media never share a generation (playback_session.cpp:218, 268): the
\* generation is what tells a late message from a current one.
GenerationNamesMedium ==
    [][ /\ snapshot'.generation >= snapshot.generation
        /\ snapshot'.source \notin {snapshot.source, NoUrl}
           => snapshot'.generation > snapshot.generation ]_vars

\* What clients of a pipeline are promised: see PipelineOwnership.
Pipelines == INSTANCE PipelineOwnership WITH
    phase  <- IF pipe = "none" THEN "none"
              ELSE IF pc \in {"awaitShutdown", "shutdownFailed"} THEN "shut"
              ELSE "live",
    medium <- IF pipe = "none" THEN NoUrl ELSE pipeUrl,
    reader <- watcher # "none"

\* The session uses its pipelines as PipelineOwnership says: one at a time,
\* shut down once its reader has ended, and released only after that
\* (playback_session.cpp:215, 234, 237-242, 270-275).
OwnsOnePipeline == Pipelines!Spec

\* The commands that clients handed over and the loop has not taken yet.
Outstanding == pending \o queue \o waiters

\* Commands are taken in the order in which they were sent and none is lost,
\* save seeks that a later seek right behind them replaces; the command that
\* ended a run of seeks waits in `pending` (playback_session.cpp:59-70).
TakesInOrder ==
    \E k \in 0..Len(Outstanding) :
        /\ k > 0 => current' = Outstanding[k]
        /\ k > 1 => \A i \in 1..k : IsSeek(Outstanding[i])
        /\ Len(Outstanding') >= Len(Outstanding) - k
        /\ SubSeq(Outstanding', 1, Len(Outstanding) - k)
           = SubSeq(Outstanding, k + 1, Len(Outstanding))

TakenInOrder == [][TakesInOrder]_vars

\* A seek on show is over some time: by SeekEnd, by a failure, or by another
\* command (playback_session.cpp:172, 340-343).
SeekingResolves == snapshot.state = "Seeking" ~> snapshot.state # "Seeking"

\* The state on show, or the one that the seek under way will restore.
Intended ==
    IF snapshot.state = "Seeking" THEN stateBeforeSeek ELSE snapshot.state

\* Only the Pause command turns playing into paused: seeking, however often,
\* leaves a playing medium playing (test_playback_session.cpp:121-125).
OnlyPausePauses ==
    [][Intended = "Playing" /\ Intended' = "Paused" => pc = "awaitPause"]_vars
==============================================================================
