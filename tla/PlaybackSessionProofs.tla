----------------------- MODULE PlaybackSessionProofs -----------------------
(***************************************************************************)
(* Theorems about PlaybackSession and PlaybackController, for every set of *)
(* commands, capacity of the channel, slider target and bound.             *)
(***************************************************************************)
EXTENDS PlaybackController, SequenceTheorems, TLAPS

\* The control state of the loop, the watcher and the pipeline agree.
ControlInv ==
    /\ runStarted \/ pc = "unstarted"
    /\ pc \in {"awaitOpen", "awaitPlay", "awaitPause", "awaitSeek",
               "joinWatcher", "awaitShutdown", "joinFailed",
               "shutdownFailed"} => pipe # "none"
    /\ pc = "awaitSeek" => current.position >= 0
    /\ pc \in {"joinWatcher", "awaitShutdown"} /\ after = "open"
       => current.url \in Urls
    /\ pc = "awaitOpen" => watcher = "reading"
    /\ watcher = "stopping" => pc \in {"joinWatcher", "joinFailed"}
    /\ pc \in {"awaitShutdown", "shutdownFailed"} \/ pipe = "none"
       => watcher = "none"
    /\ watcher = "none" => held = <<>>
    /\ pipe # "none" => pipeUrl \in Urls

TypeInv == TypeOK /\ ControlInv

-----------------------------------------------------------------------------
(* What the helpers return.                                                *)

\* A message of a known kind, with a time.
LEMMA MessageType ==
    ASSUME NEW t \in Int,
           NEW kind \in {"clock", "loaded", "seekBegin", "seekEnd", "ended",
                         "error"}
    PROVE  Message(kind, t) \in SessionMessage
BY DEF Message, SessionMessage

\* Media start and end at some time, and a seek goes to a time between.
LEMMA TimesType ==
    ASSUME NEW url \in Urls \cup {NoUrl}
    PROVE  /\ StartTime[url] \in Int /\ EndTime(url) \in Int
           /\ StartTime[url] <= EndTime(url)
           /\ Loaded(url) \in SessionMessage
           /\ \A t \in Int : Nearest(t, url) \in StartTime[url] .. EndTime(url)
<1>1. StartTime[url] \in Int /\ MediaLength \in Nat
  BY SessionAssumption
<1>2. EndTime(url) \in Int /\ StartTime[url] <= EndTime(url)
  BY <1>1 DEF EndTime
<1>3. Loaded(url) \in SessionMessage
  BY <1>1 DEF Loaded, SessionMessage
<1>4. ASSUME NEW t \in Int
      PROVE  Nearest(t, url) \in StartTime[url] .. EndTime(url)
  BY <1>1, <1>2 DEF Nearest, AtMost
<1> QED BY <1>1, <1>2, <1>3, <1>4

\* Every queued command has a position, and an open names some address.
LEMMA QueuedFields ==
    ASSUME NEW c \in Queued
    PROVE  /\ c.position \in Int
           /\ c.op = "open" => c.url \in Urls \cup {BadUrl}
BY SessionAssumption DEF Queued, Command, Shutdown, Plain

\* The channel may hold the shutdown command.
LEMMA ShutdownQueued == Shutdown \in Queued
BY DEF Queued

\* A blank snapshot is a snapshot.
LEMMA BlankType ==
    ASSUME NEW gen \in Nat
    PROVE  Blank(gen) \in Snapshot
BY DEF Blank, Snapshot, PlaybackState, ErrorCode

\* A failure published in a snapshot leaves a snapshot.
LEMMA FailedType ==
    ASSUME NEW s \in Snapshot, NEW code \in ErrorCode
    PROVE  Failed(s, code) \in Snapshot
BY DEF Failed, Snapshot, PlaybackState

\* What a "loaded" message writes into a snapshot leaves a snapshot.
LEMMA LoadedType ==
    ASSUME NEW s \in Snapshot, NEW st \in PlaybackState, NEW t \in Nat,
           NEW length \in Nat
    PROVE  [s EXCEPT !.position = t, !.duration = length, !.state = st] \in Snapshot
BY DEF Snapshot, PlaybackState

\* The two snapshots that stopCurrent() may leave.
LEMMA StopOutcome ==
    ASSUME TypeInv, NEW s \in {Blank(snapshot.generation),
                               Failed(snapshot, "PipelineFailure")}
    PROVE  /\ s \in Snapshot /\ s.state \in {"Idle", "Error"}
           /\ s.generation = snapshot.generation
           /\ s.source \in {snapshot.source, NoUrl}
<1>1. snapshot \in Snapshot /\ snapshot.generation \in Nat
  BY DEF TypeInv, TypeOK, ViewType, Snapshot
<1>2. CASE s = Blank(snapshot.generation)
  BY <1>1, <1>2, BlankType DEF Blank
<1>3. CASE s = Failed(snapshot, "PipelineFailure")
  <2>1. s \in Snapshot
    BY <1>1, <1>3, FailedType DEF ErrorCode
  <2> QED BY <1>1, <1>3, <2>1 DEF Failed, Snapshot
<1> QED BY <1>2, <1>3

-----------------------------------------------------------------------------
(* TypeInv is inductive: a group of variables that a step leaves alone     *)
(* keeps its type, and then each action in turn.                           *)

LEMMA ChannelFrame ==
    ASSUME TypeOK, UNCHANGED channelVars PROVE ChannelType'
BY DEF TypeOK, ChannelType, channelVars

LEMMA RunFrame ==
    ASSUME TypeOK, UNCHANGED runVars PROVE RunType'
BY DEF TypeOK, RunType, runVars

LEMMA ViewFrame ==
    ASSUME TypeOK, UNCHANGED viewVars PROVE ViewType'
BY DEF TypeOK, ViewType, viewVars

LEMMA WatchFrame ==
    ASSUME TypeOK, UNCHANGED watchVars PROVE WatchType'
BY DEF TypeOK, WatchType, watchVars

LEMMA PipeFrame ==
    ASSUME TypeOK, UNCHANGED pipeVars PROVE PipeType'
BY DEF TypeOK, PipeType, pipeVars

LEMMA CloseTypes == ASSUME TypeInv, Close PROVE TypeInv'
<1> USE DEF TypeInv, TypeOK, Close
<1>1. ChannelType'
  <2> DEFINE last == Shutdown
  <2>1. last \in Queued
    BY ShutdownQueued
  <2>2. waiters' = Append(waiters, last) \/ waiters' = waiters
    BY DEF Close, last
  <2> HIDE DEF last
  <2>3. waiters' \in Seq(Queued)
    BY <2>1, <2>2 DEF ChannelType
  <2> QED BY <2>3 DEF ChannelType
<1>2. RunType'
  BY RunFrame
<1>3. ViewType'
  BY ViewFrame
<1>4. WatchType'
  BY WatchFrame
<1>5. PipeType'
  BY PipeFrame
<1>6. ControlInv'
  BY DEF ControlInv, runVars, watchVars, pipeVars
<1> QED BY <1>1, <1>2, <1>3, <1>4, <1>5, <1>6

LEMMA AdmitTypes == ASSUME TypeInv, Admit PROVE TypeInv'
<1> USE DEF TypeInv, TypeOK, Admit
<1>1. ChannelType'
  BY DEF ChannelType
<1>2. RunType'
  BY RunFrame
<1>3. ViewType'
  BY ViewFrame
<1>4. WatchType'
  BY WatchFrame
<1>5. PipeType'
  BY PipeFrame
<1>6. ControlInv'
  BY DEF ControlInv, runVars, watchVars, pipeVars
<1> QED BY <1>1, <1>2, <1>3, <1>4, <1>5, <1>6

LEMMA RunStartTypes == ASSUME TypeInv, RunStart PROVE TypeInv'
<1> USE DEF TypeInv, TypeOK, RunStart
<1>1. ChannelType'
  BY ChannelFrame
<1>2. RunType'
  BY DEF RunType
<1>3. ViewType'
  BY ViewFrame
<1>4. WatchType'
  BY WatchFrame
<1>5. PipeType'
  BY PipeFrame
<1>6. ControlInv'
  BY DEF ControlInv, watchVars, pipeVars
<1> QED BY <1>1, <1>2, <1>3, <1>4, <1>5, <1>6

LEMMA OpenSucceedsTypes == ASSUME TypeInv, OpenSucceeds PROVE TypeInv'
<1> USE DEF TypeInv, TypeOK, OpenSucceeds
<1>1. ChannelType'
  BY ChannelFrame
<1>2. RunType'
  BY DEF RunType
<1>3. ViewType'
  BY DEF ViewType, Snapshot, PlaybackState, ErrorCode
<1>4. WatchType'
  BY WatchFrame
<1>5. PipeType'
  BY PipeFrame
<1>6. ControlInv'
  BY DEF ControlInv, watchVars, pipeVars
<1> QED BY <1>1, <1>2, <1>3, <1>4, <1>5, <1>6

LEMMA OpenFailsTypes == ASSUME TypeInv, OpenFails PROVE TypeInv'
<1> USE DEF TypeInv, TypeOK, OpenFails
<1>1. ChannelType'
  BY ChannelFrame
<1>2. RunType'
  BY DEF RunType
<1>3. ViewType'
  BY ViewFrame
<1>4. WatchType'
  BY DEF WatchType
<1>5. PipeType'
  BY PipeFrame
<1>6. ControlInv'
  BY DEF ControlInv, pipeVars
<1> QED BY <1>1, <1>2, <1>3, <1>4, <1>5, <1>6

LEMMA TransportSucceedsTypes == ASSUME TypeInv, TransportSucceeds PROVE TypeInv'
<1> USE DEF TypeInv, TypeOK, TransportSucceeds
<1>1. ChannelType'
  BY ChannelFrame
<1>2. RunType'
  BY DEF RunType
<1>3. ViewType'
  BY DEF ViewType, Snapshot, PlaybackState, ErrorCode
<1>4. WatchType'
  BY WatchFrame
<1>5. PipeType'
  BY PipeFrame
<1>6. ControlInv'
  BY DEF ControlInv, watchVars, pipeVars
<1> QED BY <1>1, <1>2, <1>3, <1>4, <1>5, <1>6

LEMMA TransportFailsTypes == ASSUME TypeInv, TransportFails PROVE TypeInv'
<1> USE DEF TypeInv, TypeOK, TransportFails
<1>1. ChannelType'
  BY ChannelFrame
<1>2. RunType'
  BY DEF RunType
<1>3. ViewType'
  BY DEF ViewType, Snapshot, PlaybackState, ErrorCode, Failed
<1>4. WatchType'
  BY WatchFrame
<1>5. PipeType'
  BY PipeFrame
<1>6. ControlInv'
  BY DEF ControlInv, watchVars, pipeVars
<1> QED BY <1>1, <1>2, <1>3, <1>4, <1>5, <1>6

LEMMA SeekAcceptedTypes == ASSUME TypeInv, SeekAccepted PROVE TypeInv'
<1> USE DEF TypeInv, TypeOK, SeekAccepted
<1>1. ChannelType'
  BY ChannelFrame
<1>2. RunType'
  BY DEF RunType
<1>3. ViewType'
  BY ViewFrame
<1>4. WatchType'
  BY WatchFrame
<1>5. PipeType'
  <2>1. current \in Queued \/ current = Plain("none")
    BY DEF RunType
  <2>2. current.position \in Nat
    BY <2>1, QueuedFields DEF ControlInv, Plain
  <2>3. Nearest(current.position, pipeUrl) \in Int
    BY <2>2, TimesType DEF PipeType
  <2>4. Message("seekBegin", 0) \in SessionMessage
    BY MessageType
  <2> DEFINE target == Nearest(current.position, pipeUrl)
             begin  == Message("seekBegin", 0)
  <2>5. pipePos' = target /\ pipeMessages' = Append(pipeMessages, begin)
    OBVIOUS
  <2> HIDE DEF target, begin
  <2>6. pipeMessages' \in Seq(SessionMessage)
    <3> SUFFICES /\ pipeMessages \in Seq(SessionMessage)
                 /\ begin \in SessionMessage
      BY <2>5
    <3> QED BY <2>4 DEF PipeType, begin
  <2>7. pipePos' \in Int
    BY <2>3, <2>5 DEF target
  <2>8. pipeEnded' \in BOOLEAN
    OBVIOUS
  <2>9. pipeSeeks' \in Nat
    BY DEF PipeType
  <2> QED BY <2>6, <2>7, <2>8, <2>9 DEF PipeType
<1>6. ControlInv'
  BY DEF ControlInv, watchVars
<1> QED BY <1>1, <1>2, <1>3, <1>4, <1>5, <1>6

LEMMA SeekFailsTypes == ASSUME TypeInv, SeekFails PROVE TypeInv'
<1> USE DEF TypeInv, TypeOK, SeekFails
<1>1. ChannelType'
  BY ChannelFrame
<1>2. RunType'
  BY DEF RunType
<1>3. ViewType'
  BY DEF ViewType, Snapshot, PlaybackState, ErrorCode, Failed
<1>4. WatchType'
  BY WatchFrame
<1>5. PipeType'
  BY PipeFrame
<1>6. ControlInv'
  BY DEF ControlInv, watchVars, pipeVars
<1> QED BY <1>1, <1>2, <1>3, <1>4, <1>5, <1>6

LEMMA WatcherJoinedTypes == ASSUME TypeInv, WatcherJoined PROVE TypeInv'
<1> USE DEF TypeInv, TypeOK, WatcherJoined
<1>1. ChannelType'
  BY ChannelFrame
<1>2. RunType'
  BY DEF RunType
<1>3. ViewType'
  BY ViewFrame
<1>4. WatchType'
  BY WatchFrame
<1>5. PipeType'
  BY PipeFrame
<1>6. ControlInv'
  BY DEF ControlInv, watchVars, pipeVars
<1> QED BY <1>1, <1>2, <1>3, <1>4, <1>5, <1>6

LEMMA FailedOpenCleanedTypes == ASSUME TypeInv, FailedOpenCleaned PROVE TypeInv'
<1> USE DEF TypeInv, TypeOK, FailedOpenCleaned
<1>1. ChannelType'
  BY ChannelFrame
<1>2. RunType'
  BY DEF RunType
<1>3. ViewType'
  BY DEF ViewType, Snapshot, PlaybackState, ErrorCode, Failed
<1>4. WatchType'
  BY WatchFrame
<1>5. PipeType'
  BY DEF PipeType
<1>6. ControlInv'
  BY DEF ControlInv, watchVars
<1> QED BY <1>1, <1>2, <1>3, <1>4, <1>5, <1>6

LEMMA WatcherReadsTypes == ASSUME TypeInv, WatcherReads PROVE TypeInv'
<1> USE DEF TypeInv, TypeOK, WatcherReads
<1>1. ChannelType'
  BY ChannelFrame
<1>2. RunType'
  BY RunFrame
<1>3. ViewType'
  BY ViewFrame
<1>4. WatchType'
  BY DEF WatchType, PipeType
<1>5. PipeType'
  BY DEF PipeType
<1>6. ControlInv'
  BY DEF ControlInv, runVars
<1> QED BY <1>1, <1>2, <1>3, <1>4, <1>5, <1>6

LEMMA WatcherStopsTypes == ASSUME TypeInv, WatcherStops PROVE TypeInv'
<1> USE DEF TypeInv, TypeOK, WatcherStops
<1>1. ChannelType'
  BY ChannelFrame
<1>2. RunType'
  BY RunFrame
<1>3. ViewType'
  BY ViewFrame
<1>4. WatchType'
  BY DEF WatchType
<1>5. PipeType'
  BY PipeFrame
<1>6. ControlInv'
  BY DEF ControlInv, runVars, pipeVars
<1> QED BY <1>1, <1>2, <1>3, <1>4, <1>5, <1>6

LEMMA PipelineSettlesTypes == ASSUME TypeInv, PipelineSettles PROVE TypeInv'
<1> USE DEF TypeInv, TypeOK, PipelineSettles
<1>1. ChannelType'
  BY ChannelFrame
<1>2. RunType'
  BY RunFrame
<1>3. ViewType'
  BY ViewFrame
<1>4. WatchType'
  BY WatchFrame
<1>5. PipeType'
  <2>1. Loaded(pipeUrl) \in SessionMessage
    BY TimesType DEF PipeType
  <2> QED BY <2>1 DEF PipeType, Post
<1>6. ControlInv'
  BY DEF ControlInv, runVars, watchVars
<1> QED BY <1>1, <1>2, <1>3, <1>4, <1>5, <1>6

LEMMA PipelineTicksTypes == ASSUME TypeInv, PipelineTicks PROVE TypeInv'
<1> USE DEF TypeInv, TypeOK, PipelineTicks
<1>1. ChannelType'
  BY ChannelFrame DEF Emit
<1>2. RunType'
  BY RunFrame DEF Emit
<1>3. ViewType'
  BY ViewFrame DEF Emit
<1>4. WatchType'
  BY WatchFrame DEF Emit
<1>5. PipeType'
  <2>1. /\ Message("clock", pipePos + 1) \in SessionMessage
        /\ Message("ended", 0) \in SessionMessage
    BY MessageType DEF PipeType
  <2>2. CASE pipePos < EndTime(pipeUrl)
    BY <2>1, <2>2 DEF PipeType, Post, Emit
  <2>3. CASE ~(pipePos < EndTime(pipeUrl))
    BY <2>1, <2>3 DEF PipeType, Post, Emit
  <2> QED BY <2>2, <2>3
<1>6. ControlInv'
  BY DEF ControlInv, runVars, watchVars, Emit
<1> QED BY <1>1, <1>2, <1>3, <1>4, <1>5, <1>6

LEMMA PipelineEndsSeekTypes == ASSUME TypeInv, PipelineEndsSeek PROVE TypeInv'
<1> USE DEF TypeInv, TypeOK, PipelineEndsSeek
<1>1. ChannelType'
  BY ChannelFrame DEF Emit
<1>2. RunType'
  BY RunFrame DEF Emit
<1>3. ViewType'
  BY ViewFrame DEF Emit
<1>4. WatchType'
  BY WatchFrame DEF Emit
<1>5. PipeType'
  BY DEF PipeType, SessionMessage, Message, Emit
<1>6. ControlInv'
  BY DEF ControlInv, runVars, watchVars, Emit
<1> QED BY <1>1, <1>2, <1>3, <1>4, <1>5, <1>6

LEMMA PipelineFaultsTypes == ASSUME TypeInv, PipelineFaults PROVE TypeInv'
<1> USE DEF TypeInv, TypeOK, PipelineFaults
<1>1. ChannelType'
  BY ChannelFrame DEF Emit
<1>2. RunType'
  BY RunFrame DEF Emit
<1>3. ViewType'
  BY ViewFrame DEF Emit
<1>4. WatchType'
  BY WatchFrame DEF Emit
<1>5. PipeType'
  BY DEF PipeType, Post, SessionMessage, Message, Emit
<1>6. ControlInv'
  BY DEF ControlInv, runVars, watchVars, Emit
<1> QED BY <1>1, <1>2, <1>3, <1>4, <1>5, <1>6

LEMMA SendTypes == ASSUME TypeInv, NEW c \in Commands, Send(c) PROVE TypeInv'
<1> USE DEF TypeInv, TypeOK, Send
<1>1. ChannelType'
  BY DEF ChannelType, Queued
<1>2. RunType'
  BY RunFrame
<1>3. ViewType'
  BY ViewFrame
<1>4. WatchType'
  BY WatchFrame
<1>5. PipeType'
  BY PipeFrame
<1>6. ControlInv'
  BY DEF ControlInv, runVars, watchVars, pipeVars
<1> QED BY <1>1, <1>2, <1>3, <1>4, <1>5, <1>6

\* Whatever message is applied to it, a snapshot stays a snapshot.
LEMMA AppliedType ==
    ASSUME NEW s \in Snapshot, NEW m \in SessionMessage,
           stateBeforeSeek \in PlaybackState
    PROVE  Applied(s, m) \in Snapshot
<1> DEFINE ready == IF s.state = "Opening" THEN "Ready" ELSE s.state
           back  == AfterSeek(s.state)
<1>1. AtLeast0(m.time) \in Nat /\ AtLeast0(m.length) \in Nat
  BY DEF AtLeast0, SessionMessage
<1>2. ready \in PlaybackState /\ back \in PlaybackState
  BY DEF Snapshot, PlaybackState, AfterSeek
<1>3. CASE m.kind = "clock"
  BY <1>1, <1>3 DEF Applied, Snapshot
<1>4. CASE m.kind = "loaded"
  <2> DEFINE from == AtLeast0(m.time)
             length == AtLeast0(m.length)
  <2>1. Applied(s, m) = [s EXCEPT !.position = from, !.duration = length,
                                  !.state = ready]
    BY <1>1, <1>4 DEF Applied
  <2> DEFINE r == [s EXCEPT !.position = from, !.duration = length,
                            !.state = ready]
  <2>2. r \in Snapshot
    <3>1. from \in Nat /\ length \in Nat
      BY <1>1
    <3> HIDE DEF ready, from, length
    <3> QED BY <1>2, <3>1, LoadedType
  <2> HIDE DEF r
  <2> QED BY <2>1, <2>2 DEF r
<1>5. CASE m.kind = "seekBegin"
  BY <1>5 DEF Applied, Snapshot, PlaybackState
<1>6. CASE m.kind = "seekEnd"
  <2>1. Applied(s, m) = [s EXCEPT !.state = back]
    BY <1>6 DEF Applied
  <2> HIDE DEF back
  <2> QED BY <1>2, <2>1 DEF Snapshot
<1>7. CASE m.kind = "ended"
  BY <1>7 DEF Applied, Snapshot, PlaybackState
<1>8. CASE m.kind = "error"
  BY <1>8, FailedType DEF Applied, ErrorCode
<1> QED BY <1>3, <1>4, <1>5, <1>6, <1>7, <1>8 DEF SessionMessage

LEMMA WatcherAppliesTypes == ASSUME TypeInv, WatcherApplies PROVE TypeInv'
<1> USE DEF TypeInv, TypeOK, WatcherApplies
<1>1. ChannelType'
  BY ChannelFrame
<1>2. RunType'
  BY RunFrame
<1>3. ViewType'
  <2>1. Head(held) \in SessionMessage
    BY DEF WatchType
  <2>2. Applied(snapshot, Head(held)) \in Snapshot
    BY <2>1, AppliedType DEF ViewType, PlaybackState
  <2> QED BY <2>2 DEF ViewType, ApplyMessage, StateToRestore, viewVars
<1>4. WatchType'
  BY DEF WatchType
<1>5. PipeType'
  BY PipeFrame
<1>6. ControlInv'
  BY DEF ControlInv, runVars, pipeVars
<1> QED BY <1>1, <1>2, <1>3, <1>4, <1>5, <1>6

\* What open() leaves behind, from a state without a pipeline or with one
\* that was shut down.
LEMMA StartOpenTypes ==
    ASSUME TypeInv, runStarted', NEW s \in Snapshot, NEW url \in Urls,
           watcher = "none", StartOpen(s, url)
    PROVE  /\ ViewType' /\ WatchType' /\ PipeType' /\ ControlInv'
           /\ pc' \in {"recv", "awaitOpen"} /\ closed' = closed
<1> DEFINE gen == s.generation + 1
<1>1. gen \in Nat
  BY DEF Snapshot
<1>2. CASE OpenWithoutPipeline(s, url)
  <2> DEFINE t == [s EXCEPT !.generation = gen, !.source = url,
                            !.position = 0, !.duration = 0]
  <2>1. snapshot' = Failed(t, "PipelineFailure")
    BY <1>2 DEF OpenWithoutPipeline
  <2>2. t \in Snapshot
    <3> HIDE DEF gen
    <3> QED BY <1>1 DEF Snapshot
  <2>3. snapshot' \in Snapshot
    <3> HIDE DEF t
    <3> QED BY <2>1, <2>2, FailedType DEF ErrorCode
  <2>4. ViewType'
    BY <2>3 DEF ViewType, StartOpen, TypeInv, TypeOK
  <2>5. WatchType'
    BY <1>2 DEF WatchType, OpenWithoutPipeline, StartOpen, TypeInv, TypeOK
  <2>6. PipeType'
    <3>1. pipeEnded' \in BOOLEAN
      BY DEF StartOpen
    <3>2. pipeMessages' \in Seq(SessionMessage)
      BY DEF StartOpen
    <3> QED BY <3>1, <3>2, <1>2 DEF PipeType, OpenWithoutPipeline, StartOpen,
            TypeInv, TypeOK
  <2>7. ControlInv'
    BY <1>2 DEF ControlInv, OpenWithoutPipeline, StartOpen
  <2> QED BY <2>4, <2>5, <2>6, <2>7, <1>2 DEF OpenWithoutPipeline, StartOpen
<1>3. CASE OpenWithPipeline(s, url)
  <2>1. snapshot' = [s EXCEPT !.generation = gen, !.state = "Opening",
                              !.source = url, !.position = 0,
                              !.duration = 0, !.error = "none"]
    BY <1>3 DEF OpenWithPipeline
  <2>2. snapshot' \in Snapshot
    <3> HIDE DEF gen
    <3> QED BY <1>1, <2>1 DEF Snapshot, PlaybackState, ErrorCode
  <2>3. ViewType'
    BY <2>2 DEF ViewType, StartOpen, TypeInv, TypeOK
  <2>4. WatchType'
    BY <1>1, <1>3 DEF WatchType, OpenWithPipeline, StartOpen
  <2>5. PipeType'
    <3>1. pipeEnded' \in BOOLEAN
      BY DEF StartOpen
    <3>2. pipeMessages' \in Seq(SessionMessage)
      BY DEF StartOpen
    <3>3. pipePos' \in Int
      BY <1>3, TimesType DEF OpenWithPipeline
    <3> QED BY <3>1, <3>2, <3>3, <1>3 DEF PipeType, OpenWithPipeline, StartOpen,
            TypeInv, TypeOK
  <2>6. ControlInv'
    BY <1>3 DEF ControlInv, OpenWithPipeline, StartOpen
  <2> QED BY <2>3, <2>4, <2>5, <2>6, <1>3 DEF OpenWithPipeline, StartOpen
<1> QED BY <1>2, <1>3 DEF StartOpen

LEMMA PipelineStoppedTypes == ASSUME TypeInv, PipelineStopped PROVE TypeInv'
<1> USE DEF TypeInv, TypeOK
<1>1. /\ runStarted /\ watcher = "none" /\ pipe # "none"
      /\ runStarted' = runStarted
  BY DEF PipelineStopped, ControlInv
<1>2. PICK s \in Snapshot : StopEnds(s)
  <2>1. /\ Blank(snapshot.generation) \in Snapshot
        /\ Failed(snapshot, "PipelineFailure") \in Snapshot
    BY BlankType, FailedType DEF ViewType, ErrorCode, Snapshot
  <2> QED BY <2>1 DEF PipelineStopped
<1>3. CASE after = "open" /\ StartOpen(s, current.url)
  <2>1. current.url \in Urls
    BY <1>3 DEF PipelineStopped, ControlInv
  <2>2. /\ ViewType' /\ WatchType' /\ PipeType' /\ ControlInv'
        /\ pc' \in {"recv", "awaitOpen"} /\ closed' = closed
    BY <1>1, <1>3, <2>1, StartOpenTypes
  <2> QED BY <2>2 DEF PipelineStopped, ChannelType, RunType
<1>4. CASE after \in {"stop", "exit"}
  <2>1. ChannelType' /\ RunType'
    BY <1>2, <1>4 DEF PipelineStopped, StopEnds, FinishRun, ChannelType,
       RunType
  <2>2. ViewType' /\ WatchType' /\ PipeType'
    BY <1>2, <1>4 DEF StopEnds, ViewType, WatchType, PipeType, watchVars
  <2>3. ControlInv'
    BY <1>1, <1>2, <1>4 DEF PipelineStopped, StopEnds, FinishRun, ControlInv,
       watchVars
  <2> QED BY <2>1, <2>2, <2>3
<1> QED BY <1>2, <1>3, <1>4 DEF StopEnds

\* The loop takes a queued command, and keeps queued commands.
LEMMA DequeueTypes ==
    ASSUME TypeInv, NEW k \in 1..Len(Backlog), Dequeue(k)
    PROVE  /\ Backlog[k] \in Queued /\ current' = Backlog[k]
           /\ pending' \in Seq(Queued) /\ queue' \in Seq(Queued)
           /\ runStarted /\ runStarted' = runStarted
<1> DEFINE b == Backlog
<1>1. b \in Seq(Queued)
  BY DEF TypeInv, TypeOK, ChannelType, RunType, Backlog
<1>2. /\ \/ /\ k < Len(b)
          /\ pending' = <<b[k + 1]>>
          /\ queue' = SubSeq(b, k + 2, Len(b))
       \/ /\ pending' = <<>>
          /\ queue' = SubSeq(b, k + 1, Len(b))
      /\ current' = b[k]
  BY DEF Dequeue
<1>3. runStarted /\ runStarted' = runStarted
  BY DEF Dequeue, TypeInv, ControlInv
<1> HIDE DEF b
<1>4. k \in 1..Len(b)
  BY DEF b
<1>5. b[k] \in Queued /\ (k < Len(b) => b[k + 1] \in Queued)
  BY <1>1, <1>4
<1>6. pending' \in Seq(Queued)
  <2>1. ASSUME NEW e \in Queued PROVE <<e>> \in Seq(Queued)
    BY <2>1
  <2>2. <<>> \in Seq(Queued)
    OBVIOUS
  <2> QED BY <1>2, <1>5, <2>1, <2>2
<1>7. ASSUME NEW j \in Nat \ {0} PROVE SubSeq(b, j, Len(b)) \in Seq(Queued)
  BY <1>1, <1>7
<1>8. queue' \in Seq(Queued)
  <2>1. k + 1 \in Nat \ {0} /\ k + 2 \in Nat \ {0}
    BY <1>1, <1>4
  <2>2. /\ SubSeq(b, k + 1, Len(b)) \in Seq(Queued)
        /\ SubSeq(b, k + 2, Len(b)) \in Seq(Queued)
    BY <1>7, <2>1
  <2> QED BY <1>2, <2>2
<1> QED BY <1>2, <1>3, <1>5, <1>6, <1>8 DEF b

\* A handler that only writes the snapshot.
LEMMA ReturnTypes ==
    ASSUME TypeInv, runStarted', NEW s \in Snapshot, pc = "recv", Return(s)
    PROVE  /\ ViewType' /\ WatchType' /\ PipeType' /\ ControlInv'
           /\ pc' = "recv" /\ after' = after /\ closed' = closed
<1> USE DEF TypeInv, TypeOK, Return
<1>1. ViewType'
  BY DEF ViewType
<1>2. WatchType' /\ PipeType'
  BY WatchFrame, PipeFrame
<1>3. ControlInv'
  BY DEF ControlInv, watchVars, pipeVars
<1> QED BY <1>1, <1>2, <1>3

\* stopCurrent() up to its first await.
LEMMA BeginStopTypes ==
    ASSUME TypeInv, runStarted', pc = "recv",
           NEW next \in {"stop", "open", "exit"}, BeginStop(next),
           next = "open" => current'.url \in Urls
    PROVE  /\ ViewType' /\ WatchType' /\ PipeType' /\ ControlInv'
           /\ pc' = "joinWatcher" /\ after' = next /\ closed' = closed
<1> USE DEF TypeInv, TypeOK, BeginStop
<1>1. ViewType'
  <2> DEFINE gen == snapshot.generation + 1
  <2>1. gen \in Nat
    BY DEF ViewType, Snapshot
  <2>2. snapshot' = [snapshot EXCEPT !.state = "Stopping", !.generation = gen]
    OBVIOUS
  <2> HIDE DEF gen
  <2> QED BY <2>1, <2>2 DEF ViewType, Snapshot, PlaybackState
<1>2. WatchType'
  BY DEF WatchType
<1>3. PipeType'
  BY PipeFrame
<1>4. ControlInv'
  BY DEF ControlInv, pipeVars
<1> QED BY <1>1, <1>2, <1>3, <1>4

\* What every handler leaves behind, given the command taken.
HandlerTypes ==
    /\ ViewType' /\ WatchType' /\ PipeType' /\ ControlInv'
    /\ pc' \in {"recv", "awaitOpen", "awaitPlay", "awaitPause", "awaitSeek",
                "joinWatcher", "done"}
    /\ after' \in {"none", "stop", "open", "exit"} /\ closed' \in BOOLEAN

\* Each of the handlers, in turn.
LEMMA HandlersTypes ==
    ASSUME TypeInv, runStarted', pc = "recv", NEW c \in Queued, current' = c,
           \/ HandleOpen(c) \/ HandleStop(c) \/ HandleShutdown(c)
           \/ HandlePlayPause(c) \/ HandleSeek(c) \/ HandleTune(c)
    PROVE  HandlerTypes
<1> USE DEF TypeInv, TypeOK, HandlerTypes
<1>1. /\ snapshot \in Snapshot /\ snapshot.generation \in Nat
      /\ after \in {"none", "stop", "open", "exit"} /\ closed \in BOOLEAN
  BY DEF ViewType, Snapshot, RunType, ChannelType
<1>2. c.position \in Int /\ (c.op = "open" => c.url \in Urls \cup {BadUrl})
  BY QueuedFields
<1>3. CASE HandleOpen(c)
  <2>1. CASE Return(Failed(snapshot, "InvalidSource"))
    BY <1>1, <2>1, FailedType, ReturnTypes DEF ErrorCode
  <2>2. CASE c.url # BadUrl /\ BeginStop("open")
    BY <1>1, <1>2, <1>3, <2>2, BeginStopTypes DEF HandleOpen
  <2>3. CASE /\ c.url # BadUrl /\ pipe = "none"
             /\ StartOpen(Blank(snapshot.generation), c.url)
             /\ UNCHANGED after
    <3>1. watcher = "none" /\ c.url \in Urls
      BY <1>2, <1>3, <2>3 DEF ControlInv, HandleOpen
    <3> QED BY <1>1, <2>3, <3>1, BlankType, StartOpenTypes
  <2> QED BY <1>3, <2>1, <2>2, <2>3 DEF HandleOpen
<1>4. CASE HandleStop(c)
  <2>1. snapshot.generation + 1 \in Nat
    BY <1>1
  <2>2. CASE Return(Blank(snapshot.generation + 1))
    BY <1>1, <2>1, <2>2, BlankType, ReturnTypes
  <2>3. CASE BeginStop("stop")
    BY <1>1, <2>3, BeginStopTypes
  <2> QED BY <1>4, <2>2, <2>3 DEF HandleStop
<1>5. CASE HandleShutdown(c)
  <2>1. CASE BeginStop("exit")
    BY <1>1, <2>1, BeginStopTypes
  <2>2. CASE ~BeginStop("exit")
    <3>1. /\ snapshot' = Blank(snapshot.generation)
          /\ pipe = "none" /\ pc' = "done" /\ closed' = TRUE
          /\ UNCHANGED <<after, stateBeforeSeek, watchVars, pipeVars>>
      BY <1>5, <2>2 DEF HandleShutdown, FinishRun
    <3>2. ViewType'
      BY <1>1, <3>1, BlankType DEF ViewType
    <3>3. WatchType' /\ PipeType'
      BY <3>1, WatchFrame, PipeFrame
    <3>4. ControlInv'
      BY <3>1 DEF ControlInv, watchVars, pipeVars
    <3> QED BY <1>1, <3>1, <3>2, <3>3, <3>4
  <2> QED BY <2>1, <2>2
<1>6. CASE HandlePlayPause(c)
  <2>1. CASE Return(Failed(snapshot, "InvalidState"))
    BY <1>1, <2>1, FailedType, ReturnTypes DEF ErrorCode
  <2>2. CASE ~Return(Failed(snapshot, "InvalidState"))
    <3>1. /\ pipe # "none" /\ pc' \in {"awaitPlay", "awaitPause"}
          /\ UNCHANGED <<closed, after, viewVars, watchVars, pipeVars>>
      BY <1>6, <2>2 DEF HandlePlayPause
    <3>2. ViewType' /\ WatchType' /\ PipeType'
      BY <3>1, ViewFrame, WatchFrame, PipeFrame
    <3>3. ControlInv'
      BY <3>1 DEF ControlInv, watchVars, pipeVars
    <3> QED BY <1>1, <3>1, <3>2, <3>3
  <2> QED BY <2>1, <2>2
<1>7. CASE HandleSeek(c)
  <2>1. CASE Return(Failed(snapshot, "InvalidState"))
    BY <1>1, <2>1, FailedType, ReturnTypes DEF ErrorCode
  <2>2. CASE ~Return(Failed(snapshot, "InvalidState"))
    <3> DEFINE t == ShownTarget(c.position, snapshot.duration)
    <3>1. /\ pipe # "none" /\ c.position >= 0 /\ pc' = "awaitSeek"
          /\ stateBeforeSeek' = StateToRestore(snapshot.state)
          /\ snapshot' = [snapshot EXCEPT !.state = "Seeking",
                                         !.position = t, !.error = "none"]
          /\ UNCHANGED <<closed, after, watchVars, pipeVars>>
      BY <1>7, <2>2 DEF HandleSeek
    <3>2. t \in Nat
      BY <1>1, <1>2, <3>1 DEF ShownTarget, AtMost, Snapshot
    <3>3. ViewType'
      <4> HIDE DEF t
      <4> QED BY <3>1, <3>2 DEF ViewType, Snapshot, PlaybackState, ErrorCode,
                 StateToRestore
    <3>4. WatchType' /\ PipeType'
      BY <3>1, WatchFrame, PipeFrame
    <3>5. ControlInv'
      BY <3>1 DEF ControlInv, watchVars, pipeVars
    <3> QED BY <1>1, <3>1, <3>3, <3>4, <3>5
  <2> QED BY <2>1, <2>2
<1>8. CASE HandleTune(c)
  <2>1. [snapshot EXCEPT !.tuning = "custom"] \in Snapshot
    BY <1>1 DEF Snapshot
  <2> QED BY <1>1, <1>8, <2>1, ReturnTypes DEF HandleTune
<1> QED BY <1>3, <1>4, <1>5, <1>6, <1>7, <1>8

LEMMA HandleTypes == ASSUME TypeInv, Handle PROVE TypeInv'
<1>1. PICK k \in 1..Len(Backlog) :
         /\ Dequeue(k)
         /\ \/ HandleOpen(Backlog[k]) \/ HandleStop(Backlog[k])
            \/ HandleShutdown(Backlog[k]) \/ HandlePlayPause(Backlog[k])
            \/ HandleSeek(Backlog[k]) \/ HandleTune(Backlog[k])
  BY DEF Handle
<1>2. /\ Backlog[k] \in Queued /\ current' = Backlog[k]
      /\ pending' \in Seq(Queued) /\ queue' \in Seq(Queued)
      /\ runStarted /\ runStarted' = runStarted
  BY <1>1, DequeueTypes
<1>3. HandlerTypes
  <2>1. pc = "recv"
    BY <1>1 DEF Dequeue
  <2> QED BY <1>1, <1>2, <2>1, HandlersTypes
<1>4. ChannelType'
  BY <1>1, <1>2, <1>3 DEF Dequeue, HandlerTypes, TypeInv, TypeOK, ChannelType
<1>5. RunType'
  BY <1>1, <1>2, <1>3 DEF Dequeue, HandlerTypes, TypeInv, TypeOK, RunType
<1> QED BY <1>3, <1>4, <1>5 DEF HandlerTypes, TypeInv, TypeOK

-----------------------------------------------------------------------------
LEMMA InitTypes == Init \/ ControllerInit => TypeInv
<1> SUFFICES ASSUME Init \/ ControllerInit PROVE TypeInv
  OBVIOUS
<1>0. /\ queue = <<>> /\ waiters = <<>> /\ closing = FALSE /\ closed = FALSE /\ sends = 0
      /\ runStarted \in BOOLEAN /\ pc \in {"unstarted", "recv"} /\ (runStarted \/ pc = "unstarted")
      /\ after = "none" /\ current = Plain("none") /\ pending = <<>>
      /\ snapshot = Blank(0) /\ stateBeforeSeek = "Ready"
      /\ watcher = "none" /\ watcherGen = 0 /\ held = <<>>
      /\ pipe = "none" /\ pipeUrl = NoUrl /\ pipePos = 0 /\ pipeEnded = FALSE
      /\ pipeSeeks = 0 /\ pipeMessages = <<>> /\ faults = 0
  BY DEF Init, ControllerInit
<1>1. ChannelType
  <2>1. queue \in Seq(Queued) /\ waiters \in Seq(Queued)
    BY <1>0
  <2> QED BY <1>0, <2>1 DEF ChannelType
<1>2. RunType
  <2>1. current \in Queued \cup {Plain("none")} /\ pending \in Seq(Queued)
    BY <1>0
  <2> QED BY <1>0, <2>1 DEF RunType
<1>3. ViewType
  BY <1>0, BlankType DEF ViewType
<1>4. WatchType
  BY <1>0 DEF WatchType
<1>5. PipeType
  <2>1. pipeMessages \in Seq(SessionMessage)
    BY <1>0
  <2>2. pipeEnded \in BOOLEAN
    BY <1>0
  <2> QED BY <2>1, <2>2, <1>0 DEF PipeType
<1>6. ControlInv
  BY <1>0 DEF ControlInv
<1> QED BY <1>1, <1>2, <1>3, <1>4, <1>5, <1>6 DEF TypeInv, TypeOK

LEMMA StutterTypes == ASSUME TypeInv, UNCHANGED vars PROVE TypeInv'
<1> USE DEF TypeInv, TypeOK, vars
<1>1. ChannelType' /\ RunType' /\ ViewType' /\ WatchType' /\ PipeType'
  BY ChannelFrame, RunFrame, ViewFrame, WatchFrame, PipeFrame
<1>2. ControlInv'
  BY DEF ControlInv, runVars, watchVars, pipeVars
<1> QED BY <1>1, <1>2

LEMMA NextTypes == TypeInv /\ [Next]_vars => TypeInv'
<1> SUFFICES ASSUME TypeInv, [Next]_vars PROVE TypeInv'
  OBVIOUS
<1>1. CASE \E c \in Commands : Send(c)
  BY <1>1, SendTypes
<1>2. CASE Close
  BY <1>2, CloseTypes
<1>3. CASE Admit
  BY <1>3, AdmitTypes
<1>4. CASE Run
  BY <1>4, RunStartTypes, HandleTypes, OpenSucceedsTypes, OpenFailsTypes,
     TransportSucceedsTypes, TransportFailsTypes, SeekAcceptedTypes,
     SeekFailsTypes, WatcherJoinedTypes, PipelineStoppedTypes,
     FailedOpenCleanedTypes DEF Run, Resume
<1>5. CASE Watcher
  BY <1>5, WatcherReadsTypes, WatcherAppliesTypes, WatcherStopsTypes
     DEF Watcher
<1>6. CASE Pipeline
  BY <1>6, PipelineSettlesTypes, PipelineTicksTypes, PipelineEndsSeekTypes,
     PipelineFaultsTypes DEF Pipeline
<1>7. CASE UNCHANGED vars
  BY <1>7, StutterTypes
<1> QED BY <1>1, <1>2, <1>3, <1>4, <1>5, <1>6, <1>7 DEF Next, Internal

\* The loop, the watcher and the pipeline keep to their types, and agree on
\* which of them is alive, whatever commands clients send.
THEOREM TypeCorrect == Spec => []TypeOK
<1>1. TypeInv => TypeOK
  BY DEF TypeInv
<1> QED BY InitTypes, NextTypes, <1>1, PTL DEF Spec

-----------------------------------------------------------------------------
\* The snapshot and the pipeline agree: while a pipeline is being closed its
\* generation is past, without one there is nothing on show, and with one the
\* snapshot names its medium and its generation.
ViewInv ==
    /\ pc \in {"joinWatcher", "awaitShutdown"}
       => snapshot.state = "Stopping" /\ snapshot.generation > watcherGen
    /\ pipe = "none" => snapshot.state \in {"Idle", "Error"}
    /\ pipe # "none" /\ pc \notin {"joinWatcher", "awaitShutdown"}
       => snapshot.source = pipeUrl /\ snapshot.generation = watcherGen

\* open() leaves a pipeline with its snapshot, or neither.
LEMMA StartOpenView ==
    ASSUME TypeInv, NEW s \in Snapshot, NEW url, StartOpen(s, url)
    PROVE  ViewInv'
<1>1. CASE OpenWithoutPipeline(s, url)
  BY <1>1 DEF OpenWithoutPipeline, Failed, ViewInv, Snapshot
<1>2. CASE OpenWithPipeline(s, url)
  BY <1>2 DEF OpenWithPipeline, ViewInv, Snapshot
<1> QED BY <1>1, <1>2 DEF StartOpen

\* A handler shows a medium only together with its pipeline.
LEMMA HandleView == ASSUME TypeInv, ViewInv, Handle PROVE ViewInv'
<1>1. PICK c \in Queued :
         /\ pc = "recv"
         /\ \/ HandleOpen(c) \/ HandleStop(c) \/ HandleShutdown(c)
            \/ HandlePlayPause(c) \/ HandleSeek(c) \/ HandleTune(c)
  BY DequeueTypes DEF Handle, Dequeue
<1>2. snapshot \in Snapshot /\ snapshot.generation \in Nat
  BY DEF TypeInv, TypeOK, ViewType, Snapshot
<1>3. ASSUME NEW next, BeginStop(next) PROVE ViewInv'
  BY <1>1, <1>2, <1>3 DEF BeginStop, ViewInv, Snapshot, pipeVars
<1>4. ASSUME NEW code, Return(Failed(snapshot, code)) PROVE ViewInv'
  BY <1>1, <1>2, <1>4 DEF Return, Failed, ViewInv, Snapshot, watchVars,
     pipeVars
<1>5. CASE HandleOpen(c)
  BY <1>2, <1>3, <1>4, <1>5, BlankType, StartOpenView DEF HandleOpen
<1>6. CASE HandleStop(c)
  BY <1>2, <1>3, <1>6 DEF HandleStop, Return, Blank, ViewInv, pipeVars
<1>7. CASE HandleShutdown(c)
  BY <1>2, <1>3, <1>7 DEF HandleShutdown, FinishRun, Blank, ViewInv, pipeVars
<1>8. CASE HandlePlayPause(c)
  BY <1>1, <1>4, <1>8 DEF HandlePlayPause, ViewInv, viewVars, watchVars,
     pipeVars
<1>9. CASE HandleSeek(c)
  BY <1>1, <1>2, <1>4, <1>9 DEF HandleSeek, ViewInv, Snapshot, watchVars,
     pipeVars
<1>10. CASE HandleTune(c)
  BY <1>1, <1>2, <1>10 DEF HandleTune, Return, ViewInv, Snapshot, watchVars,
     pipeVars
<1> QED BY <1>1, <1>5, <1>6, <1>7, <1>8, <1>9, <1>10

\* A message changes neither the medium nor the generation, and is dropped
\* once the generation is past.
LEMMA WatcherAppliesView ==
    ASSUME TypeInv, ViewInv, WatcherApplies PROVE ViewInv'
<1> DEFINE m == Head(held)
<1>1. pipe # "none" /\ snapshot \in Snapshot
  BY DEF WatcherApplies, TypeInv, TypeOK, ControlInv, ViewType
<1>2. UNCHANGED <<pc, watcherGen, pipe, pipeUrl>>
  BY DEF WatcherApplies, runVars, pipeVars
<1>3. CASE watcherGen # snapshot.generation
  BY <1>2, <1>3 DEF WatcherApplies, ApplyMessage, ViewInv, viewVars
<1>4. CASE watcherGen = snapshot.generation
  <2>1. snapshot' = Applied(snapshot, m)
    BY <1>4 DEF WatcherApplies, ApplyMessage
  <2>2. /\ Applied(snapshot, m).source = snapshot.source
        /\ Applied(snapshot, m).generation = snapshot.generation
    BY <1>1 DEF Applied, Failed, Snapshot
  <2>3. pc \notin {"joinWatcher", "awaitShutdown"}
    BY <1>1, <1>4 DEF ViewInv, Snapshot
  <2> HIDE DEF m
  <2> QED BY <1>1, <1>2, <2>1, <2>2, <2>3 DEF ViewInv
<1> QED BY <1>3, <1>4

\* The end of stopCurrent() clears the snapshot, or leaves the error in it.
LEMMA PipelineStoppedView ==
    ASSUME TypeInv, ViewInv, PipelineStopped PROVE ViewInv'
<1>2. PICK s \in {Blank(snapshot.generation),
                  Failed(snapshot, "PipelineFailure")} : StopEnds(s)
  BY DEF PipelineStopped
<1>3. s \in Snapshot /\ s.state \in {"Idle", "Error"}
  BY <1>2, StopOutcome
<1>4. CASE after = "open" /\ StartOpen(s, current.url)
  BY <1>3, <1>4, StartOpenView
<1>5. CASE after \in {"stop", "exit"}
  BY <1>2, <1>3, <1>5 DEF StopEnds, FinishRun, ViewInv
<1> QED BY <1>2, <1>4, <1>5 DEF StopEnds

\* ViewInv is inductive relative to TypeInv.
LEMMA NextView == TypeInv /\ ViewInv /\ [Next]_vars => ViewInv'
<1> SUFFICES ASSUME TypeInv, ViewInv, [Next]_vars PROVE ViewInv'
  OBVIOUS
<1>0. snapshot \in Snapshot
  BY DEF TypeInv, TypeOK, ViewType
<1>1. CASE \/ \E c \in Commands : Send(c)
           \/ Close \/ Admit \/ RunStart \/ UNCHANGED vars
  BY <1>1 DEF Send, Close, Admit, RunStart, vars, runVars, viewVars,
     watchVars, pipeVars, ViewInv, TypeInv, ControlInv
<1>2. CASE Handle
  BY <1>2, HandleView
<1>3. CASE OpenSucceeds
  BY <1>0, <1>3 DEF OpenSucceeds, ViewInv, watchVars, pipeVars, Snapshot
<1>4. CASE OpenFails
  BY <1>4 DEF OpenFails, ViewInv, viewVars, pipeVars
<1>5. CASE TransportSucceeds
  BY <1>0, <1>5 DEF TransportSucceeds, ViewInv, watchVars, pipeVars, Snapshot
<1>6. CASE TransportFails \/ SeekFails
  BY <1>0, <1>6 DEF TransportFails, SeekFails, Failed, ViewInv, watchVars,
     pipeVars, Snapshot, TypeInv, ControlInv
<1>7. CASE SeekAccepted
  BY <1>7 DEF SeekAccepted, ViewInv, viewVars, watchVars
<1>8. CASE WatcherJoined
  BY <1>8 DEF WatcherJoined, ViewInv, viewVars, watchVars, pipeVars
<1>9. CASE PipelineStopped
  BY <1>9, PipelineStoppedView
<1>10. CASE FailedOpenCleaned
  BY <1>0, <1>10 DEF FailedOpenCleaned, Failed, ViewInv, Snapshot
<1>11. CASE WatcherReads \/ WatcherStops
  BY <1>11 DEF WatcherReads, WatcherStops, ViewInv, runVars, viewVars,
     pipeVars
<1>12. CASE WatcherApplies
  BY <1>12, WatcherAppliesView
<1>13. CASE PipelineSettles
  BY <1>13 DEF PipelineSettles, ViewInv, runVars, viewVars, watchVars
<1>14. CASE PipelineTicks \/ PipelineEndsSeek \/ PipelineFaults
  BY <1>14 DEF PipelineTicks, PipelineEndsSeek, PipelineFaults, Emit, ViewInv,
     runVars, viewVars, watchVars
<1> QED BY <1>1, <1>2, <1>3, <1>4, <1>5, <1>6, <1>7, <1>8, <1>9, <1>10,
           <1>11, <1>12, <1>13, <1>14
        DEF Next, Internal, Run, Resume, Watcher, Pipeline

\* A snapshot that shows a medium shows the one whose pipeline is alive.
THEOREM ShownIsOpen == Spec => []ShownMediumIsOpen
<1>1. Init => ViewInv
  BY DEF Init, ViewInv, Blank
<1>2. TypeInv /\ ViewInv => ShownMediumIsOpen
  BY DEF ViewInv, ShownMediumIsOpen
<1> QED BY InitTypes, NextTypes, NextView, <1>1, <1>2, PTL DEF Spec

-----------------------------------------------------------------------------
\* Every step keeps the pipeline's phase, medium and reader, or is a step of
\* PipelineOwnership.
LEMMA OwnershipStep ==
    TypeInv /\ [Next]_vars => [Pipelines!Next]_(Pipelines!vars)
<1> SUFFICES ASSUME TypeInv, [Next]_vars
             PROVE  [Pipelines!Next]_(Pipelines!vars)
  OBVIOUS
<1> USE DEF Pipelines!Next, Pipelines!vars, Pipelines!Create,
            Pipelines!ReaderEnds, Pipelines!ShutDown, Pipelines!Release
<1>1. CASE \/ \E c \in Commands : Send(c)
           \/ Close \/ Admit \/ RunStart \/ UNCHANGED vars
  BY <1>1 DEF Send, Close, Admit, RunStart, vars, runVars, watchVars,
     pipeVars, TypeInv, ControlInv
<1>2. CASE Handle
  <2>1. PICK c \in Queued :
           /\ pc = "recv"
           /\ \/ HandleOpen(c) \/ HandleStop(c) \/ HandleShutdown(c)
              \/ HandlePlayPause(c) \/ HandleSeek(c) \/ HandleTune(c)
    BY <1>2, DequeueTypes DEF Handle, Dequeue
  <2>2. CASE pipe = "none" /\ c.op = "open" /\ c.url # BadUrl
             /\ StartOpen(Blank(snapshot.generation), c.url)
    <3>1. c.url \in Urls /\ watcher = "none"
      BY <2>2, QueuedFields DEF TypeInv, ControlInv
    <3> QED BY <2>2, <3>1 DEF StartOpen, OpenWithPipeline,
            OpenWithoutPipeline
  <2>3. CASE \E next : BeginStop(next)
    BY <2>1, <2>3 DEF BeginStop, pipeVars, TypeInv, ControlInv, TypeOK,
       WatchType
  <2>4. CASE pc' \notin {"awaitShutdown", "shutdownFailed"}
             /\ UNCHANGED <<watchVars, pipeVars>>
    BY <2>1, <2>4 DEF watchVars, pipeVars
  <2> QED BY <2>1, <2>2, <2>3, <2>4
          DEF HandleOpen, HandleStop, HandleShutdown, HandlePlayPause,
              HandleSeek, HandleTune, Return, FinishRun
<1>3. CASE OpenSucceeds \/ TransportSucceeds \/ TransportFails \/ SeekFails
  BY <1>3 DEF OpenSucceeds, TransportSucceeds, TransportFails, SeekFails,
     watchVars, pipeVars
<1>4. CASE OpenFails
  BY <1>4 DEF OpenFails, pipeVars, TypeInv, ControlInv
<1>5. CASE SeekAccepted
  BY <1>5 DEF SeekAccepted, watchVars
<1>6. CASE WatcherJoined
  BY <1>6 DEF WatcherJoined, watchVars, pipeVars, TypeInv, ControlInv
<1>7. CASE PipelineStopped
  <2>1. /\ pipe # "none" /\ watcher = "none" /\ pc = "awaitShutdown"
        /\ after = "open" => current.url \in Urls
    BY <1>7 DEF PipelineStopped, TypeInv, ControlInv
  <2>2. PICK s : StopEnds(s)
    BY <1>7 DEF PipelineStopped
  <2>3. CASE after = "open" /\ StartOpen(s, current.url)
    BY <2>1, <2>3 DEF StartOpen, OpenWithPipeline, OpenWithoutPipeline
  <2>4. CASE after \in {"stop", "exit"}
    BY <2>1, <2>2, <2>4 DEF StopEnds, FinishRun, watchVars
  <2> QED BY <2>2, <2>3, <2>4 DEF StopEnds
<1>8. CASE FailedOpenCleaned
  BY <1>8 DEF FailedOpenCleaned, watchVars, TypeInv, ControlInv
<1>9. CASE WatcherReads \/ WatcherApplies
  BY <1>9 DEF WatcherReads, WatcherApplies, runVars, pipeVars
<1>10. CASE WatcherStops
  BY <1>10 DEF WatcherStops, runVars, pipeVars, TypeInv, ControlInv
<1>11. CASE PipelineSettles
  BY <1>11 DEF PipelineSettles, runVars, watchVars
<1>12. CASE PipelineTicks \/ PipelineEndsSeek \/ PipelineFaults
  BY <1>12 DEF PipelineTicks, PipelineEndsSeek, PipelineFaults, Emit,
     runVars, watchVars
<1> QED BY <1>1, <1>2, <1>3, <1>4, <1>5, <1>6, <1>7, <1>8, <1>9, <1>10,
           <1>11, <1>12
        DEF Next, Internal, Run, Resume, Watcher, Pipeline

\* The session owns its pipelines as PipelineOwnership demands: one at a
\* time, its reader ended before it is shut down, shut down before it is
\* released or replaced.
THEOREM SessionOwnsOnePipeline == Spec => OwnsOnePipeline
<1>1. Init => Pipelines!Init
  BY DEF Init, Pipelines!Init
<1> QED BY InitTypes, NextTypes, OwnershipStep, <1>1, PTL
        DEF Spec, OwnsOnePipeline, Pipelines!Spec

-----------------------------------------------------------------------------
\* The snapshot s may follow the current one: it is of a later generation, or
\* of the same one and without another medium.
Follows(s) ==
    /\ s.generation >= snapshot.generation
    /\ s.source \notin {snapshot.source, NoUrl}
       => s.generation > snapshot.generation

\* open() starts a new generation.
LEMMA StartOpenFollows ==
    ASSUME TypeInv, NEW s \in Snapshot, NEW url, StartOpen(s, url),
           s.generation >= snapshot.generation
    PROVE  Follows(snapshot')
<1>1. snapshot.generation \in Nat /\ s.generation \in Nat
  BY DEF TypeInv, TypeOK, ViewType, Snapshot
<1>2. snapshot'.generation = s.generation + 1
  BY DEF StartOpen, OpenWithoutPipeline, OpenWithPipeline, Failed, Snapshot
<1> QED BY <1>1, <1>2 DEF Follows

\* Every step leads to a snapshot that may follow the current one.
LEMMA NextFollows == TypeInv /\ [Next]_vars => Follows(snapshot')
<1> SUFFICES ASSUME TypeInv, [Next]_vars PROVE Follows(snapshot')
  OBVIOUS
<1>1. snapshot \in Snapshot /\ snapshot.generation \in Nat
  BY DEF TypeInv, TypeOK, ViewType, Snapshot
<1>2. ASSUME snapshot'.generation = snapshot.generation,
             snapshot'.source \in {snapshot.source, NoUrl}
      PROVE  Follows(snapshot')
  BY <1>1, <1>2 DEF Follows
<1>3. ASSUME NEW code, snapshot' = Failed(snapshot, code)
      PROVE  Follows(snapshot')
  BY <1>1, <1>2, <1>3 DEF Failed, Snapshot
<1>4. CASE UNCHANGED snapshot
  BY <1>2, <1>4
<1>5. CASE Handle
  <2>1. PICK c \in Queued :
           \/ HandleOpen(c) \/ HandleStop(c) \/ HandleShutdown(c)
           \/ HandlePlayPause(c) \/ HandleSeek(c) \/ HandleTune(c)
    BY <1>5, DequeueTypes DEF Handle
  <2>2. ASSUME NEW next, BeginStop(next) PROVE Follows(snapshot')
    BY <1>1, <2>2 DEF BeginStop, Follows, Snapshot
  <2>3. CASE HandleOpen(c)
    <3>1. ASSUME StartOpen(Blank(snapshot.generation), c.url)
          PROVE  Follows(snapshot')
      <4>1. Blank(snapshot.generation).generation >= snapshot.generation
        BY <1>1 DEF Blank
      <4> QED BY <1>1, <3>1, <4>1, BlankType, StartOpenFollows
    <3> QED BY <1>3, <2>2, <2>3, <3>1 DEF HandleOpen, Return
  <2>4. CASE HandleStop(c)
    BY <1>1, <2>2, <2>4 DEF HandleStop, Return, Blank, Follows
  <2>5. CASE HandleShutdown(c)
    BY <1>1, <1>2, <2>2, <2>5 DEF HandleShutdown, Blank
  <2>6. CASE HandlePlayPause(c)
    BY <1>3, <1>4, <2>6 DEF HandlePlayPause, Return, viewVars
  <2>7. CASE HandleSeek(c)
    BY <1>1, <1>2, <1>3, <2>7 DEF HandleSeek, Return, Snapshot
  <2>8. CASE HandleTune(c)
    BY <1>1, <1>2, <2>8 DEF HandleTune, Return, Snapshot
  <2> QED BY <2>1, <2>3, <2>4, <2>5, <2>6, <2>7, <2>8
<1>6. CASE OpenSucceeds \/ TransportSucceeds
  BY <1>1, <1>2, <1>6 DEF OpenSucceeds, TransportSucceeds, Snapshot
<1>7. CASE TransportFails \/ SeekFails \/ FailedOpenCleaned
  BY <1>3, <1>7 DEF TransportFails, SeekFails, FailedOpenCleaned
<1>8. CASE PipelineStopped
  <2>1. PICK s \in {Blank(snapshot.generation),
                    Failed(snapshot, "PipelineFailure")} : StopEnds(s)
    BY <1>8 DEF PipelineStopped
  <2>2. s \in Snapshot
    BY <2>1, StopOutcome
  <2>3. /\ s.generation = snapshot.generation
        /\ s.source \in {snapshot.source, NoUrl}
    BY <2>1, StopOutcome
  <2>4. CASE StartOpen(s, current.url)
    BY <1>1, <2>2, <2>3, <2>4, StartOpenFollows
  <2>5. CASE snapshot' = s
    BY <1>2, <2>3, <2>5
  <2> QED BY <2>1, <2>4, <2>5 DEF StopEnds
<1>9. CASE WatcherApplies
  <2>1. CASE UNCHANGED snapshot
    BY <1>2, <2>1
  <2>2. CASE snapshot' = Applied(snapshot, Head(held))
    BY <1>1, <1>2, <2>2 DEF Applied, Failed, Snapshot
  <2> QED BY <1>9, <2>1, <2>2 DEF WatcherApplies, ApplyMessage, viewVars
<1>10. CASE \/ \E c \in Commands : Send(c)
            \/ Close \/ Admit \/ RunStart \/ UNCHANGED vars
  BY <1>4, <1>10 DEF Send, Close, Admit, RunStart, vars, viewVars
<1>11. CASE OpenFails \/ SeekAccepted \/ WatcherJoined
  BY <1>4, <1>11 DEF OpenFails, SeekAccepted, WatcherJoined, viewVars
<1>12. CASE WatcherReads \/ WatcherStops \/ Pipeline
  BY <1>4, <1>12 DEF WatcherReads, WatcherStops, Pipeline, PipelineSettles,
     PipelineTicks, PipelineEndsSeek, PipelineFaults, Emit, viewVars
<1> QED BY <1>5, <1>6, <1>7, <1>8, <1>9, <1>10, <1>11, <1>12
        DEF Next, Internal, Run, Resume, Watcher

\* Generations never go back, and two media never share one.
THEOREM GenerationIdentifiesMedium == Spec => GenerationNamesMedium
<1>1. TypeInv /\ [Next]_vars =>
         [/\ snapshot'.generation >= snapshot.generation
          /\ snapshot'.source \notin {snapshot.source, NoUrl}
             => snapshot'.generation > snapshot.generation]_vars
  BY NextFollows DEF Follows
<1> QED BY InitTypes, NextTypes, <1>1, PTL DEF Spec, GenerationNamesMedium

-----------------------------------------------------------------------------
\* PlayingMeansRunning is inductive relative to TypeInv.
LEMMA NextPlaying ==
    TypeInv /\ PlayingMeansRunning /\ [Next]_vars => PlayingMeansRunning'
<1> SUFFICES ASSUME TypeInv, PlayingMeansRunning, [Next]_vars
             PROVE  PlayingMeansRunning'
  OBVIOUS
<1>1. snapshot \in Snapshot
  BY DEF TypeInv, TypeOK, ViewType
<1>2. CASE /\ UNCHANGED <<snapshot, stateBeforeSeek, pipe>>
           /\ pc' \in {"awaitPlay", "awaitPause"}
              \/ pc \notin {"awaitPlay", "awaitPause"}
  BY <1>2 DEF PlayingMeansRunning
<1>3. CASE snapshot'.state \notin {"Playing", "Seeking"}
  BY <1>3 DEF PlayingMeansRunning
<1>4. CASE Handle
  <2>1. PICK c \in Queued :
           /\ pc = "recv"
           /\ \/ HandleOpen(c) \/ HandleStop(c) \/ HandleShutdown(c)
              \/ HandlePlayPause(c) \/ HandleSeek(c) \/ HandleTune(c)
    BY <1>4, DequeueTypes DEF Handle, Dequeue
  <2>2. ASSUME NEW next, BeginStop(next) PROVE PlayingMeansRunning'
    BY <1>1, <1>3, <2>2 DEF BeginStop, Snapshot
  <2>3. ASSUME NEW code, Return(Failed(snapshot, code))
        PROVE  PlayingMeansRunning'
    BY <1>1, <1>3, <2>3 DEF Return, Failed, Snapshot
  <2>4. ASSUME NEW gen, snapshot' = Blank(gen) PROVE PlayingMeansRunning'
    BY <1>3, <2>4 DEF Blank
  <2>5. CASE HandleOpen(c)
    <3>1. ASSUME StartOpen(Blank(snapshot.generation), c.url)
          PROVE  PlayingMeansRunning'
      BY <1>3, <3>1 DEF StartOpen, OpenWithPipeline, OpenWithoutPipeline,
         Failed, Blank
    <3> QED BY <2>2, <2>3, <2>5, <3>1 DEF HandleOpen
  <2>6. CASE HandleStop(c) \/ HandleShutdown(c)
    BY <2>2, <2>4, <2>6 DEF HandleStop, HandleShutdown, Return
  <2>7. CASE HandlePlayPause(c)
    BY <1>2, <2>3, <2>7 DEF HandlePlayPause, viewVars, pipeVars
  <2>8. CASE HandleSeek(c)
    BY <1>1, <2>1, <2>3, <2>8 DEF HandleSeek, StateToRestore, Snapshot,
       PlayingMeansRunning, pipeVars
  <2>9. CASE HandleTune(c)
    BY <1>1, <2>1, <2>9 DEF HandleTune, Return, Snapshot,
       PlayingMeansRunning, pipeVars
  <2> QED BY <2>1, <2>5, <2>6, <2>7, <2>8, <2>9
<1>5. CASE OpenSucceeds
  BY <1>1, <1>5 DEF OpenSucceeds, PlayingMeansRunning, pipeVars, Snapshot
<1>6. CASE TransportSucceeds
  BY <1>1, <1>6 DEF TransportSucceeds, PlayingMeansRunning, pipeVars,
     Snapshot
<1>7. CASE TransportFails \/ SeekFails \/ FailedOpenCleaned
  BY <1>1, <1>3, <1>7 DEF TransportFails, SeekFails, FailedOpenCleaned,
     Failed, Snapshot
<1>8. CASE PipelineStopped
  <2>1. PICK s \in {Blank(snapshot.generation),
                    Failed(snapshot, "PipelineFailure")} : StopEnds(s)
    BY <1>8 DEF PipelineStopped
  <2>2. s \in Snapshot /\ s.state \in {"Idle", "Error"}
    BY <2>1, StopOutcome
  <2>3. snapshot'.state \in {"Idle", "Error", "Opening"}
    BY <2>1, <2>2 DEF StopEnds, StartOpen, OpenWithPipeline,
       OpenWithoutPipeline, Failed, Snapshot
  <2> QED BY <1>3, <2>3
<1>9. CASE WatcherApplies
  <2> DEFINE m == Head(held)
  <2>1. UNCHANGED <<pc, pipe>>
    BY <1>9 DEF WatcherApplies, runVars, pipeVars
  <2>2. CASE UNCHANGED viewVars
    BY <1>2, <2>1, <2>2 DEF viewVars, PlayingMeansRunning
  <2>3. CASE /\ snapshot' = Applied(snapshot, m)
             /\ stateBeforeSeek' =
                   IF m.kind = "seekBegin" /\ snapshot.state # "Seeking"
                   THEN StateToRestore(snapshot.state) ELSE stateBeforeSeek
    <3> HIDE DEF m
    <3>1. CASE m.kind = "seekBegin"
      BY <1>1, <2>1, <2>3, <3>1 DEF Applied, StateToRestore, Snapshot,
         PlayingMeansRunning
    <3>2. CASE m.kind = "seekEnd"
      BY <1>1, <2>1, <2>3, <3>2 DEF Applied, AfterSeek, Snapshot, PlayingMeansRunning
    <3>3. CASE m.kind = "loaded"
      BY <1>1, <2>1, <2>3, <3>3 DEF Applied, Snapshot, PlayingMeansRunning
    <3>4. CASE m.kind = "clock"
      BY <1>1, <2>1, <2>3, <3>4 DEF Applied, Snapshot, PlayingMeansRunning
    <3>5. CASE m.kind \notin {"clock", "loaded", "seekBegin", "seekEnd"}
      BY <1>1, <1>3, <2>3, <3>5 DEF Applied, Failed, Snapshot
    <3> QED BY <3>1, <3>2, <3>3, <3>4, <3>5
  <2> QED BY <1>9, <2>2, <2>3 DEF WatcherApplies, ApplyMessage
<1>10. CASE \/ \E c \in Commands : Send(c)
            \/ Close \/ Admit \/ RunStart \/ UNCHANGED vars
  <2>1. UNCHANGED <<snapshot, stateBeforeSeek, pipe>>
    BY <1>10 DEF Send, Close, Admit, RunStart, vars, viewVars, pipeVars
  <2>2. pc' = pc \/ pc = "unstarted"
    BY <1>10 DEF Send, Close, Admit, RunStart, vars, runVars, TypeInv,
       ControlInv
  <2> QED BY <2>1, <2>2 DEF PlayingMeansRunning
<1>11. CASE OpenFails \/ SeekAccepted \/ WatcherJoined
  BY <1>2, <1>11 DEF OpenFails, SeekAccepted, WatcherJoined, viewVars,
     pipeVars
<1>12. CASE \/ WatcherReads \/ WatcherStops
            \/ PipelineTicks \/ PipelineEndsSeek \/ PipelineFaults
  BY <1>12 DEF WatcherReads, WatcherStops, PipelineTicks, PipelineEndsSeek,
     PipelineFaults, Emit, runVars, viewVars, pipeVars, PlayingMeansRunning
<1>13. CASE PipelineSettles
  BY <1>13 DEF PipelineSettles, runVars, viewVars, PlayingMeansRunning
<1> QED BY <1>4, <1>5, <1>6, <1>7, <1>8, <1>9, <1>10, <1>11, <1>12, <1>13
        DEF Next, Internal, Run, Resume, Watcher, Pipeline

\* What is shown, or will be restored, as playing is running.
THEOREM PlayingIsRunning == Spec => []PlayingMeansRunning
<1>1. Init => PlayingMeansRunning
  BY DEF Init, Blank, PlayingMeansRunning
<1> QED BY InitTypes, NextTypes, NextPlaying, <1>1, PTL DEF Spec

-----------------------------------------------------------------------------
\* A pipeline announces its medium's start and length, and no time outside of it;
\* the snapshot has that length or none, and then a position of the slider or
\* of its medium.
Timely(url) ==
    {m \in SessionMessage :
        /\ m.kind \in {"clock", "loaded"} => m.time \in StartTime[url] .. EndTime(url)
        /\ m.kind = "loaded" => m.length = MediaLength}

Within(s) ==
    /\ s.duration \in {0, MediaLength}
    /\ s.duration > 0
       => \/ s.position \in 0 .. s.duration
          \/ s.position \in StartTime[s.source] .. EndTime(s.source)

TimesInv ==
    /\ pipePos \in StartTime[pipeUrl] .. EndTime(pipeUrl)
    /\ pipeMessages \in Seq(Timely(pipeUrl)) /\ held \in Seq(Timely(pipeUrl))
    /\ Within(snapshot)

LEMMA MessageTimely ==
    ASSUME NEW url \in Urls \cup {NoUrl}
    PROVE  /\ \A t \in StartTime[url] .. EndTime(url) : Message("clock", t) \in Timely(url)
           /\ \A kind \in {"seekBegin", "seekEnd", "ended", "error"} :
                  Message(kind, 0) \in Timely(url)
           /\ Loaded(url) \in Timely(url)
<1>1. /\ StartTime[url] \in Int /\ EndTime(url) \in Int
      /\ StartTime[url] <= EndTime(url) /\ Loaded(url) \in SessionMessage
  BY TimesType
<1>2. ASSUME NEW t \in StartTime[url] .. EndTime(url) PROVE Message("clock", t) \in Timely(url)
  BY <1>1, <1>2 DEF Message, Timely, SessionMessage
<1>3. ASSUME NEW kind \in {"seekBegin", "seekEnd", "ended", "error"}
      PROVE  Message(kind, 0) \in Timely(url)
  BY <1>3 DEF Message, Timely, SessionMessage
<1>4. Loaded(url) \in Timely(url)
  BY <1>1 DEF Loaded, Timely
<1> QED BY <1>2, <1>3, <1>4

\* A snapshot that is blank or starts anew has no duration, and one that fails
\* keeps its own.
LEMMA WithinKept ==
    ASSUME NEW s \in Snapshot, Within(s), NEW gen, NEW code
    PROVE  Within(Blank(gen)) /\ Within(Failed(s, code))
<1>1. Within(Blank(gen))
  BY SessionAssumption DEF Within, Blank
<1>2. Within(Failed(s, code))
  BY DEF Within, Failed, Snapshot
<1> QED BY <1>1, <1>2

\* Before any medium there are no messages, and the clock is at zero.
LEMMA NothingTimely ==
    ASSUME pipeUrl = NoUrl, pipePos = 0, pipeMessages = <<>>, held = <<>>,
           snapshot = Blank(0)
    PROVE  TimesInv
<1>1. 0 \in StartTime[NoUrl] .. EndTime(NoUrl)
  BY SessionAssumption DEF EndTime
<1>2. Within(Blank(0))
  BY SessionAssumption DEF Within, Blank
<1> QED BY <1>1, <1>2 DEF TimesInv

LEMMA StartOpenWithin ==
    ASSUME TypeInv, TimesInv, NEW s \in Snapshot, NEW url \in Urls, StartOpen(s, url)
    PROVE  TimesInv'
<1>1. snapshot'.duration = 0
  BY DEF StartOpen, OpenWithoutPipeline, OpenWithPipeline, Failed, Snapshot
<1>2. Within(snapshot')
  BY <1>1 DEF Within
<1>3. pipeMessages' = <<>> /\ held' = <<>>
  BY DEF StartOpen
<1>4. pipePos' \in StartTime[pipeUrl'] .. EndTime(pipeUrl')
  <2>1. CASE OpenWithoutPipeline(s, url)
    BY <2>1 DEF OpenWithoutPipeline, TimesInv
  <2>2. CASE OpenWithPipeline(s, url)
    BY <2>2, TimesType DEF OpenWithPipeline
  <2> QED BY <2>1, <2>2 DEF StartOpen
<1> QED BY <1>2, <1>3, <1>4 DEF TimesInv

\* A clock shows a time of the medium, "loaded" its length and its beginning,
\* "ended" its end.
LEMMA AppliedWithin ==
    ASSUME NEW s \in Snapshot, Within(s), s.source \in Urls, NEW m \in Timely(s.source)
    PROVE  Within(Applied(s, m))
<1> DEFINE from == StartTime[s.source]
           to   == EndTime(s.source)
<1>1. from \in Int /\ to \in Int /\ MediaLength \in Nat \ {0}
  BY SessionAssumption, TimesType
<1>2. ASSUME m.kind \in {"clock", "loaded"}
      PROVE  \A length \in Nat :
                AtLeast0(m.time) \in 0 .. length \/ AtLeast0(m.time) \in from .. to
  <2>1. m.time \in from .. to
    BY <1>2 DEF Timely
  <2> HIDE DEF from, to
  <2> QED BY <1>1, <2>1 DEF AtLeast0
<1>3. CASE m.kind = "clock"
  <2>1. /\ Applied(s, m).position = AtLeast0(m.time)
        /\ Applied(s, m).duration = s.duration /\ Applied(s, m).source = s.source
        /\ s.duration \in Nat
    BY <1>3 DEF Applied, Snapshot
  <2> QED BY <1>2, <1>3, <2>1 DEF Within
<1>4. CASE m.kind = "loaded"
  <2>1. m.length = MediaLength /\ AtLeast0(m.length) = MediaLength
    BY <1>1, <1>4 DEF Timely, AtLeast0
  <2>2. /\ Applied(s, m).position = AtLeast0(m.time)
        /\ Applied(s, m).duration = MediaLength /\ Applied(s, m).source = s.source
    BY <1>4, <2>1 DEF Applied, Snapshot
  <2> QED BY <1>1, <1>2, <1>4, <2>2 DEF Within
<1>5. CASE m.kind \in {"seekBegin", "seekEnd"}
  BY <1>5 DEF Applied, Within, Snapshot
<1>6. CASE m.kind = "ended"
  <2>1. /\ Applied(s, m).position = s.duration
        /\ Applied(s, m).duration = s.duration /\ s.duration \in Nat
    BY <1>6 DEF Applied, Snapshot
  <2>2. Applied(s, m).position \in 0 .. Applied(s, m).duration
    BY <2>1
  <2> QED BY <2>1, <2>2 DEF Within
<1>7. CASE m.kind = "error"
  BY <1>7, WithinKept DEF Applied
<1> QED BY <1>3, <1>4, <1>5, <1>6, <1>7 DEF Timely, SessionMessage

\* A seek past the end is shown at the end, if the end is known.
LEMMA HandleWithin == ASSUME TypeInv, TimesInv, Handle PROVE TimesInv'
<1>1. PICK c \in Queued :
         \/ HandleOpen(c) \/ HandleStop(c) \/ HandleShutdown(c)
         \/ HandlePlayPause(c) \/ HandleSeek(c) \/ HandleTune(c)
  BY DequeueTypes DEF Handle, Dequeue
<1>2. snapshot \in Snapshot /\ Within(snapshot) /\ snapshot.generation \in Nat
  BY DEF TypeInv, TypeOK, ViewType, Snapshot, TimesInv
<1>3. ASSUME UNCHANGED pipeVars, UNCHANGED held, Within(snapshot') PROVE TimesInv'
  BY <1>3 DEF TimesInv, pipeVars
<1>4. ASSUME NEW s, Return(s), Within(s) PROVE TimesInv'
  BY <1>3, <1>4 DEF Return, watchVars
<1>5. ASSUME NEW next, BeginStop(next) PROVE TimesInv'
  BY <1>2, <1>3, <1>5 DEF BeginStop, Within, Snapshot
<1>6. CASE HandleOpen(c)
  <2>1. c.url # BadUrl => c.url \in Urls
    BY <1>6, QueuedFields DEF HandleOpen
  <2> QED BY <1>2, <1>4, <1>5, <1>6, <2>1, BlankType, WithinKept, StartOpenWithin
          DEF HandleOpen
<1>7. CASE HandleStop(c)
  BY <1>2, <1>4, <1>5, <1>7, WithinKept DEF HandleStop
<1>8. CASE HandleShutdown(c)
  BY <1>2, <1>3, <1>5, <1>8, WithinKept DEF HandleShutdown, watchVars
<1>9. CASE HandlePlayPause(c)
  BY <1>2, <1>3, <1>4, <1>9, WithinKept DEF HandlePlayPause, viewVars, watchVars
<1>10. CASE HandleSeek(c)
  <2>1. CASE Return(Failed(snapshot, "InvalidState"))
    BY <1>2, <1>4, <2>1, WithinKept
  <2>2. CASE ~Return(Failed(snapshot, "InvalidState"))
    <3> DEFINE target == ShownTarget(c.position, snapshot.duration)
    <3>1. /\ c.position >= 0 /\ UNCHANGED <<watchVars, pipeVars>>
          /\ snapshot' = [snapshot EXCEPT !.state = "Seeking", !.position = target,
                                          !.error = "none"]
      BY <1>10, <2>2 DEF HandleSeek
    <3>2. snapshot.duration > 0 => target \in 0..snapshot.duration
      BY <1>2, <3>1, QueuedFields, SessionAssumption DEF ShownTarget, AtMost, Snapshot
    <3> HIDE DEF target
    <3>3. Within(snapshot')
      BY <1>2, <3>1, <3>2 DEF Within, Snapshot
    <3> QED BY <1>3, <3>1, <3>3 DEF watchVars
  <2> QED BY <2>1, <2>2
<1>11. CASE HandleTune(c)
  <2>1. Within([snapshot EXCEPT !.tuning = "custom"])
    BY <1>2 DEF Within, Snapshot
  <2> QED BY <1>4, <1>11, <2>1 DEF HandleTune
<1> QED BY <1>1, <1>6, <1>7, <1>8, <1>9, <1>10, <1>11

LEMMA NextTimes == TypeInv /\ ViewInv /\ TimesInv /\ [Next]_vars => TimesInv'
<1> SUFFICES ASSUME TypeInv, ViewInv, TimesInv, [Next]_vars PROVE TimesInv'
  OBVIOUS
<1>0. /\ snapshot \in Snapshot /\ Within(snapshot)
      /\ pipeUrl \in Urls \cup {NoUrl}
      /\ pipePos \in StartTime[pipeUrl] .. EndTime(pipeUrl)
      /\ StartTime[pipeUrl] \in Int /\ EndTime(pipeUrl) \in Int
      /\ pipeMessages \in Seq(Timely(pipeUrl)) /\ held \in Seq(Timely(pipeUrl))
  BY TimesType DEF TypeInv, TypeOK, ViewType, PipeType, TimesInv
<1>a. ASSUME UNCHANGED <<pipeUrl, pipePos, pipeMessages, held>>, Within(snapshot') PROVE TimesInv'
  BY <1>a DEF TimesInv
<1>1. CASE \/ \E c \in Commands : Send(c)
           \/ Close \/ Admit \/ RunStart \/ OpenFails \/ WatcherJoined \/ UNCHANGED vars
  BY <1>0, <1>1, <1>a DEF Send, Close, Admit, RunStart, OpenFails, WatcherJoined, vars,
     viewVars, watchVars, pipeVars
<1>2. CASE Handle
  BY <1>2, HandleWithin
<1>3. CASE OpenSucceeds \/ TransportSucceeds
  <2>1. Within(snapshot')
    BY <1>0, <1>3 DEF OpenSucceeds, TransportSucceeds, Within, Snapshot
  <2> QED BY <1>3, <1>a, <2>1 DEF OpenSucceeds, TransportSucceeds, watchVars, pipeVars
<1>4. CASE TransportFails \/ SeekFails \/ FailedOpenCleaned
  BY <1>0, <1>4, <1>a, WithinKept
     DEF TransportFails, SeekFails, FailedOpenCleaned, watchVars, pipeVars
<1>b. ASSUME NEW m \in Timely(pipeUrl), pipeMessages' = Append(pipeMessages, m),
             UNCHANGED <<pipeUrl, held, snapshot>>,
             pipePos' \in StartTime[pipeUrl] .. EndTime(pipeUrl)
      PROVE  TimesInv'
  <2>1. pipeMessages' \in Seq(Timely(pipeUrl))
    BY <1>0, <1>b
  <2> QED BY <1>0, <1>b, <2>1 DEF TimesInv
<1>5. CASE SeekAccepted
  <2>1. current.position \in Int
    BY <1>5, QueuedFields DEF SeekAccepted, TypeInv, TypeOK, RunType, ControlInv, Plain
  <2> DEFINE m == Message("seekBegin", 0)
  <2>2. /\ pipePos' \in StartTime[pipeUrl] .. EndTime(pipeUrl)
        /\ m \in Timely(pipeUrl) /\ pipeMessages' = Append(pipeMessages, m)
        /\ UNCHANGED <<pipeUrl, held, snapshot>>
    BY <1>0, <1>5, <2>1, TimesType, MessageTimely DEF SeekAccepted, viewVars, watchVars
  <2> HIDE DEF m
  <2> QED BY <1>b, <2>2
<1>6. CASE PipelineStopped
  <2>1. PICK s \in {Blank(snapshot.generation), Failed(snapshot, "PipelineFailure")} :
           StopEnds(s)
    BY <1>6 DEF PipelineStopped
  <2>2. s \in Snapshot /\ Within(s)
    BY <1>0, <2>1, StopOutcome, WithinKept
  <2>3. after = "open" => current.url \in Urls
    BY <1>6 DEF PipelineStopped, TypeInv, ControlInv
  <2> QED BY <1>a, <2>1, <2>2, <2>3, StartOpenWithin DEF StopEnds, watchVars
<1>7. CASE WatcherReads
  BY <1>0, <1>7 DEF WatcherReads, TimesInv, viewVars
<1>8. CASE WatcherStops
  BY <1>0, <1>8 DEF WatcherStops, TimesInv, viewVars, pipeVars
<1>9. CASE WatcherApplies
  <2>1. Head(held) \in Timely(pipeUrl)
    BY <1>0, <1>9 DEF WatcherApplies
  <2>2. CASE watcherGen = snapshot.generation
    <3>1. pipe # "none" /\ watcherGen \in Nat
      BY <1>9 DEF WatcherApplies, TypeInv, TypeOK, WatchType, ControlInv
    <3>2. snapshot.source = pipeUrl /\ pipeUrl \in Urls
      BY <2>2, <3>1 DEF ViewInv, TypeInv, ControlInv
    <3>3. Within(Applied(snapshot, Head(held)))
      BY <1>0, <2>1, <3>2, AppliedWithin
    <3> QED BY <1>9, <2>2, <3>3 DEF WatcherApplies, ApplyMessage, TimesInv, pipeVars
  <2>3. CASE watcherGen # snapshot.generation
    BY <1>0, <1>9, <2>3 DEF WatcherApplies, ApplyMessage, TimesInv, viewVars, pipeVars
  <2> QED BY <2>2, <2>3
<1>10. CASE PipelineSettles
  <2>1. Loaded(pipeUrl) \in Timely(pipeUrl)
    BY <1>0, MessageTimely
  <2>2. UNCHANGED <<pipeUrl, pipePos, held, snapshot>>
    BY <1>10 DEF PipelineSettles, viewVars, watchVars
  <2>3. CASE UNCHANGED pipeMessages
    BY <1>0, <1>a, <2>2, <2>3
  <2>4. CASE Post(Loaded(pipeUrl))
    BY <1>0, <1>b, <2>1, <2>2, <2>4 DEF Post
  <2> QED BY <1>10, <2>3, <2>4 DEF PipelineSettles
<1>13. CASE PipelineFaults
  BY <1>0, <1>b, <1>13, MessageTimely DEF PipelineFaults, Post, Emit, viewVars, watchVars
<1>11. CASE PipelineTicks
  <2>1. UNCHANGED <<pipeUrl, held, snapshot>>
    BY <1>11 DEF PipelineTicks, Emit, viewVars, watchVars
  <2>2. CASE pipePos < EndTime(pipeUrl)
    <3>1. pipePos + 1 \in StartTime[pipeUrl] .. EndTime(pipeUrl)
      BY <1>0, <2>2
    <3>2. Message("clock", pipePos + 1) \in Timely(pipeUrl)
      BY <1>0, <3>1, MessageTimely
    <3> QED BY <1>b, <1>11, <2>1, <2>2, <3>1, <3>2 DEF PipelineTicks, Post
  <2>3. CASE ~(pipePos < EndTime(pipeUrl))
    <3>1. Message("ended", 0) \in Timely(pipeUrl)
      BY <1>0, MessageTimely
    <3> QED BY <1>0, <1>b, <1>11, <2>1, <2>3, <3>1 DEF PipelineTicks, Post
  <2> QED BY <2>2, <2>3
<1>12. CASE PipelineEndsSeek
  <2> DEFINE clock == Message("clock", pipePos)
             over  == Message("seekEnd", 0)
  <2>1. /\ clock \in Timely(pipeUrl) /\ over \in Timely(pipeUrl)
        /\ pipeMessages' = pipeMessages \o <<clock, over>>
        /\ UNCHANGED <<pipeUrl, pipePos, held, snapshot>>
    BY <1>0, <1>12, MessageTimely DEF PipelineEndsSeek, Emit, viewVars, watchVars
  <2> HIDE DEF clock, over
  <2>2. pipeMessages' \in Seq(Timely(pipeUrl))
    BY <1>0, <2>1
  <2> QED BY <1>0, <2>1, <2>2 DEF TimesInv
<1> QED BY <1>1, <1>2, <1>3, <1>4, <1>5, <1>6, <1>7, <1>8, <1>9, <1>10, <1>11, <1>12,
        <1>13 DEF Next, Internal, Run, Resume, Watcher, Pipeline

\* Whatever positions are sought, wherever media start, and however late
\* messages are applied: once its length is known, the position on show is one
\* of the slider's or a time of the medium on show
\* (playback_session.cpp:173-176, 307, 316-324, 348).
THEOREM PositionIsWithin == Spec => []PositionWithinMedium
<1>1. Init => TimesInv
  BY NothingTimely DEF Init
<1>2. TimesInv => PositionWithinMedium
  BY DEF TimesInv, Within, PositionWithinMedium
<1>3. Init => ViewInv
  BY DEF Init, ViewInv, Blank
<1> QED BY InitTypes, NextTypes, NextView, NextTimes, <1>1, <1>2, <1>3, PTL DEF Spec
-----------------------------------------------------------------------------
(* The controller: its buttons send commands of the session, which goes on *)
(* as by itself until shutdown withdraws what was not taken.               *)

\* What is on show was once a snapshot.
ShownInv == shown \in Snapshot /\ Within(shown)

ControllerInv ==
    TypeInv /\ TimesInv /\ ViewInv /\ PlayingMeansRunning /\ ShownInv

LEMMA PressIsNext ==
    ASSUME ShownInv, Button PROVE Next
<1>1. ASSUME NEW c \in Commands, NEW next, NEW what, NEW medium,
             Press(c, next, what, medium)
      PROVE  Next
  BY <1>1 DEF Press, Next
<1>2. Plain("play") \in Commands /\ Plain("pause") \in Commands /\ Plain("stop") \in Commands
  BY ControllerAssumption
<1>3. CASE \E url \in Urls : OpenUrl(url)
  <2> PICK url \in Urls : OpenUrl(url)
    BY <1>3
  <2>1. OpenMedia(url) \in Commands
    BY ControllerAssumption
  <2> QED BY <1>1, <2>1 DEF OpenUrl
<1>4. CASE PressPlay \/ PressPause \/ PressStop
  BY <1>1, <1>2, <1>4 DEF PressPlay, PressPause, PressStop
<1>5. CASE Toggle
  <2>1. SeekTo(0) \in Commands
    BY ControllerAssumption, SessionAssumption
  <2> QED BY <1>1, <1>2, <1>5, <2>1 DEF Toggle, PressPlay, PressPause
<1>6. CASE \E t \in Targets : PressSeek(t)
  <2> PICK t \in Targets : PressSeek(t)
    BY <1>6
  <2> DEFINE target == AtMost(AtLeast0(t), shown.duration)
  <2>1. target \in 0..MediaLength
    <3>1. t \in Int /\ MediaLength \in Nat
      BY ControllerAssumption, SessionAssumption
    <3>2. shown.duration \in {0, MediaLength}
      BY DEF ShownInv, Within
    <3> QED BY <3>1, <3>2 DEF AtMost, AtLeast0
  <2>2. SeekTo(target) \in Commands
    BY <2>1, ControllerAssumption
  <2> QED BY <1>1, <2>2 DEF PressSeek
<1> QED BY <1>3, <1>4, <1>5, <1>6 DEF Button

LEMMA ControllerSteps ==
    ASSUME ShownInv, [ControllerNext]_allVars PROVE [Next]_vars \/ TasksEnded
<1>1. CASE Button
  BY <1>1, PressIsNext
<1>2. CASE Taken \/ SessionGoesOn
  BY <1>2 DEF Taken, SessionGoesOn, Next, Internal
<1>3. CASE FollowUp
  <2>1. Plain("play") \in Commands
    BY ControllerAssumption
  <2> QED BY <1>3, <2>1 DEF FollowUp, Next
<1>4. CASE Refresh \/ BeginShutdown \/ ShutdownEnds \/ UNCHANGED allVars
  BY <1>4 DEF Refresh, BeginShutdown, ShutdownEnds, allVars, sessionVars
<1> QED BY <1>1, <1>2, <1>3, <1>4 DEF ControllerNext

LEMMA TasksEndedKeeps ==
    ASSUME ControllerInv, TasksEnded PROVE ControllerInv'
<1> USE DEF ControllerInv
<1>1. TypeOK'
  <2> DEFINE last == Shutdown
  <2>1. last \in Queued /\ waiters' = <<last>>
    BY ShutdownQueued DEF TasksEnded
  <2> HIDE DEF last
  <2>2. ChannelType'
    BY <2>1 DEF TasksEnded, TypeInv, TypeOK, ChannelType
  <2> QED BY <2>2, RunFrame, ViewFrame, WatchFrame, PipeFrame DEF TasksEnded, TypeInv, TypeOK
<1>2. ControlInv' /\ TimesInv' /\ ViewInv' /\ PlayingMeansRunning'
  BY DEF TasksEnded, TypeInv, ControlInv, TimesInv, ViewInv, PlayingMeansRunning,
         runVars, viewVars, watchVars, pipeVars
<1>3. ShownInv'
  BY DEF TasksEnded, ShownInv
<1> QED BY <1>1, <1>2, <1>3 DEF TypeInv

\* The timer copies the snapshot; nobody else changes what is on show.
LEMMA ShownStep ==
    ASSUME [ControllerNext]_allVars PROVE shown' \in {shown, snapshot}
BY DEF ControllerNext, Button, OpenUrl, PressPlay, PressPause, PressStop, Toggle,
       PressSeek, Press, Taken, FollowUp, Refresh, SessionGoesOn, BeginShutdown,
       TasksEnded, ShutdownEnds, controllerVars, allVars

LEMMA ControllerKeeps ==
    ControllerInv /\ [ControllerNext]_allVars => ControllerInv'
<1> SUFFICES ASSUME ControllerInv, [ControllerNext]_allVars PROVE ControllerInv'
  OBVIOUS
<1>1. CASE [Next]_vars
  <2>1. TypeInv' /\ TimesInv' /\ ViewInv' /\ PlayingMeansRunning'
    BY <1>1, NextTypes, NextTimes, NextView, NextPlaying DEF ControllerInv
  <2>2. ShownInv'
    BY ShownStep DEF ControllerInv, ShownInv, TypeInv, TypeOK, ViewType, TimesInv
  <2> QED BY <2>1, <2>2 DEF ControllerInv
<1> QED BY <1>1, ControllerSteps, TasksEndedKeeps DEF ControllerInv

LEMMA ControllerInitInv == ControllerInit => ControllerInv
<1> SUFFICES ASSUME ControllerInit PROVE ControllerInv
  OBVIOUS
<1>1. Blank(0) \in Snapshot /\ Within(Blank(0))
  BY BlankType, SessionAssumption DEF Within, Blank
<1>2. TypeInv
  BY InitTypes
<1>3. TimesInv /\ ViewInv /\ PlayingMeansRunning
  BY NothingTimely DEF ControllerInit, ViewInv, PlayingMeansRunning, Blank
<1>4. ShownInv
  BY <1>1 DEF ControllerInit, ShownInv
<1> QED BY <1>2, <1>3, <1>4 DEF ControllerInv

\* Whatever buttons are pressed, in whatever order and at whatever time, and
\* shutdown included: what is shown as playing is running, what is shown is
\* open, at a position of it or of the slider (playback_controller.cpp:110-203).
THEOREM ButtonsKeepSession ==
    ControllerSpec => [](PlayingMeansRunning /\ ShownMediumIsOpen /\ PositionWithinMedium)
<1>1. ControllerInv => PlayingMeansRunning /\ ShownMediumIsOpen /\ PositionWithinMedium
  BY DEF ControllerInv, ViewInv, ShownMediumIsOpen, TimesInv, Within, PositionWithinMedium
<1> QED BY ControllerInitInv, ControllerKeeps, <1>1, PTL DEF ControllerSpec

\* The same of the pipelines and the generations: buttons pressed while a medium
\* is opened, closed or replaced, and a shutdown at any time, never make a second
\* pipeline, nor two media of one generation (playback_controller.cpp:110-203).
THEOREM ButtonsKeepPipeline == ControllerSpec => OwnsOnePipeline /\ GenerationNamesMedium
<1>1. ControllerInit => Pipelines!Init
  BY DEF ControllerInit, Pipelines!Init
<1>2. ControllerInv /\ [ControllerNext]_allVars
      => /\ [Pipelines!Next]_Pipelines!vars
         /\ [/\ snapshot'.generation >= snapshot.generation
             /\ snapshot'.source \notin {snapshot.source, NoUrl}
                => snapshot'.generation > snapshot.generation]_vars
  <2> SUFFICES ASSUME ControllerInv, [ControllerNext]_allVars
               PROVE  /\ [Pipelines!Next]_Pipelines!vars
                      /\ Follows(snapshot')
    BY DEF Follows
  <2>1. CASE [Next]_vars
    BY <2>1, OwnershipStep, NextFollows DEF ControllerInv
  <2>2. CASE TasksEnded
    <3>1. UNCHANGED <<pipe, pc, pipeUrl, watcher, snapshot>>
      BY <2>2 DEF TasksEnded, runVars, viewVars, watchVars, pipeVars
    <3>2. UNCHANGED Pipelines!vars
      BY <3>1 DEF Pipelines!vars
    <3>3. Follows(snapshot')
      BY <3>1 DEF Follows, ControllerInv, TypeInv, TypeOK, ViewType, Snapshot
    <3> QED BY <3>2, <3>3
  <2> QED BY <2>1, <2>2, ControllerSteps DEF ControllerInv
<1> QED
  BY ControllerInitInv, ControllerKeeps, <1>1, <1>2, PTL
     DEF ControllerSpec, OwnsOnePipeline, Pipelines!Spec, GenerationNamesMedium

-----------------------------------------------------------------------------
(* The order of commands.                                                  *)

\* What a concatenation holds at each place.
LEMMA ConcatIs ==
    ASSUME NEW S, NEW a \in Seq(S), NEW b \in Seq(S)
    PROVE  /\ a \o b \in Seq(S) /\ Len(a \o b) = Len(a) + Len(b)
           /\ \A i \in 1..Len(a \o b) :
                (a \o b)[i] = IF i <= Len(a) THEN a[i] ELSE b[i - Len(a)]
BY ConcatProperties

\* Taking the k-th command takes away the first k.
LEMMA FirstTakenAt ==
    ASSUME NEW S, NEW list \in Seq(S), NEW rest \in Seq(S), NEW k \in 0..Len(list),
           NEW left \in Seq(S), Len(left) = Len(list) - k,
           \A i \in 1..Len(left) : left[i] = list[k + i]
    PROVE  /\ Len(left \o rest) = Len(list \o rest) - k
           /\ \A i \in 1..Len(left \o rest) : (left \o rest)[i] = (list \o rest)[k + i]
<1> DEFINE all == list \o rest
           some == left \o rest
<1>1. Len(list) \in Nat /\ Len(rest) \in Nat /\ k \in Nat /\ k <= Len(list)
  BY LenProperties
<1>2. Len(left) = Len(list) - k /\ \A i \in 1..Len(left) : left[i] = list[k + i]
  OBVIOUS
<1>3. /\ all \in Seq(S) /\ Len(all) = Len(list) + Len(rest)
      /\ \A i \in 1..Len(all) :
           all[i] = IF i <= Len(list) THEN list[i] ELSE rest[i - Len(list)]
  BY ConcatProperties
<1>4. /\ some \in Seq(S) /\ Len(some) = Len(left) + Len(rest)
      /\ \A i \in 1..Len(some) :
           some[i] = IF i <= Len(left) THEN left[i] ELSE rest[i - Len(left)]
  BY ConcatIs, Zenon
<1> HIDE DEF all, some
<1>5. Len(some) = Len(all) - k
  BY <1>1, <1>2, <1>3, <1>4
<1>6. \A i \in 1..Len(some) : some[i] = all[k + i]
  <2> SUFFICES ASSUME NEW i \in 1..Len(some) PROVE some[i] = all[k + i]
    OBVIOUS
  <2>1. k + i \in 1..Len(all)
    BY <1>1, <1>2, <1>3, <1>4, <1>5
  <2>2. /\ all[k + i] = IF k + i <= Len(list) THEN list[k + i] ELSE rest[(k + i) - Len(list)]
        /\ some[i] = IF i <= Len(left) THEN left[i] ELSE rest[i - Len(left)]
        /\ i \in 1..Len(left) => left[i] = list[k + i]
    BY <1>2, <1>3, <1>4, <2>1
  <2>3. /\ i \in Nat \ {0} /\ (k + i <= Len(list) <=> i <= Len(left))
        /\ (k + i) - Len(list) = i - Len(left)
    <3>1. i \in 1..Len(some) /\ Len(some) \in Nat
      BY <1>4, LenProperties
    <3>2. Len(left) = Len(list) - k /\ Len(left) \in Nat
      BY <1>1, <1>2
    <3>3. i \in Nat \ {0}
      BY <3>1
    <3>4. (k + i) - Len(list) = i - Len(left)
      BY <1>1, <3>2, <3>3
    <3>5. k + i <= Len(list) => i <= Len(left)
      BY <1>1, <3>2, <3>3
    <3>6. i <= Len(left) => k + i <= Len(list)
      BY <1>1, <3>2, <3>3
    <3> QED BY <3>3, <3>4, <3>5, <3>6
  <2> QED BY <1>1, <1>2, <2>2, <2>3
<1> QED BY <1>5, <1>6 DEF all, some

LEMMA FirstTaken ==
    ASSUME NEW S, NEW list \in Seq(S), NEW rest \in Seq(S), NEW k \in 0..Len(list),
           NEW left \in Seq(S), Len(left) = Len(list) - k,
           \A i \in 1..Len(left) : left[i] = list[k + i]
    PROVE  /\ Len(left \o rest) = Len(list \o rest) - k
           /\ \A i \in 1..k : (list \o rest)[i] = list[i]
           /\ SubSeq(left \o rest, 1, Len(list \o rest) - k)
              = SubSeq(list \o rest, k + 1, Len(list \o rest))
<1> DEFINE all == list \o rest
           some == left \o rest
<1>1. /\ Len(some) = Len(all) - k
      /\ \A i \in 1..Len(some) : some[i] = all[k + i]
  BY FirstTakenAt, Zenon
<1>2. all \in Seq(S) /\ some \in Seq(S)
  BY ConcatProperties
<1>3. \A i \in 1..k : all[i] = list[i]
  BY ConcatProperties, LenProperties
<1> HIDE DEF all, some
<1>4. Len(some) \in Nat /\ Len(all) \in Nat /\ k \in Nat
  BY <1>2, LenProperties
<1>5. SubSeq(some, 1, Len(all) - k) = SubSeq(all, k + 1, Len(all))
  <2> DEFINE one == SubSeq(some, 1, Len(some))
             other == SubSeq(all, k + 1, Len(all))
  <2>1. one = [i \in 1..Len(some) |-> some[i]]
    BY <1>2, <1>4
  <2>2. other = [i \in 1..Len(some) |-> all[k + i]]
    BY <1>1, <1>2, <1>4
  <2>3. one = other
    BY <1>1, <2>1, <2>2
  <2> QED BY <1>1, <2>3
<1> QED BY <1>1, <1>3, <1>5 DEF all, some

\* A sequence to which at most one element was added.
LEMMA NoneTaken ==
    ASSUME NEW S, NEW list \in Seq(S), NEW c \in S, NEW more \in {list, Append(list, c)}
    PROVE  /\ Len(more) >= Len(list) - 0
           /\ SubSeq(more, 1, Len(list) - 0) = SubSeq(list, 0 + 1, Len(list))
<1>1. Len(list) \in Nat /\ more \in Seq(S)
  OBVIOUS
<1>2. Len(more) >= Len(list) /\ \A i \in 1..Len(list) : more[i] = list[i]
  OBVIOUS
<1> DEFINE one == SubSeq(more, 1, Len(list))
           other == SubSeq(list, 1, Len(list))
<1>3. one = [i \in 1..Len(list) |-> more[i]]
  BY <1>1, <1>2
<1>4. other = [i \in 1..Len(list) |-> list[i]]
  BY <1>1
<1>5. one = other
  BY <1>2, <1>3, <1>4
<1> QED BY <1>1, <1>2, <1>5

LEMMA FunctionIsList ==
    ASSUME NEW S, NEW n \in Nat, NEW f \in [1..n -> S]
    PROVE  f \in Seq(S) /\ Len(f) = n
OBVIOUS

\* The rest of a sequence after its first j elements.
LEMMA RestIs ==
    ASSUME NEW S, NEW list \in Seq(S), NEW j \in 0..Len(list), NEW rest,
           rest = SubSeq(list, j + 1, Len(list))
    PROVE  /\ rest \in Seq(S) /\ Len(rest) = Len(list) - j
           /\ \A i \in 1..Len(rest) : rest[i] = list[j + i]
<1>1. Len(list) \in Nat /\ j \in Nat /\ j <= Len(list)
  BY LenProperties
<1>2. Len(list) - (j + 1) + 1 = Len(list) - j /\ Len(list) - j \in Nat
  BY <1>1
<1>3. rest = [i \in 1..(Len(list) - j) |-> list[j + i]]
  BY <1>1
<1>4. \A i \in 1..(Len(list) - j) : list[j + i] \in S
  BY <1>1
<1>5. rest \in Seq(S) /\ Len(rest) = Len(list) - j
  <2> DEFINE n == Len(list) - j
  <2>1. n \in Nat /\ rest \in [1..n -> S]
    BY <1>2, <1>3, <1>4
  <2> HIDE DEF n
  <2>2. rest \in Seq(S) /\ Len(rest) = n
    BY <2>1, FunctionIsList, Zenon
  <2> QED BY <2>2 DEF n
<1>6. ASSUME NEW i \in 1..Len(rest) PROVE rest[i] = list[j + i]
  <2>1. i \in 1..(Len(list) - j)
    BY <1>5
  <2> QED BY <1>3, <2>1
<1> QED BY <1>5, <1>6

\* What the loop keeps of its backlog, a command aside and the rest in the
\* channel, is what came after the one it takes.
LEMMA KeptBehind ==
    ASSUME NEW S, NEW list \in Seq(S), NEW k \in 1..Len(list), NEW left,
           \/ left = <<>> \o SubSeq(list, k + 1, Len(list))
           \/ k < Len(list) /\ left = <<list[k + 1]>> \o SubSeq(list, k + 2, Len(list))
    PROVE  /\ left \in Seq(S) /\ Len(left) = Len(list) - k
           /\ \A i \in 1..Len(left) : left[i] = list[k + i]
<1>1. Len(list) \in Nat /\ k \in Nat \ {0} /\ k <= Len(list)
  OBVIOUS
<1>2. CASE left = <<>> \o SubSeq(list, k + 1, Len(list))
  <2> DEFINE rest == SubSeq(list, k + 1, Len(list))
  <2>1. /\ rest \in Seq(S) /\ Len(rest) = Len(list) - k
        /\ \A i \in 1..Len(rest) : rest[i] = list[k + i]
    <3>1. k \in 0..Len(list)
      BY <1>1
    <3> QED BY <3>1, RestIs
  <2>2. left = rest
    BY <1>2, <2>1, ConcatEmptySeq
  <2> QED BY <2>1, <2>2
<1>3. CASE k < Len(list) /\ left = <<list[k + 1]>> \o SubSeq(list, k + 2, Len(list))
  <2> DEFINE one == <<list[k + 1]>>
             rest == SubSeq(list, k + 2, Len(list))
  <2>1. /\ rest \in Seq(S) /\ Len(rest) = Len(list) - k - 1
        /\ \A i \in 1..Len(rest) : rest[i] = list[k + i + 1]
    BY <1>1, <1>3, SubSeqProperties
  <2>2. one \in Seq(S) /\ Len(one) = 1 /\ one[1] = list[k + 1]
    BY <1>1, <1>3
  <2>3. left = one \o rest
    BY <1>3
  <2> HIDE DEF one, rest
  <2>4. /\ left \in Seq(S) /\ Len(left) = 1 + Len(rest)
        /\ \A i \in 1..Len(left) : left[i] = IF i <= 1 THEN one[i] ELSE rest[i - 1]
    BY <2>1, <2>2, <2>3, ConcatIs
  <2>5. Len(left) = Len(list) - k /\ Len(rest) \in Nat
    BY <1>1, <1>3, <2>1, <2>4
  <2>6. ASSUME NEW i \in 1..Len(left) PROVE left[i] = list[k + i]
    <3>1. CASE i = 1
      BY <1>1, <2>2, <2>4, <3>1
    <3>2. CASE i # 1
      <4>1. i - 1 \in 1..Len(rest) /\ ~(i <= 1)
        BY <2>4, <2>5, <3>2
      <4>2. left[i] = rest[i - 1] /\ rest[i - 1] = list[k + (i - 1) + 1]
        BY <2>1, <2>4, <4>1
      <4>3. k + (i - 1) + 1 = k + i
        BY <1>1, <4>1
      <4> QED BY <4>2, <4>3
    <3> QED BY <3>1, <3>2
  <2> QED BY <2>4, <2>5, <2>6
<1> QED BY <1>2, <1>3

\* A command is handed over behind the others, and moves from a waiting send
\* to the channel without being overtaken.
LEMMA OutstandingIs ==
    ASSUME TypeInv
    PROVE  /\ pending \in Seq(Queued) /\ queue \in Seq(Queued) /\ waiters \in Seq(Queued)
           /\ pending \o queue \in Seq(Queued)
           /\ Outstanding = (pending \o queue) \o waiters /\ Outstanding \in Seq(Queued)
<1>1. pending \in Seq(Queued) /\ queue \in Seq(Queued) /\ waiters \in Seq(Queued)
  BY DEF TypeInv, TypeOK, ChannelType, RunType
<1> QED BY <1>1 DEF Outstanding

LEMMA HandedOver ==
    ASSUME TypeInv, NEW c \in Queued, waiters' = Append(waiters, c),
           UNCHANGED <<pending, queue>>
    PROVE  Outstanding' = Append(Outstanding, c)
<1> DEFINE ahead == pending \o queue
<1>1. Outstanding' = ahead \o Append(waiters, c)
  BY DEF Outstanding
<1>2. ahead \in Seq(Queued) /\ waiters \in Seq(Queued) /\ Outstanding = ahead \o waiters
  BY OutstandingIs
<1> HIDE DEF ahead
<1>3. ahead \o Append(waiters, c) = Append(ahead \o waiters, c)
  BY <1>2, AppendProperties, ConcatProperties
<1> QED BY <1>1, <1>2, <1>3

LEMMA AdmitMoves == ASSUME TypeInv, Admit PROVE Outstanding' = Outstanding
<1> DEFINE first == Head(waiters)
           rest == Tail(waiters)
           ahead == pending \o queue
<1>1. /\ pending \in Seq(Queued) /\ queue \in Seq(Queued) /\ waiters \in Seq(Queued)
      /\ ahead \in Seq(Queued) /\ Outstanding = ahead \o waiters
  BY OutstandingIs
<1>2. /\ waiters # <<>> /\ first \in Queued /\ rest \in Seq(Queued)
      /\ waiters = <<first>> \o rest
  BY <1>1 DEF Admit
<1>3. Outstanding' = (pending \o Append(queue, first)) \o rest
  BY DEF Admit, Outstanding, runVars
<1> HIDE DEF first, rest
<1>4. (pending \o Append(queue, first)) \o rest = (pending \o queue) \o (<<first>> \o rest)
  <2> DEFINE left == (pending \o Append(queue, first)) \o rest
             right == (pending \o queue) \o (<<first>> \o rest)
  <2>1. Len(left) = Len(right) /\ left \in Seq(Queued) /\ right \in Seq(Queued)
    BY <1>1, <1>2
  <2>2. \A i \in 1..Len(left) : left[i] = right[i]
    BY <1>1, <1>2
  <2> HIDE DEF left, right
  <2>3. left = right
    BY <2>1, <2>2, SeqEqual
  <2> QED BY <2>3 DEF left, right
<1> QED BY <1>1, <1>2, <1>3, <1>4

LEMMA SentBehind ==
    ASSUME TypeInv, NEW c \in Queued, Outstanding' \in {Outstanding, Append(Outstanding, c)}
    PROVE  TakesInOrder
<1>1. Outstanding \in Seq(Queued)
  BY OutstandingIs
<1>2. /\ Len(Outstanding') >= Len(Outstanding) - 0
      /\ SubSeq(Outstanding', 1, Len(Outstanding) - 0)
         = SubSeq(Outstanding, 0 + 1, Len(Outstanding))
  <2> DEFINE more == Outstanding'
  <2> HIDE DEF more
  <2>1. more \in {Outstanding, Append(Outstanding, c)}
    BY DEF more
  <2>2. /\ Len(more) >= Len(Outstanding) - 0
        /\ SubSeq(more, 1, Len(Outstanding) - 0) = SubSeq(Outstanding, 0 + 1, Len(Outstanding))
    BY <1>1, <2>1, NoneTaken
  <2> QED BY <2>2 DEF more
<1>3. 0 \in 0..Len(Outstanding)
  BY <1>1
<1> QED BY <1>2, <1>3 DEF TakesInOrder

\* The loop takes the next command, or the last of several seeks.
LEMMA TakenFrom ==
    ASSUME TypeInv, NEW k \in 1..Len(Backlog), Dequeue(k)
    PROVE  /\ Outstanding \in Seq(Queued) /\ k \in Nat \ {0} /\ k \in 0..Len(Outstanding)
           /\ Len(Outstanding') = Len(Outstanding) - k
           /\ current' = Outstanding[k] /\ Backlog[k] = Outstanding[k]
           /\ k > 1 => \A i \in 1..k : IsSeek(Outstanding[i])
           /\ SubSeq(Outstanding', 1, Len(Outstanding) - k)
              = SubSeq(Outstanding, k + 1, Len(Outstanding))
           /\ \A i \in 1..Len(Outstanding') : Outstanding'[i] = Outstanding[k + i]
<1> DEFINE list == Backlog
           left == pending' \o queue'
<1>1. list \in Seq(Queued) /\ waiters \in Seq(Queued)
  BY OutstandingIs DEF Backlog
<1>2. k \in 1..Len(list) /\ Outstanding = list \o waiters
  BY DEF Backlog, Outstanding
<1>3. Outstanding' = left \o waiters
  BY DEF Dequeue, Outstanding
<1>4. \/ left = <<>> \o SubSeq(list, k + 1, Len(list))
      \/ k < Len(list) /\ left = <<list[k + 1]>> \o SubSeq(list, k + 2, Len(list))
  BY DEF Dequeue
<1>5. /\ current' = list[k]
      /\ k > 1 => \A i \in 1..k : IsSeek(list[i])
  BY DEF Dequeue, Coalesces
<1> HIDE DEF list, left
<1>6. /\ left \in Seq(Queued) /\ Len(left) = Len(list) - k
      /\ \A i \in 1..Len(left) : left[i] = list[k + i]
  BY <1>1, <1>2, <1>4, KeptBehind
<1>7. k \in 0..Len(list) /\ k \in Nat \ {0}
  BY <1>1, <1>2
<1> DEFINE all == list \o waiters
           some == left \o waiters
<1>8. /\ Len(some) = Len(all) - k
      /\ \A i \in 1..k : all[i] = list[i]
      /\ SubSeq(some, 1, Len(all) - k) = SubSeq(all, k + 1, Len(all))
  BY <1>1, <1>6, <1>7, FirstTaken
<1>9. \A i \in 1..Len(some) : some[i] = all[k + i]
  BY <1>1, <1>6, <1>7, FirstTakenAt
<1>10. /\ Len(all) \in Nat /\ Len(all) = Len(list) + Len(waiters)
      /\ Len(list) \in Nat /\ Len(waiters) \in Nat
  BY <1>1, ConcatProperties, LenProperties
<1> HIDE DEF all, some
<1>11. k \in 0..Len(all)
  BY <1>7, <1>10
<1>12. current' = all[k] /\ list[k] = all[k] /\ (k > 1 => \A i \in 1..k : IsSeek(all[i]))
  <2>1. k \in 1..k
    BY <1>7
  <2>2. all[k] = list[k]
    BY <1>8, <2>1
  <2>3. ASSUME k > 1, NEW i \in 1..k PROVE IsSeek(all[i])
    <3>1. IsSeek(list[i]) /\ all[i] = list[i]
      BY <1>5, <1>8, <2>3
    <3> QED BY <3>1
  <2> QED BY <1>5, <2>2, <2>3
<1>13. Outstanding = all /\ Outstanding' = some /\ Backlog = list
  BY <1>2, <1>3 DEF all, some, list
<1> QED BY <1>7, <1>8, <1>11, <1>12, <1>13, <1>9, OutstandingIs

LEMMA TakenBefore == ASSUME TypeInv, Handle PROVE TakesInOrder
<1> PICK k \in 1..Len(Backlog) : Dequeue(k)
  BY DEF Handle
<1> PICK all : all = Outstanding
  OBVIOUS
<1> PICK some : some = Outstanding'
  OBVIOUS
<1>1. /\ all \in Seq(Queued) /\ k \in 0..Len(all) /\ Len(some) = Len(all) - k
      /\ current' = all[k] /\ (k > 1 => \A i \in 1..k : IsSeek(all[i]))
      /\ SubSeq(some, 1, Len(all) - k) = SubSeq(all, k + 1, Len(all))
  BY TakenFrom
<1>2. Len(some) >= Len(all) - k
  BY <1>1
<1> QED BY <1>1, <1>2 DEF TakesInOrder

\* Nobody else touches the commands.
LEMMA NothingTaken ==
    ASSUME RunStart \/ Resume \/ Watcher \/ Pipeline \/ UNCHANGED vars
    PROVE  UNCHANGED <<pending, queue, waiters>> /\ closing' = closing
BY DEF RunStart, Resume, OpenSucceeds, OpenFails, TransportSucceeds, TransportFails,
       SeekAccepted, SeekFails, WatcherJoined, PipelineStopped, FailedOpenCleaned,
       Watcher, WatcherReads, WatcherApplies, WatcherStops,
       Pipeline, PipelineSettles, PipelineTicks, PipelineEndsSeek, PipelineFaults, Emit,
       vars, channelVars, runVars

\* The session by itself takes commands in order.
LEMMA NextTakes == TypeInv /\ [Next]_vars => TakesInOrder
<1> SUFFICES ASSUME TypeInv, [Next]_vars PROVE TakesInOrder
  OBVIOUS
<1>1. ASSUME Outstanding' = Outstanding PROVE TakesInOrder
  <2> PICK c \in Queued : TRUE
    BY ShutdownQueued
  <2> QED BY <1>1, SentBehind
<1>2. ASSUME UNCHANGED <<pending, queue, waiters>> PROVE TakesInOrder
  BY <1>1, <1>2 DEF Outstanding
<1>3. ASSUME NEW c \in Commands, Send(c) PROVE TakesInOrder
  <2>1. c \in Queued
    BY DEF Queued
  <2> QED BY <1>2, <1>3, <2>1, HandedOver, SentBehind DEF Send, runVars
<1>4. CASE Close
  <2> DEFINE last == Shutdown
  <2>1. last \in Queued
    BY ShutdownQueued
  <2>2. waiters' = Append(waiters, last) \/ waiters' = waiters
    BY <1>4 DEF Close
  <2> HIDE DEF last
  <2>3. UNCHANGED <<pending, queue>>
    BY <1>4 DEF Close, runVars
  <2> QED BY <1>2, <2>1, <2>2, <2>3, HandedOver, SentBehind
<1>5. CASE Admit
  BY <1>1, <1>5, AdmitMoves
<1>6. CASE Handle
  BY <1>6, TakenBefore
<1>7. CASE RunStart \/ Resume \/ Watcher \/ Pipeline \/ UNCHANGED vars
  BY <1>2, <1>7, NothingTaken
<1> QED BY <1>3, <1>4, <1>5, <1>6, <1>7 DEF Next, Internal, Run

\* Commands are taken in the order of the buttons and none is lost, except the
\* seeks that a later one right behind them replaces, and what was not taken
\* when the controller is shut down (playback_session.cpp:59-70,
\* playback_controller.cpp:140).
THEOREM TakenAsPressed == ControllerSpec => ButtonsInOrder
<1>1. ControllerInv /\ [ControllerNext]_allVars
      => [(ctrl = "cancelling" /\ ctrl' = "closing") \/ TakesInOrder]_allVars
  <2> SUFFICES ASSUME ControllerInv, [ControllerNext]_allVars
               PROVE  (ctrl = "cancelling" /\ ctrl' = "closing") \/ TakesInOrder
    OBVIOUS
  <2>1. CASE [Next]_vars
    BY <2>1, NextTakes DEF ControllerInv
  <2>2. CASE TasksEnded
    BY <2>2 DEF TasksEnded
  <2> QED BY <2>1, <2>2, ControllerSteps DEF ControllerInv
<1> QED BY ControllerInitInv, ControllerKeeps, <1>1, PTL DEF ControllerSpec, ButtonsInOrder

-----------------------------------------------------------------------------
(* The end of a session.                                                   *)

\* The shutdown command is the last that is handed over, so that nothing is
\* left behind it once the loop has taken it.
Ending ==
    \/ pc = "done"
    \/ pc \in {"joinWatcher", "awaitShutdown"} /\ after = "exit"
LastInv ==
    /\ \A i \in 1..Len(Outstanding) :
         Outstanding[i].op = "shutdown" => closing /\ i = Len(Outstanding)
    /\ Ending => closing /\ Outstanding = <<>>
    /\ pc = "done" => closed /\ pipe = "none"

LEMMA NoShutdownCommand == \A c \in Commands : c.op # "shutdown"
BY SessionAssumption DEF Command

\* The parts of LastInv in a step that takes nothing and begins no end.
LEMMA LastStays ==
    ASSUME LastInv, Outstanding' = Outstanding, closing' = closing, Ending' => Ending,
           pc' = "done" => closed' /\ pipe' = "none"
    PROVE  LastInv'
BY DEF LastInv

LEMMA LastHanded ==
    ASSUME TypeInv, LastInv, ~closing, NEW c \in Queued,
           Outstanding' = Append(Outstanding, c), c.op = "shutdown" => closing',
           UNCHANGED <<pc, after>>
    PROVE  LastInv'
<1> PICK list : list = Outstanding
  OBVIOUS
<1> PICK more : more = Outstanding'
  OBVIOUS
<1>1. /\ list \in Seq(Queued) /\ more = Append(list, c)
      /\ \A i \in 1..Len(list) : list[i].op # "shutdown"
  BY OutstandingIs DEF LastInv
<1>2. /\ Len(more) = Len(list) + 1 /\ Len(list) \in Nat /\ more[Len(list) + 1] = c
      /\ \A i \in 1..Len(list) : more[i] = list[i]
  BY <1>1, AppendProperties, LenProperties
<1>3. \A i \in 1..Len(more) : i \in 1..Len(list) \/ i = Len(more)
  BY <1>2
<1>4. \A i \in 1..Len(more) : more[i].op = "shutdown" => closing' /\ i = Len(more)
  BY <1>1, <1>2, <1>3
<1>5. ~Ending /\ ~Ending' /\ pc' # "done"
  BY DEF LastInv, Ending
<1> QED BY <1>4, <1>5 DEF LastInv

\* What the loop does with the last command, and with the others.
LEMMA LastTaken == ASSUME TypeInv, LastInv, Handle PROVE LastInv'
<1>1. PICK k \in 1..Len(Backlog) :
         /\ Dequeue(k)
         /\ \/ HandleOpen(Backlog[k]) \/ HandleStop(Backlog[k])
            \/ HandleShutdown(Backlog[k]) \/ HandlePlayPause(Backlog[k])
            \/ HandleSeek(Backlog[k]) \/ HandleTune(Backlog[k])
  BY DEF Handle
<1> PICK list : list = Outstanding
  OBVIOUS
<1> PICK some : some = Outstanding'
  OBVIOUS
<1>2. /\ list \in Seq(Queued) /\ k \in Nat \ {0} /\ k \in 0..Len(list)
      /\ Len(some) = Len(list) - k /\ Backlog[k] = list[k]
      /\ \A i \in 1..Len(some) : some[i] = list[k + i]
  BY <1>1, TakenFrom
<1>3. \A i \in 1..Len(list) : list[i].op = "shutdown" => closing /\ i = Len(list)
  BY DEF LastInv
<1>4. Len(list) \in Nat /\ closing' = closing /\ pc = "recv"
  BY <1>1, <1>2, LenProperties DEF Dequeue
<1>5. \A i \in 1..Len(some) : some[i].op = "shutdown" => closing' /\ i = Len(some)
  <2> SUFFICES ASSUME NEW i \in 1..Len(some), some[i].op = "shutdown"
               PROVE  closing' /\ i = Len(some)
    OBVIOUS
  <2>1. k + i \in 1..Len(list) /\ some[i] = list[k + i]
    BY <1>2, <1>4
  <2>2. closing /\ k + i = Len(list)
    BY <1>3, <2>1
  <2>3. i \in Int /\ k \in Int /\ Len(list) \in Int
    BY <1>2, <1>4
  <2>4. i = Len(list) - k
    BY <2>2, <2>3
  <2> QED BY <1>2, <1>4, <2>2, <2>4
<1>6. CASE HandleShutdown(Backlog[k])
  <2>1. closing /\ Len(some) = 0
    <3>1. k \in 1..Len(list) /\ list[k].op = "shutdown"
      BY <1>2, <1>4, <1>6 DEF HandleShutdown
    <3> QED BY <1>2, <1>3, <1>4, <3>1
  <2>2. some = <<>>
    <3>1. some \in Seq(Queued)
      BY <1>1, DequeueTypes DEF Outstanding, ChannelType, RunType, Dequeue, TypeInv, TypeOK
    <3> QED BY <2>1, <3>1, EmptySeq
  <2>3. pc' = "done" => closed' /\ pipe' = "none"
    BY <1>6 DEF HandleShutdown, BeginStop, FinishRun, pipeVars
  <2> QED BY <1>4, <1>5, <2>1, <2>2, <2>3 DEF LastInv
<1>7. CASE ~HandleShutdown(Backlog[k])
  <2>1. ~Ending'
    BY <1>1, <1>4, <1>7
       DEF Ending, HandleOpen, HandleStop, HandlePlayPause, HandleSeek, HandleTune,
           BeginStop, Return, StartOpen, OpenWithPipeline, OpenWithoutPipeline
  <2>2. pc' # "done"
    BY <2>1 DEF Ending
  <2> QED BY <1>5, <2>1, <2>2 DEF LastInv
<1> QED BY <1>6, <1>7

LEMMA NextLast == TypeInv /\ LastInv /\ [Next]_vars => LastInv'
<1> SUFFICES ASSUME TypeInv, LastInv, [Next]_vars PROVE LastInv'
  OBVIOUS
<1>1. ASSUME NEW c \in Commands, Send(c) PROVE LastInv'
  <2>1. c \in Queued /\ c.op # "shutdown"
    BY NoShutdownCommand DEF Queued
  <2>2. UNCHANGED <<pc, after, pending, queue, closing, closed, pipe>>
    BY <1>1 DEF Send, runVars, pipeVars
  <2>3. CASE UNCHANGED waiters
    <3>1. Outstanding' = Outstanding /\ (Ending' => Ending)
      BY <2>2, <2>3 DEF Outstanding, Ending
    <3> QED BY <2>2, <3>1, LastStays DEF LastInv
  <2>4. CASE ~closing /\ waiters' = Append(waiters, c)
    BY <2>1, <2>2, <2>4, HandedOver, LastHanded
  <2> QED BY <1>1, <2>3, <2>4 DEF Send
<1>2. CASE Close
  <2>1. ~closing /\ closing' /\ UNCHANGED <<pc, after, pending, queue, pipe>>
    BY <1>2 DEF Close, runVars, pipeVars
  <2>2. CASE UNCHANGED waiters
    <3>1. ~Ending' /\ pc' # "done"
      BY <2>1 DEF LastInv, Ending
    <3>2. Outstanding' = Outstanding
      BY <2>1, <2>2 DEF Outstanding
    <3> QED BY <2>1, <3>1, <3>2 DEF LastInv
  <2>3. CASE waiters' = Append(waiters, Shutdown)
    <3> PICK last \in Queued : last = Shutdown
      BY ShutdownQueued
    <3>1. Outstanding' = Append(Outstanding, last)
      BY <2>1, <2>3, HandedOver
    <3> QED BY <2>1, <3>1, LastHanded
  <2> QED BY <1>2, <2>2, <2>3 DEF Close
<1>3. CASE Admit
  <2>1. UNCHANGED <<pc, after, closing, closed, pipe>>
    BY <1>3 DEF Admit, runVars, pipeVars
  <2>2. (Ending' => Ending) /\ (pc' = "done" => closed' /\ pipe' = "none")
    BY <2>1 DEF Ending, LastInv
  <2> QED BY <1>3, <2>1, <2>2, AdmitMoves, LastStays
<1>4. CASE Handle
  BY <1>4, LastTaken
<1>5. CASE RunStart \/ Resume \/ Watcher \/ Pipeline \/ UNCHANGED vars
  <2>1. Outstanding' = Outstanding /\ closing' = closing
    BY <1>5, NothingTaken DEF Outstanding
  <2>2. (Ending' => Ending) /\ (pc' = "done" => closed' /\ pipe' = "none")
    <3>1. CASE RunStart
      BY <3>1 DEF RunStart, Ending
    <3>2. CASE PipelineStopped
      BY <3>2 DEF PipelineStopped, StopEnds, StartOpen, OpenWithPipeline,
         OpenWithoutPipeline, FinishRun, Ending
    <3>3. CASE WatcherJoined
      BY <3>3 DEF WatcherJoined, Ending
    <3>4. CASE Resume /\ ~PipelineStopped /\ ~WatcherJoined
      BY <3>4 DEF Resume, OpenSucceeds, OpenFails, TransportSucceeds, TransportFails,
         SeekAccepted, SeekFails, FailedOpenCleaned, Ending
    <3>5. CASE Watcher \/ Pipeline \/ UNCHANGED vars
      <4>1. UNCHANGED <<pc, after, closed>>
        BY <3>5 DEF Watcher, WatcherReads, WatcherApplies, WatcherStops,
           Pipeline, PipelineSettles, PipelineTicks, PipelineEndsSeek, PipelineFaults,
           Emit, vars, channelVars, runVars
      <4>2. pipe = "none" /\ pc = "done" => pipe' = "none"
        BY <3>5 DEF Watcher, WatcherReads, WatcherApplies, WatcherStops,
           Pipeline, PipelineSettles, PipelineTicks, PipelineEndsSeek, PipelineFaults,
           Emit, vars, pipeVars
      <4> QED BY <4>1, <4>2 DEF Ending, LastInv
    <3> QED BY <1>5, <3>1, <3>2, <3>3, <3>4, <3>5
  <2> QED BY <2>1, <2>2, LastStays
<1> QED BY <1>1, <1>2, <1>3, <1>4, <1>5 DEF Next, Internal, Run

LEMMA InitLast == Init \/ ControllerInit => LastInv
<1> SUFFICES ASSUME Init \/ ControllerInit PROVE LastInv
  OBVIOUS
<1>1. Outstanding = <<>> /\ pc # "done" /\ after = "none"
  BY DEF Init, ControllerInit, Outstanding
<1> QED BY <1>1 DEF LastInv, Ending

\* When the loop has ended, every command that close() found sent has been taken,
\* no send waits for room in the channel for ever, and no pipeline is left, as the
\* destructor asserts (playback_session.cpp:33-38, 74-76, 79-108).
THEOREM EndedLeavesNothing ==
    Spec => [](pc = "done" => closed /\ pipe = "none" /\ Outstanding = <<>>)
<1>1. LastInv => (pc = "done" => closed /\ pipe = "none" /\ Outstanding = <<>>)
  BY DEF LastInv, Ending
<1> QED BY InitTypes, NextTypes, InitLast, NextLast, <1>1, PTL DEF Spec

\* The controller closes the session once, when no task of it is left; and what
\* it shows last stays as it is.
LeavesInv ==
    /\ closing <=> ctrl \in {"closing", "closed"}
    /\ closing => /\ follows = 0
                  /\ waiters = <<>> \/ (waiters = <<Shutdown>> /\ flows = <<"end">>)
    /\ ctrl = "closed" => pc = "done" /\ shown = snapshot

\* An ended session shows the same for ever.
LEMMA EndedIsStill ==
    ASSUME TypeInv, LastInv, pc = "done", [Next]_vars
    PROVE  pc' = "done" /\ snapshot' = snapshot
<1>1. pipe = "none" /\ held = <<>> /\ watcher = "none"
  BY DEF TypeInv, ControlInv, LastInv
<1> QED BY <1>1
  DEF Next, Internal, Run, Send, Close, Admit, RunStart, Handle, Dequeue, Resume,
      OpenSucceeds, OpenFails, TransportSucceeds, TransportFails, SeekAccepted, SeekFails,
      WatcherJoined, PipelineStopped, FailedOpenCleaned, Watcher, WatcherReads,
      WatcherApplies, WatcherStops, Pipeline, PipelineSettles, PipelineTicks,
      PipelineEndsSeek, PipelineFaults, Emit, vars, runVars, viewVars, TypeInv, ControlInv

LEMMA TasksEndedLast ==
    ASSUME TypeInv, LastInv, ~closing, TasksEnded PROVE LastInv'
<1> PICK last \in Queued : last = Shutdown
  BY ShutdownQueued
<1> PICK one : one = <<last>>
  OBVIOUS
<1> DEFINE ahead == pending \o queue
<1> PICK list : list = Outstanding
  OBVIOUS
<1> PICK more : more = Outstanding'
  OBVIOUS
<1>1. closing' /\ UNCHANGED <<pc, after, pending, queue>> /\ waiters' = one
  BY DEF TasksEnded, runVars
<1>2. more = ahead \o one
  BY <1>1 DEF Outstanding
<1>3. ahead \in Seq(Queued) /\ waiters \in Seq(Queued) /\ list = ahead \o waiters
  BY OutstandingIs
<1>4. one \in Seq(Queued) /\ Len(one) = 1
  OBVIOUS
<1> HIDE DEF ahead
<1>5. /\ Len(more) = Len(ahead) + 1 /\ Len(ahead) \in Nat
      /\ \A i \in 1..Len(ahead) : more[i] = ahead[i]
  BY <1>2, <1>3, <1>4, ConcatProperties, LenProperties
<1>6. \A i \in 1..Len(ahead) : i \in 1..Len(list) /\ list[i] = ahead[i]
  BY <1>3, ConcatProperties, LenProperties
<1>7. \A i \in 1..Len(list) : list[i].op # "shutdown"
  BY DEF LastInv
<1>8. \A i \in 1..Len(more) : more[i].op = "shutdown" => i = Len(more)
  <2>1. \A i \in 1..Len(more) : i \in 1..Len(ahead) \/ i = Len(more)
    BY <1>5
  <2> QED BY <1>5, <1>6, <1>7, <2>1
<1>9. ~Ending' /\ pc' # "done"
  BY <1>1 DEF LastInv, Ending
<1> QED BY <1>1, <1>8, <1>9 DEF LastInv

LEMMA LeavesStep ==
    ControllerInv /\ LastInv /\ LeavesInv /\ [ControllerNext]_allVars
    => LastInv' /\ LeavesInv'
<1> SUFFICES ASSUME ControllerInv, LastInv, LeavesInv, [ControllerNext]_allVars
             PROVE  LastInv' /\ LeavesInv'
  OBVIOUS
<1>1. TypeInv /\ ShownInv
  BY DEF ControllerInv
<1>2. TasksEnded => ~closing
  BY DEF TasksEnded, LeavesInv
<1>3. LastInv'
  BY <1>1, <1>2, ControllerSteps, NextLast, TasksEndedLast
<1>4. CASE Button
  <2>1. /\ ctrl = "open" /\ ctrl' = "open" /\ closing' = closing
    BY <1>4 DEF Button, OpenUrl, PressPlay, PressPause, PressStop, Toggle, PressSeek, Press, Send
  <2> QED BY <1>3, <2>1 DEF LeavesInv
<1>5. CASE Taken
  <2>1. /\ UNCHANGED <<closing, pc, snapshot, shown, ctrl>>
        /\ waiters # <<>> /\ waiters' = Tail(waiters) /\ flows' = Tail(flows)
        /\ Head(flows) # "play" => follows' = follows
    BY <1>5 DEF Taken, Admit, runVars, viewVars
  <2>2. CASE closing
    <3>1. waiters = <<Shutdown>> /\ flows = <<"end">> /\ follows = 0
      BY <2>1, <2>2 DEF LeavesInv
    <3> PICK last : last = Shutdown
      OBVIOUS
    <3>2. waiters' = <<>> /\ Head(flows) = "end"
      <4>1. waiters = <<last>>
        BY <3>1
      <4> QED BY <2>1, <3>1, <4>1
    <3> QED BY <1>3, <2>1, <2>2, <3>1, <3>2 DEF LeavesInv
  <2>3. CASE ~closing
    BY <1>3, <2>1, <2>3 DEF LeavesInv
  <2> QED BY <2>2, <2>3
<1>6. CASE FollowUp
  <2>1. ~closing /\ UNCHANGED <<closing, ctrl>>
    <3>1. follows > 0 /\ UNCHANGED <<closing, ctrl>>
      BY <1>6 DEF FollowUp, Send
    <3> QED BY <3>1 DEF LeavesInv
  <2> QED BY <1>3, <2>1 DEF LeavesInv
<1>7. CASE Refresh \/ BeginShutdown
  <2>1. ctrl = "open" /\ ctrl' \in {"open", "cancelling"} /\ closing' = closing
    BY <1>7 DEF Refresh, BeginShutdown, sessionVars, vars, channelVars
  <2> QED BY <1>3, <2>1 DEF LeavesInv
<1>8. CASE TasksEnded
  <2>1. ctrl' = "closing" /\ closing' /\ follows' = 0
    BY <1>8 DEF TasksEnded
  <2>2. waiters' = <<Shutdown>> /\ flows' = <<"end">>
    BY <1>8 DEF TasksEnded
  <2> QED BY <1>3, <2>1, <2>2 DEF LeavesInv
<1>9. CASE ShutdownEnds
  <2>1. /\ ctrl = "closing" /\ ctrl' = "closed" /\ pc = "done" /\ shown' = snapshot
        /\ UNCHANGED <<closing, waiters, pc, snapshot, follows, flows>>
    BY <1>9 DEF ShutdownEnds, sessionVars, vars, channelVars, runVars, viewVars
  <2> QED BY <1>3, <2>1 DEF LeavesInv
<1>10. CASE SessionGoesOn
  <2>1. /\ UNCHANGED <<closing, waiters>> /\ UNCHANGED <<shown, flows, follows, ctrl>>
    BY <1>10, NothingTaken DEF SessionGoesOn, Run, Handle, Dequeue, controllerVars
  <2>2. pc = "done" => pc' = "done" /\ snapshot' = snapshot
    <3>1. Next
      BY <1>10 DEF SessionGoesOn, Next, Internal
    <3> QED BY <1>1, <3>1, EndedIsStill
  <2> QED BY <1>3, <2>1, <2>2 DEF LeavesInv
<1>11. CASE UNCHANGED allVars
  BY <1>3, <1>11 DEF allVars, sessionVars, vars, channelVars, runVars, viewVars,
     controllerVars, LeavesInv
<1> QED
  BY <1>4, <1>5, <1>6, <1>7, <1>8, <1>9, <1>10, <1>11 DEF ControllerNext

\* When shutdown() has returned, no pipeline is left, every command was taken or
\* withdrawn, and what is on show is the session's last snapshot: the safety half
\* of ShutdownCompletes (playback_controller.cpp:135-147).
THEOREM ClosedLeavesNothing == ControllerSpec => [](ctrl = "closed" => NothingLeft)
<1>1. ControllerInit => LeavesInv
  BY DEF ControllerInit, LeavesInv
<1>2. LastInv /\ LeavesInv => (ctrl = "closed" => NothingLeft)
  BY DEF LastInv, LeavesInv, Ending, NothingLeft
<1> QED
  BY ControllerInitInv, ControllerKeeps, InitLast, LeavesStep, <1>1, <1>2, PTL
     DEF ControllerSpec
=============================================================================
