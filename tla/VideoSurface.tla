---------------------------- MODULE VideoSurface ----------------------------
(***************************************************************************)
(* The way of a video frame from the decoder to the screen.  Threads of    *)
(* the pipeline put frames into a mailbox of capacity one                  *)
(* (PlaybackVideoSurface); a notification queued to the GUI thread makes   *)
(* the VideoOutputItem copy the newest frame; the render thread takes it   *)
(* over while the GUI thread is blocked, and uploads it to the texture.    *)
(*                                                                         *)
(* A frame is named by the serial number that the surface gives it.        *)
(***************************************************************************)
EXTENDS Naturals

CONSTANTS
    Producers,   \* threads that call the surface
    MaxCalls     \* bound: calls of activate(), submit() and deactivate()

ASSUME SurfaceAssumption == MaxCalls \in Nat

NoFrame == 0

VARIABLES
    \* PlaybackVideoSurface
    active,        \* mActive
    latest,        \* mLatest
    serial,        \* mSerial
    notification,  \* mNotificationPending
    \* what follows the lock of a call: "idle", "schedule" (about to exchange
    \* mNotificationPending) or "post" (about to queue the notification)
    call,
    \* the GUI thread
    posted,        \* notifications in its event queue
    emitting,      \* between clearing the flag and emitting the signal
    \* VideoOutputItem
    attached,      \* mSource is the surface
    pendingFrame, pendingSerial, updateRequested,
    \* VideoOutputRenderer
    frame, frameSerial, uploadPending, texture

surfaceVars == <<active, latest, serial, notification, call, posted>>
itemVars    == <<attached, pendingFrame, pendingSerial, updateRequested>>
renderVars  == <<frame, frameSerial, uploadPending, texture>>
vars == <<surfaceVars, emitting, itemVars, renderVars>>

------------------------------------------------------------------------------
(* The surface.                                                            *)

\* The part of a call that holds mMutex.
Locked(p) ==
    /\ call[p] = "idle"
    /\ serial < MaxCalls
    /\ serial' = serial + 1
    /\ call' = [call EXCEPT ![p] = "schedule"]
    /\ UNCHANGED <<notification, posted, emitting, itemVars, renderVars>>

Activate(p) ==
    /\ Locked(p)
    /\ active' = TRUE
    /\ latest' = NoFrame

\* submit() of a frame with an image; an inactive surface ignores it.
Submit(p) ==
    /\ active
    /\ Locked(p)
    /\ latest' = serial'
    /\ UNCHANGED active

\* Broken: the item is not told.
Deactivate_Silent(p) ==
    /\ call[p] = "idle"
    /\ serial < MaxCalls
    /\ serial' = serial + 1
    /\ active' = FALSE
    /\ latest' = NoFrame
    /\ UNCHANGED <<notification, call, posted, emitting, itemVars, renderVars>>

Deactivate(p) ==
    /\ Locked(p)
    /\ active' = FALSE
    /\ latest' = NoFrame

\* scheduleNotification(): only the call that sets the flag queues one.
Schedule(p) ==
    /\ call[p] = "schedule"
    /\ call' = [call EXCEPT ![p] = IF notification THEN "idle" ELSE "post"]
    /\ notification' = TRUE
    /\ UNCHANGED <<active, latest, serial, posted, emitting, itemVars,
                   renderVars>>

PostNotification(p) ==
    /\ call[p] = "post"
    /\ call' = [call EXCEPT ![p] = "idle"]
    /\ posted' = posted + 1
    /\ UNCHANGED <<active, latest, serial, notification, emitting, itemVars,
                   renderVars>>

------------------------------------------------------------------------------
(* The GUI thread.                                                         *)

\* Broken: the scene graph is not asked for an update.
FrameReady_NoUpdate(source) ==
    /\ pendingFrame' = IF source THEN latest ELSE NoFrame
    /\ pendingSerial' = pendingSerial + 1
    /\ UNCHANGED updateRequested

\* frameReady() of the item, with the source that it has after the step.
FrameReady(source) ==
    /\ pendingFrame' = IF source THEN latest ELSE NoFrame
    /\ pendingSerial' = pendingSerial + 1
    /\ updateRequested' = TRUE

\* Broken: the flag stays set.
BeginNotification_KeepsFlag ==
    /\ posted > 0 /\ ~emitting
    /\ posted' = posted - 1
    /\ emitting' = TRUE
    /\ UNCHANGED <<active, latest, serial, notification, call, itemVars,
                   renderVars>>

\* The queued notification clears the flag before it emits the signal.
BeginNotification ==
    /\ posted > 0 /\ ~emitting
    /\ posted' = posted - 1
    /\ notification' = FALSE
    /\ emitting' = TRUE
    /\ UNCHANGED <<active, latest, serial, call, itemVars, renderVars>>

EmitFrameAvailable ==
    /\ emitting
    /\ emitting' = FALSE
    /\ IF attached THEN FrameReady(TRUE)
                   ELSE UNCHANGED <<pendingFrame, pendingSerial,
                                    updateRequested>>
    /\ UNCHANGED <<surfaceVars, attached, renderVars>>

\* setSource(): the surface is attached, or taken away.
SetSource ==
    /\ ~emitting
    /\ pendingSerial < MaxCalls
    /\ attached' = ~attached
    /\ FrameReady(~attached)
    /\ UNCHANGED <<surfaceVars, emitting, renderVars>>

------------------------------------------------------------------------------
(* The render thread.                                                      *)

\* synchronize() runs while the GUI thread waits between two events.
Synchronize ==
    /\ updateRequested /\ ~emitting
    /\ updateRequested' = FALSE
    /\ IF pendingSerial = frameSerial
       THEN UNCHANGED <<frame, frameSerial, uploadPending>>
       ELSE /\ frame' = pendingFrame
            /\ frameSerial' = pendingSerial
            /\ uploadPending' = (pendingFrame # NoFrame)
    /\ UNCHANGED <<surfaceVars, emitting, attached, pendingFrame,
                   pendingSerial, texture>>

\* render() uploads the frame once; without a frame the texture stays as it is.
Render ==
    /\ uploadPending /\ frame # NoFrame
    /\ uploadPending' = FALSE
    /\ texture' = frame
    /\ UNCHANGED <<surfaceVars, emitting, itemVars, frame, frameSerial>>

------------------------------------------------------------------------------
Init ==
    /\ active = FALSE /\ latest = NoFrame /\ serial = 0
    /\ notification = FALSE /\ call = [p \in Producers |-> "idle"]
    /\ posted = 0 /\ emitting = FALSE
    /\ attached = FALSE /\ pendingFrame = NoFrame /\ pendingSerial = 0
    /\ updateRequested = FALSE
    /\ frame = NoFrame /\ frameSerial = 0 /\ uploadPending = FALSE
    /\ texture = NoFrame

Produce(p)  == Activate(p) \/ Submit(p) \/ Deactivate(p)
Notify(p)   == Schedule(p) \/ PostNotification(p)
Gui         == BeginNotification \/ EmitFrameAvailable
RenderLoop  == Synchronize \/ Render

Next ==
    \/ \E p \in Producers : Produce(p) \/ Notify(p)
    \/ Gui \/ SetSource \/ RenderLoop

Spec == Init /\ [][Next]_vars

\* A call that was begun ends, the event loop delivers what is queued, and the
\* scene graph renders what was asked for; nobody has to call.
Fairness ==
    /\ \A p \in Producers : WF_vars(Notify(p))
    /\ WF_vars(BeginNotification) /\ WF_vars(EmitFrameAvailable)
    /\ WF_vars(Synchronize) /\ WF_vars(Render)

FairSpec == Spec /\ Fairness

------------------------------------------------------------------------------
(* Properties.                                                             *)

\* Every variable keeps to its type.
TypeOK ==
    /\ active \in BOOLEAN /\ latest \in Nat /\ serial \in Nat
    /\ notification \in BOOLEAN
    /\ call \in [Producers -> {"idle", "schedule", "post"}]
    /\ posted \in Nat /\ emitting \in BOOLEAN
    /\ attached \in BOOLEAN /\ pendingFrame \in Nat /\ pendingSerial \in Nat
    /\ updateRequested \in BOOLEAN
    /\ frame \in Nat /\ frameSerial \in Nat /\ uploadPending \in BOOLEAN
    /\ texture \in Nat

\* A frame that the item has not seen has a notification on its way: the flag
\* is cleared before the newest frame is read, so that a frame which comes in
\* between posts another notification (playback_video_surface.cpp:72-80).
NotificationOnItsWay ==
    attached /\ pendingFrame # latest
    => emitting \/ posted > 0 \/ \E p \in Producers : call[p] # "idle"

\* A decoder that is faster than the GUI does not flood its event queue: one
\* notification is queued at a time (playback_video_surface.cpp:72-74).
OnePosted == posted <= 1

\* The newest frame, or a newer one, gets on the screen, unless the surface is
\* deactivated or taken away (playback_video_surface.cpp:22-38,
\* video_output_item.cpp:17-35, 82-95).
FrameArrives ==
    \A f \in 1..MaxCalls :
        latest = f /\ attached
        ~> texture >= f \/ latest = NoFrame \/ ~attached

\* Once deactivated, the item and its renderer let go of the last frame
\* (playback_video_surface.cpp:40-48, video_output_item.cpp:92, 22).
FrameReleased ==
    ~active ~> active \/ (latest = NoFrame /\ frame = NoFrame)
==============================================================================
