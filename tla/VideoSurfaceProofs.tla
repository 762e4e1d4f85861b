-------------------------- MODULE VideoSurfaceProofs --------------------------
(***************************************************************************)
(* Theorems about VideoSurface, for every set of producers and bound.      *)
(***************************************************************************)
EXTENDS VideoSurface, TLAPS

\* The flag stands for the one notification that is queued, or about to be.
FlagInv ==
    /\ posted \in {0, 1}
    /\ \A p, q \in Producers : call[p] = "post" /\ call[q] = "post" => p = q
    /\ posted = 1 => \A p \in Producers : call[p] # "post"
    /\ notification <=> posted = 1 \/ \E p \in Producers : call[p] = "post"

\* TypeOK, the Booleans apart from the rest.
BooleansOK ==
    /\ active \in BOOLEAN /\ notification \in BOOLEAN /\ emitting \in BOOLEAN
    /\ attached \in BOOLEAN /\ updateRequested \in BOOLEAN
    /\ uploadPending \in BOOLEAN

SerialsOK ==
    /\ latest \in Nat /\ serial \in Nat /\ posted \in Nat
    /\ pendingFrame \in Nat /\ pendingSerial \in Nat
    /\ frame \in Nat /\ frameSerial \in Nat /\ texture \in Nat

CallsOK == call \in [Producers -> {"idle", "schedule", "post"}]

LEMMA TypeParts == TypeOK <=> BooleansOK /\ SerialsOK /\ CallsOK
BY DEF TypeOK, BooleansOK, SerialsOK, CallsOK

IInv == TypeOK /\ FlagInv /\ NotificationOnItsWay

LEMMA InitInv == Init => IInv
<1> SUFFICES ASSUME Init PROVE IInv
  OBVIOUS
<1>1. TypeOK
  BY DEF Init, TypeOK, NoFrame
<1>2. FlagInv
  BY DEF Init, FlagInv
<1>3. NotificationOnItsWay
  BY DEF Init, NotificationOnItsWay
<1> QED BY <1>1, <1>2, <1>3 DEF IInv

LEMMA NextBooleans == BooleansOK /\ [Next]_vars => BooleansOK'
<1> SUFFICES ASSUME BooleansOK, [Next]_vars PROVE BooleansOK'
  OBVIOUS
<1> USE DEF BooleansOK, surfaceVars, itemVars, renderVars
<1>1. ASSUME NEW p \in Producers, Produce(p) PROVE BooleansOK'
  BY <1>1 DEF Produce, Activate, Submit, Deactivate, Locked, NoFrame
<1>2. ASSUME NEW p \in Producers, Notify(p) PROVE BooleansOK'
  BY <1>2 DEF Notify, Schedule, PostNotification
<1>3. CASE BeginNotification
  BY <1>3 DEF BeginNotification
<1>4. CASE EmitFrameAvailable
  BY <1>4 DEF EmitFrameAvailable, FrameReady, NoFrame
<1>5. CASE SetSource
  BY <1>5 DEF SetSource, FrameReady, NoFrame
<1>6. CASE Synchronize
  BY <1>6 DEF Synchronize
<1>7. CASE Render
  BY <1>7 DEF Render
<1>8. CASE UNCHANGED vars
  BY <1>8 DEF vars
<1> QED
  BY <1>1, <1>2, <1>3, <1>4, <1>5, <1>6, <1>7, <1>8
  DEF Next, Gui, RenderLoop

LEMMA NextSerials == SerialsOK /\ [Next]_vars => SerialsOK'
<1> SUFFICES ASSUME SerialsOK, [Next]_vars PROVE SerialsOK'
  OBVIOUS
<1> USE DEF SerialsOK, surfaceVars, itemVars, renderVars
<1>1. ASSUME NEW p \in Producers, Produce(p) PROVE SerialsOK'
  BY <1>1 DEF Produce, Activate, Submit, Deactivate, Locked, NoFrame
<1>2. ASSUME NEW p \in Producers, Notify(p) PROVE SerialsOK'
  BY <1>2 DEF Notify, Schedule, PostNotification
<1>3. CASE BeginNotification
  BY <1>3 DEF BeginNotification
<1>4. CASE EmitFrameAvailable
  BY <1>4 DEF EmitFrameAvailable, FrameReady, NoFrame
<1>5. CASE SetSource
  BY <1>5 DEF SetSource, FrameReady, NoFrame
<1>6. CASE Synchronize
  BY <1>6 DEF Synchronize
<1>7. CASE Render
  BY <1>7 DEF Render
<1>8. CASE UNCHANGED vars
  BY <1>8 DEF vars
<1> QED
  BY <1>1, <1>2, <1>3, <1>4, <1>5, <1>6, <1>7, <1>8
  DEF Next, Gui, RenderLoop

LEMMA NextCalls == CallsOK /\ [Next]_vars => CallsOK'
<1> SUFFICES ASSUME CallsOK, [Next]_vars PROVE CallsOK'
  OBVIOUS
<1> USE DEF CallsOK, surfaceVars, itemVars, renderVars
<1>1. ASSUME NEW p \in Producers, Produce(p) PROVE CallsOK'
  BY <1>1 DEF Produce, Activate, Submit, Deactivate, Locked, NoFrame
<1>2. ASSUME NEW p \in Producers, Notify(p) PROVE CallsOK'
  BY <1>2 DEF Notify, Schedule, PostNotification
<1>3. CASE BeginNotification
  BY <1>3 DEF BeginNotification
<1>4. CASE EmitFrameAvailable
  BY <1>4 DEF EmitFrameAvailable, FrameReady, NoFrame
<1>5. CASE SetSource
  BY <1>5 DEF SetSource, FrameReady, NoFrame
<1>6. CASE Synchronize
  BY <1>6 DEF Synchronize
<1>7. CASE Render
  BY <1>7 DEF Render
<1>8. CASE UNCHANGED vars
  BY <1>8 DEF vars
<1> QED
  BY <1>1, <1>2, <1>3, <1>4, <1>5, <1>6, <1>7, <1>8
  DEF Next, Gui, RenderLoop

\* Only the call that sets the flag queues a notification, and the flag is
\* cleared by the notification that is taken.
LEMMA NextFlag == IInv /\ [Next]_vars => FlagInv'
<1> SUFFICES ASSUME IInv, [Next]_vars PROVE FlagInv'
  OBVIOUS
<1> USE DEF IInv, TypeOK, FlagInv
<1>1. ASSUME NEW p \in Producers, Produce(p) PROVE FlagInv'
  BY <1>1 DEF Produce, Activate, Submit, Deactivate, Locked
<1>2. ASSUME NEW p \in Producers, Schedule(p) PROVE FlagInv'
  <2>1. CASE notification
    BY <1>2, <2>1 DEF Schedule
  <2>2. CASE ~notification
    BY <1>2, <2>2 DEF Schedule
  <2> QED BY <2>1, <2>2
<1>3. ASSUME NEW p \in Producers, PostNotification(p) PROVE FlagInv'
  BY <1>3 DEF PostNotification
<1>4. CASE BeginNotification
  BY <1>4 DEF BeginNotification
<1>5. CASE EmitFrameAvailable \/ SetSource \/ RenderLoop \/ UNCHANGED vars
  <2>1. UNCHANGED <<posted, call, notification>>
    BY <1>5 DEF EmitFrameAvailable, SetSource, RenderLoop, Synchronize, Render,
       vars, surfaceVars
  <2> QED BY <2>1
<1> QED BY <1>1, <1>2, <1>3, <1>4, <1>5 DEF Next, Notify, Gui

\* A frame comes in with a call that will schedule; a call that finds the flag
\* set relies on the notification behind the flag.
LEMMA NextNotified == IInv /\ [Next]_vars => NotificationOnItsWay'
<1> SUFFICES ASSUME IInv, [Next]_vars PROVE NotificationOnItsWay'
  OBVIOUS
<1> USE DEF IInv, TypeOK, NotificationOnItsWay
<1>1. ASSUME NEW p \in Producers, Produce(p) PROVE NotificationOnItsWay'
  <2>1. call'[p] # "idle"
    BY <1>1 DEF Produce, Activate, Submit, Deactivate, Locked
  <2> QED BY <2>1
<1>2. ASSUME NEW p \in Producers, Schedule(p) PROVE NotificationOnItsWay'
  <2>1. CASE notification
    <3>1. posted = 1 \/ \E q \in Producers : q # p /\ call[q] = "post"
      BY <1>2, <2>1 DEF FlagInv, Schedule
    <3>2. posted' = 1 \/ \E q \in Producers : call'[q] = "post"
      BY <1>2, <3>1 DEF Schedule
    <3> QED BY <3>2
  <2>2. CASE ~notification
    <3>1. call'[p] = "post"
      BY <1>2, <2>2 DEF Schedule
    <3> QED BY <3>1
  <2> QED BY <2>1, <2>2
<1>3. ASSUME NEW p \in Producers, PostNotification(p)
      PROVE  NotificationOnItsWay'
  <2>1. posted' > 0
    BY <1>3 DEF PostNotification
  <2> QED BY <2>1
<1>4. CASE BeginNotification
  BY <1>4 DEF BeginNotification
<1>5. CASE EmitFrameAvailable
  BY <1>5 DEF EmitFrameAvailable, FrameReady, surfaceVars
<1>6. CASE SetSource
  BY <1>6 DEF SetSource, FrameReady, surfaceVars
<1>7. CASE RenderLoop \/ UNCHANGED vars
  BY <1>7 DEF RenderLoop, Synchronize, Render, vars, surfaceVars, itemVars
<1> QED BY <1>1, <1>2, <1>3, <1>4, <1>5, <1>6, <1>7 DEF Next, Notify, Gui

LEMMA InvHolds == Spec => []IInv
<1>1. IInv /\ [Next]_vars => IInv'
  <2> SUFFICES ASSUME IInv, [Next]_vars PROVE IInv'
    OBVIOUS
  <2>1. BooleansOK /\ SerialsOK /\ CallsOK
    BY TypeParts DEF IInv
  <2>2. BooleansOK' /\ SerialsOK' /\ CallsOK'
    BY <2>1, NextBooleans, NextSerials, NextCalls
  <2>3. TypeOK'
    BY <2>2 DEF TypeOK, BooleansOK, SerialsOK, CallsOK
  <2> QED BY <2>3, NextFlag, NextNotified DEF IInv
<1> QED BY InitInv, <1>1, PTL DEF Spec

\* A frame that the item has not seen has a notification on its way.
THEOREM NoLostNotification == Spec => []NotificationOnItsWay
<1>1. IInv => NotificationOnItsWay
  BY DEF IInv
<1> QED BY InvHolds, <1>1, PTL

\* At most one notification is queued, whatever the number of producers.
THEOREM OneNotification == Spec => []OnePosted
<1>1. IInv => OnePosted
  BY DEF IInv, FlagInv, OnePosted
<1> QED BY InvHolds, <1>1, PTL
=============================================================================
