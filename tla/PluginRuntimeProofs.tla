------------------------- MODULE PluginRuntimeProofs -------------------------
(***************************************************************************)
(* Theorems about PluginRuntime and PluginPackages, for every number of    *)
(* mirrors, every limit and whatever a start finds: what the runtime       *)
(* promises to the episode resources, liveness apart, which mirrors an     *)
(* operation asks, and which plugins a start offers.                       *)
(***************************************************************************)
EXTENDS PluginPackages, FiniteSetTheorems, SequenceTheorems, TLAPS

\* Between two mirrors nobody can have cancelled, since the operation does not
\* give way there; and a pinned operation is at the mirror it is pinned to.
BetweenMirrors == at = "next" => ~cancelled
AtItsMirror == pin # 0 /\ at \notin {"idle", "next"} => mirror = pin

IInv == TypeOK /\ BetweenMirrors /\ AtItsMirror

\* TypeOK in parts, since the provers keep the flags apart from the numbers.
FlagsOK == busy \in BOOLEAN /\ cancelled \in BOOLEAN /\ retryable \in BOOLEAN
BusyOK == busy <=> at # "idle"
WordsOK ==
    /\ at \in Places
    /\ op \in Operations
    /\ step \in Steps
    /\ answer \in {"none", "value", "error", "expired"}
NumbersOK ==
    /\ pin \in 0..NMirrors /\ mirror \in 0..NMirrors
    /\ requests \in 0..MaxRequests /\ redirects \in 0..MaxRedirects
    /\ sent \in Nat

LEMMA TypeParts == TypeOK <=> FlagsOK /\ BusyOK /\ WordsOK /\ NumbersOK
BY DEF TypeOK, FlagsOK, BusyOK, WordsOK, NumbersOK

LEMMA InitInv == Init => IInv
<1> SUFFICES ASSUME Init PROVE IInv
  OBVIOUS
<1>1. FlagsOK /\ BusyOK
  BY DEF Init, FlagsOK, BusyOK
<1>2. WordsOK
  BY DEF Init, WordsOK, Operations, Places, Steps
<1>3. NumbersOK
  BY MirrorsAssumption, LimitsAssumption DEF Init, NumbersOK
<1>4. BetweenMirrors /\ AtItsMirror
  BY DEF Init, BetweenMirrors, AtItsMirror
<1> QED BY <1>1, <1>2, <1>3, <1>4, TypeParts DEF IInv

LEMMA FlagsStep == FlagsOK /\ [Next]_vars => FlagsOK'
<1> SUFFICES ASSUME FlagsOK, [Next]_vars PROVE FlagsOK'
  OBVIOUS
<1> USE DEF FlagsOK
<1>1. ASSUME NEW o \in Operations, NEW named \in 0..NMirrors, Call(o, named)
      PROVE  FlagsOK'
  BY <1>1 DEF Call, PinnedMirror
<1>2. CASE TryMirror
  BY <1>2 DEF TryMirror, Untried
<1>3. CASE NoMirrorLeft
  BY <1>3 DEF NoMirrorLeft, Return
<1>4. CASE MirrorFailed
  BY <1>4 DEF MirrorFailed, Return
<1>5. CASE Invoke
  BY <1>5 DEF Invoke, Fails
<1>6. CASE Complete
  BY <1>6 DEF Complete, Return
<1>7. CASE StepFails
  BY <1>7 DEF StepFails, Fails
<1>8. CASE Request
  BY <1>8 DEF Request, Fails
<1>9. CASE RequestCancelled
  BY <1>9 DEF RequestCancelled, Fails
<1>10. CASE Send
  BY <1>10 DEF Send, Sends
<1>11. CASE Wake
  BY <1>11 DEF Wake, Sends
<1>12. CASE Replied
  BY <1>12 DEF Replied, Fails
<1>13. CASE Cancel
  BY <1>13 DEF Cancel, Suspended
<1>14. CASE UNCHANGED vars
  BY <1>14 DEF vars
<1> QED
  BY <1>1, <1>2, <1>3, <1>4, <1>5, <1>6, <1>7, <1>8, <1>9, <1>10, <1>11,
     <1>12, <1>13, <1>14 DEF Next, Runs

LEMMA BusyStep == BusyOK /\ [Next]_vars => BusyOK'
<1> SUFFICES ASSUME BusyOK, [Next]_vars PROVE BusyOK'
  OBVIOUS
<1> USE DEF BusyOK
<1>1. ASSUME NEW o \in Operations, NEW named \in 0..NMirrors, Call(o, named)
      PROVE  BusyOK'
  BY <1>1 DEF Call, PinnedMirror
<1>2. CASE TryMirror
  BY <1>2 DEF TryMirror, Untried
<1>3. CASE NoMirrorLeft
  BY <1>3 DEF NoMirrorLeft, Return
<1>4. CASE MirrorFailed
  BY <1>4 DEF MirrorFailed, Return
<1>5. CASE Invoke
  BY <1>5 DEF Invoke, Fails
<1>6. CASE Complete
  BY <1>6 DEF Complete, Return
<1>7. CASE StepFails
  BY <1>7 DEF StepFails, Fails
<1>8. CASE Request
  BY <1>8 DEF Request, Fails
<1>9. CASE RequestCancelled
  BY <1>9 DEF RequestCancelled, Fails
<1>10. CASE Send
  BY <1>10 DEF Send, Sends
<1>11. CASE Wake
  BY <1>11 DEF Wake, Sends
<1>12. CASE Replied
  BY <1>12 DEF Replied, Fails
<1>13. CASE Cancel
  BY <1>13 DEF Cancel, Suspended
<1>14. CASE UNCHANGED vars
  BY <1>14 DEF vars
<1> QED
  BY <1>1, <1>2, <1>3, <1>4, <1>5, <1>6, <1>7, <1>8, <1>9, <1>10, <1>11,
     <1>12, <1>13, <1>14 DEF Next, Runs

LEMMA WordsStep == WordsOK /\ [Next]_vars => WordsOK'
<1> SUFFICES ASSUME WordsOK, [Next]_vars PROVE WordsOK'
  OBVIOUS
<1> USE DEF WordsOK, Operations, Places, Steps, input, loop
<1>1. ASSUME NEW o \in Operations, NEW named \in 0..NMirrors, Call(o, named)
      PROVE  WordsOK'
  BY <1>1 DEF Call, PinnedMirror
<1>2. CASE TryMirror
  BY <1>2 DEF TryMirror, Untried
<1>3. CASE NoMirrorLeft
  BY <1>3 DEF NoMirrorLeft, Return
<1>4. CASE MirrorFailed
  BY <1>4 DEF MirrorFailed, Return
<1>5. CASE Invoke
  BY <1>5 DEF Invoke, Fails
<1>6. CASE Complete
  BY <1>6 DEF Complete, Return
<1>7. CASE StepFails
  BY <1>7 DEF StepFails, Fails
<1>8. CASE Request
  BY <1>8 DEF Request, Fails
<1>9. CASE RequestCancelled
  BY <1>9 DEF RequestCancelled, Fails
<1>10. CASE Send
  BY <1>10 DEF Send, Sends
<1>11. CASE Wake
  BY <1>11 DEF Wake, Sends
<1>12. CASE Replied
  BY <1>12 DEF Replied, Fails
<1>13. CASE Cancel
  BY <1>13 DEF Cancel, Suspended
<1>14. CASE UNCHANGED vars
  BY <1>14 DEF vars
<1> QED
  BY <1>1, <1>2, <1>3, <1>4, <1>5, <1>6, <1>7, <1>8, <1>9, <1>10, <1>11,
     <1>12, <1>13, <1>14 DEF Next, Runs

LEMMA NumbersStep == NumbersOK /\ [Next]_vars => NumbersOK'
<1> SUFFICES ASSUME NumbersOK, [Next]_vars PROVE NumbersOK'
  OBVIOUS
<1> USE MirrorsAssumption, LimitsAssumption DEF NumbersOK, input, loop
<1>1. ASSUME NEW o \in Operations, NEW named \in 0..NMirrors, Call(o, named)
      PROVE  NumbersOK'
  BY <1>1 DEF Call, PinnedMirror
<1>2. CASE TryMirror
  BY <1>2 DEF TryMirror, Untried
<1>3. CASE NoMirrorLeft
  BY <1>3 DEF NoMirrorLeft, Return
<1>4. CASE MirrorFailed
  BY <1>4 DEF MirrorFailed, Return
<1>5. CASE Invoke
  BY <1>5 DEF Invoke, Fails
<1>6. CASE Complete
  BY <1>6 DEF Complete, Return
<1>7. CASE StepFails
  BY <1>7 DEF StepFails, Fails
<1>8. CASE Request
  BY <1>8 DEF Request, Fails
<1>9. CASE RequestCancelled
  BY <1>9 DEF RequestCancelled, Fails
<1>10. CASE Send
  BY <1>10 DEF Send, Sends
<1>11. CASE Wake
  BY <1>11 DEF Wake, Sends
<1>12. CASE Replied
  BY <1>12 DEF Replied, Fails
<1>13. CASE Cancel
  BY <1>13 DEF Cancel, Suspended
<1>14. CASE UNCHANGED vars
  BY <1>14 DEF vars
<1> QED
  BY <1>1, <1>2, <1>3, <1>4, <1>5, <1>6, <1>7, <1>8, <1>9, <1>10, <1>11,
     <1>12, <1>13, <1>14 DEF Next, Runs

LEMMA PlaceStep == IInv /\ [Next]_vars => (BetweenMirrors /\ AtItsMirror)'
<1> SUFFICES ASSUME IInv, [Next]_vars PROVE (BetweenMirrors /\ AtItsMirror)'
  OBVIOUS
<1> USE DEF IInv, BetweenMirrors, AtItsMirror, input
<1>1. ASSUME NEW o \in Operations, NEW named \in 0..NMirrors, Call(o, named)
      PROVE  (BetweenMirrors /\ AtItsMirror)'
  BY <1>1 DEF Call, PinnedMirror
<1>2. CASE TryMirror
  BY <1>2 DEF TryMirror, Untried
<1>3. CASE NoMirrorLeft
  BY <1>3 DEF NoMirrorLeft, Return
<1>4. CASE MirrorFailed
  BY <1>4 DEF MirrorFailed, Return
<1>5. CASE Invoke
  BY <1>5 DEF Invoke, Fails
<1>6. CASE Complete
  BY <1>6 DEF Complete, Return
<1>7. CASE StepFails
  BY <1>7 DEF StepFails, Fails
<1>8. CASE Request
  BY <1>8 DEF Request, Fails
<1>9. CASE RequestCancelled
  BY <1>9 DEF RequestCancelled, Fails
<1>10. CASE Send
  BY <1>10 DEF Send, Sends
<1>11. CASE Wake
  BY <1>11 DEF Wake, Sends
<1>12. CASE Replied
  BY <1>12 DEF Replied, Fails
<1>13. CASE Cancel
  BY <1>13 DEF Cancel, Suspended
<1>14. CASE UNCHANGED vars
  BY <1>14 DEF vars
<1> QED
  BY <1>1, <1>2, <1>3, <1>4, <1>5, <1>6, <1>7, <1>8, <1>9, <1>10, <1>11,
     <1>12, <1>13, <1>14 DEF Next, Runs

LEMMA NextInv == IInv /\ [Next]_vars => IInv'
<1>1. TypeOK' <=> (FlagsOK /\ BusyOK /\ WordsOK /\ NumbersOK)'
  BY DEF TypeOK, FlagsOK, BusyOK, WordsOK, NumbersOK, Places, Steps
<1> QED
  BY <1>1, TypeParts, FlagsStep, BusyStep, WordsStep, NumbersStep, PlaceStep
     DEF IInv

\* The runtime is busy exactly while an operation is on its way, for every
\* script and every behaviour of the network.
THEOREM TypeCorrect == Spec => []TypeOK
<1>1. IInv => TypeOK
  BY DEF IInv
<1> QED BY <1>1, InitInv, NextInv, PTL DEF Spec

THEOREM Invariant == Spec => []IInv
BY InitInv, NextInv, PTL DEF Spec

\* A resolve whose result names its mirror sends no request to another one.
THEOREM StaysAtItsMirror == Spec => PinnedToItsMirror
<1>1. IInv /\ IInv' /\ [Next]_vars =>
         [at' = "waiting" /\ pin # 0 => mirror = pin]_vars
  <2> SUFFICES ASSUME IInv, IInv', Next, at' = "waiting", pin # 0
               PROVE  mirror = pin
    OBVIOUS
  <2> USE DEF IInv, AtItsMirror, TypeOK, Places
  <2>1. ASSUME NEW o, NEW named, Call(o, named) PROVE FALSE
    BY <2>1 DEF Call
  <2>2. CASE at \in {"idle", "next"}
    BY <2>1, <2>2 DEF Next, Runs, TryMirror, NoMirrorLeft, MirrorFailed, Invoke,
       Complete, StepFails, Request, RequestCancelled, Send, Wake, Replied,
       Cancel, Return
  <2>3. CASE at \notin {"idle", "next"}
    BY <2>3
  <2> QED BY <2>2, <2>3
<1> QED BY <1>1, Invariant, PTL DEF Spec, PinnedToItsMirror

\* A cancelled operation begins no other wait, whether it was to send again, to
\* follow a redirect or to go to another mirror.
THEOREM CancelledStops == Spec => NoWaitAfterCancel
<1>1. IInv /\ [Next]_vars => [Issued => ~cancelled]_vars
  <2> SUFFICES ASSUME IInv, Next, Issued PROVE ~cancelled
    OBVIOUS
  <2> USE DEF Issued
  <2>1. ASSUME NEW o, NEW named, Call(o, named) PROVE FALSE
    BY <2>1 DEF Call
  <2>2. CASE Send
    BY <2>2 DEF Send
  <2>3. CASE Cancel
    BY <2>3 DEF Cancel
  <2>4. CASE ~Send /\ ~Cancel
    BY <2>1, <2>4 DEF Next, Runs, TryMirror, NoMirrorLeft, MirrorFailed, Invoke,
       Complete, StepFails, Request, RequestCancelled, Wake, Replied, Fails, Return
  <2> QED BY <2>2, <2>3, <2>4
<1> QED BY <1>1, Invariant, PTL DEF Spec, NoWaitAfterCancel

-----------------------------------------------------------------------------
\* The requests of an operation.

\* What one request of the script may cost, and what one mirror may.
PerRequest == MaxRedirects + 1
PerMirror == MaxRequests * PerRequest

\* The mirrors up to m that are enabled: no operation tries one twice.
Below(m) == Cardinality({e \in Enabled : e <= m})

\* What the present mirror has cost: the requests before this one in full, of
\* this one the redirects that were followed and, once it is sent, one more.
Earlier == (requests - 1) * PerRequest
Spent ==
    IF at \in {"request", "sleeping"} THEN Earlier + redirects
    ELSE IF at = "waiting" THEN Earlier + redirects + 1
    ELSE requests * PerRequest

BudgetInv ==
    /\ at \in {"request", "sleeping", "waiting"} => requests >= 1
    /\ at \in {"idle", "next"} => sent <= Below(mirror) * PerMirror
    /\ at \notin {"idle", "next"} =>
         /\ mirror \in Enabled
         /\ sent <= Below(mirror - 1) * PerMirror + Spent

LEMMA TimesMonotone ==
    ASSUME NEW a \in Nat, NEW b \in Nat, NEW c \in Nat, a <= b
    PROVE  a * c <= b * c
<1>1. PICK d \in Nat : b = a + d
  BY b - a \in Nat /\ b = a + (b - a)
<1>2. b * c = a * c + d * c
  BY <1>1
<1>3. d * c \in Nat /\ a * c \in Nat
  OBVIOUS
<1> QED BY <1>2, <1>3

LEMMA EnabledFinite == IsFiniteSet(Enabled)
<1>1. IsFiniteSet(1..NMirrors)
  BY MirrorsAssumption, FS_Interval
<1> QED BY <1>1, MirrorsAssumption, FS_Subset

LEMMA EnabledNumbers == ASSUME NEW e \in Enabled PROVE e \in Int
<1>1. e \in 1..NMirrors
  BY MirrorsAssumption
<1>2. 1..NMirrors \subseteq Int
  OBVIOUS
<1> QED BY <1>1, <1>2

LEMMA BelowType ==
    ASSUME NEW m \in Int
    PROVE  /\ Below(m) \in Nat
           /\ Below(m) <= Cardinality(Enabled)
           /\ \A n \in Int : m <= n => Below(m) <= Below(n)
<1>1. ASSUME NEW n \in Int
      PROVE  IsFiniteSet({e \in Enabled : e <= n})
  BY EnabledFinite, FS_Subset
<1>2. Below(m) \in Nat /\ Below(m) <= Cardinality(Enabled)
  BY <1>1, EnabledFinite, FS_CardinalityType, FS_Subset DEF Below
<1>3. ASSUME NEW n \in Int, m <= n
      PROVE  Below(m) <= Below(n)
  <2>1. {e \in Enabled : e <= m} \subseteq {e \in Enabled : e <= n}
    <3> SUFFICES ASSUME NEW e \in Enabled, e <= m PROVE e <= n
      OBVIOUS
    <3> QED BY <1>3, EnabledNumbers
  <2> QED BY <1>1, <2>1, FS_Subset DEF Below
<1> QED BY <1>2, <1>3

LEMMA BelowNext ==
    ASSUME NEW m \in Enabled
    PROVE  Below(m) = Below(m - 1) + 1
<1>0. m \in Int
  BY EnabledNumbers
<1>1. IsFiniteSet({e \in Enabled : e <= m - 1})
  BY EnabledFinite, FS_Subset
<1>2. {e \in Enabled : e <= m} = {e \in Enabled : e <= m - 1} \cup {m}
  <2>1. ASSUME NEW e \in Enabled PROVE e <= m <=> (e <= m - 1 \/ e = m)
    BY <1>0, EnabledNumbers
  <2> QED BY <1>0, <2>1
<1>3. m \notin {e \in Enabled : e <= m - 1}
  BY <1>0
<1> QED BY <1>1, <1>2, <1>3, FS_AddElement DEF Below

\* PerRequest, PerMirror and the costs as numbers.
LEMMA CostTypes ==
    ASSUME NumbersOK
    PROVE  /\ PerRequest \in Nat /\ PerMirror \in Nat
           /\ requests * PerRequest \in Nat
           /\ requests * PerRequest <= PerMirror
           /\ requests * PerRequest = Earlier + PerRequest
           /\ Earlier \in Int
<1> USE LimitsAssumption DEF NumbersOK
<1>1. PerRequest \in Nat /\ PerMirror \in Nat /\ requests * PerRequest \in Nat
  BY DEF PerRequest, PerMirror
<1>2. requests * PerRequest <= PerMirror
  BY <1>1, TimesMonotone DEF PerMirror
<1>3. requests * PerRequest = Earlier + PerRequest /\ Earlier \in Int
  BY <1>1 DEF Earlier
<1> QED BY <1>1, <1>2, <1>3

\* When a mirror is given up, or the operation ends, all it may have cost is paid.
LEMMA MirrorPaid ==
    ASSUME NumbersOK, BudgetInv, at \notin {"idle", "next", "request", "sleeping", "waiting"}
    PROVE  sent <= Below(mirror) * PerMirror
<1>1. mirror \in Enabled /\ mirror \in Int
  BY EnabledNumbers DEF BudgetInv
<1>2. /\ Below(mirror - 1) \in Nat
      /\ Below(mirror) = Below(mirror - 1) + 1
  BY <1>1, BelowType, BelowNext
<1>3. sent <= Below(mirror - 1) * PerMirror + requests * PerRequest
  BY DEF BudgetInv, Spent
<1>4. Below(mirror) * PerMirror = Below(mirror - 1) * PerMirror + PerMirror
  BY <1>2, CostTypes
<1>5. Below(mirror - 1) * PerMirror \in Nat /\ sent \in Nat
  BY <1>2, CostTypes DEF NumbersOK
<1> QED BY <1>3, <1>4, <1>5, CostTypes

LEMMA BudgetStep == IInv /\ BudgetInv /\ [Next]_vars => BudgetInv'
<1> SUFFICES ASSUME IInv, BudgetInv, [Next]_vars PROVE BudgetInv'
  OBVIOUS
<1>0. NumbersOK /\ NumbersOK'
  BY TypeParts, NumbersStep DEF IInv
<1>a. /\ PerRequest \in Nat /\ PerMirror \in Nat
      /\ requests * PerRequest \in Nat /\ Earlier \in Int
      /\ requests * PerRequest = Earlier + PerRequest
      /\ requests \in Nat /\ redirects \in 0..MaxRedirects /\ sent \in Nat
      /\ PerRequest = MaxRedirects + 1 /\ MaxRedirects \in Nat
      /\ mirror \in Int
  BY <1>0, CostTypes, LimitsAssumption DEF NumbersOK, PerRequest
<1>b. /\ Below(mirror) \in Nat /\ Below(mirror - 1) \in Nat
      /\ Below(mirror) * PerMirror \in Nat
      /\ Below(mirror - 1) * PerMirror \in Nat
  BY <1>a, BelowType
<1> USE DEF BudgetInv
<1>1. ASSUME NEW o \in Operations, NEW named \in 0..NMirrors, Call(o, named)
      PROVE  BudgetInv'
  <2>1. Below(0) \in Nat /\ Below(0) * PerMirror \in Nat
    BY BelowType, <1>a
  <2>2. at' = "next" /\ mirror' = 0 /\ sent' = 0
    BY <1>1 DEF Call
  <2> QED BY <2>1, <2>2
<1>2. CASE TryMirror
  <2>1. /\ at = "next" /\ at' = "begin" /\ requests' = 0 /\ sent' = sent
        /\ mirror' \in Enabled /\ mirror' > mirror
    BY <1>2 DEF TryMirror, Untried
  <2>2. mirror' \in Int /\ mirror <= mirror' - 1
    BY <2>1, <1>a, EnabledNumbers
  <2>3. Below(mirror' - 1) \in Nat /\ Below(mirror) <= Below(mirror' - 1)
    <3>1. mirror' - 1 \in Int
      BY <2>2
    <3>2. \A m \in Int : /\ Below(m) \in Nat
                        /\ \A n \in Int : m <= n => Below(m) <= Below(n)
      BY BelowType
    <3> QED BY <3>1, <3>2, <2>2, <1>a
  <2>4. Below(mirror) * PerMirror <= Below(mirror' - 1) * PerMirror
    BY <2>3, <1>a, <1>b, TimesMonotone
  <2>5. Spent' = 0
    BY <2>1, <1>a DEF Spent
  <2>6. Below(mirror' - 1) * PerMirror \in Nat
    BY <2>3, <1>a
  <2>7. sent' <= Below(mirror' - 1) * PerMirror + Spent'
    BY <2>1, <2>4, <2>5, <2>6, <1>a, <1>b
  <2> QED BY <2>1, <2>7
<1>3. CASE NoMirrorLeft
  BY <1>3 DEF NoMirrorLeft, Return, loop
<1>4. CASE MirrorFailed
  <2>1. sent <= Below(mirror) * PerMirror
    BY <1>0, <1>4, MirrorPaid DEF MirrorFailed
  <2>2. at' \in {"idle", "next"} /\ UNCHANGED <<sent, mirror>>
    BY <1>4 DEF MirrorFailed, Return
  <2> QED BY <2>1, <2>2
<1>6. CASE Complete
  <2>1. sent <= Below(mirror) * PerMirror
    BY <1>0, <1>6, MirrorPaid DEF Complete
  <2>2. at' = "idle" /\ UNCHANGED <<sent, mirror>>
    BY <1>6 DEF Complete, Return
  <2> QED BY <2>1, <2>2
<1>5. CASE Invoke \/ StepFails
  <2>1. /\ at \in {"begin", "resume", "step"} /\ at' \in {"step", "failed"}
        /\ UNCHANGED <<sent, mirror, requests>>
    BY <1>5 DEF Invoke, StepFails, Fails, loop
  <2> QED BY <2>1 DEF Spent
<1>8. CASE Request
  <2>1. /\ at = "step" /\ at' \in {"request", "failed"} /\ redirects' = 0
        /\ requests' = requests + 1 /\ UNCHANGED <<sent, mirror>>
    BY <1>8 DEF Request, Fails
  <2>2. Spent = requests * PerRequest
    BY <2>1 DEF Spent
  <2>3. requests' - 1 = requests
    BY <2>1, <1>a
  <2>4. Earlier' = requests * PerRequest /\ requests' * PerRequest >= requests * PerRequest
    BY <2>1, <2>3, <1>a DEF Earlier, PerRequest
  <2>5. Spent' >= Spent /\ Spent' \in Nat
    BY <2>1, <2>2, <2>4, <1>a, CostTypes, <1>0 DEF Spent, PerRequest
  <2> QED BY <2>1, <2>2, <2>5, <1>a, <1>b
<1>9. CASE RequestCancelled
  <2>1. /\ at = "request" /\ at' = "failed"
        /\ UNCHANGED <<sent, mirror, requests, redirects>>
    BY <1>9 DEF RequestCancelled, Fails, loop
  <2>2. Spent = Earlier + redirects /\ Spent' = requests * PerRequest
    BY <2>1 DEF Spent, PerRequest
  <2> QED BY <2>1, <2>2, <1>a, <1>b
<1>10. CASE Send \/ Wake
  <2>1. /\ at \in {"request", "sleeping"}
        /\ \/ at' = "sleeping" /\ sent' = sent
           \/ at' = "waiting" /\ sent' = sent + 1
        /\ UNCHANGED <<mirror, requests, redirects>>
    BY <1>10 DEF Send, Wake, Sends, loop
  <2>2. Spent = Earlier + redirects
    BY <2>1 DEF Spent
  <2>3. Spent' = Earlier + redirects + (sent' - sent)
    BY <2>1, <1>a DEF Spent, Earlier, PerRequest
  <2> QED BY <2>1, <2>2, <2>3, <1>a, <1>b
<1>12. CASE Replied
  <2>1. /\ at = "waiting" /\ at' \in {"resume", "request", "failed"}
        /\ at' = "request" => redirects' = redirects + 1
        /\ UNCHANGED <<sent, mirror, requests>>
    BY <1>12 DEF Replied, Fails
  <2>2. Spent = Earlier + redirects + 1
    BY <2>1 DEF Spent
  <2>3. \/ at' = "request" /\ Spent' = Earlier + redirects + 1
        \/ at' \in {"resume", "failed"} /\ Spent' = requests * PerRequest
    BY <2>1, <1>a DEF Spent, Earlier, PerRequest
  <2> QED BY <2>1, <2>2, <2>3, <1>a, <1>b
<1>13. CASE Cancel \/ UNCHANGED vars
  BY <1>13 DEF Cancel, vars, loop, input, Spent, Earlier, PerRequest
<1> QED
  BY <1>1, <1>2, <1>3, <1>4, <1>5, <1>6, <1>8, <1>9, <1>10, <1>12, <1>13
  DEF Next, Runs

\* However often requests are redirected or fail, an operation sends no more of
\* them than one mirror allows, times the mirrors that are enabled.
THEOREM BudgetKept == Spec => []RequestBudget
<1>1. Init => BudgetInv
  <2>1. Below(0) \in Nat /\ PerMirror \in Nat
    BY BelowType, LimitsAssumption DEF PerMirror, PerRequest
  <2> QED BY <2>1 DEF Init, BudgetInv
<1>2. IInv /\ BudgetInv => RequestBudget
  <2> SUFFICES ASSUME IInv, BudgetInv PROVE RequestBudget
    OBVIOUS
  <2>0. NumbersOK
    BY TypeParts DEF IInv
  <2>a. mirror \in Int /\ sent \in Nat /\ PerMirror \in Nat
    BY <2>0, CostTypes DEF NumbersOK
  <2>1. /\ Below(mirror) \in Nat /\ Cardinality(Enabled) \in Nat
        /\ Below(mirror) <= Cardinality(Enabled)
    BY <2>a, BelowType, EnabledFinite, FS_CardinalityType
  <2>2. sent <= Below(mirror) * PerMirror
    <3>1. CASE at \in {"idle", "next"}
      BY <3>1 DEF BudgetInv
    <3>2. CASE at \notin {"idle", "next", "request", "sleeping", "waiting"}
      BY <3>2, <2>0, MirrorPaid
    <3>3. CASE at \in {"request", "sleeping", "waiting"}
      <4>1. mirror \in Enabled
            /\ sent <= Below(mirror - 1) * PerMirror + Earlier + redirects + 1
        <5>1. Below(mirror - 1) * PerMirror \in Int
          BY <2>a, BelowType
        <5> QED BY <3>3, <5>1, <2>0, <2>a, CostTypes DEF BudgetInv, Spent, NumbersOK
      <4>2. Earlier + redirects + 1 <= PerMirror
        BY <2>0, CostTypes, LimitsAssumption DEF NumbersOK, PerRequest
      <4>3. Below(mirror) * PerMirror = Below(mirror - 1) * PerMirror + PerMirror
        BY <4>1, <2>a, BelowType, BelowNext
      <4>4. Below(mirror - 1) * PerMirror \in Nat
        BY <2>a, BelowType
      <4> QED
        BY <4>1, <4>2, <4>3, <4>4, <2>0, <2>a, CostTypes DEF NumbersOK
    <3> QED BY <3>1, <3>2, <3>3
  <2>3. Below(mirror) * PerMirror <= Cardinality(Enabled) * PerMirror
    BY <2>1, <2>a, TimesMonotone
  <2>4. Cardinality(Enabled) * PerMirror
        = Cardinality(Enabled) * MaxRequests * (MaxRedirects + 1)
    BY <2>1, LimitsAssumption DEF PerMirror, PerRequest
  <2>5. Below(mirror) * PerMirror \in Nat /\ Cardinality(Enabled) * PerMirror \in Nat
    BY <2>1, <2>a
  <2> QED BY <2>2, <2>3, <2>4, <2>5, <2>a DEF RequestBudget
<1> QED BY <1>1, <1>2, Invariant, BudgetStep, PTL DEF Spec

-----------------------------------------------------------------------------
\* The refinement.

LEMMA InitPromise == Init => Promise!Init
BY DEF Init, Promise!Init

LEMMA ReturnPromise ==
    ASSUME IInv, at # "idle", NEW r \in {"value", "error", "expired"}, Return(r),
           cancelled => r = "error"
    PROVE  Promise!Next
BY DEF Return, Promise!Next, Promise!Return

LEMMA StepPromise == IInv /\ [Next]_vars => [Promise!Next]_Promise!vars
<1> SUFFICES ASSUME IInv, [Next]_vars
             PROVE  [Promise!Next]_Promise!vars
  OBVIOUS
<1> USE DEF Promise!vars, IInv
<1> DEFINE Same == /\ at # "idle" /\ at' # "idle"
                   /\ UNCHANGED <<cancelled, answer>>
<1>0. Same => UNCHANGED Promise!vars
  OBVIOUS
<1>1. ASSUME NEW o, NEW named, Call(o, named)
      PROVE  Promise!Start
  BY <1>1 DEF Call, Promise!Start, TypeOK
<1>2. CASE TryMirror
  BY <1>2, <1>0 DEF TryMirror
<1>3. CASE NoMirrorLeft
  BY <1>3, ReturnPromise DEF NoMirrorLeft, BetweenMirrors
<1>4. CASE MirrorFailed
  <2>1. CASE Return("error")
    BY <1>4, <2>1, ReturnPromise DEF MirrorFailed
  <2>2. CASE ~Return("error")
    BY <1>4, <2>2, <1>0 DEF MirrorFailed
  <2> QED BY <2>1, <2>2
<1>5. CASE Invoke
  BY <1>5, <1>0 DEF Invoke, Fails
<1>6. CASE Complete
  BY <1>6, ReturnPromise DEF Complete
<1>7. CASE StepFails
  BY <1>7, <1>0 DEF StepFails, Fails
<1>8. CASE Request
  BY <1>8, <1>0 DEF Request, Fails
<1>9. CASE RequestCancelled
  BY <1>9, <1>0 DEF RequestCancelled, Fails
<1>10. CASE Send
  BY <1>10, <1>0 DEF Send, Sends
<1>11. CASE Wake
  BY <1>11, <1>0 DEF Wake, Sends
<1>12. CASE Replied
  BY <1>12, <1>0 DEF Replied, Fails
<1>13. CASE Cancel
  BY <1>13 DEF Cancel, Promise!Next, Promise!Cancel
<1>14. CASE UNCHANGED vars
  BY <1>14 DEF vars
<1> QED
  BY <1>1, <1>2, <1>3, <1>4, <1>5, <1>6, <1>7, <1>8, <1>9, <1>10, <1>11,
     <1>12, <1>13, <1>14 DEF Next, Runs, Promise!Next

\* The runtime implements the provider's promise: one call at a time, and no
\* value of a call that was cancelled.
THEOREM KeepsPromise == Spec => Promise!Safety
BY InitPromise, StepPromise, Invariant, PTL DEF Spec, Promise!Safety

-----------------------------------------------------------------------------
(* The plugins that a start has registered.                                *)

LEMMA SizeOfInterval ==
    ASSUME NEW n \in Nat
    PROVE  IsFiniteSet(1..n) /\ Cardinality(1..n) = n
<1>1. Cardinality(1..n) = IF 1 > n THEN 0 ELSE n - 1 + 1
  BY FS_Interval
<1>2. IsFiniteSet(1..n)
  BY FS_Interval
<1> QED BY <1>1, <1>2

\* Sorting by priority permutes the mirrors, and none comes before one of a
\* higher priority.
LEMMA RankedIs ==
    ASSUME NEW S, NEW list \in Seq(S), \A s \in S : s.priority \in Int
    PROVE  /\ DOMAIN Ranked(list) = DOMAIN list
           /\ \A n \in DOMAIN list : Ranked(list)[n] \in Range(list)
           /\ \A m, n \in DOMAIN list :
                 m < n => Ranked(list)[m].priority >= Ranked(list)[n].priority
<1> PICK size \in Nat : size = Len(list)
  BY LenProperties
<1>0. IsFiniteSet(1..size) /\ Cardinality(1..size) = size
  BY SizeOfInterval
<1> PICK priority : priority = [i \in 1..size |-> list[i].priority]
  OBVIOUS
<1>1. /\ DOMAIN list = 1..size /\ IsFiniteSet(1..size) /\ Cardinality(1..size) = size
      /\ \A i \in 1..size : priority[i] = list[i].priority /\ priority[i] \in Int
  <2>1. DOMAIN list = 1..size /\ \A i \in 1..size : list[i] \in S
    BY LenProperties, ElementOfSeq
  <2>2. \A i \in 1..size : list[i].priority \in Int
    BY <2>1
  <2> QED BY <1>0, <2>1, <2>2
<1> DEFINE Before(i, j) == priority[i] > priority[j] \/ (priority[i] = priority[j] /\ i <= j)
           UpTo(i) == {j \in DOMAIN list :
                         \/ list[j].priority > list[i].priority
                         \/ list[j].priority = list[i].priority /\ j <= i}
<1>2. \A i \in 1..size : UpTo(i) = {j \in 1..size : Before(j, i)}
  BY <1>1
<1>3. PICK ranked : ranked = [n \in 1..size |-> list[CHOOSE i \in 1..size : Cardinality(UpTo(i)) = n]]
  OBVIOUS
<1>4. ranked = Ranked(list)
  BY <1>1, <1>3 DEF Ranked
<1>5. /\ \A i \in 1..size : Before(i, i)
      /\ \A i, j \in 1..size : Before(i, j) \/ Before(j, i)
      /\ \A i, j \in 1..size : Before(i, j) /\ Before(j, i) => i = j
      /\ \A i, j, k \in 1..size : Before(i, j) /\ Before(j, k) => Before(i, k)
      /\ \A i, j \in 1..size : Before(i, j) => priority[i] >= priority[j]
  BY <1>1
<1> HIDE DEF Before, UpTo
<1>6. ASSUME NEW i \in 1..size
      PROVE  i \in UpTo(i) /\ IsFiniteSet(UpTo(i)) /\ Cardinality(UpTo(i)) \in 1..size
  <2>1. UpTo(i) \in SUBSET (1..size) /\ i \in UpTo(i)
    BY <1>2, <1>5
  <2>2. /\ IsFiniteSet(UpTo(i)) /\ Cardinality(UpTo(i)) \in Nat
        /\ Cardinality(UpTo(i)) <= size
    BY <1>1, <2>1, FS_Subset, FS_CardinalityType
  <2>3. Cardinality(UpTo(i)) # 0
    BY <2>1, <2>2, FS_EmptySet
  <2> QED BY <2>1, <2>2, <2>3
<1>7. ASSUME NEW i \in 1..size, NEW j \in 1..size, Before(i, j), i # j
      PROVE  Cardinality(UpTo(i)) < Cardinality(UpTo(j))
  <2>1. UpTo(i) \in SUBSET UpTo(j) /\ UpTo(i) # UpTo(j)
    <3>1. UpTo(i) \in SUBSET UpTo(j)
      BY <1>2, <1>5, <1>7
    <3>2. j \in UpTo(j) /\ j \notin UpTo(i)
      BY <1>2, <1>5, <1>7
    <3> QED BY <3>1, <3>2
  <2>2. /\ Cardinality(UpTo(i)) <= Cardinality(UpTo(j))
        /\ Cardinality(UpTo(i)) # Cardinality(UpTo(j))
    BY <2>1, <1>6, FS_Subset
  <2> QED BY <2>2, <1>6
<1> PICK rank : rank = [i \in 1..size |-> Cardinality(UpTo(i))]
  OBVIOUS
<1>8. /\ rank \in [1..size -> 1..size] /\ \A i \in 1..size : rank[i] = Cardinality(UpTo(i))
      /\ \A i, j \in 1..size : rank[i] \in Nat /\ (Before(i, j) /\ i # j => rank[i] < rank[j])
  BY <1>6, <1>7
<1>9. rank \in Surjection(1..size, 1..size)
  <2>1. \A i, j \in 1..size : rank[i] = rank[j] => i = j
    BY <1>5, <1>8
  <2>2. rank \in Injection(1..size, 1..size)
    BY <1>8, <2>1 DEF Injection, IsInjective
  <2> QED BY <1>1, <2>2, FS_Injection
<1>10. ASSUME NEW n \in 1..size
       PROVE  \E i \in 1..size : rank[i] = n /\ ranked[n] = list[i]
  <2>1. PICK i : i = CHOOSE j \in 1..size : Cardinality(UpTo(j)) = n
    OBVIOUS
  <2>2. \E j \in 1..size : Cardinality(UpTo(j)) = n
    BY <1>8, <1>9 DEF Surjection
  <2>3. i \in 1..size /\ Cardinality(UpTo(i)) = n
    BY <2>1, <2>2
  <2>4. ranked[n] = list[i]
    BY <1>3, <2>1
  <2> QED BY <1>8, <2>3, <2>4
<1>11. ASSUME NEW m \in 1..size, NEW n \in 1..size, m < n
       PROVE  ranked[m].priority >= ranked[n].priority
  <2>1. PICK i \in 1..size : rank[i] = m /\ ranked[m] = list[i]
    BY <1>10
  <2>2. PICK j \in 1..size : rank[j] = n /\ ranked[n] = list[j]
    BY <1>10
  <2>3. Before(i, j)
    BY <1>5, <1>8, <1>11, <2>1, <2>2
  <2> QED BY <1>1, <1>5, <2>1, <2>2, <2>3
<1>12. DOMAIN ranked = 1..size /\ \A n \in 1..size : ranked[n] \in Range(list)
  BY <1>1, <1>3, <1>10 DEF Range
<1> QED BY <1>1, <1>4, <1>11, <1>12

\* What a start may find.
LEMMA StartIs ==
    ASSUME disk \in Starts
    PROVE  /\ disk.settings.max_packages \in Int
           /\ disk.directory \in Seq(Range(disk.directory))
           /\ DOMAIN disk.directory = 1..Len(disk.directory) /\ Len(disk.directory) \in Nat
<1>1. disk.settings.max_packages \in Int /\ IsList(disk.directory)
  BY StartsAssumption
<1> QED BY <1>1, LenProperties DEF IsList

\* The places of packages that load, and what these register.
Loading == {place \in {0} \cup DOMAIN disk.directory : Loads(place)}
Registered(place) ==
    [i \in DOMAIN Keys(place) |-> [key |-> Keys(place)[i], place |-> place]]
Offers == UNION {Range(Registered(place)) : place \in Loading}

StartedInv ==
    /\ disk \in Starts /\ visited \in Nat
    /\ scanned \in Seq(Loading) /\ registry \in Seq(Offers)

LEMMA LoadingIs ==
    ASSUME disk \in Starts, NEW place \in Loading
    PROVE  LET package == Package(place)
               mirrors == Values(package, Override(place)).mirrors IN
           /\ ManifestLoads(package) /\ ConfigurationLoads(package, Override(place))
           /\ IsList(mirrors) /\ \A m \in Range(mirrors) : m.priority \in Int
           /\ IsList(Content(package, Manifest(package).entry).providers)
<1>1. place \in {0} \cup DOMAIN disk.directory
  BY DEF Loading
<1>2. Package(place) \in {disk.builtin} \cup Range(disk.directory)
  BY <1>1, StartIs DEF Package, Range
<1>3. /\ ManifestLoads(Package(place)) /\ ConfigurationLoads(Package(place), Override(place))
      /\ ScriptLoads(Package(place))
  BY DEF Loading, Loads
<1> QED BY <1>2, <1>3, StartsAssumption DEF Override, Id

LEMMA RegisteredIs ==
    ASSUME disk \in Starts, NEW place \in Loading
    PROVE  Registered(place) \in Seq(Offers)
<1> PICK providers : providers = Content(Package(place), Manifest(Package(place)).entry).providers
  OBVIOUS
<1>1. providers \in Seq(Range(providers)) /\ DOMAIN providers = 1..Len(providers) /\ Len(providers) \in Nat
  BY LoadingIs, LenProperties DEF IsList
<1>2. Keys(place) = [i \in 1..Len(providers) |-> <<Id(place), providers[i]>>]
  BY <1>1 DEF Keys
<1>3. DOMAIN Registered(place) = 1..Len(providers)
  BY <1>2 DEF Registered
<1>4. \A i \in 1..Len(providers) : Registered(place)[i] \in Offers
  BY <1>3, SMTT(20) DEF Offers, Range
<1>5. Registered(place) = [i \in 1..Len(providers) |-> Registered(place)[i]]
  BY <1>3 DEF Registered
<1> QED BY <1>1, <1>4, <1>5

LEMMA RegisterKeeps ==
    ASSUME StartedInv, NEW place \in Loading, Register(place)
    PROVE  registry' \in Seq(Offers)
<1>1. registry' = registry \/ registry' = registry \o Registered(place)
  BY DEF Register, Registered
<1>2. registry \o Registered(place) \in Seq(Offers)
  BY RegisteredIs, ConcatProperties DEF StartedInv
<1> QED BY <1>1, <1>2 DEF StartedInv

\* A directory that is looked at is one of those that are there.
LEMMA EntryIsThere ==
    ASSUME disk \in Starts, visited \in Nat, visited < Entries
    PROVE  visited + 1 \in DOMAIN disk.directory
<1>1. Limit \in Int
  BY StartIs, PackagesAssumption DEF Limit
<1>2. Entries \in Int /\ Entries <= Len(disk.directory)
  BY <1>1, StartIs DEF Entries
<1> QED BY <1>2, StartIs

LEMMA StartUpKeeps ==
    ASSUME StartedInv, StartUp
    PROVE  StartedInv'
<1>0. UNCHANGED disk
  BY DEF StartUp, LoadBuiltin, BeginScan, NoScan, SkipEntry, LoadEntry, EndScan, RegisterNext, EndStart
<1>1. Loading' = Loading /\ Offers' = Offers
  BY <1>0 DEF Loading, Offers, Registered, Keys, Id, Loads, Package, Override
<1>2. disk' \in Starts
  BY <1>0 DEF StartedInv
<1>3. CASE LoadBuiltin
  <2>1. registry' \in Seq(Offers)
    <3>1. CASE Loads(0) /\ Register(0)
      <4>1. 0 \in Loading
        BY <3>1 DEF Loading
      <4> QED BY <3>1, <4>1, RegisterKeeps
    <3>2. CASE UNCHANGED registry
      BY <3>2 DEF StartedInv
    <3> QED BY <1>3, <3>1, <3>2 DEF LoadBuiltin
  <2> QED BY <1>1, <1>2, <1>3, <2>1 DEF LoadBuiltin, StartedInv
<1>4. CASE BeginScan \/ NoScan \/ EndScan \/ EndStart
  BY <1>1, <1>2, <1>4 DEF BeginScan, NoScan, EndScan, EndStart, StartedInv
<1>5. CASE SkipEntry
  BY <1>1, <1>2, <1>5 DEF SkipEntry, StartedInv
<1>6. CASE LoadEntry
  <2>1. visited + 1 \in Loading
    BY <1>6, EntryIsThere DEF LoadEntry, StartedInv, Loading
  <2>2. Append(scanned, visited + 1) \in Seq(Loading)
    BY <2>1, AppendProperties DEF StartedInv
  <2> QED BY <1>1, <1>2, <1>6, <2>2 DEF LoadEntry, StartedInv
<1>7. CASE RegisterNext
  <2>1. Head(scanned) \in Loading /\ Tail(scanned) \in Seq(Loading)
    BY <1>7, HeadTailProperties DEF RegisterNext, StartedInv
  <2>2. registry' \in Seq(Offers)
    BY <1>7, <2>1, RegisterKeeps DEF RegisterNext
  <2> QED BY <1>1, <1>2, <1>7, <2>1, <2>2 DEF RegisterNext, StartedInv
<1> QED BY <1>3, <1>4, <1>5, <1>6, <1>7 DEF StartUp

LEMMA StartNextKeeps == StartedInv /\ [StartNext]_<<startVars, vars>> => StartedInv'
<1> SUFFICES ASSUME StartedInv, [StartNext]_<<startVars, vars>> PROVE StartedInv'
  OBVIOUS
<1>1. CASE StartUp
  BY <1>1, StartUpKeeps
<1>2. CASE UNCHANGED startVars
  <2>1. UNCHANGED <<disk, visited, scanned, registry>>
    BY <1>2 DEF startVars
  <2>2. Loading' = Loading /\ Offers' = Offers
    BY <2>1 DEF Loading, Offers, Registered, Keys, Id, Loads, Package, Override
  <2> QED BY <2>1, <2>2 DEF StartedInv
<1> QED BY <1>1, <1>2 DEF StartNext

LEMMA StartInitOK == StartInit => StartedInv
<1>1. \A S : <<>> \in Seq(S)
  OBVIOUS
<1> QED BY <1>1 DEF StartInit, StartedInv

\* The runtime of a plugin that was found, loaded and registered is the one the
\* theorems above are about.
THEOREM StartedRuntime == StartSpec => Init /\ [][Next]_vars
<1>1. StartInit => Init
  BY DEF StartInit
<1>2. [StartNext]_<<startVars, vars>> => [Next]_vars
  BY DEF StartNext
<1> QED BY <1>1, <1>2, PTL DEF StartSpec

\* A mirror is taken only at the head of the loop.
LEMMA OnlyTryMirror == at = "next" /\ at' = "begin" /\ Next => TryMirror
BY DEF Next, Runs, Call, NoMirrorLeft, MirrorFailed, Invoke, Complete, StepFails, Request,
       RequestCancelled, Send, Wake, Replied, Cancel, Return, Fails, Sends, Suspended

LEMMA AsksPermitted ==
    ASSUME StartedInv, IInv, TryMirror, NEW entry \in Range(registry), RunsAt(entry.place)
    PROVE  LET mirrors == Mirrors(entry.place) IN
           /\ mirrors[mirror'].enabled
           /\ AllowsNetwork(Manifest(Package(entry.place)), mirrors[mirror'].url)
           /\ \A i \in 1..NMirrors :
                /\ mirrors[i].enabled /\ pin = 0
                /\ mirrors[i].priority > mirrors[mirror'].priority
                => i <= mirror
<1> PICK place : place = entry.place
  OBVIOUS
<1>1. place \in Loading
  <2>1. entry \in Offers
    BY LenProperties, ElementOfSeq DEF StartedInv, Range
  <2> QED BY <2>1 DEF Offers, Range, Registered
<1> PICK list : list = Values(Package(place), Override(place)).mirrors
  OBVIOUS
<1> PICK mirrors : mirrors = Ranked(list)
  OBVIOUS
<1>2. /\ list \in Seq(Range(list)) /\ \A m \in Range(list) : m.priority \in Int
      /\ \A m \in Range(list) : AllowsNetwork(Manifest(Package(place)), m.url)
  BY <1>1, LoadingIs DEF StartedInv, IsList, ConfigurationLoads
<1>3. /\ DOMAIN mirrors = DOMAIN list
      /\ \A n \in DOMAIN list : mirrors[n] \in Range(list)
      /\ \A m, n \in DOMAIN list : m < n => mirrors[m].priority >= mirrors[n].priority
  BY <1>2, RankedIs
<1>4. Mirrors(place) = mirrors
  BY DEF Mirrors
<1>5. DOMAIN list = 1..NMirrors /\ Enabled = {i \in 1..NMirrors : mirrors[i].enabled}
  <2>1. DOMAIN list = 1..Len(list) /\ Len(list) \in Nat
    BY <1>2, LenProperties
  <2>2. Len(mirrors) = NMirrors
    BY <1>4 DEF RunsAt
  <2>3. Len(mirrors) = Len(list)
    BY <1>3, <2>1
  <2> QED BY <1>4, <2>1, <2>2, <2>3 DEF RunsAt
<1> PICK next : next = mirror'
  OBVIOUS
<1>6. next \in Untried /\ \A other \in Untried : next <= other
  BY DEF TryMirror
<1>7. next \in 1..NMirrors /\ mirrors[next].enabled
  BY <1>5, <1>6 DEF Untried
<1>8. AllowsNetwork(Manifest(Package(place)), mirrors[next].url)
  BY <1>2, <1>3, <1>5, <1>7
<1>9. ASSUME NEW i \in 1..NMirrors, mirrors[i].enabled, pin = 0,
             mirrors[i].priority > mirrors[next].priority, ~(i <= mirror)
      PROVE  FALSE
  <2>1. i > mirror
    <3>1. mirror \in Nat
      BY MirrorsAssumption DEF IInv, TypeOK
    <3> QED BY <3>1, <1>9
  <2>2. next <= i
    BY <1>5, <1>6, <1>9, <2>1 DEF Untried
  <2>3. mirrors[i].priority \in Int /\ mirrors[next].priority \in Int
    BY <1>2, <1>3, <1>5, <1>7
  <2>4. next < i
    BY <1>7, <1>9, <2>2, <2>3
  <2>5. mirrors[next].priority >= mirrors[i].priority
    BY <1>3, <1>5, <1>7, <2>4
  <2> QED BY <1>9, <2>3, <2>5
<1> QED BY <1>4, <1>7, <1>8, <1>9

\* Whatever packages, settings and user files a start finds, a plugin asks only
\* mirrors that are enabled and permitted by its manifest, the preferred ones
\* first (plugin_manifest.cpp:300-333, plugin_runtime.cpp:268-274).
THEOREM AsksOnlyPermitted == StartSpec => AsksPermittedMirrors
<1>1. StartedInv /\ IInv /\ [StartNext]_<<startVars, vars>> =>
        [\A entry \in Range(registry) :
           at = "next" /\ at' = "begin" /\ RunsAt(entry.place) =>
             LET mirrors == Mirrors(entry.place)
             IN /\ mirrors[mirror'].enabled
                /\ AllowsNetwork(Manifest(Package(entry.place)), mirrors[mirror'].url)
                /\ \A i \in 1..NMirrors :
                     /\ mirrors[i].enabled /\ pin = 0
                     /\ mirrors[i].priority > mirrors[mirror'].priority
                     => i <= mirror]_vars
  BY OnlyTryMirror, AsksPermitted DEF StartNext
<1> QED
  BY <1>1, StartedRuntime, InitInv, NextInv, StartInitOK, StartNextKeeps, PTL
     DEF StartSpec, AsksPermittedMirrors
-----------------------------------------------------------------------------
(* What the scan finds.                                                    *)

\* What is found are the first sound packages of each id; a place is done once
\* the scan is over for it and it has been registered, or cannot be.
Found == {place \in Looked : First(place)}
Done == {place \in OfferedPlaces : stage # "builtin" /\ place \notin Range(scanned)}
Ids(places) == {Id(place) : place \in places}

StagesInv ==
    /\ stage \in {"builtin", "scan"} => visited = 0 /\ issues = <<>> /\ scanned = <<>>
    /\ stage = "builtin" => registry = <<>> /\ loadedIds = {}
    /\ stage = "scan" => loadedIds = Ids(IF BuiltinOffered THEN {0} ELSE {})
    /\ stage = "entries" =>
          /\ pluginIds = Ids(IF BuiltinOffered THEN {0} ELSE {})
                         \cup Ids({place \in Looked : Sound(place)})
          /\ Range(scanned) = Found
    /\ stage = "serving" => scanned = <<>>

\* What was found is registered from its beginning.
OrderInv ==
    /\ Range(scanned) \subseteq Found
    /\ \A i, j \in DOMAIN scanned : i < j => scanned[i] < scanned[j]
    /\ \A place \in Found \ Range(scanned), later \in Range(scanned) : place < later

ReportsInv ==
    /\ issues \in Seq(0..visited) /\ IsInjective(issues)
    /\ stage \in {"builtin", "scan", "entries"} => 0 \notin Range(issues)
    /\ \A place \in Looked : place \in Range(issues) <=> ~First(place)

ScanInv ==
    /\ stage \in {"builtin", "scan", "entries", "register", "serving"}
    /\ visited \in 0..Len(disk.directory)
    /\ StagesInv /\ OrderInv /\ ReportsInv /\ Lists(registry, Done)

-----------------------------------------------------------------------------
\* What is sound does not change, and what was found stays found: further
\* entries come behind it.
LEMMA SoundStays ==
    ASSUME UNCHANGED disk, NEW place
    PROVE  /\ BuiltinOffered' = BuiltinOffered /\ Sound(place)' = Sound(place)
           /\ Id(place)' = Id(place) /\ Keys(place)' = Keys(place)
BY DEF BuiltinOffered, Sound, Loads, Id, Keys, Package, Override

LEMMA FirstStays ==
    ASSUME UNCHANGED disk, visited \in Nat, visited' \in {visited, visited + 1}
    PROVE  \A place \in Looked : First(place)' <=> First(place)
<1> SUFFICES ASSUME NEW place \in Looked PROVE First(place)' <=> First(place)
  OBVIOUS
<1>1. \A other \in 1..visited' : other < place => other \in 1..visited
  BY DEF Looked
<1>2. \A other \in 1..visited : other \in 1..visited'
  OBVIOUS
<1>3. First(place) <=> /\ Sound(place) /\ ~(BuiltinOffered /\ Id(place) = Id(0))
                       /\ \A other \in 1..visited :
                            other < place /\ Sound(other) => Id(other) # Id(place)
  BY DEF First, Looked
<1>4. First(place)' <=> /\ Sound(place) /\ ~(BuiltinOffered /\ Id(place) = Id(0))
                        /\ \A other \in 1..visited' :
                             other < place /\ Sound(other) => Id(other) # Id(place)
  BY SoundStays DEF First, Looked
<1> QED BY <1>1, <1>2, <1>3, <1>4

\* Reading an entry: it is found if its id is not known.
LEMMA FirstIsNew ==
    ASSUME ScanInv, stage = "entries", visited \in Nat, UNCHANGED disk,
           visited' = visited + 1, NEW place, place = visited + 1
    PROVE  First(place)' <=> Sound(place) /\ Id(place) \notin pluginIds
<1>1. First(place)' <=> /\ Sound(place) /\ ~(BuiltinOffered /\ Id(place) = Id(0))
                        /\ \A other \in 1..visited' :
                             other < place /\ Sound(other) => Id(other) # Id(place)
  BY SoundStays DEF First, Looked
<1>2. \A other : other \in 1..visited' /\ other < place <=> other \in 1..visited
  OBVIOUS
<1>3. Id(place) \in pluginIds <=>
         \/ BuiltinOffered /\ Id(place) = Id(0)
         \/ \E other \in 1..visited : Sound(other) /\ Id(other) = Id(place)
  BY DEF ScanInv, StagesInv, Ids, Looked
<1> QED BY <1>1, <1>2, <1>3

LEMMA AdmittedIsNew ==
    ASSUME NEW place
    PROVE  Admitted(place) /\ Loads(place) <=> Sound(place) /\ Id(place) \notin pluginIds
BY DEF Admitted, Sound, Loads

-----------------------------------------------------------------------------
\* The keys of a package that loads.
LEMMA KeysAre ==
    ASSUME disk \in Starts, NEW place \in Loading
    PROVE  /\ Len(Keys(place)) \in Nat \ {0} /\ DOMAIN Keys(place) = 1..Len(Keys(place))
           /\ IsInjective(Keys(place))
           /\ \A i \in DOMAIN Keys(place) : Keys(place)[i][1] = Id(place)
<1> PICK providers : providers = Content(Package(place), Manifest(Package(place)).entry).providers
  OBVIOUS
<1>1. /\ providers \in Seq(Range(providers)) /\ DOMAIN providers = 1..Len(providers)
      /\ Len(providers) \in Nat
  BY LoadingIs, LenProperties DEF IsList
<1>2. providers # <<>> /\ IsInjective(providers)
  BY DEF Loading, Loads, ScriptLoads
<1>3. Len(providers) # 0
  BY <1>1, <1>2, EmptySeq
<1> PICK keys : keys = [i \in 1..Len(providers) |-> <<Id(place), providers[i]>>]
  OBVIOUS
<1>4. Keys(place) = keys
  BY <1>1 DEF Keys
<1>5. Len(keys) = Len(providers) /\ DOMAIN keys = 1..Len(providers)
  BY <1>1
<1>6. IsInjective(keys)
  BY <1>1, <1>2, <1>5 DEF IsInjective
<1>7. \A i \in DOMAIN keys : keys[i][1] = Id(place)
  OBVIOUS
<1> QED BY <1>1, <1>3, <1>4, <1>5, <1>6, <1>7

\* What is registered of a place is listed behind what was.
LEMMA ListsMore ==
    ASSUME StartedInv, NEW places, Lists(registry, places), NEW place \in Loading,
           place \in Nat, \A p \in places : p \in Nat /\ p < place
    PROVE  Lists(registry \o Registered(place), places \cup {place})
<1> PICK list : list = registry
  OBVIOUS
<1> PICK more : more = Registered(place)
  OBVIOUS
<1> PICK all : all = list \o more
  OBVIOUS
<1> PICK size : size = Len(Keys(place))
  OBVIOUS
<1> PICK n : n = Len(list)
  OBVIOUS
<1>1. size \in Nat \ {0} /\ DOMAIN Keys(place) = 1..size
  BY KeysAre DEF StartedInv
<1>2. /\ list \in Seq(Offers) /\ more \in Seq(Offers) /\ n \in Nat /\ DOMAIN list = 1..n
      /\ DOMAIN more = 1..size /\ Len(more) = size
  <2>1. list \in Seq(Offers) /\ more \in Seq(Offers)
    BY RegisteredIs DEF StartedInv
  <2>2. DOMAIN more = 1..size
    BY <1>1 DEF Registered
  <2>3. /\ n \in Nat /\ DOMAIN list = 1..n
        /\ Len(more) \in Nat /\ DOMAIN more = 1..Len(more)
    BY <2>1, LenProperties
  <2>4. Len(more) = size
    BY <1>1, <2>2, <2>3
  <2> QED BY <2>1, <2>2, <2>3, <2>4
<1>3. \A i \in 1..size : more[i].key = Keys(place)[i] /\ more[i].place = place
  BY <1>1 DEF Registered
<1>4. /\ DOMAIN all = 1..(n + size) /\ Len(all) = n + size
      /\ \A i \in 1..(n + size) : all[i] = IF i <= n THEN list[i] ELSE more[i - n]
  <2>1. all \in Seq(Offers) /\ Len(all) = n + size
    BY <1>2, ConcatProperties
  <2>2. \A i \in 1..(n + size) : all[i] = IF i <= n THEN list[i] ELSE more[i - n]
    BY <1>2, ConcatProperties
  <2> QED BY <2>1, <2>2, LenProperties
<1>5. \A i \in 1..n : i \in 1..(n + size) /\ all[i] = list[i] /\ list[i].place \in places
  <2>1. \A i \in 1..n : list[i].place \in places
    BY <1>2 DEF Lists, Range
  <2> QED BY <1>1, <1>2, <1>4, <2>1
<1>6. \A i \in 1..size : /\ n + i \in 1..(n + size)
                         /\ all[n + i].place = place /\ all[n + i].key = Keys(place)[i]
  <2> SUFFICES ASSUME NEW i \in 1..size
               PROVE  n + i \in 1..(n + size) /\ all[n + i] = more[i]
    BY <1>3
  <2>1. n + i \in 1..(n + size) /\ ~(n + i <= n) /\ (n + i) - n = i
    BY <1>1, <1>2
  <2> QED BY <1>4, <2>1
<1>7. \A i \in 1..(n + size) : i \in 1..n \/ (i \in (n + 1)..(n + size) /\ all[i].place = place)
  <2> SUFFICES ASSUME NEW i \in 1..(n + size), i \notin 1..n
               PROVE  i \in (n + 1)..(n + size) /\ all[i].place = place
    OBVIOUS
  <2>1. i - n \in 1..size /\ n + (i - n) = i /\ i \in (n + 1)..(n + size)
    BY <1>1, <1>2
  <2>2. all[n + (i - n)].place = place
    BY <1>6, <2>1
  <2> QED BY <2>1, <2>2
<1>8. {entry.place : entry \in Range(all)} = places \cup {place}
  <2>1. ASSUME NEW entry \in Range(all) PROVE entry.place \in places \cup {place}
    BY <1>4, <1>5, <1>7 DEF Range
  <2>2. ASSUME NEW p \in places PROVE \E entry \in Range(all) : entry.place = p
    <3>1. PICK i \in 1..n : list[i].place = p
      BY <1>2 DEF Lists, Range
    <3>2. all[i] \in Range(all) /\ all[i].place = p
      BY <1>4, <1>5, <3>1 DEF Range
    <3> QED BY <3>2
  <2>3. \E entry \in Range(all) : entry.place = place
    <3>1. 1 \in 1..size
      BY <1>1
    <3>2. all[n + 1] \in Range(all) /\ all[n + 1].place = place
      BY <1>4, <1>6, <3>1 DEF Range
    <3> QED BY <3>2
  <2> QED BY <2>1, <2>2, <2>3
<1>9. ASSUME NEW i \in DOMAIN all, NEW j \in DOMAIN all, i < j
      PROVE  all[i].place <= all[j].place
  <2>1. CASE j \in 1..n
    <3>1. i \in 1..n
      BY <1>2, <1>4, <1>9, <2>1
    <3>2. list[i].place <= list[j].place
      BY <1>2, <1>9, <2>1, <3>1 DEF Lists
    <3> QED BY <1>5, <2>1, <3>1, <3>2
  <2>2. CASE j \notin 1..n
    <3>1. all[j].place = place
      BY <1>4, <1>7, <2>2
    <3>2. all[i].place = place \/ (all[i].place \in Nat /\ all[i].place < place)
      BY <1>4, <1>5, <1>7
    <3> QED BY <3>1, <3>2
  <2> QED BY <2>1, <2>2
<1>10. ASSUME NEW p \in places \cup {place}
       PROVE  \E m \in 0..Len(all) :
                /\ {i \in DOMAIN all : all[i].place = p} = (m + 1)..(m + Len(Keys(p)))
                /\ \A i \in DOMAIN Keys(p) : all[m + i].key = Keys(p)[i]
  <2>1. CASE p = place
    <3>1. {i \in DOMAIN all : all[i].place = place} = (n + 1)..(n + size)
      <4>1. ASSUME NEW i \in DOMAIN all, all[i].place = place PROVE i \in (n + 1)..(n + size)
        <5>1. ~(place < place)
          OBVIOUS
        <5> QED BY <1>4, <1>5, <1>7, <4>1, <5>1
      <4>2. ASSUME NEW i \in (n + 1)..(n + size) PROVE i \in DOMAIN all /\ all[i].place = place
        <5>1. i \in 1..(n + size) /\ i \notin 1..n
          BY <1>1, <1>2
        <5> QED BY <1>4, <1>7, <5>1
      <4> QED BY <4>1, <4>2
    <3>2. n \in 0..Len(all)
      BY <1>1, <1>2, <1>4
    <3> QED BY <1>1, <1>6, <2>1, <3>1, <3>2
  <2>2. CASE p \in places /\ p # place
    <3>1. PICK m \in 0..n :
            /\ {i \in DOMAIN list : list[i].place = p} = (m + 1)..(m + Len(Keys(p)))
            /\ \A i \in DOMAIN Keys(p) : list[m + i].key = Keys(p)[i]
      BY <2>2 DEF Lists
    <3>2. {i \in DOMAIN all : all[i].place = p} = {i \in DOMAIN list : list[i].place = p}
      BY <1>2, <1>4, <1>5, <1>7, <2>2
    <3>3. ASSUME NEW i \in DOMAIN Keys(p) PROVE all[m + i].key = Keys(p)[i]
      <4>1. list[m + i].key = Keys(p)[i]
        BY <3>1
      <4>2. m + i \in 1..n
        <5>1. p \in Loading
          <6>1. PICK e \in 1..n : list[e].place = p
            BY <1>2, <2>2, SMTT(20) DEF Lists, Range
          <6>2. list[e] \in Offers
            BY <1>2, <6>1, ElementOfSeq
          <6> QED BY <6>1, <6>2 DEF Offers, Range, Registered
        <5>2. i \in 1..Len(Keys(p)) /\ Len(Keys(p)) \in Nat
          BY <5>1, KeysAre DEF StartedInv
        <5>3. m + i \in (m + 1)..(m + Len(Keys(p)))
          BY <5>2
        <5> QED BY <1>2, <3>1, <5>3
      <4> QED BY <1>5, <4>1, <4>2
    <3>4. m \in 0..Len(all)
      BY <1>1, <1>2, <1>4
    <3> QED BY <3>1, <3>2, <3>3, <3>4
  <2> QED BY <2>1, <2>2
<1>11. Lists(all, places \cup {place})
  BY <1>8, <1>9, <1>10 DEF Lists
<1> QED BY <1>11

LEMMA ListsStays ==
    ASSUME UNCHANGED disk, NEW list, NEW places
    PROVE  Lists(list, places)' <=> Lists(list, places)
BY SoundStays DEF Lists

\* No key of another plugin is one of this plugin's.
LEMMA NoClash ==
    ASSUME StartedInv, NEW places, Lists(registry, places), NEW place \in Loading,
           \A p \in places : Id(p) # Id(place)
    PROVE  /\ IsInjective(Keys(place))
           /\ Range(Keys(place)) \cap {entry.key : entry \in Range(registry)} = {}
<1>1. IsInjective(Keys(place)) /\ \A key \in Range(Keys(place)) : key[1] = Id(place)
  BY KeysAre DEF StartedInv, Range
<1>2. ASSUME NEW entry \in Range(registry) PROVE entry.key[1] # Id(place)
  <2>1. entry.place \in places
    BY DEF Lists
  <2>2. entry \in Offers
    BY LenProperties, ElementOfSeq DEF StartedInv, Range
  <2>3. PICK p \in Loading : entry \in Range(Registered(p))
    BY <2>2 DEF Offers
  <2>4. PICK i \in DOMAIN Keys(p) : entry = [key |-> Keys(p)[i], place |-> p]
    BY <2>3 DEF Range, Registered
  <2>5. entry.place = p /\ entry.key = Keys(p)[i] /\ Keys(p)[i][1] = Id(p)
    BY <2>4, KeysAre DEF StartedInv
  <2> QED BY <2>1, <2>5
<1> QED BY <1>1, <1>2

Short(place) == Range(Keys(place)) \cap LongKeys = {}

\* registerProviders() takes a package whose keys are short enough.
LEMMA RegisterLists ==
    ASSUME StartedInv, NEW places, Lists(registry, places), NEW place \in Loading,
           place \in Nat, \A p \in places : p \in Nat /\ p < place /\ Id(p) # Id(place),
           Register(place)
    PROVE  LET fits == IF Short(place) THEN {place} ELSE {}
           IN Lists(registry', places \cup fits) /\ loadedIds' = loadedIds \cup Ids(fits)
<1>1. /\ IsInjective(Keys(place))
      /\ Range(Keys(place)) \cap {entry.key : entry \in Range(registry)} = {}
  BY NoClash
<1>2. CASE Short(place)
  <2>1. registry' = registry \o Registered(place) /\ loadedIds' = loadedIds \cup {Id(place)}
    BY <1>1, <1>2 DEF Register, Registered, Short
  <2>2. Ids({place}) = {Id(place)}
    BY DEF Ids
  <2> QED BY <1>2, <2>1, <2>2, ListsMore
<1>3. CASE ~Short(place)
  <2>1. registry' = registry /\ loadedIds' = loadedIds
    BY <1>3 DEF Register, Short
  <2>2. Ids({}) = {} /\ places \cup {} = places /\ loadedIds \cup {} = loadedIds
    BY DEF Ids
  <2> QED BY <1>3, <2>1, <2>2
<1> QED BY <1>2, <1>3

-----------------------------------------------------------------------------
(* Lists that grow at the end and shrink at the beginning.                 *)

LEMMA RangeOfAppend ==
    ASSUME NEW S, NEW list \in Seq(S), NEW c \in S
    PROVE  /\ DOMAIN Append(list, c) = 1..(Len(list) + 1) /\ DOMAIN list = 1..Len(list)
           /\ Len(list) \in Nat
           /\ \A i \in 1..Len(list) : Append(list, c)[i] = list[i]
           /\ Append(list, c)[Len(list) + 1] = c
           /\ Range(Append(list, c)) = Range(list) \cup {c}
<1> DEFINE more == Append(list, c)
<1>1. Len(list) \in Nat /\ DOMAIN list = 1..Len(list)
  BY LenProperties
<1>2. /\ more \in Seq(S) /\ Len(more) = Len(list) + 1
      /\ \A i \in 1..Len(list) : more[i] = list[i]
      /\ more[Len(list) + 1] = c
  BY AppendProperties
<1>3. DOMAIN more = 1..(Len(list) + 1)
  BY <1>2, LenProperties
<1> HIDE DEF more
<1>4. \A i \in 1..(Len(list) + 1) : i \in 1..Len(list) \/ i = Len(list) + 1
  BY <1>1
<1>5. \A i \in 1..Len(list) : i \in 1..(Len(list) + 1)
  BY <1>1
<1>6. Len(list) + 1 \in 1..(Len(list) + 1)
  BY <1>1
<1>7. Range(more) = Range(list) \cup {c}
  BY <1>1, <1>2, <1>3, <1>4, <1>5, <1>6 DEF Range
<1> QED BY <1>1, <1>2, <1>3, <1>7 DEF more

LEMMA AppendRange ==
    ASSUME NEW S, NEW list \in Seq(S), NEW c \in S
    PROVE  Range(Append(list, c)) = Range(list) \cup {c}
BY RangeOfAppend

LEMMA AppendInjects ==
    ASSUME NEW S, NEW list \in Seq(S), NEW c \in S, IsInjective(list), c \notin Range(list)
    PROVE  IsInjective(Append(list, c))
<1> DEFINE more == Append(list, c)
<1>1. /\ DOMAIN more = 1..(Len(list) + 1) /\ DOMAIN list = 1..Len(list) /\ Len(list) \in Nat
      /\ \A i \in 1..Len(list) : more[i] = list[i]
      /\ more[Len(list) + 1] = c
  BY RangeOfAppend
<1> HIDE DEF more
<1>2. \A i \in DOMAIN more : i \in DOMAIN list \/ i = Len(list) + 1
  BY <1>1
<1>3. \A i \in DOMAIN list : more[i] = list[i] /\ list[i] # c
  BY <1>1 DEF Range
<1>4. \A i, j \in DOMAIN list : list[i] = list[j] => i = j
  BY DEF IsInjective
<1>5. IsInjective(more)
  BY <1>1, <1>2, <1>3, <1>4 DEF IsInjective
<1> QED BY <1>5 DEF more

LEMMA RangeOfTail ==
    ASSUME NEW S, NEW list \in Seq(S), list # <<>>
    PROVE  /\ Range(list) = {Head(list)} \cup Range(Tail(list))
           /\ 1 \in DOMAIN list /\ Head(list) = list[1]
           /\ \A i \in DOMAIN Tail(list) :
                i \in Nat /\ i >= 1 /\ i + 1 \in DOMAIN list /\ Tail(list)[i] = list[i + 1]
<1> DEFINE rest == Tail(list)
<1>1. /\ Len(list) \in Nat \ {0} /\ DOMAIN list = 1..Len(list)
      /\ rest \in Seq(S) /\ Len(rest) = Len(list) - 1
      /\ Head(list) = list[1] /\ \A i \in 1..Len(rest) : rest[i] = list[i + 1]
  BY HeadTailProperties, LenProperties, EmptySeq
<1>2. DOMAIN rest = 1..(Len(list) - 1)
  BY <1>1, LenProperties
<1> HIDE DEF rest
<1>3. \A i \in DOMAIN rest : i \in Nat /\ i >= 1 /\ i + 1 \in DOMAIN list /\ rest[i] = list[i + 1]
  BY <1>1, <1>2
<1>4. 1 \in DOMAIN list
  BY <1>1
<1>5. ASSUME NEW i \in DOMAIN list, i # 1 PROVE i - 1 \in DOMAIN rest /\ rest[i - 1] = list[i]
  <2>1. i - 1 \in DOMAIN rest /\ (i - 1) + 1 = i
    BY <1>1, <1>2, <1>5
  <2> QED BY <1>3, <2>1
<1>6. Range(list) = {Head(list)} \cup Range(rest)
  BY <1>1, <1>3, <1>4, <1>5 DEF Range
<1> QED BY <1>1, <1>3, <1>4, <1>6 DEF rest

-----------------------------------------------------------------------------
(* Every step of a start keeps the account of the scan.                    *)

Builtins == IF BuiltinOffered THEN {0} ELSE {}

LEMMA FoundIs ==
    ASSUME StartedInv, ScanInv
    PROVE  /\ visited \in Nat /\ 1..visited \subseteq DOMAIN disk.directory
           /\ \A place \in Found : place \in 1..visited /\ place \in Loading /\ place \in Nat
           /\ 0 \notin Found /\ Range(scanned) \subseteq Found
<1>1. visited \in 0..Len(disk.directory) /\ Range(scanned) \subseteq Found
  BY DEF ScanInv, OrderInv
<1>2. DOMAIN disk.directory = 1..Len(disk.directory) /\ Len(disk.directory) \in Nat
  BY StartIs DEF StartedInv
<1>3. visited \in Nat /\ 1..visited \subseteq DOMAIN disk.directory
  BY <1>1, <1>2
<1>4. ASSUME NEW place \in Found
      PROVE  place \in 1..visited /\ place \in Loading /\ place \in Nat
  <2>1. place \in 1..visited /\ Loads(place)
    BY DEF Found, First, Sound, Looked
  <2> QED BY <1>3, <2>1 DEF Loading
<1>5. 0 \notin Found
  BY <1>3, <1>4
<1> QED BY <1>1, <1>3, <1>4, <1>5

LEMMA DoneIs ==
    ASSUME StartedInv, ScanInv
    PROVE  Done = IF stage = "builtin" THEN {}
                  ELSE {place \in Found \ Range(scanned) : Short(place)} \cup Builtins
<1>1. OfferedPlaces = {place \in Found : Short(place)} \cup Builtins
  BY DEF OfferedPlaces, Found, Short, Builtins
<1>2. 0 \notin Range(scanned)
  BY FoundIs
<1>3. \A place \in Builtins : place = 0
  BY DEF Builtins
<1> QED BY <1>1, <1>2, <1>3 DEF Done

\* While the scan reads no entry, nothing is found and nothing is lost.
LEMMA FoundStays ==
    ASSUME UNCHANGED <<disk, visited>>
    PROVE  /\ Looked' = Looked /\ \A place : First(place)' <=> First(place)
           /\ Found' = Found /\ OfferedPlaces' = OfferedPlaces
           /\ BuiltinOffered' = BuiltinOffered
           /\ \A places : Ids(places)' = Ids(places)
<1>1. Looked' = Looked
  BY DEF Looked
<1>2. BuiltinOffered' = BuiltinOffered
  BY SoundStays
<1>3. ASSUME NEW place PROVE First(place)' <=> First(place)
  BY <1>1, SoundStays DEF First
<1>4. Found' = Found
  BY <1>1, <1>3 DEF Found
<1>5. OfferedPlaces' = OfferedPlaces
  BY <1>1, <1>2, <1>3, SoundStays DEF OfferedPlaces
<1>6. ASSUME NEW places PROVE Ids(places)' = Ids(places)
  BY SoundStays DEF Ids
<1> QED BY <1>1, <1>2, <1>3, <1>4, <1>5, <1>6

LEMMA FoundGrows ==
    ASSUME ScanInv, stage = "entries", visited \in Nat, UNCHANGED disk,
           visited' = visited + 1, NEW place, place = visited + 1
    PROVE  LET new == Sound(place) /\ Id(place) \notin pluginIds IN
           /\ Looked' = Looked \cup {place} /\ place \notin Looked
           /\ \A p \in Looked : First(p)' <=> First(p)
           /\ First(place)' <=> new
           /\ Found' = Found \cup (IF new THEN {place} ELSE {})
           /\ BuiltinOffered' = BuiltinOffered
<1>1. Looked' = Looked \cup {place} /\ place \notin Looked
  BY DEF Looked
<1>2. \A p \in Looked : First(p)' <=> First(p)
  BY FirstStays
<1>3. First(place)' <=> Sound(place) /\ Id(place) \notin pluginIds
  BY FirstIsNew
<1>4. Found' = Found \cup (IF Sound(place) /\ Id(place) \notin pluginIds THEN {place} ELSE {})
  BY <1>1, <1>2, <1>3 DEF Found
<1> QED BY <1>1, <1>2, <1>3, <1>4, SoundStays

LEMMA ListsDone ==
    ASSUME UNCHANGED disk, NEW list, NEW places, Lists(list, places),
           registry' = list, Done' = places
    PROVE  Lists(registry, Done)'
BY SoundStays DEF Lists

LEMMA StartInitScan == StartInit => ScanInv
<1> SUFFICES ASSUME StartInit PROVE ScanInv
  OBVIOUS
<1> USE DEF StartInit
<1>1. /\ Looked = {} /\ Found = {} /\ Done = {}
      /\ Range(scanned) = {} /\ Range(issues) = {} /\ DOMAIN scanned = {} /\ DOMAIN issues = {}
  BY DEF Looked, Found, Done, Range
<1>2. visited \in 0..Len(disk.directory)
  BY StartIs
<1>3. StagesInv
  BY DEF StagesInv
<1>4. OrderInv
  BY <1>1 DEF OrderInv
<1>5. ReportsInv
  BY <1>1 DEF ReportsInv, IsInjective
<1>6. Lists(registry, Done)
  <2>1. Range(registry) = {} /\ DOMAIN registry = {}
    BY DEF Range
  <2> QED BY <1>1, <2>1 DEF Lists
<1> QED BY <1>2, <1>3, <1>4, <1>5, <1>6 DEF ScanInv

LEMMA ScanRests ==
    ASSUME ScanInv, UNCHANGED startVars
    PROVE  ScanInv'
<1> USE DEF startVars
<1>1. Done' = Done
  BY FoundStays DEF Done
<1>2. StagesInv'
  BY FoundStays, SoundStays DEF ScanInv, StagesInv
<1>3. OrderInv'
  BY FoundStays DEF ScanInv, OrderInv
<1>4. ReportsInv'
  BY FoundStays DEF ScanInv, ReportsInv
<1>5. Lists(registry, Done)'
  <2> PICK list, places : list = registry /\ places = Done
    OBVIOUS
  <2>1. Lists(list, places) /\ registry' = list /\ Done' = places
    BY <1>1 DEF ScanInv
  <2> QED BY <2>1, ListsDone
<1> QED BY <1>2, <1>3, <1>4, <1>5 DEF ScanInv

LEMMA ScanLoadBuiltin ==
    ASSUME StartedInv, ScanInv, LoadBuiltin
    PROVE  ScanInv'
<1>1. /\ stage = "builtin" /\ stage' = "scan"
      /\ visited = 0 /\ issues = <<>> /\ scanned = <<>> /\ registry = <<>> /\ loadedIds = {}
      /\ UNCHANGED <<disk, visited, pluginIds, scanned, issues>>
  BY DEF LoadBuiltin, ScanInv, StagesInv
<1>2. /\ Looked = {} /\ OfferedPlaces = Builtins /\ Range(scanned) = {}
      /\ Lists(registry, {}) /\ Done' = Builtins
  <2>1. Looked = {} /\ OfferedPlaces = Builtins
    BY <1>1 DEF Looked, OfferedPlaces, Builtins
  <2>2. Range(scanned) = {} /\ Done = {}
    BY <1>1 DEF Range, Done
  <2>3. Done' = OfferedPlaces'
    BY <1>1, <2>2 DEF Done
  <2> QED BY <1>1, <2>1, <2>2, <2>3, FoundStays DEF ScanInv
<1>3. Lists(registry', Builtins) /\ loadedIds' = Ids(Builtins)
  <2>1. CASE disk.settings.enabled /\ disk.settings.load_builtin /\ Loads(0)
    <3>1. 0 \in Loading /\ Register(0)
      BY <2>1 DEF Loading, LoadBuiltin
    <3>2. Builtins = IF Short(0) THEN {0} ELSE {}
      BY <2>1 DEF Builtins, BuiltinOffered, Short
    <3>3. LET fits == IF Short(0) THEN {0} ELSE {}
          IN Lists(registry', {} \cup fits) /\ loadedIds' = loadedIds \cup Ids(fits)
      BY <1>2, <3>1, RegisterLists
    <3> QED BY <1>1, <3>2, <3>3
  <2>2. CASE ~(disk.settings.enabled /\ disk.settings.load_builtin /\ Loads(0))
    <3>1. Builtins = {} /\ registry' = registry /\ loadedIds' = loadedIds
      BY <2>2 DEF Builtins, BuiltinOffered, LoadBuiltin
    <3>2. Ids({}) = {}
      BY DEF Ids
    <3> QED BY <1>1, <1>2, <3>1, <3>2
  <2> QED BY <2>1, <2>2
<1>4. StagesInv'
  BY <1>1, <1>3, FoundStays, SoundStays DEF StagesInv, Builtins
<1>5. OrderInv' /\ ReportsInv'
  BY <1>1, FoundStays DEF ScanInv, OrderInv, ReportsInv
<1>6. Lists(registry, Done)'
  <2> PICK list, places : list = registry' /\ places = Builtins
    OBVIOUS
  <2>1. Lists(list, places) /\ registry' = list /\ Done' = places
    BY <1>2, <1>3
  <2> QED BY <1>1, <2>1, ListsDone
<1> QED BY <1>1, <1>4, <1>5, <1>6 DEF ScanInv

\* The steps between the loops: what is registered stays, and no entry is read.
LEMMA ScanBetween ==
    ASSUME StartedInv, ScanInv, BeginScan \/ NoScan \/ EndStart
    PROVE  ScanInv'
<1>1. /\ stage # "builtin" /\ stage' \in {"entries", "serving"}
      /\ UNCHANGED <<disk, visited, scanned, issues, registry, loadedIds>>
  BY DEF BeginScan, NoScan, EndStart
<1>2. Done' = Done
  BY <1>1, FoundStays DEF Done
<1>3. StagesInv'
  <2>1. CASE BeginScan
    <3>1. /\ stage = "scan" /\ stage' = "entries" /\ visited = 0 /\ scanned = <<>>
          /\ pluginIds' = Ids(Builtins)
      BY <2>1 DEF BeginScan, ScanInv, StagesInv, Builtins
    <3>2. Looked = {}
      BY <3>1 DEF Looked
    <3>3. Found = {} /\ Range(scanned) = {} /\ Ids({place \in Looked : Sound(place)}) = {}
      BY <3>1, <3>2 DEF Found, Range, Ids
    <3>4. Found' = {} /\ Looked' = {} /\ Range(scanned') = {}
      BY <1>1, <3>2, <3>3, FoundStays
    <3>5. (pluginIds = Ids(IF BuiltinOffered THEN {0} ELSE {})
                       \cup Ids({place \in Looked : Sound(place)}))'
      <4>1. Ids({place \in Looked : Sound(place)})' = {}
        BY <3>4 DEF Ids
      <4>2. Ids(IF BuiltinOffered THEN {0} ELSE {})' = Ids(Builtins)
        BY <1>1, FoundStays, SoundStays DEF Ids, Builtins
      <4> QED BY <3>1, <4>1, <4>2
    <3> QED BY <3>1, <3>4, <3>5 DEF StagesInv
  <2>2. CASE NoScan \/ EndStart
    <3>1. scanned' = <<>> /\ stage' = "serving"
      BY <2>2 DEF NoScan, EndStart, ScanInv, StagesInv
    <3> QED BY <3>1 DEF StagesInv
  <2> QED BY <2>1, <2>2
<1>4. OrderInv'
  BY <1>1, FoundStays DEF ScanInv, OrderInv
<1>5. ReportsInv'
  <2>1. stage' = "entries" => stage = "scan"
    BY DEF BeginScan, NoScan, EndStart
  <2> QED BY <1>1, <2>1, FoundStays DEF ScanInv, ReportsInv
<1>6. Lists(registry, Done)'
  <2> PICK list, places : list = registry /\ places = Done
    OBVIOUS
  <2>1. Lists(list, places) /\ registry' = list /\ Done' = places
    BY <1>1, <1>2 DEF ScanInv
  <2> QED BY <1>1, <2>1, ListsDone
<1> QED BY <1>1, <1>3, <1>4, <1>5, <1>6 DEF ScanInv

\* The turns of the scan: the entry is found if its id is not known, and reported
\* if it is not found.
LEMMA ScanEntry ==
    ASSUME StartedInv, ScanInv, SkipEntry \/ LoadEntry
    PROVE  ScanInv'
<1> PICK place : place = visited + 1
  OBVIOUS
<1>1. /\ stage = "entries" /\ visited < Entries /\ visited' = visited + 1
      /\ UNCHANGED <<disk, stage, registry, loadedIds>>
      /\ visited \in Nat /\ place \in Nat /\ place > visited
  <2>1. visited \in Nat
    BY DEF StartedInv
  <2> QED BY <2>1 DEF SkipEntry, LoadEntry
<1> PICK new \in BOOLEAN : new <=> Sound(place) /\ Id(place) \notin pluginIds
  OBVIOUS
<1>2. /\ new => LoadEntry /\ pluginIds' = pluginIds \cup {Id(place)}
                /\ scanned' = Append(scanned, place) /\ issues' = issues
      /\ ~new => SkipEntry /\ pluginIds' = pluginIds
                 /\ scanned' = scanned /\ issues' = Append(issues, place)
  <2>1. new <=> Admitted(place) /\ Loads(place)
    BY AdmittedIsNew
  <2> QED BY <2>1 DEF SkipEntry, LoadEntry
<1>3. /\ Looked' = Looked \cup {place} /\ place \notin Looked
      /\ \A p \in Looked : First(p)' <=> First(p)
      /\ First(place)' <=> new
      /\ Found' = Found \cup (IF new THEN {place} ELSE {})
      /\ BuiltinOffered' = BuiltinOffered
  BY <1>1, FoundGrows
<1>4. visited' \in 0..Len(disk'.directory)
  <2>1. place \in DOMAIN disk.directory
    BY <1>1, EntryIsThere DEF StartedInv
  <2> QED BY <1>1, <2>1, StartIs DEF StartedInv
<1>5. /\ Range(scanned) = Found /\ \A p \in Found : p \in Nat /\ p < place
      /\ scanned \in Seq(Nat) /\ DOMAIN scanned = 1..Len(scanned) /\ Len(scanned) \in Nat
  <2>1. Range(scanned) = Found
    BY <1>1 DEF ScanInv, StagesInv
  <2>2. \A p \in Found : p \in Nat /\ p < place
    BY <1>1, FoundIs
  <2>3. Len(scanned) \in Nat /\ DOMAIN scanned = 1..Len(scanned)
    BY LenProperties DEF StartedInv
  <2>4. scanned \in Seq(Nat)
    <3>1. \A i \in 1..Len(scanned) : scanned[i] \in Nat
      BY <2>1, <2>2, <2>3 DEF Range
    <3> QED BY <3>1, SeqMonotonic DEF StartedInv
  <2> QED BY <2>1, <2>2, <2>3, <2>4
<1>6. Range(scanned') = Found'
  <2>1. CASE new
    <3>1. Range(Append(scanned, place)) = Range(scanned) \cup {place}
      <4>1. scanned \in Seq(Nat) /\ place \in Nat
        BY <1>1, <1>5
      <4> QED BY <4>1, RangeOfAppend
    <3>2. Range(scanned') = Range(Append(scanned, place))
      BY <1>2, <2>1
    <3> QED BY <1>3, <1>5, <2>1, <3>1, <3>2
  <2>2. CASE ~new
    BY <1>2, <1>3, <1>5, <2>2
  <2> QED BY <2>1, <2>2
<1>7. StagesInv'
  <2>1. Ids({p \in Looked : Sound(p)})'
           = Ids({p \in Looked : Sound(p)}) \cup (IF Sound(place) THEN {Id(place)} ELSE {})
    BY <1>1, <1>3, SoundStays DEF Ids
  <2>2. Ids(IF BuiltinOffered THEN {0} ELSE {})' = Ids(IF BuiltinOffered THEN {0} ELSE {})
    BY <1>1, SoundStays DEF Ids
  <2>3. pluginIds = Ids(IF BuiltinOffered THEN {0} ELSE {}) \cup Ids({p \in Looked : Sound(p)})
    BY <1>1 DEF ScanInv, StagesInv
  <2>4. pluginIds' = pluginIds \cup (IF Sound(place) THEN {Id(place)} ELSE {})
    BY <1>2
  <2>5. (pluginIds = Ids(IF BuiltinOffered THEN {0} ELSE {}) \cup Ids({p \in Looked : Sound(p)}))'
    BY <2>1, <2>2, <2>3, <2>4
  <2> QED BY <1>1, <1>6, <2>5 DEF StagesInv
<1>8. OrderInv'
  <2>1. ASSUME NEW i \in DOMAIN scanned', NEW j \in DOMAIN scanned', i < j
        PROVE  scanned'[i] < scanned'[j]
    <3>1. \A k, l \in DOMAIN scanned : k < l => scanned[k] < scanned[l]
      BY DEF ScanInv, OrderInv
    <3>2. CASE ~new
      BY <1>2, <2>1, <3>1, <3>2
    <3>3. CASE new
      <4>1. /\ DOMAIN scanned' = 1..(Len(scanned) + 1)
            /\ \A k \in 1..Len(scanned) : scanned'[k] = scanned[k]
            /\ scanned'[Len(scanned) + 1] = place
        BY <1>1, <1>2, <1>5, <3>3, RangeOfAppend, SMTT(20)
      <4>2. i \in 1..Len(scanned) /\ (j \in 1..Len(scanned) \/ j = Len(scanned) + 1)
        BY <1>5, <2>1, <4>1
      <4>3. CASE j \in 1..Len(scanned)
        BY <1>5, <2>1, <3>1, <4>1, <4>2, <4>3
      <4>4. CASE j = Len(scanned) + 1
        <5>1. scanned[i] < place
          BY <1>5, <4>2 DEF Range
        <5> QED BY <4>1, <4>2, <4>4, <5>1
      <4> QED BY <4>2, <4>3, <4>4
    <3> QED BY <3>2, <3>3
  <2> QED BY <1>6, <2>1 DEF OrderInv
<1>9. ReportsInv'
  <2>1. issues \in Seq(0..visited')
    <3>1. issues \in Seq(0..visited)
      BY DEF ScanInv, ReportsInv
    <3> PICK S, T : S = 0..visited /\ T = 0..visited'
      OBVIOUS
    <3>2. S \subseteq T
      BY <1>1
    <3>3. issues \in Seq(S)
      BY <3>1
    <3>4. issues \in Seq(T)
      BY <3>2, <3>3, SeqMonotonic
    <3> QED BY <3>4
  <2>2. place \notin Range(issues) /\ place # 0 /\ place \in 0..visited'
    <3>1. place \notin 0..visited /\ place # 0 /\ place \in 0..visited'
      BY <1>1
    <3>2. \A n \in Range(issues) : n \in 0..visited
      BY LenProperties, ElementOfSeq DEF ScanInv, ReportsInv, Range
    <3> QED BY <3>1, <3>2
  <2>3. /\ IsInjective(issues) /\ 0 \notin Range(issues)
        /\ \A p \in Looked : p \in Range(issues) <=> ~First(p)
    BY <1>1 DEF ScanInv, ReportsInv
  <2>4. /\ issues' \in Seq(0..visited') /\ IsInjective(issues')
        /\ Range(issues') = Range(issues) \cup (IF new THEN {} ELSE {place})
    <3>1. CASE new
      BY <1>2, <2>1, <2>3, <3>1
    <3>2. CASE ~new
      <4>1. /\ Range(Append(issues, place)) = Range(issues) \cup {place}
            /\ IsInjective(Append(issues, place)) /\ Append(issues, place) \in Seq(0..visited')
        <5> PICK S : S = 0..visited'
          OBVIOUS
        <5>1. /\ issues \in Seq(S) /\ place \in S /\ place \notin Range(issues)
              /\ IsInjective(issues)
          BY <2>1, <2>2, <2>3
        <5>2. Range(Append(issues, place)) = Range(issues) \cup {place}
          BY <5>1, AppendRange, Zenon
        <5>3. IsInjective(Append(issues, place))
          BY <5>1, AppendInjects
        <5>4. Append(issues, place) \in Seq(S)
          BY <5>1, AppendProperties
        <5> QED BY <5>2, <5>3, <5>4
      <4>2. issues' = Append(issues, place)
        BY <1>2, <3>2
      <4> QED BY <3>2, <4>1, <4>2
    <3> QED BY <3>1, <3>2
  <2>5. 0 \notin Range(issues')
    BY <2>2, <2>3, <2>4
  <2>6. \A p \in Looked' : p \in Range(issues') <=> ~First(p)'
    BY <1>3, <2>2, <2>3, <2>4
  <2> QED BY <1>1, <2>4, <2>5, <2>6 DEF ReportsInv
<1>10. Lists(registry, Done)'
  <2>1. Done = Builtins
    BY <1>1, <1>5, DoneIs
  <2>2. Done' = Builtins
    <3>1. OfferedPlaces' = {p \in Found' : Short(p)'} \cup (IF BuiltinOffered' THEN {0} ELSE {})
      BY DEF OfferedPlaces, Found, Short
    <3>2. 0 \notin Found'
      BY <1>3, <1>1, FoundIs
    <3> QED BY <1>1, <1>3, <1>6, <3>1, <3>2 DEF Done, Builtins
  <2> PICK list, places : list = registry /\ places = Builtins
    OBVIOUS
  <2>3. Lists(list, places) /\ registry' = list /\ Done' = places
    BY <1>1, <2>1, <2>2 DEF ScanInv
  <2> QED BY <1>1, <2>3, ListsDone
<1> QED BY <1>1, <1>4, <1>7, <1>8, <1>9, <1>10 DEF ScanInv

\* The end of the scan: place 0 says that there were too many packages.
LEMMA ScanEnd ==
    ASSUME StartedInv, ScanInv, EndScan
    PROVE  ScanInv'
<1>1. /\ stage = "entries" /\ stage' = "register"
      /\ issues' \in {issues, Append(issues, 0)}
      /\ UNCHANGED <<disk, visited, pluginIds, scanned, registry, loadedIds>>
  BY DEF EndScan
<1>2. Done' = Done
  BY <1>1, FoundStays DEF Done
<1>3. StagesInv' /\ OrderInv'
  BY <1>1, FoundStays DEF ScanInv, StagesInv, OrderInv
<1>4. ReportsInv'
  <2>1. /\ issues \in Seq(0..visited) /\ IsInjective(issues) /\ 0 \notin Range(issues)
        /\ \A p \in Looked : p \in Range(issues) <=> ~First(p)
    BY <1>1 DEF ScanInv, ReportsInv
  <2>2. 0 \in 0..visited /\ 0 \notin Looked
    BY DEF StartedInv, Looked
  <2>3. /\ issues' \in Seq(0..visited) /\ IsInjective(issues')
        /\ Range(issues') \in {Range(issues), Range(issues) \cup {0}}
    <3>1. CASE issues' = issues
      BY <2>1, <3>1
    <3>2. CASE issues' = Append(issues, 0)
      <4>1. /\ Range(Append(issues, 0)) = Range(issues) \cup {0}
            /\ IsInjective(Append(issues, 0)) /\ Append(issues, 0) \in Seq(0..visited)
        <5> PICK S : S = 0..visited
          OBVIOUS
        <5>1. /\ issues \in Seq(S) /\ 0 \in S /\ 0 \notin Range(issues)
              /\ IsInjective(issues)
          BY <2>1, <2>2
        <5>2. Range(Append(issues, 0)) = Range(issues) \cup {0}
          BY <5>1, AppendRange, Zenon
        <5>3. IsInjective(Append(issues, 0))
          BY <5>1, AppendInjects
        <5>4. Append(issues, 0) \in Seq(S)
          BY <5>1, AppendProperties
        <5> QED BY <5>2, <5>3, <5>4
      <4> QED BY <3>2, <4>1
    <3> QED BY <1>1, <3>1, <3>2
  <2>4. \A p \in Looked' : p \in Range(issues') <=> ~First(p)'
    BY <1>1, <2>1, <2>2, <2>3, FoundStays
  <2> QED BY <1>1, <2>3, <2>4 DEF ReportsInv
<1>5. Lists(registry, Done)'
  <2> PICK list, places : list = registry /\ places = Done
    OBVIOUS
  <2>1. Lists(list, places) /\ registry' = list /\ Done' = places
    BY <1>1, <1>2 DEF ScanInv
  <2> QED BY <1>1, <2>1, ListsDone
<1> QED BY <1>1, <1>3, <1>4, <1>5 DEF ScanInv

\* What was found is registered behind what is: the first of its id, and of a
\* later place.
LEMMA ScanRegister ==
    ASSUME StartedInv, ScanInv, RegisterNext
    PROVE  ScanInv'
<1> PICK head : head = Head(scanned)
  OBVIOUS
<1> PICK rest : rest = Tail(scanned)
  OBVIOUS
<1>1. /\ stage = "register" /\ scanned # <<>> /\ Register(head) /\ scanned' = rest
      /\ UNCHANGED <<disk, stage, visited, pluginIds, issues>>
  BY DEF RegisterNext
<1>2. /\ Range(scanned) = {head} \cup Range(rest)
      /\ 1 \in DOMAIN scanned /\ head = scanned[1]
      /\ \A i \in DOMAIN rest :
           i \in Nat /\ i >= 1 /\ i + 1 \in DOMAIN scanned /\ rest[i] = scanned[i + 1]
  BY <1>1, RangeOfTail DEF StartedInv
<1>3. /\ Range(scanned) \subseteq Found
      /\ \A i, j \in DOMAIN scanned : i < j => scanned[i] < scanned[j]
      /\ \A place \in Found \ Range(scanned), later \in Range(scanned) : place < later
  BY DEF ScanInv, OrderInv
<1>4. /\ head \in Found /\ head \in Loading /\ head \in Nat /\ 0 < head
      /\ First(head) /\ head \in Looked
  <2>1. head \in Found
    BY <1>2, <1>3
  <2> QED BY <2>1, FoundIs DEF Found
<1>5. \A i \in DOMAIN rest : head < rest[i]
  BY <1>2, <1>3
<1>6. \A place \in Range(rest) : head < place
  BY <1>5 DEF Range
<1>7. head \notin Range(rest)
  BY <1>4, <1>6
<1>8. Done = {place \in Found \ Range(scanned) : Short(place)} \cup Builtins
  BY <1>1, DoneIs
<1>9. ASSUME NEW place \in Done
      PROVE  place \in Nat /\ place < head /\ Id(place) # Id(head)
  <2>1. CASE place \in Builtins
    <3>1. BuiltinOffered /\ place = 0
      BY <2>1 DEF Builtins
    <3> QED BY <1>4, <3>1 DEF First
  <2>2. CASE place \in Found \ Range(scanned)
    <3>1. place \in Nat /\ place < head
      BY <1>2, <1>3, <2>2, FoundIs
    <3>2. place \in Looked /\ Sound(place)
      BY <2>2 DEF Found, First
    <3> QED BY <1>4, <3>1, <3>2 DEF First
  <2> QED BY <1>8, <2>1, <2>2
<1> PICK fits : fits = IF Short(head) THEN {head} ELSE {}
  OBVIOUS
<1>10. Lists(registry', Done \cup fits)
  <2>1. Lists(registry, Done)
    BY DEF ScanInv
  <2>2. LET few == IF Short(head) THEN {head} ELSE {}
        IN Lists(registry', Done \cup few) /\ loadedIds' = loadedIds \cup Ids(few)
    BY <1>1, <1>4, <1>9, <2>1, RegisterLists
  <2> QED BY <2>2
<1>11. Done' = Done \cup fits
  <2>1. OfferedPlaces = {place \in Found : Short(place)} \cup Builtins
    BY DEF OfferedPlaces, Found, Short, Builtins
  <2>2. Done' = {place \in OfferedPlaces : place \notin Range(rest)}
    BY <1>1, FoundStays DEF Done
  <2>3. Done = {place \in OfferedPlaces : place \notin Range(scanned)}
    BY <1>1 DEF Done
  <2>4. head \in OfferedPlaces <=> Short(head)
    <3>1. head \notin Builtins
      BY <1>4 DEF Builtins
    <3> QED BY <1>4, <2>1, <3>1
  <2> QED BY <1>2, <1>7, <2>2, <2>3, <2>4
<1>12. Lists(registry, Done)'
  <2> PICK list, places : list = registry' /\ places = Done \cup fits
    OBVIOUS
  <2>1. Lists(list, places) /\ registry' = list /\ Done' = places
    BY <1>10, <1>11
  <2> QED BY <1>1, <2>1, ListsDone
<1>13. OrderInv'
  <2>1. Range(scanned') \subseteq Found'
    BY <1>1, <1>2, <1>3, FoundStays
  <2>2. \A i, j \in DOMAIN scanned' : i < j => scanned'[i] < scanned'[j]
    <3>1. \A i, j \in DOMAIN rest : i < j => i + 1 < j + 1
      BY <1>2
    <3>2. \A i, j \in DOMAIN rest : i < j => rest[i] < rest[j]
      BY <1>2, <1>3, <3>1
    <3> QED BY <1>1, <3>2
  <2>3. \A place \in Found' \ Range(scanned'), later \in Range(scanned') : place < later
    <3>1. \A place \in Found \ Range(rest) : place = head \/ place \in Found \ Range(scanned)
      BY <1>2
    <3>2. \A place \in Found \ Range(rest), later \in Range(rest) : place < later
      BY <1>2, <1>3, <1>6, <3>1
    <3> QED BY <1>1, <3>2, FoundStays
  <2> QED BY <2>1, <2>2, <2>3 DEF OrderInv
<1>14. StagesInv'
  BY <1>1 DEF StagesInv
<1>15. ReportsInv'
  BY <1>1, FoundStays DEF ScanInv, ReportsInv
<1> QED BY <1>1, <1>12, <1>13, <1>14, <1>15 DEF ScanInv

LEMMA ScanKeeps ==
    StartedInv /\ ScanInv /\ [StartNext]_<<startVars, vars>> => ScanInv'
<1> SUFFICES ASSUME StartedInv, ScanInv, [StartNext]_<<startVars, vars>> PROVE ScanInv'
  OBVIOUS
<1>1. CASE UNCHANGED startVars
  BY <1>1, ScanRests
<1>2. CASE StartUp
  BY <1>2, ScanLoadBuiltin, ScanBetween, ScanEntry, ScanEnd, ScanRegister DEF StartUp
<1> QED BY <1>1, <1>2 DEF StartNext

\* Once the start is over, what was listed is all that is offered; and what is
\* reported once is reported at one index.
LEMMA ScanOffers == StartedInv /\ ScanInv => FirstOfEachId
<1> SUFFICES ASSUME StartedInv, ScanInv, stage = "serving"
             PROVE  /\ \E open \in SUBSET {place \in Looked : Disputed(place)} :
                         Lists(registry, {place \in OfferedPlaces : ~Disputed(place)}
                                         \cup open)
                    /\ \A place \in Looked :
                         Cardinality({i \in DOMAIN issues : issues[i] = place})
                             = IF First(place) THEN 0 ELSE 1
  BY DEF FirstOfEachId
<1>0. OfferedPlaces \subseteq Looked \cup {0} /\ (0 \in OfferedPlaces => ~Disputed(0))
  <2>1. 0 \notin Looked
    BY DEF Looked, StartedInv
  <2> QED BY <2>1 DEF OfferedPlaces, Disputed
<1>1. Lists(registry, OfferedPlaces)
  <2>1. Range(scanned) = {}
    BY DEF ScanInv, StagesInv, Range
  <2>2. Done = OfferedPlaces
    BY <2>1 DEF Done
  <2> QED BY <2>2 DEF ScanInv
<1>2. ASSUME NEW place \in Looked
      PROVE  Cardinality({i \in DOMAIN issues : issues[i] = place})
                 = IF First(place) THEN 0 ELSE 1
  <2>1. place \in Range(issues) <=> ~First(place)
    BY DEF ScanInv, ReportsInv
  <2>2. CASE First(place)
    <3>1. {i \in DOMAIN issues : issues[i] = place} = {}
      BY <2>1, <2>2 DEF Range
    <3> QED BY <2>2, <3>1, FS_EmptySet
  <2>3. CASE ~First(place)
    <3>1. PICK n \in DOMAIN issues : issues[n] = place
      BY <2>1, <2>3 DEF Range
    <3>2. {i \in DOMAIN issues : issues[i] = place} = {n}
      BY <3>1 DEF ScanInv, ReportsInv, IsInjective
    <3> QED BY <2>3, <3>2, FS_Singleton
  <2> QED BY <2>2, <2>3
<1>3. \E open \in SUBSET {place \in Looked : Disputed(place)} :
         Lists(registry, {place \in OfferedPlaces : ~Disputed(place)} \cup open)
  <2> DEFINE open == {place \in OfferedPlaces : Disputed(place)}
             rest == {place \in OfferedPlaces : ~Disputed(place)}
  <2>1. open \subseteq {place \in Looked : Disputed(place)}
    BY <1>0
  <2>2. rest \cup open = OfferedPlaces
    OBVIOUS
  <2>3. Lists(registry, rest \cup open)
    <3> HIDE DEF rest, open
    <3> QED BY <1>1, <2>2
  <2> QED BY <2>1, <2>3
<1> QED BY <1>2, <1>3

\* Whatever settings, packages and user files a start finds, the plugins that it
\* offers are the ones that the packages alone determine: the first sound one of
\* each id, its providers side by side or not at all, and a report of every other
\* directory that was looked at, but for the id of a built-in package that is
\* wanted and not offered (gui/application.cpp:262-334,
\* plugin_runtime.cpp:771-845).
THEOREM OffersFirstOfEachId == StartSpec => []FirstOfEachId
BY StartInitOK, StartNextKeeps, StartInitScan, ScanKeeps, ScanOffers, PTL DEF StartSpec
=============================================================================
