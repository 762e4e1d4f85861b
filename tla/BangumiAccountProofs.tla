------------------------ MODULE BangumiAccountProofs ------------------------
(***************************************************************************)
(* Theorems about BangumiSession, for every number of coroutines and users *)
(* and for every order of calls; and about BangumiAccount, for every order *)
(* of what the user and the other pages do.                                *)
(***************************************************************************)
EXTENDS BangumiAccount, TLAPS

------------------------------------------------------------------------------
(* The session, whatever is called.                                        *)

Account == Users \cup {NoUser}

LEMMA AnswerType ==
    ASSUME NEW kind \in {"none", "restore", "login", "logout", "fetch"},
           NEW user \in Account, NEW ok \in BOOLEAN
    PROVE  /\ Answer(kind, user, ok) \in Op
           /\ Answer(kind, user, ok).at = "done"
BY DEF Answer, Suspended, Op, Await, Account

LEMMA SuspendedType ==
    ASSUME NEW kind \in {"none", "restore", "login", "logout", "fetch"},
           NEW at \in Await, NEW user \in Account
    PROVE  /\ Suspended(kind, at, user) \in Op
           /\ Suspended(kind, at, user).at = at
           /\ Suspended(kind, at, user).user = user
BY DEF Suspended, Op, Account

\* Coroutines are well typed, and carry a token where they need one.
OpsOK(f) ==
    /\ f \in [Ops -> Op]
    /\ \A o \in Ops : f[o].at \in {"me", "save", "saved"} => f[o].user \in Users

LEMMA IdleOK == OpsOK([o \in Ops |-> Idle])
BY DEF OpsOK, Idle, Op, Await

\* A coroutine that is resumed and suspended again.
LEMMA AtOK ==
    ASSUME NEW f, OpsOK(f), NEW o \in Ops, NEW op \in Op,
           op.at \in {"me", "save", "saved"} => op.user \in Users
    PROVE  OpsOK(At(f, o, op))
BY DEF OpsOK, At

\* Cancelling a login or a request only marks who is waiting.
LEMMA MarkOK ==
    ASSUME NEW f, OpsOK(f), NEW g, g = [p \in Ops |-> g[p]],
           \A p \in Ops : \E b \in BOOLEAN : g[p] = [f[p] EXCEPT !.hit = b]
    PROVE  OpsOK(g)
<1>1. ASSUME NEW p \in Ops
      PROVE  g[p] \in Op /\ g[p].at = f[p].at /\ g[p].user = f[p].user
  <2>1. PICK b \in BOOLEAN : g[p] = [f[p] EXCEPT !.hit = b]
    OBVIOUS
  <2>2. f[p] \in Op
    BY DEF OpsOK
  <2>3. g[p] \in Op
    BY <2>1, <2>2 DEF Op
  <2>4. g[p].at = f[p].at /\ g[p].user = f[p].user
    BY <2>1, <2>2 DEF Op
  <2> QED BY <2>3, <2>4
<1> QED BY <1>1 DEF OpsOK

LEMMA WokenOK ==
    ASSUME NEW f, OpsOK(f), authActive \in BOOLEAN PROVE OpsOK(Woken(f))
<1>1. ASSUME NEW p \in Ops
      PROVE  /\ (f[p].hit \/ (authActive /\ f[p].at = "callback")) \in BOOLEAN
             /\ Woken(f)[p] = [f[p] EXCEPT !.hit =
                    f[p].hit \/ (authActive /\ f[p].at = "callback")]
  BY DEF Woken
<1>2. Woken(f) = [p \in Ops |-> Woken(f)[p]]
  BY DEF Woken
<1> QED BY <1>1, <1>2, MarkOK

LEMMA LoginCancelledOK ==
    ASSUME NEW f, OpsOK(f), authActive \in BOOLEAN
    PROVE  OpsOK(LoginCancelled(f))
<1>1. OpsOK(Woken(f))
  BY WokenOK
<1>2. ASSUME NEW p \in Ops
      PROVE  /\ (Woken(f)[p].hit \/ (authActive /\ p = authReply)) \in BOOLEAN
             /\ LoginCancelled(f)[p] = [Woken(f)[p] EXCEPT !.hit =
                    Woken(f)[p].hit \/ (authActive /\ p = authReply)]
  BY DEF LoginCancelled
<1>3. LoginCancelled(f) = [p \in Ops |-> LoginCancelled(f)[p]]
  BY DEF LoginCancelled
<1> QED BY <1>1, <1>2, <1>3, MarkOK

LEMMA RequestAbortedOK ==
    ASSUME NEW f, OpsOK(f) PROVE OpsOK(RequestAborted(f))
<1>1. ASSUME NEW p \in Ops
      PROVE  /\ (f[p].hit \/ p = activeReply) \in BOOLEAN
             /\ RequestAborted(f)[p] =
                    [f[p] EXCEPT !.hit = f[p].hit \/ p = activeReply]
  BY DEF RequestAborted
<1>2. RequestAborted(f) = [p \in Ops |-> RequestAborted(f)[p]]
  BY DEF RequestAborted
<1> QED BY <1>1, <1>2, MarkOK

\* The fields of a typed coroutine.
LEMMA OpFields ==
    ASSUME NEW f, OpsOK(f), NEW o \in Ops
    PROVE  /\ f[o] \in Op
           /\ f[o].kind \in {"none", "restore", "login", "logout", "fetch"}
           /\ f[o].at \in Await /\ f[o].user \in Account
           /\ f[o].hit \in BOOLEAN /\ f[o].ok \in BOOLEAN
BY DEF OpsOK, Op, Account

\* What is left of TypeOK.
RestOK ==
    /\ state \in LoginState /\ token \in Account /\ store \in Account
    /\ authActive \in BOOLEAN
    /\ authReply \in Ops \cup {NoOp} /\ activeReply \in Ops \cup {NoOp}
    /\ loggedOut \in BOOLEAN

LEMMA TypeParts == TypeOK <=> OpsOK(ops) /\ RestOK
BY DEF TypeOK, OpsOK, RestOK, Account

IInv == OpsOK(ops) /\ RestOK /\ LoggedInHasToken

LEMMA InitInv == Init => IInv
<1> SUFFICES ASSUME Init PROVE IInv
  OBVIOUS
<1>1. OpsOK(ops)
  BY IdleOK DEF Init
<1> QED BY <1>1 DEF Init, IInv, RestOK, LoggedInHasToken, LoginState, Account

\* A coroutine that fails leaves the others as f has them.
LEMMA FailsOK ==
    ASSUME NEW o \in Ops, NEW f, OpsOK(f), Fails(o, f)
    PROVE  OpsOK(ops') /\ state' = "LoggedOut"
<1>1. Answer(f[o].kind, NoUser, FALSE) \in Op
      /\ Answer(f[o].kind, NoUser, FALSE).at = "done"
  BY OpFields, AnswerType DEF Account
<1> QED BY <1>1, AtOK DEF Fails

LEMMA VerifyOK ==
    ASSUME NEW o \in Ops, NEW f, OpsOK(f), NEW user \in Users,
           Verify(o, f, user)
    PROVE  OpsOK(ops') /\ state' = "VerifyingUser" /\ activeReply' = o
<1> DEFINE op == Suspended(f[o].kind, "me", user)
<1>1. op \in Op /\ op.at = "me" /\ op.user = user
  BY OpFields, SuspendedType DEF Account, Await
<1> HIDE DEF op
<1>2. ops' = At(f, o, op)
  BY DEF Verify, op
<1>3. OpsOK(ops')
  BY <1>1, <1>2, AtOK
<1> QED BY <1>3 DEF Verify

LEMMA LoggedInAsOK ==
    ASSUME NEW o \in Ops, OpsOK(ops), NEW user \in Users, LoggedInAs(o, user)
    PROVE  OpsOK(ops') /\ state' = "LoggedIn" /\ token' = user
<1> DEFINE op == Answer(ops[o].kind, user, TRUE)
<1>1. op \in Op /\ op.at = "done"
  BY OpFields, AnswerType DEF Account
<1> HIDE DEF op
<1>2. ops' = At(ops, o, op)
  BY DEF LoggedInAs, op
<1>3. OpsOK(ops')
  BY <1>1, <1>2, AtOK
<1> QED BY <1>3 DEF LoggedInAs

\* Each step keeps the coroutines typed.
LEMMA NextOps == IInv /\ [Next]_vars => OpsOK(ops')
<1> SUFFICES ASSUME IInv, [Next]_vars PROVE OpsOK(ops')
  OBVIOUS
<1> USE DEF IInv
<1>0. authActive \in BOOLEAN /\ token \in Account /\ store \in Account
  BY DEF RestOK
<1>1. ASSUME NEW o \in Ops, Call(o) PROVE OpsOK(ops')
  <2>1. CASE RestoreSession(o)
    <3>1. \/ ops' = At(ops, o, Answer("restore", token, TRUE))
          \/ ops' = At(ops, o, Answer("restore", NoUser, FALSE))
          \/ ops' = At(ops, o, Suspended("restore", "load", NoUser))
      BY <2>1 DEF RestoreSession
    <3>2. /\ Answer("restore", token, TRUE) \in Op
          /\ Answer("restore", token, TRUE).at = "done"
          /\ Answer("restore", NoUser, FALSE) \in Op
          /\ Answer("restore", NoUser, FALSE).at = "done"
      BY <1>0, AnswerType DEF Account
    <3>3. /\ Suspended("restore", "load", NoUser) \in Op
          /\ Suspended("restore", "load", NoUser).at = "load"
      BY SuspendedType DEF Account, Await
    <3> QED BY <3>1, <3>2, <3>3, AtOK
  <2>2. CASE Login(o)
    <3>1. \/ ops' = At(ops, o, Answer("login", NoUser, FALSE))
          \/ ops' = At(ops, o, Suspended("login", "callback", NoUser))
      BY <2>2 DEF Login
    <3>2. /\ Answer("login", NoUser, FALSE) \in Op
          /\ Answer("login", NoUser, FALSE).at = "done"
      BY AnswerType DEF Account
    <3>3. /\ Suspended("login", "callback", NoUser) \in Op
          /\ Suspended("login", "callback", NoUser).at = "callback"
      BY SuspendedType DEF Account, Await
    <3> QED BY <3>1, <3>2, <3>3, AtOK
  <2>3. CASE Logout(o)
    <3>1. OpsOK(RequestAborted(LoginCancelled(ops)))
      BY <1>0, LoginCancelledOK, RequestAbortedOK
    <3>2. /\ Suspended("logout", "clear", NoUser) \in Op
          /\ Suspended("logout", "clear", NoUser).at = "clear"
      BY SuspendedType DEF Account, Await
    <3> QED BY <2>3, <3>1, <3>2, AtOK DEF Logout
  <2>4. CASE Fetch(o)
    <3>1. /\ Suspended("fetch", "get", token) \in Op
          /\ Suspended("fetch", "get", token).at = "get"
      BY <1>0, SuspendedType DEF Account, Await
    <3> QED BY <2>4, <3>1, AtOK DEF Fetch
  <2> QED BY <1>1, <2>1, <2>2, <2>3, <2>4 DEF Call
<1>2. ASSUME NEW o \in Ops, Resume(o) PROVE OpsOK(ops')
  <2>0. /\ ops[o] \in Op /\ ops[o].user \in Account
        /\ ops[o].kind \in {"none", "restore", "login", "logout", "fetch"}
        /\ ops[o].ok \in BOOLEAN
    BY OpFields
  <2>1. CASE StoreLoads(o)
    <3>1. /\ Suspended("restore", "loaded", store) \in Op
          /\ Suspended("restore", "loaded", store).at = "loaded"
      BY <1>0, SuspendedType DEF Account, Await
    <3> QED BY <2>1, <3>1, AtOK DEF StoreLoads
  <2>2. CASE LoadResumes(o)
    <3>1. CASE Fails(o, ops)
      BY <3>1, FailsOK
    <3>2. CASE ops[o].user # NoUser /\ Verify(o, ops, ops[o].user)
      <4>1. ops[o].user \in Users
        BY <2>0, <3>2 DEF Account
      <4> QED BY <3>2, <4>1, VerifyOK
    <3> QED BY <2>2, <3>1, <3>2 DEF LoadResumes
  <2>3. CASE UserVerified(o)
    <3>1. ops[o].user \in Users
      BY <2>3 DEF UserVerified, OpsOK
    <3>2. CASE LoggedInAs(o, ops[o].user)
      BY <3>1, <3>2, LoggedInAsOK
    <3>3. CASE ops' = At(ops, o, Suspended("login", "save", ops[o].user))
      <4>1. /\ Suspended("login", "save", ops[o].user) \in Op
            /\ Suspended("login", "save", ops[o].user).user \in Users
        BY <2>0, <3>1, SuspendedType DEF Await
      <4> QED BY <3>3, <4>1, AtOK
    <3> QED BY <2>3, <3>2, <3>3 DEF UserVerified
  <2>4. CASE UserNotVerified(o) \/ WipeResumes(o)
    BY <2>4, FailsOK DEF UserNotVerified, WipeResumes
  <2>5. CASE StoredTokenRefused(o)
    <3>1. /\ Suspended("restore", "wipe", NoUser) \in Op
          /\ Suspended("restore", "wipe", NoUser).at = "wipe"
      BY SuspendedType DEF Account, Await
    <3> QED BY <2>5, <3>1, AtOK DEF StoredTokenRefused
  <2>6. CASE StoreClears(o)
    <3>1. PICK ok \in BOOLEAN :
            ops' = At(ops, o, [ops[o] EXCEPT !.ok = ok,
                     !.at = IF @ = "wipe" THEN "wiped" ELSE "cleared"])
      BY <2>6 DEF StoreClears
    <3> DEFINE op == [ops[o] EXCEPT !.ok = ok,
                        !.at = IF @ = "wipe" THEN "wiped" ELSE "cleared"]
    <3>2. op \in Op /\ op.at \in {"wiped", "cleared"}
      BY <2>0 DEF Op, Await
    <3>3. ops' = At(ops, o, op)
      BY <3>1
    <3> HIDE DEF op
    <3> QED BY <3>2, <3>3, AtOK
  <2>7. CASE CallbackAccepted(o)
    <3>1. /\ Suspended("login", "exchange", NoUser) \in Op
          /\ Suspended("login", "exchange", NoUser).at = "exchange"
      BY SuspendedType DEF Account, Await
    <3> QED BY <2>7, <3>1, AtOK DEF CallbackAccepted
  <2>8. CASE CallbackFails(o)
    BY <1>0, <2>8, LoginCancelledOK, FailsOK DEF CallbackFails
  <2>9. CASE TokenReceived(o)
    <3>1. PICK user \in Users : Verify(o, Woken(ops), user)
      BY <2>9 DEF TokenReceived
    <3> QED BY <1>0, <3>1, WokenOK, VerifyOK
  <2>10. CASE TokenNotReceived(o)
    BY <1>0, <2>10, WokenOK, FailsOK DEF TokenNotReceived
  <2>11. CASE StoreSaves(o)
    <3> DEFINE op == [ops[o] EXCEPT !.at = "saved"]
    <3>1. ops[o].user \in Users
      BY <2>11 DEF StoreSaves, OpsOK
    <3>2. op \in Op /\ op.user \in Users
      BY <2>0, <3>1 DEF Op, Await
    <3>3. ops' = At(ops, o, op)
      BY <2>11 DEF StoreSaves
    <3> HIDE DEF op
    <3> QED BY <3>2, <3>3, AtOK
  <2>12. CASE SaveResumes(o)
    <3>1. ops[o].user \in Users
      BY <2>12 DEF SaveResumes, OpsOK
    <3> QED BY <2>12, <3>1, LoggedInAsOK DEF SaveResumes
  <2>13. CASE ClearResumes(o)
    <3>1. /\ Answer("logout", NoUser, ops[o].ok) \in Op
          /\ Answer("logout", NoUser, ops[o].ok).at = "done"
      BY <2>0, AnswerType DEF Account
    <3> QED BY <2>13, <3>1, AtOK DEF ClearResumes
  <2>14. CASE Fetched(o)
    <3>1. PICK ok \in BOOLEAN :
            ops' = At(ops, o, Answer("fetch", ops[o].user, ok))
      BY <2>14 DEF Fetched
    <3>2. /\ Answer("fetch", ops[o].user, ok) \in Op
          /\ Answer("fetch", ops[o].user, ok).at = "done"
      BY <2>0, AnswerType
    <3> QED BY <3>1, <3>2, AtOK
  <2> QED
    BY <1>2, <2>1, <2>2, <2>3, <2>4, <2>5, <2>6, <2>7, <2>8, <2>9, <2>10,
       <2>11, <2>12, <2>13, <2>14 DEF Resume
<1>3. ASSUME NEW o \in Ops, Return(o) PROVE OpsOK(ops')
  <2>1. Idle \in Op /\ Idle.at = "idle"
    BY DEF Idle, Op, Await
  <2> QED BY <1>3, <2>1, AtOK DEF Return
<1>4. CASE Restart
  BY <1>4, IdleOK DEF Restart
<1>5. CASE UNCHANGED vars
  BY <1>5 DEF vars
<1> QED BY <1>1, <1>2, <1>3, <1>4, <1>5 DEF Next

\* What is left of TypeOK keeps to its type.
LEMMA NextRest == IInv /\ [Next]_vars => RestOK'
<1> SUFFICES ASSUME IInv, [Next]_vars PROVE RestOK'
  OBVIOUS
<1> USE DEF IInv, RestOK, LoginState, Account
<1>1. ASSUME NEW o \in Ops, Call(o) PROVE RestOK'
  BY <1>1 DEF Call, RestoreSession, Login, Logout, Fetch
<1>2. ASSUME NEW o \in Ops, Resume(o) PROVE RestOK'
  <2>0. ops[o].user \in Account /\ ops[o].ok \in BOOLEAN
    BY OpFields
  <2>1. CASE StoreLoads(o) \/ LoadResumes(o) \/ UserNotVerified(o)
    BY <2>1 DEF StoreLoads, LoadResumes, UserNotVerified, Fails, Verify
  <2>2. CASE UserVerified(o) \/ SaveResumes(o)
    BY <2>0, <2>2 DEF UserVerified, SaveResumes, LoggedInAs
  <2>3. CASE StoredTokenRefused(o) \/ StoreClears(o) \/ WipeResumes(o)
    BY <2>3 DEF StoredTokenRefused, StoreClears, WipeResumes, Fails
  <2>4. CASE CallbackAccepted(o) \/ CallbackFails(o)
    BY <2>4 DEF CallbackAccepted, CallbackFails, Fails
  <2>5. CASE TokenReceived(o) \/ TokenNotReceived(o)
    BY <2>5 DEF TokenReceived, TokenNotReceived, Fails, Verify
  <2>6. CASE StoreSaves(o)
    BY <2>0, <2>6 DEF StoreSaves
  <2>7. CASE ClearResumes(o) \/ Fetched(o)
    BY <2>0, <2>7 DEF ClearResumes, Fetched
  <2> QED BY <1>2, <2>1, <2>2, <2>3, <2>4, <2>5, <2>6, <2>7 DEF Resume
<1>3. ASSUME NEW o \in Ops, Return(o) PROVE RestOK'
  BY <1>3 DEF Return
<1>4. CASE Restart
  BY <1>4 DEF Restart
<1>5. CASE UNCHANGED vars
  BY <1>5 DEF vars
<1> QED BY <1>1, <1>2, <1>3, <1>4, <1>5 DEF Next

\* Whoever logs in sets the token in the same step; whoever resets the token
\* logs out in the same step.
LEMMA NextToken == IInv /\ [Next]_vars => LoggedInHasToken'
<1> SUFFICES ASSUME IInv, [Next]_vars PROVE LoggedInHasToken'
  OBVIOUS
<1> USE DEF IInv, LoggedInHasToken
<1>1. ASSUME NEW o \in Ops, Call(o) PROVE LoggedInHasToken'
  BY <1>1 DEF Call, RestoreSession, Login, Logout, Fetch
<1>2. ASSUME NEW o \in Ops, Resume(o) PROVE LoggedInHasToken'
  <2>1. CASE UserVerified(o)
    <3>1. ops[o].user \in Users
      BY <2>1 DEF UserVerified, OpsOK
    <3> QED BY <2>1, <3>1, AccountAssumption DEF UserVerified, LoggedInAs
  <2>2. CASE SaveResumes(o)
    <3>1. ops[o].user \in Users
      BY <2>2 DEF SaveResumes, OpsOK
    <3> QED BY <2>2, <3>1, AccountAssumption DEF SaveResumes, LoggedInAs
  <2>3. CASE StoreLoads(o) \/ LoadResumes(o) \/ UserNotVerified(o)
    BY <2>3 DEF StoreLoads, LoadResumes, UserNotVerified, Fails, Verify
  <2>4. CASE StoredTokenRefused(o) \/ StoreClears(o) \/ WipeResumes(o)
    BY <2>4 DEF StoredTokenRefused, StoreClears, WipeResumes, Fails
  <2>5. CASE CallbackAccepted(o) \/ CallbackFails(o)
    BY <2>5 DEF CallbackAccepted, CallbackFails, Fails
  <2>6. CASE TokenReceived(o) \/ TokenNotReceived(o)
    BY <2>6 DEF TokenReceived, TokenNotReceived, Fails, Verify
  <2>7. CASE StoreSaves(o) \/ ClearResumes(o) \/ Fetched(o)
    BY <2>7 DEF StoreSaves, ClearResumes, Fetched
  <2> QED BY <1>2, <2>1, <2>2, <2>3, <2>4, <2>5, <2>6, <2>7 DEF Resume
<1>3. ASSUME NEW o \in Ops, Return(o) PROVE LoggedInHasToken'
  BY <1>3 DEF Return
<1>4. CASE Restart
  BY <1>4 DEF Restart
<1>5. CASE UNCHANGED vars
  BY <1>5 DEF vars
<1> QED BY <1>1, <1>2, <1>3, <1>4, <1>5 DEF Next

LEMMA InvHolds == Spec => []IInv
<1>1. IInv /\ [Next]_vars => IInv'
  BY NextOps, NextRest, NextToken DEF IInv
<1> QED BY InitInv, <1>1, PTL DEF Spec

\* Nobody is verified or saved without a token, and every variable keeps to
\* its type.
THEOREM TypeCorrect == Spec => []TypeOK
<1>1. IInv => TypeOK
  BY TypeParts DEF IInv
<1> QED BY InvHolds, <1>1, PTL

\* Whatever is called and however the answers come in, the module never claims
\* to be logged in without a token.
THEOREM LoggedInWithToken == Spec => []LoggedInHasToken
<1>1. IInv => LoggedInHasToken
  BY DEF IInv
<1> QED BY InvHolds, <1>1, PTL

------------------------------------------------------------------------------
(* The session, as the account page uses it.                               *)

(***************************************************************************)
(* The invariant.  The page has at most one operation of its own under     *)
(* way, the one of the current generation; the awaits that this one has    *)
(* behind it determine what the module's state, the token and the store    *)
(* can be.  Requests of other pages touch none of these.                   *)
(***************************************************************************)

\* Where an operation of each kind can be.
Places(kind) ==
    CASE kind = "none"    -> {"idle"}
      [] kind = "restore" -> {"load", "loaded", "me", "wipe", "wiped", "done"}
      [] kind = "login"   -> {"callback", "exchange", "me", "save", "saved", "done"}
      [] kind = "logout"  -> {"clear", "cleared", "done"}
      [] kind = "fetch"   -> {"get", "done"}

PurposeOf(kind) ==
    CASE kind = "none"    -> {"none"}
      [] kind \in {"restore", "login", "logout"} -> {"account"}
      [] kind = "fetch"   -> {"search", "collections", "other"}

\* Each coroutine is somewhere in an operation that fits its task, and the
\* tasks of the page itself are current.
TasksInv ==
    \A o \in Ops :
        /\ ops[o].at \in Places(ops[o].kind)
        /\ tasks[o] \in PurposeOf(ops[o].kind)
        /\ tasks[o] = "account" <=> accountBusy /\ current = o
        /\ tasks[o] = "search" <=> searchLoading /\ current = o
        /\ tasks[o] = "collections" <=> collectionsLoading /\ current = o

\* What the state of the module is while op is under way.
StateDuring(op) ==
    CASE op.at \in {"load", "loaded"} -> {"RestoringSession"}
      [] op.at \in {"me", "wipe", "wiped", "save", "saved"} -> {"VerifyingUser"}
      [] op.at = "callback" -> {"WaitingForCallback"}
      [] op.at = "exchange" -> {"ExchangingToken"}
      [] op.at \in {"clear", "cleared"} -> {"LoggedIn", "LoggedOut"}
      [] op.at = "done" -> IF op.ok /\ op.kind # "logout" THEN {"LoggedIn"}
                                                         ELSE {"LoggedOut"}
      [] OTHER -> {}

NoAccountTask == \A o \in Ops : tasks[o] # "account"

StateInv ==
    /\ token # NoUser => state = "LoggedIn"
    /\ NoAccountTask =>
        /\ state \in {"LoggedIn", "LoggedOut"}
        /\ state = "LoggedIn" => loggedIn
        /\ loggedIn => state = "LoggedIn" \/ accountStatus = "error"
    /\ \A o \in Ops : tasks[o] = "account" =>
        /\ state \in StateDuring(ops[o])
        /\ loggedIn <=> ops[o].kind = "logout"

\* After a logout nothing is stored, so that there is nothing to restore; and
\* a login takes the logout back as soon as it begins.
LogoutInv ==
    /\ loggedOut /\ (\A o \in Ops : ops[o].kind # "logout")
       => state # "LoggedIn" /\ store = NoUser
    /\ \A o \in Ops :
        /\ loggedOut => ops[o].kind # "login"
        /\ loggedOut /\ ops[o].kind = "restore" =>
            /\ ops[o].at \in {"load", "loaded", "done"}
            /\ ops[o].user = NoUser
        /\ ops[o].kind = "logout" =>
            /\ ops[o].at = "cleared" /\ ops[o].ok => store = NoUser
            /\ ops[o].at = "done" /\ loggedOut => store = NoUser

\* Collections, those on show and those asked for, are of who is logged in.
CollectionsInv ==
    /\ collections # {} => loggedIn /\ \A u \in collections : token \in {u, NoUser}
    /\ \A o \in Ops : tasks[o] = "collections" =>
        /\ loggedIn
        /\ ops[o].at = "get" \/ ops[o].ok => ops[o].user = token /\ token # NoUser

PageRestOK ==
    /\ current \in Ops \cup {NoOp} /\ tasks \in [Ops -> Purpose]
    /\ accountBusy \in BOOLEAN /\ searchLoading \in BOOLEAN
    /\ collectionsLoading \in BOOLEAN /\ loggedIn \in BOOLEAN
    /\ accountStatus \in {"out", "in", "error"}
    /\ collections \subseteq Users

PageInv ==
    IInv /\ PageRestOK /\ TasksInv /\ StateInv /\ LogoutInv /\ CollectionsInv

------------------------------------------------------------------------------
(* What a step of the module does to its coroutines: to the one that takes *)
(* it, and to no other, except that their waits may be marked as cancelled. *)

Like(a, b) == a.kind = b.kind /\ a.at = b.at /\ a.user = b.user /\ a.ok = b.ok

Only(o) == \A p \in Ops \ {o} : Like(ops'[p], ops[p])

Becomes(o, kind, at, user, ok) ==
    /\ Only(o)
    /\ ops'[o].kind = kind /\ ops'[o].at = at
    /\ ops'[o].user = user /\ ops'[o].ok = ok

LEMMA WokenLike ==
    ASSUME NEW f, OpsOK(f), NEW p \in Ops PROVE Like(Woken(f)[p], f[p])
<1>1. f[p] \in Op
  BY DEF OpsOK
<1> QED BY <1>1 DEF Woken, Like, Op

LEMMA LoginCancelledLike ==
    ASSUME NEW f, OpsOK(f), authActive \in BOOLEAN, NEW p \in Ops
    PROVE  Like(LoginCancelled(f)[p], f[p])
<1>1. Woken(f)[p] \in Op /\ Like(Woken(f)[p], f[p])
  BY WokenOK, WokenLike DEF OpsOK
<1>2. Like(LoginCancelled(f)[p], Woken(f)[p])
  BY <1>1 DEF LoginCancelled, Like, Op
<1> QED BY <1>1, <1>2 DEF Like

LEMMA RequestAbortedLike ==
    ASSUME NEW f, OpsOK(f), NEW p \in Ops PROVE Like(RequestAborted(f)[p], f[p])
<1>1. f[p] \in Op
  BY DEF OpsOK
<1> QED BY <1>1 DEF RequestAborted, Like, Op

LEMMA AtBecomes ==
    ASSUME NEW o \in Ops, NEW f, OpsOK(f), \A p \in Ops : Like(f[p], ops[p]),
           NEW op, ops' = At(f, o, op)
    PROVE  Becomes(o, op.kind, op.at, op.user, op.ok)
BY DEF At, OpsOK, Becomes, Only, Like

LEMMA SuspendedBecomes ==
    ASSUME NEW o \in Ops, NEW f, OpsOK(f), \A p \in Ops : Like(f[p], ops[p]),
           NEW kind, NEW at, NEW user, ops' = At(f, o, Suspended(kind, at, user))
    PROVE  Becomes(o, kind, at, user, FALSE)
<1> DEFINE op == Suspended(kind, at, user)
<1>1. op.kind = kind /\ op.at = at /\ op.user = user /\ op.ok = FALSE
  BY DEF Suspended
<1> HIDE DEF op
<1>2. ops' = At(f, o, op)
  BY DEF op
<1> QED BY <1>1, <1>2, AtBecomes

LEMMA AnswerBecomes ==
    ASSUME NEW o \in Ops, NEW f, OpsOK(f), \A p \in Ops : Like(f[p], ops[p]),
           NEW kind, NEW user, NEW ok, ops' = At(f, o, Answer(kind, user, ok))
    PROVE  Becomes(o, kind, "done", user, ok)
BY AtBecomes DEF Answer, Suspended

LEMMA SelfLike == ASSUME OpsOK(ops) PROVE \A p \in Ops : Like(ops[p], ops[p])
BY DEF Like

\* What a resumed coroutine goes to, and what happens to the module.
Resumed(o) ==
    LET Goes(from, to, user) ==
            ops[o].at = from /\ Becomes(o, ops[o].kind, to, user, FALSE)
        Ends(from, user, ok) ==
            ops[o].at = from /\ Becomes(o, ops[o].kind, "done", user, ok)
    IN
    \/ Goes("load", "loaded", store) /\ UNCHANGED <<state, token, store, loggedOut>>
    \/ /\ \E from \in {"loaded", "me", "wiped", "callback", "exchange"} :
              Ends(from, NoUser, FALSE)
       /\ state' = "LoggedOut" /\ UNCHANGED <<token, store, loggedOut>>
    \/ /\ Goes("loaded", "me", ops[o].user) /\ ops[o].user # NoUser
       /\ state' = "VerifyingUser" /\ UNCHANGED <<token, store, loggedOut>>
    \/ /\ \/ Ends("me", ops[o].user, TRUE) /\ ops[o].kind = "restore"
          \/ Ends("saved", ops[o].user, TRUE)
       /\ ops[o].user \in Users
       /\ state' = "LoggedIn" /\ token' = ops[o].user
       /\ UNCHANGED <<store, loggedOut>>
    \/ /\ Goes("me", "save", ops[o].user) /\ ops[o].kind = "login"
       /\ UNCHANGED <<state, token, store, loggedOut>>
    \/ /\ Goes("me", "wipe", NoUser) /\ ops[o].kind = "restore"
       /\ UNCHANGED <<state, token, store, loggedOut>>
    \/ /\ \E ok \in BOOLEAN :
              /\ \/ /\ ops[o].at = "wipe"
                    /\ Becomes(o, ops[o].kind, "wiped", ops[o].user, ok)
                 \/ /\ ops[o].at = "clear"
                    /\ Becomes(o, ops[o].kind, "cleared", ops[o].user, ok)
              /\ store' = IF ok THEN NoUser ELSE store
       /\ UNCHANGED <<state, token, loggedOut>>
    \/ /\ Goes("callback", "exchange", NoUser)
       /\ state' = "ExchangingToken" /\ UNCHANGED <<token, store, loggedOut>>
    \/ /\ \E user \in Users : Goes("exchange", "me", user)
       /\ state' = "VerifyingUser" /\ UNCHANGED <<token, store, loggedOut>>
    \/ /\ ops[o].at = "save"
       /\ Becomes(o, ops[o].kind, "saved", ops[o].user, ops[o].ok)
       /\ UNCHANGED <<state, token, loggedOut>>
    \/ /\ Ends("cleared", NoUser, ops[o].ok)
       /\ state' = "LoggedOut" /\ token' = NoUser
       /\ loggedOut' = (loggedOut /\ ops[o].ok) /\ UNCHANGED store
    \/ /\ \E ok \in BOOLEAN : Ends("get", ops[o].user, ok)
       /\ UNCHANGED <<state, token, store, loggedOut>>

LEMMA ResumeEffect ==
    ASSUME PageInv, NEW o \in Ops, Resume(o) PROVE Resumed(o)
<1>0. /\ OpsOK(ops) /\ authActive \in BOOLEAN /\ ops[o] \in Op
      /\ \A p \in Ops : Like(ops[p], ops[p])
      /\ \A p \in Ops : Like(Woken(ops)[p], ops[p])
      /\ \A p \in Ops : Like(LoginCancelled(ops)[p], ops[p])
      /\ OpsOK(Woken(ops)) /\ OpsOK(LoginCancelled(ops))
  BY WokenOK, LoginCancelledOK, SelfLike, WokenLike, LoginCancelledLike
     DEF PageInv, IInv, RestOK, OpsOK
<1>k. /\ ops[o].at \in {"load", "loaded", "wipe", "wiped"} => ops[o].kind = "restore"
      /\ ops[o].at \in {"callback", "exchange", "save", "saved"} => ops[o].kind = "login"
      /\ ops[o].at \in {"clear", "cleared"} => ops[o].kind = "logout"
      /\ ops[o].at = "get" => ops[o].kind = "fetch"
  BY <1>0 DEF PageInv, TasksInv, Places, Op
<1>f. ASSUME NEW f, OpsOK(f), \A p \in Ops : Like(f[p], ops[p]), Fails(o, f)
      PROVE  Becomes(o, ops[o].kind, "done", NoUser, FALSE) /\ state' = "LoggedOut"
  BY <1>f, AnswerBecomes DEF Fails, Like
<1>v. ASSUME NEW f, OpsOK(f), \A p \in Ops : Like(f[p], ops[p]), NEW user, Verify(o, f, user)
      PROVE  Becomes(o, ops[o].kind, "me", user, FALSE) /\ state' = "VerifyingUser"
  BY <1>v, SuspendedBecomes DEF Verify, Like
<1>u. ops[o].at \in {"me", "save", "saved"} => ops[o].user \in Users
  BY <1>0 DEF OpsOK
<1>1. CASE StoreLoads(o)
  BY <1>0, <1>1, <1>k, SuspendedBecomes DEF StoreLoads, Resumed
<1>2. CASE LoadResumes(o)
  BY <1>0, <1>2, <1>f, <1>v DEF LoadResumes, Resumed
<1>3. CASE UserVerified(o)
  <2>1. CASE ops[o].kind = "restore" /\ LoggedInAs(o, ops[o].user)
    <3>1. Becomes(o, ops[o].kind, "done", ops[o].user, TRUE)
      BY <1>0, <2>1, AnswerBecomes DEF LoggedInAs
    <3> QED BY <1>3, <1>u, <2>1, <3>1 DEF UserVerified, LoggedInAs, Resumed
  <2>2. CASE ops[o].kind = "login"
    <3>1. Becomes(o, ops[o].kind, "save", ops[o].user, FALSE)
      BY <1>0, <1>3, <2>2, SuspendedBecomes DEF UserVerified
    <3> QED BY <1>3, <2>2, <3>1 DEF UserVerified, Resumed
  <2> QED BY <1>3, <2>1, <2>2 DEF UserVerified
<1>4. CASE UserNotVerified(o) \/ WipeResumes(o)
  BY <1>0, <1>4, <1>f DEF UserNotVerified, WipeResumes, Resumed
<1>5. CASE StoredTokenRefused(o)
  <2>1. Becomes(o, ops[o].kind, "wipe", NoUser, FALSE)
    BY <1>0, <1>5, SuspendedBecomes DEF StoredTokenRefused
  <2> QED BY <1>5, <2>1 DEF StoredTokenRefused, Resumed
<1>6. CASE StoreClears(o)
  <2>1. PICK ok \in BOOLEAN :
          /\ store' = IF ok THEN NoUser ELSE store
          /\ ops' = At(ops, o, [ops[o] EXCEPT !.ok = ok,
                         !.at = IF @ = "wipe" THEN "wiped" ELSE "cleared"])
    BY <1>6 DEF StoreClears
  <2> DEFINE to == IF ops[o].at = "wipe" THEN "wiped" ELSE "cleared"
             op == [ops[o] EXCEPT !.ok = ok, !.at = to]
  <2>2. /\ op.kind = ops[o].kind /\ op.user = ops[o].user
        /\ op.ok = ok /\ op.at = to
    BY <1>0 DEF Op
  <2>3. ops' = At(ops, o, op)
    BY <2>1
  <2> HIDE DEF op
  <2>4. Becomes(o, ops[o].kind, to, ops[o].user, ok)
    BY <1>0, <2>2, <2>3, AtBecomes
  <2> QED BY <1>6, <2>1, <2>4 DEF StoreClears, Resumed
<1>7. CASE CallbackAccepted(o)
  <2>1. Becomes(o, ops[o].kind, "exchange", NoUser, FALSE)
    BY <1>0, <1>7, <1>k, SuspendedBecomes DEF CallbackAccepted
  <2> QED BY <1>7, <2>1 DEF CallbackAccepted, Resumed
<1>8. CASE CallbackFails(o)
  BY <1>0, <1>8, <1>f DEF CallbackFails, Resumed
<1>9. CASE TokenReceived(o)
  BY <1>0, <1>9, <1>v DEF TokenReceived, Resumed
<1>10. CASE TokenNotReceived(o)
  BY <1>0, <1>10, <1>f DEF TokenNotReceived, Resumed
<1>11. CASE StoreSaves(o)
  <2> DEFINE op == [ops[o] EXCEPT !.at = "saved"]
  <2>1. /\ op.kind = ops[o].kind /\ op.user = ops[o].user
        /\ op.ok = ops[o].ok /\ op.at = "saved"
    BY <1>0 DEF Op
  <2>2. ops' = At(ops, o, op)
    BY <1>11 DEF StoreSaves
  <2> HIDE DEF op
  <2>3. Becomes(o, ops[o].kind, "saved", ops[o].user, ops[o].ok)
    BY <1>0, <2>1, <2>2, AtBecomes
  <2> QED BY <1>11, <2>3 DEF StoreSaves, Resumed
<1>12. CASE SaveResumes(o)
  <2>1. Becomes(o, ops[o].kind, "done", ops[o].user, TRUE)
    BY <1>0, <1>12, AnswerBecomes DEF SaveResumes, LoggedInAs
  <2> QED BY <1>12, <1>u, <2>1 DEF SaveResumes, LoggedInAs, Resumed
<1>13. CASE ClearResumes(o)
  <2>1. Becomes(o, ops[o].kind, "done", NoUser, ops[o].ok)
    BY <1>0, <1>13, <1>k, AnswerBecomes DEF ClearResumes
  <2> QED BY <1>13, <2>1 DEF ClearResumes, Resumed
<1>14. CASE Fetched(o)
  <2>1. PICK ok \in BOOLEAN : ops' = At(ops, o, Answer("fetch", ops[o].user, ok))
    BY <1>14 DEF Fetched
  <2>2. Becomes(o, ops[o].kind, "done", ops[o].user, ok)
    BY <1>0, <1>14, <1>k, <2>1, AnswerBecomes DEF Fetched
  <2> QED BY <1>14, <2>2 DEF Fetched, Resumed
<1> QED
  BY <1>1, <1>2, <1>3, <1>4, <1>5, <1>6, <1>7, <1>8, <1>9, <1>10, <1>11, <1>12,
     <1>13, <1>14 DEF Resume

------------------------------------------------------------------------------
(* A resumed coroutine.                                                    *)

Kept == TasksInv /\ StateInv /\ LogoutInv /\ CollectionsInv

LEMMA ResumeKeeps ==
    ASSUME PageInv, NEW o \in Ops, Resume(o), UNCHANGED pageVars
    PROVE  Kept'
<1>1. Resumed(o)
  BY ResumeEffect
<1> USE DEF PageInv, pageVars
<1>2. /\ \A p \in Ops \ {o} : Like(ops'[p], ops[p])
      /\ \A p \in Ops : ops'[p].kind = ops[p].kind
  BY <1>1 DEF Resumed, Becomes, Only, Like
<1>3. ops[o].kind \in {"restore", "login", "logout", "fetch"} /\ ops[o].at # "idle"
  BY <1>1 DEF Resumed, TasksInv, Places, IInv, OpsOK, Op
<1>4. ops'[o].at \in Places(ops[o].kind)
  <2>1. ops[o].at \in Places(ops[o].kind)
    BY DEF TasksInv
  <2> QED BY <1>1, <1>3, <2>1 DEF Resumed, Becomes, Places
<1>5. TasksInv'
  BY <1>2, <1>4 DEF TasksInv, Like
<1>6. CASE ops[o].kind = "fetch"
  <2>1. /\ ops[o].at = "get" /\ ops'[o].at = "done" /\ ops'[o].user = ops[o].user
        /\ UNCHANGED <<state, token, store, loggedOut>>
    BY <1>1, <1>6 DEF Resumed, Becomes, TasksInv, Places
  <2>2. tasks[o] # "account"
    BY <1>6 DEF TasksInv, PurposeOf
  <2>3. StateInv'
    BY <1>2, <2>1, <2>2 DEF StateInv, NoAccountTask, StateDuring, Like
  <2>4. LogoutInv'
    BY <1>2, <1>6, <2>1 DEF LogoutInv, Like
  <2>5. CollectionsInv'
    BY <1>2, <2>1 DEF CollectionsInv, Like
  <2> QED BY <1>5, <2>3, <2>4, <2>5 DEF Kept
<1>7. CASE ops[o].kind # "fetch"
  <2>1. /\ tasks[o] = "account" /\ ~NoAccountTask
        /\ \A p \in Ops \ {o} : tasks[p] \notin {"account", "search", "collections"}
        /\ \A p \in Ops \ {o} : ops[p].kind \in {"none", "fetch"}
    BY <1>3, <1>7 DEF TasksInv, PurposeOf, NoAccountTask, IInv, OpsOK, Op
  <2>2. state \in StateDuring(ops[o]) /\ (loggedIn <=> ops[o].kind = "logout")
    BY <2>1 DEF StateInv
  <2>3. (token # NoUser => state = "LoggedIn")'
    BY <1>1, <1>3, <1>7, <2>2 DEF Resumed, Becomes, StateInv, TasksInv, Places, StateDuring
  <2>4. state' \in StateDuring(ops'[o])
    BY <1>1, <1>2, <1>3, <1>7, <2>2 DEF Resumed, Becomes, TasksInv, Places, StateDuring
  <2>5. StateInv'
    BY <1>2, <2>1, <2>2, <2>3, <2>4 DEF StateInv, NoAccountTask
  <2>6. LogoutInv'
    <3>0. \A p \in Ops \ {o} : ops'[p].kind \notin {"restore", "login", "logout"}
      BY <1>2, <2>1
    <3>1. CASE ops[o].kind = "logout"
      <4>1. ops'[o].kind = "logout"
        BY <1>2, <3>1
      <4>2. ops'[o].at = "cleared" /\ ops'[o].ok => store' = NoUser
        BY <1>1, <3>1 DEF Resumed, Becomes, TasksInv, Places
      <4>3. ops'[o].at = "done" /\ loggedOut' => store' = NoUser
        BY <1>1, <3>1 DEF Resumed, Becomes, TasksInv, Places, LogoutInv
      <4> QED BY <3>0, <4>1, <4>2, <4>3 DEF LogoutInv
    <3>2. CASE ops[o].kind = "login"
      <4>1. ~loggedOut /\ loggedOut' = loggedOut
        BY <1>1, <3>2 DEF Resumed, Becomes, TasksInv, Places, LogoutInv
      <4> QED BY <1>2, <3>0, <3>2, <4>1 DEF LogoutInv
    <3>3. CASE ops[o].kind = "restore"
      <4>1. ops'[o].kind = "restore" /\ loggedOut' = loggedOut
        BY <1>1, <1>2, <3>3 DEF Resumed, Becomes, TasksInv, Places
      <4>2. loggedOut => /\ ops[o].at \in {"load", "loaded", "done"}
                         /\ ops[o].user = NoUser
                         /\ state # "LoggedIn" /\ store = NoUser
        BY <2>1, <3>3 DEF LogoutInv
      <4>3. loggedOut => /\ ops'[o].at \in {"loaded", "done"} /\ ops'[o].user = NoUser
                         /\ state' # "LoggedIn" /\ store' = NoUser
        BY <1>1, <3>3, <4>2 DEF Resumed, Becomes
      <4> QED BY <3>0, <4>1, <4>3 DEF LogoutInv
    <3> QED BY <1>3, <1>7, <3>1, <3>2, <3>3
  <2>7. CollectionsInv'
    <3>1. loggedIn => token' \in {token, NoUser}
      BY <1>1, <2>2 DEF Resumed, Becomes, TasksInv, Places
    <3> QED BY <1>2, <2>1, <3>1 DEF CollectionsInv, Like
  <2> QED BY <1>5, <2>5, <2>6, <2>7 DEF Kept
<1> QED BY <1>6, <1>7

------------------------------------------------------------------------------
(* What the user and the other pages begin.                                *)

LEMMA FetchEffect ==
    ASSUME PageInv, NEW o \in Ops, Fetch(o)
    PROVE  Becomes(o, "fetch", "get", token, FALSE)
BY SelfLike, SuspendedBecomes DEF PageInv, IInv, Fetch

\* An operation of the account begins when the page has none under way.
LEMMA AccountBegins ==
    ASSUME PageInv, NEW o \in Ops, BeginSession(o)
    PROVE  /\ NoAccountTask /\ collections = collections'
           /\ \A p \in Ops : /\ tasks[p] \in {"none", "other"}
                             /\ ops[p].kind \notin {"restore", "login", "logout"}
           /\ state \in {"LoggedIn", "LoggedOut"}
           /\ (state = "LoggedIn" => loggedIn) /\ (token # NoUser => loggedIn)
<1>1. NoAccountTask /\ \A p \in Ops : tasks[p] \in {"none", "other"}
  BY DEF PageInv, PageRestOK, Purpose, TasksInv, BeginSession, Begin, Busy, NoAccountTask
<1>2. \A p \in Ops : ops[p].kind \notin {"restore", "login", "logout"}
  BY <1>1 DEF PageInv, TasksInv, PurposeOf
<1> QED BY <1>1, <1>2 DEF PageInv, StateInv, BeginSession

LEMMA AccountBegun ==
    ASSUME PageInv, NEW o \in Ops, BeginSession(o),
           NEW kind \in {"restore", "login", "logout"}, NEW at \in Places(kind), NEW ok,
           Becomes(o, kind, at, NoUser, ok),
           state' \in StateDuring(ops'[o]), token # NoUser => state' = "LoggedIn",
           loggedIn <=> kind = "logout", UNCHANGED <<token, store>>
    PROVE  TasksInv' /\ StateInv' /\ CollectionsInv'
<1>1. /\ tasks' = [tasks EXCEPT ![o] = "account"] /\ tasks \in [Ops -> Purpose]
      /\ \A p \in Ops : tasks[p] \in {"none", "other"}
      /\ current' = o /\ accountBusy' /\ loggedIn' = loggedIn
      /\ ~searchLoading /\ ~searchLoading' /\ ~collectionsLoading /\ ~collectionsLoading'
      /\ collections' = collections
  BY AccountBegins DEF PageInv, PageRestOK, BeginSession, Begin, Busy
<1>2. /\ \A p \in Ops \ {o} : /\ tasks'[p] = tasks[p] /\ ops'[p].kind = ops[p].kind
                              /\ ops'[p].at = ops[p].at
      /\ tasks'[o] = "account" /\ ops'[o].kind = kind /\ ops'[o].at = at
  BY <1>1 DEF Becomes, Only, Like
<1>3. TasksInv'
  BY <1>1, <1>2 DEF PageInv, TasksInv, PurposeOf
<1>4. StateInv'
  BY <1>1, <1>2 DEF StateInv, NoAccountTask
<1>5. CollectionsInv'
  BY <1>1, <1>2 DEF PageInv, CollectionsInv
<1> QED BY <1>3, <1>4, <1>5

\* A request begins, of the page or of another one.
LEMMA FetchBegun ==
    ASSUME PageInv, NEW o \in Ops, ops[o] = Idle, tasks[o] = "none",
           NEW task \in {"search", "collections", "other"},
           tasks' = [tasks EXCEPT ![o] = task],
           NEW at \in {"get", "done"}, NEW user, NEW ok,
           Becomes(o, "fetch", at, user, ok),
           UNCHANGED <<state, token, store, loggedOut, accountBusy, loggedIn, accountStatus>>,
           task # "other" => ~Busy /\ current' = o,
           task = "other" => current' = current,
           searchLoading' = (searchLoading \/ task = "search"),
           collectionsLoading' = (collectionsLoading \/ task = "collections"),
           collections' \subseteq collections,
           task = "collections" =>
               loggedIn /\ (at = "get" \/ ok => user = token /\ token # NoUser)
    PROVE  Kept'
<1> USE DEF PageInv
<1>1. /\ tasks \in [Ops -> Purpose]
      /\ \A p \in Ops \ {o} : /\ tasks'[p] = tasks[p] /\ Like(ops'[p], ops[p])
      /\ tasks'[o] = task /\ ops'[o].kind = "fetch" /\ ops'[o].at = at
      /\ ops'[o].user = user /\ ops'[o].ok = ok
      /\ ops[o].kind = "none"
  BY DEF PageRestOK, Becomes, Only, Idle
<1>2. TasksInv'
  BY <1>1 DEF TasksInv, Places, PurposeOf, Like, Busy, PageRestOK
<1>3. StateInv'
  BY <1>1 DEF StateInv, StateDuring, NoAccountTask, Like
<1>4. LogoutInv'
  BY <1>1 DEF LogoutInv, Like
<1>5. CollectionsInv'
  BY <1>1 DEF CollectionsInv, Like
<1> QED BY <1>2, <1>3, <1>4, <1>5 DEF Kept

LEMMA UserKeeps ==
    ASSUME PageInv, NEW o \in Ops, User(o)
    PROVE  Kept'
<1>0. OpsOK(ops) /\ authActive \in BOOLEAN /\ \A p \in Ops : Like(ops[p], ops[p])
  BY SelfLike DEF PageInv, IInv, RestOK
<1>1. CASE Restore(o)
  <2>1. BeginSession(o) /\ ~loggedIn /\ state = "LoggedOut" /\ token = NoUser
    BY <1>1, AccountBegins DEF Restore
  <2>2. /\ state' = "RestoringSession" /\ UNCHANGED <<token, store, loggedOut>>
        /\ ops' = At(ops, o, Suspended("restore", "load", NoUser))
    BY <1>1, <2>1 DEF Restore, RestoreSession
  <2>3. Becomes(o, "restore", "load", NoUser, FALSE)
    BY <1>0, <2>2, SuspendedBecomes
  <2>4. "load" \in Places("restore") /\ state' \in StateDuring(ops'[o])
    BY <2>2, <2>3 DEF Places, StateDuring, Becomes
  <2>5. TasksInv' /\ StateInv' /\ CollectionsInv'
    BY <2>1, <2>2, <2>3, <2>4, AccountBegun
  <2>6. LogoutInv'
    <3>1. \A p \in Ops \ {o} : ops'[p].kind \notin {"restore", "login", "logout"}
      BY <2>1, <2>3, AccountBegins DEF Becomes, Only, Like
    <3>2. loggedOut => store = NoUser
      BY <2>1, AccountBegins DEF PageInv, LogoutInv
    <3> QED BY <2>2, <2>3, <3>1, <3>2 DEF Becomes, LogoutInv
  <2> QED BY <2>5, <2>6 DEF Kept
<1>2. CASE PageLogin(o)
  <2>1. BeginSession(o) /\ ~loggedIn /\ state = "LoggedOut" /\ token = NoUser
    BY <1>2, AccountBegins DEF PageLogin
  <2>2. PICK at \in {"callback", "done"} :
          /\ Becomes(o, "login", at, NoUser, FALSE)
          /\ state' = IF at = "done" THEN state ELSE "WaitingForCallback"
    BY <1>0, <1>2, <2>1, SuspendedBecomes, AnswerBecomes DEF PageLogin, Login
  <2>3. ~loggedOut' /\ UNCHANGED <<token, store>>
    BY <1>2, <2>1 DEF PageLogin, Login
  <2>4. at \in Places("login") /\ state' \in StateDuring(ops'[o])
    BY <2>1, <2>2 DEF Places, StateDuring, Becomes
  <2>5. TasksInv' /\ StateInv' /\ CollectionsInv'
    BY <2>1, <2>2, <2>3, <2>4, AccountBegun
  <2>6. LogoutInv'
    <3>1. \A p \in Ops : ops'[p].kind # "logout"
      BY <2>1, <2>2, AccountBegins DEF Becomes, Only, Like
    <3> QED BY <2>3, <3>1 DEF LogoutInv
  <2> QED BY <2>5, <2>6 DEF Kept
<1>3. CASE PageLogout(o)
  <2>1. /\ BeginSession(o) /\ loggedIn /\ state \in {"LoggedIn", "LoggedOut"}
        /\ UNCHANGED <<state, token, store>>
    BY <1>3, AccountBegins DEF PageLogout, Logout
  <2>2. /\ OpsOK(RequestAborted(LoginCancelled(ops)))
        /\ \A p \in Ops : Like(RequestAborted(LoginCancelled(ops))[p], ops[p])
    BY <1>0, LoginCancelledOK, RequestAbortedOK, LoginCancelledLike, RequestAbortedLike
       DEF Like
  <2>3. Becomes(o, "logout", "clear", NoUser, FALSE)
    BY <1>3, <2>2, SuspendedBecomes DEF PageLogout, Logout
  <2>4. "clear" \in Places("logout") /\ state' \in StateDuring(ops'[o])
    BY <2>1, <2>3 DEF Places, StateDuring, Becomes
  <2>5. TasksInv' /\ StateInv' /\ CollectionsInv'
    BY <2>1, <2>3, <2>4, AccountBegun DEF PageInv, StateInv
  <2>6. LogoutInv'
    <3>1. \A p \in Ops \ {o} : ops'[p].kind \notin {"restore", "login", "logout"}
      BY <2>1, <2>3, AccountBegins DEF Becomes, Only, Like
    <3> QED BY <2>1, <2>3, <3>1 DEF Becomes, LogoutInv
  <2> QED BY <2>5, <2>6 DEF Kept
<1>4. CASE Search(o) \/ OtherFetch(o)
  <2>1. Fetch(o) /\ ops[o] = Idle /\ tasks[o] = "none"
    BY <1>4 DEF Search, OtherFetch, Begin, Fetch
  <2>2. Becomes(o, "fetch", "get", token, FALSE)
    BY <2>1, FetchEffect
  <2>3. PICK task \in {"search", "other"} :
          /\ tasks' = [tasks EXCEPT ![o] = task]
          /\ task = "search" => Search(o)
          /\ task = "other" => OtherFetch(o)
    BY <1>4 DEF Search, OtherFetch, Begin
  <2>4. /\ UNCHANGED <<state, token, store, loggedOut>>
        /\ UNCHANGED <<accountBusy, collectionsLoading, loggedIn, accountStatus, collections>>
        /\ searchLoading' = (searchLoading \/ task = "search")
        /\ task # "other" => ~Busy /\ current' = o
        /\ task = "other" => current' = current
    BY <2>1, <2>3 DEF Fetch, Search, OtherFetch, Begin, PageInv, PageRestOK
  <2> QED
    BY <2>1, <2>2, <2>3, <2>4, FetchBegun DEF PageInv, PageRestOK
<1>5. CASE LoadCollections(o)
  <2>1. /\ ops[o] = Idle /\ tasks[o] = "none" /\ ~Busy /\ current' = o /\ loggedIn
        /\ tasks' = [tasks EXCEPT ![o] = "collections"]
        /\ UNCHANGED <<accountBusy, searchLoading, loggedIn, accountStatus>>
        /\ collectionsLoading' /\ collections' \subseteq collections
    BY <1>5 DEF LoadCollections, FetchCollections, Fetch, Begin
  <2>2. UNCHANGED <<state, token, store, loggedOut>>
    BY <1>5 DEF LoadCollections, FetchCollections, Fetch
  <2>3. PICK at \in {"get", "done"}, user \in {token, NoUser} :
          /\ Becomes(o, "fetch", at, user, FALSE)
          /\ at = "get" => user = token /\ token # NoUser
    BY <1>0, <1>5, FetchEffect, AnswerBecomes DEF LoadCollections, FetchCollections
  <2> QED
    BY <2>1, <2>2, <2>3, FetchBegun DEF PageInv, PageRestOK
<1> QED BY <1>1, <1>2, <1>3, <1>4, <1>5 DEF User

------------------------------------------------------------------------------
(* Answers.                                                                *)

LEMMA AnsweredKeeps ==
    ASSUME PageInv, NEW o \in Ops, Answered(o)
    PROVE  Kept'
<1> USE DEF PageInv
<1>1. /\ Return(o) /\ tasks[o] # "none" /\ tasks' = [tasks EXCEPT ![o] = "none"]
      /\ tasks \in [Ops -> Purpose] /\ current' = current
  BY DEF Answered, SessionAnswered, SearchAnswered, CollectionsAnswered, OtherAnswered,
         PageRestOK
<1>2. /\ ops[o].at = "done" /\ UNCHANGED <<state, token, store, loggedOut>>
      /\ Becomes(o, "none", "idle", NoUser, FALSE)
  <2>1. ops' = At(ops, o, Idle)
    BY <1>1 DEF Return
  <2>2. Becomes(o, Idle.kind, Idle.at, Idle.user, Idle.ok)
    BY <2>1, SelfLike, AtBecomes DEF IInv
  <2> QED BY <1>1, <2>2 DEF Return, Idle
<1>3. /\ \A p \in Ops \ {o} : tasks'[p] = tasks[p] /\ Like(ops'[p], ops[p])
      /\ tasks'[o] = "none" /\ ops'[o].kind = "none" /\ ops'[o].at = "idle"
  BY <1>1, <1>2 DEF Becomes, Only
<1>4. CASE SessionAnswered(o)
  <2>1. /\ tasks[o] = "account" /\ current = o /\ ~accountBusy'
        /\ UNCHANGED <<searchLoading, collectionsLoading>>
        /\ IF ops[o].kind = "logout" THEN LogoutShown(ops[o].ok) ELSE LoginShown(ops[o].ok)
    BY <1>4 DEF SessionAnswered, TasksInv
  <2>2. /\ \A p \in Ops \ {o} : /\ tasks[p] \in {"none", "other"}
                                /\ ops[p].kind \notin {"restore", "login", "logout"}
        /\ ops[o].kind \in {"restore", "login", "logout"} /\ ops[o].ok \in BOOLEAN
    BY <2>1 DEF TasksInv, PurposeOf, PageRestOK, Purpose, IInv, OpsOK, Op
  <2>3. /\ state \in StateDuring(ops[o]) /\ (loggedIn <=> ops[o].kind = "logout")
    BY <2>1 DEF StateInv
  <2>4. state = IF ops[o].ok /\ ops[o].kind # "logout" THEN "LoggedIn" ELSE "LoggedOut"
    BY <1>2, <2>3 DEF StateDuring
  <2>5. TasksInv'
    BY <1>1, <1>3, <2>1, <2>2 DEF TasksInv, Places, PurposeOf, Like
  <2>6. StateInv'
    BY <1>2, <1>3, <2>1, <2>2, <2>4
       DEF StateInv, NoAccountTask, LogoutShown, LoginShown
  <2>7. LogoutInv'
    <3>1. \A p \in Ops : ops'[p].kind \notin {"restore", "login", "logout"}
      BY <1>3, <2>2 DEF Like
    <3>2. loggedOut => state # "LoggedIn" /\ store = NoUser
      BY <1>2, <2>2, <2>4 DEF LogoutInv
    <3> QED BY <1>2, <3>1, <3>2 DEF LogoutInv
  <2>8. CollectionsInv'
    BY <1>2, <1>3, <2>1, <2>2, <2>3 DEF CollectionsInv, LogoutShown, LoginShown
  <2> QED BY <2>5, <2>6, <2>7, <2>8 DEF Kept
<1>5. CASE ~SessionAnswered(o)
  <2>1. /\ tasks[o] \in {"search", "collections", "other"} /\ ops[o].kind = "fetch"
        /\ UNCHANGED <<accountBusy, loggedIn, accountStatus>>
    BY <1>5 DEF Answered, SearchAnswered, CollectionsAnswered, OtherAnswered,
                TasksInv, PurposeOf, IInv, OpsOK, Op
  <2>2. TasksInv'
    <3>1. searchLoading' <=> searchLoading /\ tasks[o] # "search"
      BY <1>5 DEF Answered, SearchAnswered, CollectionsAnswered, OtherAnswered,
                  TasksInv, PageRestOK
    <3>2. collectionsLoading' <=> collectionsLoading /\ tasks[o] # "collections"
      BY <1>5 DEF Answered, SearchAnswered, CollectionsAnswered, OtherAnswered,
                  TasksInv, PageRestOK
    <3> SUFFICES ASSUME NEW p \in Ops
                 PROVE  /\ ops'[p].at \in Places(ops'[p].kind)
                        /\ tasks'[p] \in PurposeOf(ops'[p].kind)
                        /\ tasks'[p] = "account" <=> accountBusy' /\ current' = p
                        /\ tasks'[p] = "search" <=> searchLoading' /\ current' = p
                        /\ tasks'[p] = "collections" <=> collectionsLoading' /\ current' = p
      BY DEF TasksInv
    <3>3. CASE p = o
      <4>1. ops'[p].at \in Places(ops'[p].kind) /\ tasks'[p] \in PurposeOf(ops'[p].kind)
        BY <1>3, <3>3 DEF Places, PurposeOf
      <4>2. tasks[o] # "account" /\ tasks'[p] = "none"
        BY <1>3, <2>1, <3>3
      <4> QED BY <1>1, <2>1, <3>1, <3>2, <3>3, <4>1, <4>2 DEF TasksInv
    <3>4. CASE p # o
      <4>1. tasks'[p] = tasks[p] /\ ops'[p].at = ops[p].at /\ ops'[p].kind = ops[p].kind
        BY <1>3, <3>4 DEF Like
      <4>2. /\ tasks[o] = "search" <=> searchLoading /\ current = o
            /\ tasks[o] = "collections" <=> collectionsLoading /\ current = o
        BY DEF TasksInv
      <4> QED BY <1>1, <2>1, <3>1, <3>2, <3>4, <4>1, <4>2 DEF TasksInv
    <3> QED BY <3>3, <3>4
  <2>3. StateInv'
    BY <1>2, <1>3, <2>1 DEF StateInv, NoAccountTask, StateDuring, Like
  <2>4. LogoutInv'
    BY <1>2, <1>3, <2>1 DEF LogoutInv, Like
  <2>5. CollectionsInv'
    <3>1. \/ UNCHANGED collections
          \/ /\ tasks[o] = "collections" /\ ops[o].ok
             /\ collections' = collections \cup {ops[o].user}
      BY <1>5 DEF Answered, SearchAnswered, CollectionsAnswered, OtherAnswered
    <3>2. \A p \in Ops : tasks'[p] = "collections" =>
            tasks[p] = "collections" /\ Like(ops'[p], ops[p])
      BY <1>3
    <3> QED BY <1>2, <2>1, <3>1, <3>2 DEF CollectionsInv, Like
  <2> QED BY <2>2, <2>3, <2>4, <2>5 DEF Kept
<1> QED BY <1>4, <1>5

------------------------------------------------------------------------------
(* The invariant holds.                                                    *)

LEMMA StartKeeps ==
    ASSUME PageInv, Restart, PageStart PROVE Kept' /\ PageRestOK'
<1> USE DEF PageInv, Restart, PageStart, Idle
<1>1. TasksInv'
  BY AccountAssumption DEF TasksInv, Places, PurposeOf
<1>2. StateInv' /\ CollectionsInv' /\ PageRestOK'
  BY DEF StateInv, CollectionsInv, NoAccountTask, PageRestOK, Purpose
<1>3. LogoutInv'
  BY DEF LogoutInv
<1> QED BY <1>1, <1>2, <1>3 DEF Kept

LEMMA PageInitInv == PageInit => PageInv
<1> SUFFICES ASSUME PageInit PROVE PageInv
  OBVIOUS
<1> USE DEF PageInit, Init, Idle
<1>1. IInv
  BY InitInv
<1>2. TasksInv
  BY AccountAssumption DEF TasksInv, Places, PurposeOf
<1>3. StateInv /\ CollectionsInv /\ LogoutInv /\ PageRestOK
  BY DEF StateInv, CollectionsInv, LogoutInv, NoAccountTask, PageRestOK, Purpose
<1> QED BY <1>1, <1>2, <1>3 DEF PageInv

\* A step of the page is a step of the module, except that asking for
\* collections may be refused at once.
LEMMA PageNextSession == PageInv /\ [PageNext]_allVars => IInv'
<1> SUFFICES ASSUME PageInv, [PageNext]_allVars PROVE IInv'
  OBVIOUS
<1> USE DEF PageInv
<1>1. CASE [Next]_vars
  BY <1>1, NextOps, NextRest, NextToken DEF IInv
<1>2. ASSUME NEW o \in Ops, ops' = At(ops, o, Answer("fetch", NoUser, FALSE)),
             UNCHANGED <<state, token, store, authActive, authReply, activeReply, loggedOut>>
      PROVE  IInv'
  <2>1. /\ Answer("fetch", NoUser, FALSE) \in Op
        /\ Answer("fetch", NoUser, FALSE).at = "done"
    BY AnswerType DEF Account
  <2>2. OpsOK(ops')
    BY <1>2, <2>1, AtOK DEF IInv
  <2> QED BY <1>2, <2>2 DEF IInv, RestOK, LoggedInHasToken
<1>3. ASSUME NEW o \in Ops, User(o)
      PROVE  \/ Call(o)
             \/ /\ ops' = At(ops, o, Answer("fetch", NoUser, FALSE))
                /\ UNCHANGED <<state, token, store, authActive, authReply,
                               activeReply, loggedOut>>
  BY <1>3 DEF User, Restore, PageLogin, PageLogout, Search, LoadCollections, OtherFetch,
              FetchCollections, Call
<1>4. ASSUME NEW o \in Ops, Answered(o) PROVE Return(o)
  BY <1>4 DEF Answered, SessionAnswered, SearchAnswered, CollectionsAnswered, OtherAnswered
<1> QED BY <1>1, <1>2, <1>3, <1>4 DEF PageNext, Next, allVars

LEMMA PageNextRest == PageInv /\ [PageNext]_allVars => PageRestOK'
<1> SUFFICES ASSUME PageInv, [PageNext]_allVars PROVE PageRestOK'
  OBVIOUS
<1> USE DEF PageInv, PageRestOK, Purpose
<1>1. ASSUME NEW o \in Ops, User(o) PROVE PageRestOK'
  BY <1>1 DEF User, Restore, PageLogin, PageLogout, BeginSession, Begin, Search,
              LoadCollections, OtherFetch
<1>2. ASSUME NEW o \in Ops, Answered(o) PROVE PageRestOK'
  <2>1. ops[o].ok \in BOOLEAN
    BY OpFields DEF IInv
  <2>2. CASE CollectionsAnswered(o)
    <3>1. ops[o].ok => ops[o].user \in Users
      BY <2>2 DEF CollectionsAnswered, CollectionsInv, IInv, RestOK, Account
    <3> QED BY <2>2, <3>1 DEF CollectionsAnswered
  <2>3. CASE SessionAnswered(o)
    BY <2>1, <2>3 DEF SessionAnswered, LogoutShown, LoginShown
  <2>4. CASE SearchAnswered(o) \/ OtherAnswered(o)
    BY <2>4 DEF SearchAnswered, OtherAnswered
  <2> QED BY <1>2, <2>2, <2>3, <2>4 DEF Answered
<1>3. CASE UNCHANGED pageVars
  BY <1>3 DEF pageVars
<1>4. CASE Restart /\ PageStart
  BY <1>4, StartKeeps
<1> QED BY <1>1, <1>2, <1>3, <1>4 DEF PageNext, allVars

LEMMA PageNextInv == PageInv /\ [PageNext]_allVars => PageInv'
<1> SUFFICES ASSUME PageInv, [PageNext]_allVars PROVE Kept'
  BY PageNextSession, PageNextRest DEF PageInv, Kept
<1>1. CASE UNCHANGED allVars
  BY <1>1 DEF allVars, vars, pageVars, PageInv, Kept, TasksInv, StateInv, LogoutInv,
              CollectionsInv, NoAccountTask
<1> QED BY <1>1, ResumeKeeps, UserKeeps, AnsweredKeeps, StartKeeps DEF PageNext

LEMMA PageInvHolds == PageSpec => []PageInv
BY PageInitInv, PageNextInv, PTL DEF PageSpec

\* Behind the page, load, save and clear of the store are never under way at
\* the same time, as config.hpp:212 demands: whoever uses the store is an
\* operation of the account, and the page has one of them at most.
THEOREM StoreUsedByOne == PageSpec => []StoreOneAtATime
<1>1. PageInv => StoreOneAtATime
  <2> SUFFICES ASSUME PageInv,
                      NEW a \in Ops, ops[a].at \in {"load", "wipe", "save", "clear"},
                      NEW b \in Ops, ops[b].at \in {"load", "wipe", "save", "clear"}
               PROVE  a = b
    BY DEF StoreOneAtATime, AtMostOne
  <2>1. ASSUME NEW o \in Ops, ops[o].at \in {"load", "wipe", "save", "clear"}
        PROVE  tasks[o] = "account"
    BY <2>1 DEF PageInv, IInv, OpsOK, Op, TasksInv, Places, PurposeOf
  <2> QED BY <2>1 DEF PageInv, TasksInv
<1> QED BY PageInvHolds, <1>1, PTL

\* Behind the page, once logout() has succeeded nobody is logged in and no
\* credential is left until the user logs in again (docs/bangumi/login.md:169).
THEOREM LogoutStays == PageSpec => []LogoutIsFinal
<1>1. PageInv => LogoutIsFinal
  BY DEF PageInv, LogoutInv, StateInv, LogoutIsFinal
<1> QED BY PageInvHolds, <1>1, PTL

\* Between two operations the page says who is logged in, and shows no
\* collections but those of that user (browser_view_model.cpp:268-426).
THEOREM PageAgrees == PageSpec => []PageShowsTheAccount
<1>1. PageInv => PageShowsTheAccount
  <2> SUFFICES ASSUME PageInv PROVE PageShowsTheAccount
    OBVIOUS
  <2>1. ~accountBusy => NoAccountTask
    BY DEF PageInv, TasksInv, NoAccountTask
  <2> QED BY <2>1 DEF PageInv, StateInv, CollectionsInv, PageShowsTheAccount
<1> QED BY PageInvHolds, <1>1, PTL
=============================================================================
