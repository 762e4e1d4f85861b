--------------------------- MODULE BangumiSession ---------------------------
(***************************************************************************)
(* The account of the Bangumi module: restoring a stored credential,       *)
(* logging in through the browser (OAuth), and logging out.  Each          *)
(* operation is a coroutine on the one GUI thread, so that several of them *)
(* may be suspended at once; the credential store works on another thread  *)
(* and its answer is taken up later.                                       *)
(*                                                                         *)
(* A token is named by the user it belongs to.  The web service, the       *)
(* browser and the credential store may fail or refuse at any time.        *)
(***************************************************************************)
CONSTANTS
    Ops,     \* coroutines that may be suspended at the same time
    NoOp,    \* a QPointer<QNetworkReply> that is null
    Users,   \* Bangumi users, and their tokens
    NoUser   \* std::nullopt

ASSUME AccountAssumption == NoOp \notin Ops /\ NoUser \notin Users

VARIABLES
    state,        \* mState of the module
    token,        \* mToken and mUser, which are set and reset together
    store,        \* the content of the TokenStore, which outlives the process
    ops,          \* what each coroutine awaits
    authActive,   \* mActive of BangumiAuth
    authReply,    \* mActiveReply of BangumiAuth
    activeReply,  \* mActiveReply of BangumiClient
    loggedOut     \* history: logout() was called, and no login() since

vars == <<state, token, store, ops, authActive, authReply, activeReply,
          loggedOut>>

LoginState ==
    {"LoggedOut", "RestoringSession", "WaitingForCallback", "ExchangingToken",
     "VerifyingUser", "LoggedIn"}

\* The awaits of an operation; "loaded", "wiped", "saved" and "cleared" have
\* the store's answer and wait for the GUI thread, "done" waits for the caller.
Await == {"idle", "load", "loaded", "me", "wipe", "wiped", "callback",
          "exchange", "save", "saved", "clear", "cleared", "get", "done"}

Op == [kind : {"none", "restore", "login", "logout", "fetch"}, at : Await,
       user : Users \cup {NoUser},   \* the token it carries
       hit : BOOLEAN,                \* its wait was cancelled or aborted
       ok : BOOLEAN]                 \* its answer, or that of the store

Idle == [kind |-> "none", at |-> "idle", user |-> NoUser, hit |-> FALSE,
         ok |-> FALSE]

Suspended(kind, at, user) ==
    [kind |-> kind, at |-> at, user |-> user, hit |-> FALSE, ok |-> FALSE]

Answer(kind, user, ok) == [Suspended(kind, "done", user) EXCEPT !.ok = ok]

\* f with operation o resumed and suspended again as op.
At(f, o, op) == [f EXCEPT ![o] = op]

------------------------------------------------------------------------------
(* Cancellation.                                                           *)

\* The signal cancelRequested wakes whoever waits for the callback.
Woken(f) ==
    [p \in Ops |-> [f[p] EXCEPT
        !.hit = @ \/ (authActive /\ f[p].at = "callback")]]

\* cancelLogin(): while a login is active, its waits are woken and the token
\* request is aborted.
LoginCancelled(f) ==
    [p \in Ops |-> [Woken(f)[p] EXCEPT !.hit = @ \/ (authActive /\ p = authReply)]]

\* cancel() of the client aborts the request that was begun last.
RequestAborted(f) ==
    [p \in Ops |-> [f[p] EXCEPT !.hit = @ \/ p = activeReply]]

------------------------------------------------------------------------------
(* restoreSession().                                                       *)

RestoreSession(o) ==
    /\ ops[o] = Idle
    /\ \/ /\ state = "LoggedIn"
          /\ ops' = At(ops, o, Answer("restore", token, TRUE))
          /\ UNCHANGED state
       \/ /\ state \notin {"LoggedIn", "LoggedOut"}
          /\ ops' = At(ops, o, Answer("restore", NoUser, FALSE))
          /\ UNCHANGED state
       \/ /\ state = "LoggedOut"
          /\ state' = "RestoringSession"
          /\ ops' = At(ops, o, Suspended("restore", "load", NoUser))
    /\ UNCHANGED <<token, store, authActive, authReply, activeReply, loggedOut>>

StoreLoads(o) ==
    /\ ops[o].at = "load"
    /\ ops' = At(ops, o, Suspended("restore", "loaded", store))
    /\ UNCHANGED <<state, token, store, authActive, authReply, activeReply,
                   loggedOut>>

\* The operation ends with an error, logged out.
Fails(o, f) ==
    /\ ops' = At(f, o, Answer(f[o].kind, NoUser, FALSE))
    /\ state' = "LoggedOut"

\* getCurrentUser() is asked who the token belongs to.
Verify(o, f, user) ==
    /\ ops' = At(f, o, Suspended(f[o].kind, "me", user))
    /\ state' = "VerifyingUser"
    /\ activeReply' = o

\* The stored credential is missing, unreadable or expired; or it is verified.
LoadResumes(o) ==
    /\ ops[o].at = "loaded"
    /\ \/ Fails(o, ops) /\ UNCHANGED activeReply
       \/ ops[o].user # NoUser /\ Verify(o, ops, ops[o].user)
    /\ UNCHANGED <<token, store, authActive, authReply, loggedOut>>

LoggedInAs(o, user) ==
    /\ token' = user
    /\ state' = "LoggedIn"
    /\ ops' = At(ops, o, Answer(ops[o].kind, user, TRUE))

\* The user is verified: a restored session begins, a new one is saved first.
UserVerified(o) ==
    /\ ops[o].at = "me" /\ ~ops[o].hit
    /\ \/ ops[o].kind = "restore" /\ LoggedInAs(o, ops[o].user)
       \/ /\ ops[o].kind = "login"
          /\ ops' = At(ops, o, Suspended("login", "save", ops[o].user))
          /\ UNCHANGED <<state, token>>
    /\ activeReply' = NoOp
    /\ UNCHANGED <<store, authActive, authReply, loggedOut>>

\* The request fails, was aborted, or names another user.
UserNotVerified(o) ==
    /\ ops[o].at = "me"
    /\ Fails(o, ops)
    /\ activeReply' = NoOp
    /\ UNCHANGED <<token, store, authActive, authReply, loggedOut>>

\* 401 or 403 proves that a stored credential is of no use: it is cleared.
StoredTokenRefused(o) ==
    /\ ops[o].at = "me" /\ ops[o].kind = "restore" /\ ~ops[o].hit
    /\ ops' = At(ops, o, Suspended("restore", "wipe", NoUser))
    /\ activeReply' = NoOp
    /\ UNCHANGED <<state, token, store, authActive, authReply, loggedOut>>

StoreClears(o) ==
    /\ ops[o].at \in {"wipe", "clear"}
    /\ \E ok \in BOOLEAN :
        /\ store' = IF ok THEN NoUser ELSE store
        /\ ops' = At(ops, o,
                     [ops[o] EXCEPT !.ok = ok,
                        !.at = IF @ = "wipe" THEN "wiped" ELSE "cleared"])
    /\ UNCHANGED <<state, token, authActive, authReply, activeReply, loggedOut>>

WipeResumes(o) ==
    /\ ops[o].at = "wiped"
    /\ Fails(o, ops)
    /\ UNCHANGED <<token, store, authActive, authReply, activeReply, loggedOut>>

------------------------------------------------------------------------------
(* login().                                                                *)

\* login() up to the wait for the browser, or to the first thing that fails:
\* another flow, the configuration, the callback port, the browser.
Login(o) ==
    /\ ops[o] = Idle
    /\ \/ /\ state # "LoggedOut"
          /\ ops' = At(ops, o, Answer("login", NoUser, FALSE))
          /\ UNCHANGED <<state, authActive, loggedOut>>
       \/ /\ state = "LoggedOut"
          /\ ops' = At(ops, o, Answer("login", NoUser, FALSE))
          /\ loggedOut' = FALSE
          /\ UNCHANGED <<state, authActive>>
       \/ /\ state = "LoggedOut" /\ ~authActive
          /\ ops' = At(ops, o, Suspended("login", "callback", NoUser))
          /\ state' = "WaitingForCallback"
          /\ authActive' = TRUE
          /\ loggedOut' = FALSE
    /\ UNCHANGED <<token, store, authReply, activeReply>>

\* The callback carries a code: the listener is closed, the code exchanged.
CallbackAccepted(o) ==
    /\ ops[o].at = "callback" /\ ~ops[o].hit
    /\ ops' = At(ops, o, Suspended("login", "exchange", NoUser))
    /\ state' = "ExchangingToken"
    /\ authReply' = o
    /\ UNCHANGED <<token, store, authActive, activeReply, loggedOut>>

\* A bad callback, a timeout or a cancellation ends the flow; LoginGuard then
\* cancels whatever login is active.
CallbackFails(o) ==
    /\ ops[o].at = "callback"
    /\ Fails(o, LoginCancelled(ops))
    /\ authActive' = FALSE
    /\ UNCHANGED <<token, store, authReply, activeReply, loggedOut>>

TokenReceived(o) ==
    /\ ops[o].at = "exchange" /\ ~ops[o].hit
    /\ \E user \in Users : Verify(o, Woken(ops), user)
    /\ authActive' = FALSE
    /\ authReply' = NoOp
    /\ UNCHANGED <<token, store, loggedOut>>

TokenNotReceived(o) ==
    /\ ops[o].at = "exchange"
    /\ Fails(o, Woken(ops))
    /\ authActive' = FALSE
    /\ authReply' = NoOp
    /\ UNCHANGED <<token, store, activeReply, loggedOut>>

StoreSaves(o) ==
    /\ ops[o].at = "save"
    /\ store' \in {ops[o].user, store, NoUser}
    /\ ops' = At(ops, o, [ops[o] EXCEPT !.at = "saved"])
    /\ UNCHANGED <<state, token, authActive, authReply, activeReply, loggedOut>>

\* A token that could not be saved does not spoil the login.
SaveResumes(o) ==
    /\ ops[o].at = "saved"
    /\ LoggedInAs(o, ops[o].user)
    /\ UNCHANGED <<store, authActive, authReply, activeReply, loggedOut>>

------------------------------------------------------------------------------
(* logout().                                                               *)

\* Broken: a logout that could not clear the store counts as one.
ClearResumes_Forgiving(o) ==
    /\ ops[o].at = "cleared"
    /\ token' = NoUser
    /\ state' = "LoggedOut"
    /\ ops' = At(ops, o, Answer("logout", NoUser, TRUE))
    /\ UNCHANGED <<store, authActive, authReply, activeReply, loggedOut>>

Logout(o) ==
    /\ ops[o] = Idle
    /\ ops' = At(RequestAborted(LoginCancelled(ops)), o,
                 Suspended("logout", "clear", NoUser))
    /\ authActive' = FALSE
    /\ loggedOut' = TRUE
    /\ UNCHANGED <<state, token, store, authReply, activeReply>>

\* Whatever the store answered, the session in memory is over.
ClearResumes(o) ==
    /\ ops[o].at = "cleared"
    /\ token' = NoUser
    /\ state' = "LoggedOut"
    /\ ops' = At(ops, o, Answer("logout", NoUser, ops[o].ok))
    /\ loggedOut' = (loggedOut /\ ops[o].ok)
    /\ UNCHANGED <<store, authActive, authReply, activeReply>>

------------------------------------------------------------------------------
(* Other requests, and the end of the process.                             *)

\* A search, the calendar, details, episodes or collections, with the token
\* that there is.
Fetch(o) ==
    /\ ops[o] = Idle
    /\ ops' = At(ops, o, Suspended("fetch", "get", token))
    /\ activeReply' = o
    /\ UNCHANGED <<state, token, store, authActive, authReply, loggedOut>>

\* The pointer to the active request is cleared, whichever request it is.
Fetched(o) ==
    /\ ops[o].at = "get"
    /\ \E ok \in BOOLEAN :
        /\ ok => ~ops[o].hit
        /\ ops' = At(ops, o, Answer("fetch", ops[o].user, ok))
    /\ activeReply' = NoOp
    /\ UNCHANGED <<state, token, store, authActive, authReply, loggedOut>>

\* The caller takes the answer.
Return(o) ==
    /\ ops[o].at = "done"
    /\ ops' = At(ops, o, Idle)
    /\ UNCHANGED <<state, token, store, authActive, authReply, activeReply,
                   loggedOut>>

\* The process ends; only the store is left when it is started again.
Restart ==
    /\ state' = "LoggedOut" /\ token' = NoUser
    /\ ops' = [o \in Ops |-> Idle]
    /\ authActive' = FALSE /\ authReply' = NoOp /\ activeReply' = NoOp
    /\ loggedOut' = (loggedOut /\ \A o \in Ops : ops[o].kind # "logout")
    /\ UNCHANGED store

------------------------------------------------------------------------------
Init ==
    /\ state = "LoggedOut" /\ token = NoUser
    /\ store \in Users \cup {NoUser}
    /\ ops = [o \in Ops |-> Idle]
    /\ authActive = FALSE /\ authReply = NoOp /\ activeReply = NoOp
    /\ loggedOut = FALSE

Call(o) == RestoreSession(o) \/ Login(o) \/ Logout(o) \/ Fetch(o)

Resume(o) ==
    \/ StoreLoads(o) \/ LoadResumes(o)
    \/ UserVerified(o) \/ UserNotVerified(o)
    \/ StoredTokenRefused(o) \/ StoreClears(o) \/ WipeResumes(o)
    \/ CallbackAccepted(o) \/ CallbackFails(o)
    \/ TokenReceived(o) \/ TokenNotReceived(o)
    \/ StoreSaves(o) \/ SaveResumes(o)
    \/ ClearResumes(o) \/ Fetched(o)

Next == (\E o \in Ops : Call(o) \/ Resume(o) \/ Return(o)) \/ Restart

Spec == Init /\ [][Next]_vars

------------------------------------------------------------------------------
(* Properties.                                                             *)

AtMostOne(S) == \A a, b \in S : a = b

\* Every variable keeps to its type, and nobody is verified or saved without a
\* token, whoever calls what and when.
TypeOK ==
    /\ state \in LoginState
    /\ token \in Users \cup {NoUser} /\ store \in Users \cup {NoUser}
    /\ ops \in [Ops -> Op]
    /\ \A o \in Ops :
          ops[o].at \in {"me", "save", "saved"} => ops[o].user \in Users
    /\ authActive \in BOOLEAN
    /\ authReply \in Ops \cup {NoOp} /\ activeReply \in Ops \cup {NoOp}
    /\ loggedOut \in BOOLEAN

\* The module does not claim to be logged in without a token and a user: no
\* coroutine that was overtaken resets one without the other
\* (bangumi.cpp:150-152, 185-190, 376-378).
LoggedInHasToken == state = "LoggedIn" => token # NoUser

\* load, save and clear of the store are not called concurrently (the
\* invariant that config.hpp:212 states for TokenStore).
StoreOneAtATime ==
    AtMostOne({o \in Ops : ops[o].at \in {"load", "wipe", "save", "clear"}})

\* Once logout() has succeeded, nobody is logged in and no credential is left,
\* until the user logs in again (docs/bangumi/login.md:169).
LogoutIsFinal ==
    loggedOut /\ (\A o \in Ops : ops[o].kind # "logout")
    => state # "LoggedIn" /\ token = NoUser /\ store = NoUser
=============================================================================
