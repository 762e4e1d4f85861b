--------------------------- MODULE BangumiAccount ---------------------------
(***************************************************************************)
(* The account page of the desktop application: BangumiBrowserViewModel in *)
(* front of BangumiSession.  It begins one operation at a time, while the  *)
(* calendar, the details and the importer send requests of their own       *)
(* through the same module.                                                *)
(***************************************************************************)
EXTENDS BangumiSession

VARIABLES
    current,             \* the task whose generation is mGeneration
    tasks,               \* what each coroutine was begun for
    accountBusy, searchLoading, collectionsLoading,
    loggedIn,            \* mLoggedIn
    accountStatus,       \* mAccountStatus: "out", "in" or "error"
    collections          \* whose collections mCollectionResults shows

pageVars == <<current, tasks, accountBusy, searchLoading, collectionsLoading,
              loggedIn, accountStatus, collections>>
allVars == <<vars, pageVars>>

Purpose == {"none", "account", "search", "collections", "other"}

\* Broken: an account operation may be begun during another one.
Busy_NoAccount == searchLoading \/ collectionsLoading

Busy == searchLoading \/ collectionsLoading \/ accountBusy

\* Every operation moves the generation on, so that only the last one counts.
Begin(o, purpose) ==
    /\ ~Busy
    /\ tasks[o] = "none"
    /\ tasks' = [tasks EXCEPT ![o] = purpose]
    /\ current' = o

------------------------------------------------------------------------------
(* The account.                                                            *)

BeginSession(o) ==
    /\ Begin(o, "account")
    /\ accountBusy' = TRUE
    /\ UNCHANGED <<searchLoading, collectionsLoading, loggedIn, accountStatus,
                   collections>>

Restore(o) == ~loggedIn /\ BeginSession(o) /\ RestoreSession(o)
PageLogin(o) == ~loggedIn /\ BeginSession(o) /\ Login(o)
PageLogout(o) == loggedIn /\ BeginSession(o) /\ Logout(o)

\* Broken: the collections stay when the account is left.
LogoutShown_KeepsCollections(ok) ==
    /\ loggedIn' = ~ok
    /\ accountStatus' = IF ok THEN "out" ELSE "error"
    /\ UNCHANGED collections

\* A logout that failed leaves the page logged in, with the error shown.
LogoutShown(ok) ==
    /\ loggedIn' = ~ok
    /\ accountStatus' = IF ok THEN "out" ELSE "error"
    /\ collections' = IF ok THEN {} ELSE collections

LoginShown(ok) ==
    /\ loggedIn' = ok
    /\ accountStatus' = IF ok THEN "in" ELSE "error"
    /\ UNCHANGED collections

\* Broken: the page stays busy when a login fails.
SessionAnswered_BusyOnError(o) ==
    /\ tasks[o] = "account"
    /\ Return(o)
    /\ tasks' = [tasks EXCEPT ![o] = "none"]
    /\ accountBusy' = (accountBusy /\ ~ops[o].ok)
    /\ IF ops[o].kind = "logout" THEN LogoutShown(ops[o].ok)
                                 ELSE LoginShown(ops[o].ok)
    /\ UNCHANGED <<current, searchLoading, collectionsLoading>>

\* runSession() after its await; an answer of an older generation is dropped.
SessionAnswered(o) ==
    /\ tasks[o] = "account"
    /\ Return(o)
    /\ tasks' = [tasks EXCEPT ![o] = "none"]
    /\ IF current # o
       THEN UNCHANGED <<accountBusy, loggedIn, accountStatus, collections>>
       ELSE /\ accountBusy' = FALSE
            /\ IF ops[o].kind = "logout" THEN LogoutShown(ops[o].ok)
                                         ELSE LoginShown(ops[o].ok)
    /\ UNCHANGED <<current, searchLoading, collectionsLoading>>

------------------------------------------------------------------------------
(* Searches, collections, and the requests of other pages.                 *)

Search(o) ==
    /\ Begin(o, "search")
    /\ Fetch(o)
    /\ searchLoading' = TRUE
    /\ UNCHANGED <<accountBusy, collectionsLoading, loggedIn, accountStatus,
                   collections>>

SearchAnswered(o) ==
    /\ tasks[o] = "search"
    /\ Return(o)
    /\ tasks' = [tasks EXCEPT ![o] = "none"]
    /\ searchLoading' = (searchLoading /\ current # o)
    /\ UNCHANGED <<current, accountBusy, collectionsLoading, loggedIn,
                   accountStatus, collections>>

\* The module refuses when it is not logged in.
FetchCollections(o) ==
    \/ state = "LoggedIn" /\ token # NoUser /\ Fetch(o)
    \/ /\ state # "LoggedIn" \/ token = NoUser
       /\ ops[o] = Idle
       /\ ops' = At(ops, o, Answer("fetch", NoUser, FALSE))
       /\ UNCHANGED <<state, token, store, authActive, authReply, activeReply,
                      loggedOut>>

\* refreshCollections() begins anew; loadMoreCollections() appends.
LoadCollections(o) ==
    /\ loggedIn
    /\ Begin(o, "collections")
    /\ FetchCollections(o)
    /\ collectionsLoading' = TRUE
    /\ collections' \in {{}, collections}
    /\ UNCHANGED <<accountBusy, searchLoading, loggedIn, accountStatus>>

CollectionsAnswered(o) ==
    /\ tasks[o] = "collections"
    /\ Return(o)
    /\ tasks' = [tasks EXCEPT ![o] = "none"]
    /\ IF current # o
       THEN UNCHANGED <<collectionsLoading, collections>>
       ELSE /\ collectionsLoading' = FALSE
            /\ collections' = IF ops[o].ok THEN collections \cup {ops[o].user}
                                           ELSE collections
    /\ UNCHANGED <<current, accountBusy, searchLoading, loggedIn,
                   accountStatus>>

OtherFetch(o) ==
    /\ tasks[o] = "none"
    /\ Fetch(o)
    /\ tasks' = [tasks EXCEPT ![o] = "other"]
    /\ UNCHANGED <<current, accountBusy, searchLoading, collectionsLoading,
                   loggedIn, accountStatus, collections>>

OtherAnswered(o) ==
    /\ tasks[o] = "other"
    /\ Return(o)
    /\ tasks' = [tasks EXCEPT ![o] = "none"]
    /\ UNCHANGED <<current, accountBusy, searchLoading, collectionsLoading,
                   loggedIn, accountStatus, collections>>

------------------------------------------------------------------------------
PageStart ==
    /\ current' = NoOp /\ tasks' = [o \in Ops |-> "none"]
    /\ accountBusy' = FALSE /\ searchLoading' = FALSE
    /\ collectionsLoading' = FALSE
    /\ loggedIn' = FALSE /\ accountStatus' = "out" /\ collections' = {}

PageInit ==
    /\ Init
    /\ current = NoOp /\ tasks = [o \in Ops |-> "none"]
    /\ accountBusy = FALSE /\ searchLoading = FALSE
    /\ collectionsLoading = FALSE
    /\ loggedIn = FALSE /\ accountStatus = "out" /\ collections = {}

User(o) ==
    Restore(o) \/ PageLogin(o) \/ PageLogout(o) \/ Search(o)
    \/ LoadCollections(o) \/ OtherFetch(o)

Answered(o) ==
    SessionAnswered(o) \/ SearchAnswered(o) \/ CollectionsAnswered(o)
    \/ OtherAnswered(o)

PageNext ==
    \/ \E o \in Ops :
          \/ User(o)
          \/ Resume(o) /\ UNCHANGED pageVars
          \/ Answered(o)
    \/ Restart /\ PageStart

PageSpec == PageInit /\ [][PageNext]_allVars

\* Requests end or time out after 30 seconds, the wait for the browser after
\* 120; the store answers; the event loop resumes who has an answer.
PageFairness ==
    \A o \in Ops :
        /\ WF_allVars(Resume(o) /\ UNCHANGED pageVars)
        /\ WF_allVars(Answered(o))

PageFairSpec == PageSpec /\ PageFairness

------------------------------------------------------------------------------
(* Properties.                                                             *)

PageTypeOK ==
    /\ TypeOK
    /\ current \in Ops \cup {NoOp} /\ tasks \in [Ops -> Purpose]
    /\ accountBusy \in BOOLEAN /\ searchLoading \in BOOLEAN
    /\ collectionsLoading \in BOOLEAN /\ loggedIn \in BOOLEAN
    /\ accountStatus \in {"out", "in", "error"}
    /\ collections \subseteq Users

\* Between two operations the page says what is the case: who is logged in in
\* the module is logged in on the page, and the other way round unless a logout
\* has failed.  The collections on show are always those of that user: no late
\* answer brings back those of somebody who has left, and two users' are never
\* mixed (browser_view_model.cpp:268-339, 380-426).
PageShowsTheAccount ==
    /\ ~accountBusy =>
        /\ state = "LoggedIn" => loggedIn
        /\ loggedIn => state = "LoggedIn" \/ accountStatus = "error"
    /\ collections # {} => loggedIn /\ \A u \in collections : token \in {u, NoUser}

\* The account page does not stay busy (browser_view_model.cpp:172-175, 385,
\* 409).
AccountGetsFree == accountBusy ~> ~accountBusy
=============================================================================
