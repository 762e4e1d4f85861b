--------------------------- MODULE LibraryCatalog ---------------------------
(***************************************************************************)
(* The catalogue of works and the media library in the local database, and *)
(* the services that write them: LocalMediaImportService, which brings the *)
(* catalogue up to date from Bangumi, and LocalMetadataService.            *)
(*                                                                         *)
(* A details page begins a refresh whenever it opens a Bangumi subject and *)
(* never takes it back; the library page does one thing at a time.  A      *)
(* transaction of a store is one step, between two awaits of its caller,   *)
(* and may fail, which changes nothing.                                    *)
(***************************************************************************)
EXTENDS Integers, FiniteSets, Sequences, SequencesExt, Functions

CONSTANTS
    Works,          \* subjects of Bangumi
    EpisodeKeys,    \* what Bangumi calls its episodes
    WorkOf,         \* [EpisodeKeys -> Works]
    Listings,       \* external: what Bangumi may list of each work at first
    Files,          \* media files on the disk
    FolderOf,       \* the folder each of them is in
    Refreshes,      \* coroutines of the details page
    PageSize,       \* how many episodes Bangumi returns at once
    MaxSubjects, MaxEpisodes, MaxItems,     \* bounds on the ids given out
    Local,          \* the origin of what the user describes himself
    NoRow

SubjectIds == 1 .. MaxSubjects
EpisodeIds == 1 .. MaxEpisodes
ItemIds == 1 .. MaxItems
NoId == 0
Folders == {FolderOf[f] : f \in Files}

Subject == [origin : Works \cup {Local}, level : {"summary", "details"}, fresh : BOOLEAN]
Episode == [key : EpisodeKeys \cup {Local}, subject : SubjectIds]

\* What an episode belongs to.
Owner(k) == IF k = Local THEN Local ELSE WorkOf[k]

ASSUME ConstantsAssumption ==
    /\ WorkOf \in [EpisodeKeys -> Works]
    /\ IsFiniteSet(EpisodeKeys) /\ IsFiniteSet(Files)
    /\ Listings \subseteq [Works -> Seq(EpisodeKeys)]
    /\ \A listed \in Listings, w \in Works : \A k \in ToSet(listed[w]) : WorkOf[k] = w
    /\ PageSize \in Nat \ {0}
    /\ MaxSubjects \in Nat /\ MaxEpisodes \in Nat /\ MaxItems \in Nat
    /\ Local \notin Works \cup EpisodeKeys
    /\ NoRow \notin Subject \cup Episode \cup Files

VARIABLES
    remote,         \* external: the episodes Bangumi lists for each work
    subjects, episodes, items, resources, links,    \* the tables
    nextSubject, nextEpisode, nextItem,             \* the last ids given
    refresh,        \* ensureBangumiSubject, for each coroutine
    library,        \* what the library page is doing
    shown,          \* the subjects a details page has displayed
    picker          \* the episodes the association dialog offers

tables == <<subjects, episodes, items, resources, links, nextSubject, nextEpisode, nextItem>>
pages == <<shown, picker>>
vars == <<remote, tables, refresh, library, pages>>

\* `covers`, which the program does not have, is what Bangumi listed when the
\* refresh asked for the first episodes.
Resting == [pc |-> "idle", work |-> Local, subject |-> NoId, got |-> <<>>, covers |-> {}]
Quiet == [pc |-> "idle", work |-> Local, subject |-> NoId, item |-> NoId, got |-> {}]

Init ==
    /\ remote \in Listings
    /\ subjects = [s \in SubjectIds |-> NoRow]
    /\ episodes = [e \in EpisodeIds |-> NoRow]
    /\ items = [i \in ItemIds |-> NoRow]
    /\ resources = {} /\ links = {}
    /\ nextSubject = 0 /\ nextEpisode = 0 /\ nextItem = 0
    /\ refresh = [r \in Refreshes |-> Resting]
    /\ library = Quiet
    /\ shown = {} /\ picker = {}

------------------------------------------------------------------------------
(* Transactions of CatalogStore.                                           *)

\* Whatever refers to a row that is removed goes with it.
LinksAmong(es, is) == links \cap (es \X is)

\* An external identity belongs to one subject at most; what the user
\* describes has a new identity each time.
SubjectOf(w) ==
    {s \in SubjectIds : subjects[s] # NoRow /\ w # Local /\ subjects[s].origin = w}

\* Broken: the identity is not looked up in the transaction.
Target_Blind(w, s) == s = nextSubject + 1 /\ s \in SubjectIds /\ nextSubject' = s

\* Broken: without AUTOINCREMENT, the highest number is given again after
\* its row was removed.
Target_Reuses(w, s) ==
    IF SubjectOf(w) # {}
    THEN s \in SubjectOf(w) /\ UNCHANGED nextSubject
    ELSE /\ s \in SubjectIds /\ nextSubject' = s
         /\ \A t \in SubjectIds : (t >= s => subjects[t] = NoRow) /\ (t = s - 1 => subjects[t] # NoRow)

\* The subject that a snapshot is written to: the one known by its identity,
\* or a new one.
Target(w, s) ==
    IF SubjectOf(w) # {}
    THEN s \in SubjectOf(w) /\ UNCHANGED nextSubject
    ELSE s = nextSubject + 1 /\ s \in SubjectIds /\ nextSubject' = s

\* The level never falls; only details say when they were fetched.
Written(s, w, level) ==
    LET old == subjects[s] IN
    [origin |-> w,
     level |-> IF old # NoRow /\ old.level = "details" THEN "details" ELSE level,
     fresh |-> level = "details" \/ (old # NoRow /\ old.fresh)]

UpsertSubject(w, level, s) ==
    /\ Target(w, s)
    /\ subjects' = [subjects EXCEPT ![s] = Written(s, w, level)]
    /\ UNCHANGED <<episodes, items, resources, links, nextEpisode, nextItem>>

KeysStored == {episodes[e].key : e \in {d \in EpisodeIds : episodes[d] # NoRow}} \ {Local}
EpisodesOf(s) == {e \in EpisodeIds : episodes[e] # NoRow /\ episodes[e].subject = s}

\* Broken: the subject is not looked up.
Accepts_Orphans(s, keys) == s \in SubjectIds

\* The subject must exist, and own what is known of the keys.
Accepts(s, keys) ==
    /\ s \in SubjectIds /\ subjects[s] # NoRow
    /\ \A e \in EpisodeIds :
          (episodes[e] # NoRow /\ episodes[e].key \in keys \ {Local}) => episodes[e].subject = s

\* Broken: what the subject had is replaced.
UpsertEpisodes_Replaces(s, keys) ==
    /\ Accepts(s, keys)
    /\ nextEpisode + Cardinality(keys) <= MaxEpisodes
    /\ nextEpisode' = nextEpisode + Cardinality(keys)
    /\ \E given \in Bijection(nextEpisode + 1 .. nextEpisode', keys) :
          episodes' = [e \in EpisodeIds |->
              IF e \in DOMAIN given THEN [key |-> given[e], subject |-> s]
              ELSE IF e \in EpisodesOf(s) THEN NoRow ELSE episodes[e]]
    /\ links' = links \ LinksAmong(EpisodesOf(s), ItemIds)
    /\ UNCHANGED <<subjects, items, resources, nextSubject, nextItem>>

\* A key that is known keeps its row; the others get new ones.
UpsertEpisodes(s, keys) ==
    LET new == keys \ KeysStored IN
    /\ Accepts(s, keys)
    /\ nextEpisode + Cardinality(new) <= MaxEpisodes
    /\ nextEpisode' = nextEpisode + Cardinality(new)
    /\ \E given \in Bijection(nextEpisode + 1 .. nextEpisode', new) :
          episodes' = [e \in EpisodeIds |->
              IF e \in DOMAIN given THEN [key |-> given[e], subject |-> s] ELSE episodes[e]]
    /\ UNCHANGED <<subjects, items, resources, links, nextSubject, nextItem>>

DeleteSubject(s) ==
    /\ subjects' = [subjects EXCEPT ![s] = NoRow]
    /\ episodes' = [e \in EpisodeIds |-> IF e \in EpisodesOf(s) THEN NoRow ELSE episodes[e]]
    /\ links' = links \ LinksAmong(EpisodesOf(s), ItemIds)
    /\ UNCHANGED <<items, resources, nextSubject, nextEpisode, nextItem>>

------------------------------------------------------------------------------
(* Transactions of LibraryStore.                                           *)

ItemOf(f) == {i \in ItemIds : items[i] = f}

\* A file that is known keeps its row.
UpsertDiscoveries(fs) ==
    LET new == {f \in fs : ItemOf(f) = {}} IN
    /\ nextItem + Cardinality(new) <= MaxItems
    /\ nextItem' = nextItem + Cardinality(new)
    /\ \E given \in Bijection(nextItem + 1 .. nextItem', new) :
          items' = [i \in ItemIds |-> IF i \in DOMAIN given THEN given[i] ELSE items[i]]
    /\ resources' = resources \cup {FolderOf[f] : f \in fs}
    /\ UNCHANGED <<subjects, episodes, links, nextSubject, nextEpisode>>

\* The folder goes with its last file.
DeleteItem(i) ==
    LET folder == FolderOf[items[i]]
        others == {j \in ItemIds \ {i} : items[j] # NoRow /\ FolderOf[items[j]] = folder} IN
    /\ items' = [items EXCEPT ![i] = NoRow]
    /\ links' = links \ LinksAmong(EpisodeIds, {i})
    /\ resources' = IF others = {} THEN resources \ {folder} ELSE resources
    /\ UNCHANGED <<subjects, episodes, nextSubject, nextEpisode, nextItem>>

\* Both ends must exist.
UpsertLink(e, i) ==
    /\ e \in EpisodeIds /\ episodes[e] # NoRow
    /\ i \in ItemIds /\ items[i] # NoRow
    /\ links' = links \cup {<<e, i>>}
    /\ UNCHANGED <<subjects, episodes, items, resources, nextSubject, nextEpisode, nextItem>>

DeleteLink(e, i) ==
    /\ <<e, i>> \in links
    /\ links' = links \ {<<e, i>>}
    /\ UNCHANGED <<subjects, episodes, items, resources, nextSubject, nextEpisode, nextItem>>

------------------------------------------------------------------------------
(* ensureBangumiSubject, on behalf of a details page.                      *)

Continue(r, call) == refresh' = [refresh EXCEPT ![r] = call]

\* Answers with subject s, which the page then reads.
Answer(r, s) == Continue(r, [refresh[r] EXCEPT !.pc = "load", !.subject = s,
                                               !.got = <<>>, !.covers = {}])

GiveUp(r) == Continue(r, Resting)

\* Broken: it begins again.
FallBack_Retries(r) == Continue(r, [refresh[r] EXCEPT !.pc = "subject", !.got = <<>>, !.covers = {}])

\* After a request that failed, what is stored must do.
FallBack(r) == IF refresh[r].subject = NoId THEN GiveUp(r) ELSE Answer(r, refresh[r].subject)

FindSubject(r, w) ==
    /\ refresh[r].pc = "idle"
    /\ shown' = shown \cup SubjectOf(w)
    /\ \/ SubjectOf(w) = {}
          /\ Continue(r, [Resting EXCEPT !.pc = "subject", !.work = w])
       \/ \E s \in SubjectOf(w) :
             Continue(r, [Resting EXCEPT !.pc = "check", !.work = w, !.subject = s])
    /\ UNCHANGED <<remote, tables, library, picker>>

\* Details that are less than six hours old need no refresh; it ends when the
\* subject cannot be read.
CheckFreshness(r) ==
    LET row == subjects[refresh[r].subject] IN
    /\ refresh[r].pc = "check"
    /\ \/ IF row # NoRow /\ row.level = "details" /\ row.fresh
          THEN Answer(r, refresh[r].subject)
          ELSE Continue(r, [refresh[r] EXCEPT !.pc = "subject"])
       \/ GiveUp(r)
    /\ UNCHANGED <<remote, tables, library, pages>>

\* What is answered for another subject is an error, whatever is stored.
SubjectAnswered(r) ==
    /\ refresh[r].pc = "subject"
    /\ \/ Continue(r, [refresh[r] EXCEPT !.pc = "episodes",
                                         !.covers = ToSet(remote[refresh[r].work])])
       \/ FallBack(r)
       \/ GiveUp(r)
    /\ UNCHANGED <<remote, tables, library, pages>>

\* Broken: the total is taken from the first page and not from the last.
Complete_FirstTotal(r, got) == Len(got) >= Cardinality(refresh[r].covers)

\* What Bangumi answers for the offset.
Listed(r) ==
    LET all == remote[refresh[r].work]
        offset == Len(refresh[r].got)
        last == IF offset + PageSize < Len(all) THEN offset + PageSize ELSE Len(all) IN
    SubSeq(all, offset + 1, last)

Complete(r, got) == Listed(r) = <<>> \/ Len(got) >= Len(remote[refresh[r].work])

\* fetchAllEpisodes: page after page, until there are as many as Bangumi says.
PageAnswered(r) ==
    LET got == refresh[r].got \o Listed(r) IN
    /\ refresh[r].pc = "episodes"
    /\ \/ Continue(r, [refresh[r] EXCEPT !.got = got,
              !.pc = IF Complete(r, got) THEN "summary" ELSE "episodes"])
       \/ FallBack(r)
    /\ UNCHANGED <<remote, tables, library, pages>>

\* First as a summary, so that details are claimed last.
StoreSummary(r) ==
    /\ refresh[r].pc = "summary"
    /\ \/ \E s \in SubjectIds :
             /\ UpsertSubject(refresh[r].work, "summary", s)
             /\ Continue(r, [refresh[r] EXCEPT !.pc = "store", !.subject = s])
       \/ GiveUp(r) /\ UNCHANGED tables
    /\ UNCHANGED <<remote, library, pages>>

StoreEpisodes(r) ==
    /\ refresh[r].pc = "store"
    /\ \/ /\ UpsertEpisodes(refresh[r].subject, ToSet(refresh[r].got))
          /\ Continue(r, [refresh[r] EXCEPT !.pc = "details", !.got = <<>>])
       \/ GiveUp(r) /\ UNCHANGED tables
    /\ UNCHANGED <<remote, library, pages>>

StoreDetails(r) ==
    /\ refresh[r].pc = "details"
    /\ \/ \E s \in SubjectIds :
             /\ UpsertSubject(refresh[r].work, "details", s)
             /\ Answer(r, s)
       \/ GiveUp(r) /\ UNCHANGED tables
    /\ UNCHANGED <<remote, library, pages>>

\* The page reads what was answered, if it is still there.
PageLoads(r) ==
    /\ refresh[r].pc = "load"
    /\ GiveUp(r)
    /\ shown' = IF subjects[refresh[r].subject] = NoRow THEN shown
                ELSE shown \cup {refresh[r].subject}
    /\ UNCHANGED <<remote, tables, library, picker>>

EnsureResumes(r) ==
    \/ CheckFreshness(r) \/ SubjectAnswered(r) \/ PageAnswered(r)
    \/ StoreSummary(r) \/ StoreEpisodes(r) \/ StoreDetails(r) \/ PageLoads(r)

------------------------------------------------------------------------------
(* The library page.                                                       *)

\* isBusy() keeps every other operation out.
Idle == library.pc = "idle" /\ UNCHANGED library
Begin(pc, w, s, i) ==
    /\ library.pc = "idle"
    /\ library' = [Quiet EXCEPT !.pc = pc, !.work = w, !.subject = s, !.item = i]

ImportFiles(fs) == Idle /\ UpsertDiscoveries(fs) /\ UNCHANGED <<remote, refresh, pages>>
RemoveMedia(i) == Idle /\ items[i] # NoRow /\ DeleteItem(i) /\ UNCHANGED <<remote, refresh, pages>>
LinkMedia(e, i) ==
    Idle /\ e \in picker /\ UpsertLink(e, i) /\ UNCHANGED <<remote, refresh, pages>>
UnlinkMedia(e, i) == Idle /\ DeleteLink(e, i) /\ UNCHANGED <<remote, refresh, pages>>

\* Where the user sees it: on a details page, or in the library page with
\* the files linked to it.  There is nothing more to remove where it stays on
\* show, since its id is not given again.
RemoveSubject(s) ==
    /\ Idle
    /\ s \in shown \/ LinksAmong(EpisodesOf(s), ItemIds) # {}
    /\ subjects[s] # NoRow
    /\ DeleteSubject(s)
    /\ shown' = shown \ {s}
    /\ UNCHANGED <<remote, refresh, picker>>

\* loadAssociationEpisodes: the work is stored before its episodes are asked for.
BeginAssociation(w) ==
    /\ \E s \in SubjectIds : UpsertSubject(w, "summary", s) /\ Begin("page", w, s, NoId)
    /\ picker' = {}
    /\ UNCHANGED <<remote, refresh, shown>>

\* One page of them, any.
AssociationPage ==
    /\ library.pc = "page"
    /\ \/ \E offset \in 0 .. Len(remote[library.work]) :
             library' = [library EXCEPT !.pc = "options", !.got =
                 {remote[library.work][n] : n \in
                     {m \in DOMAIN remote[library.work] : m > offset /\ m <= offset + PageSize}}]
       \/ library' = Quiet
    /\ UNCHANGED <<remote, tables, refresh, pages>>

AssociationOptions ==
    /\ library.pc = "options"
    /\ library' = Quiet
    /\ \/ /\ UpsertEpisodes(library.subject, library.got)
          /\ picker' = {e \in EpisodeIds : episodes'[e] # NoRow /\ episodes'[e].key \in library.got}
       \/ UNCHANGED <<tables, picker>>
    /\ UNCHANGED <<remote, refresh, shown>>

\* createAndLink: a subject, its episode and the link, each in a transaction
\* of its own.
CreateSubject(i) ==
    /\ i <= nextItem
    /\ \E s \in SubjectIds : UpsertSubject(Local, "details", s) /\ Begin("episode", Local, s, i)
    /\ UNCHANGED <<remote, refresh, pages>>

CreateEpisode ==
    /\ library.pc = "episode"
    /\ \/ /\ UpsertEpisodes(library.subject, {Local})
          /\ library' = [library EXCEPT !.pc = "link"]
       \/ library' = Quiet /\ UNCHANGED tables
    /\ UNCHANGED <<remote, refresh, pages>>

CreateLink ==
    /\ library.pc = "link"
    /\ library' = Quiet
    /\ \/ \E e \in EpisodesOf(library.subject) : UpsertLink(e, library.item)
       \/ UNCHANGED tables
    /\ UNCHANGED <<remote, refresh, pages>>

LibraryResumes == AssociationPage \/ AssociationOptions \/ CreateEpisode \/ CreateLink

------------------------------------------------------------------------------
(* Bangumi, time, and the end of the program.                              *)

\* An episode is announced, anywhere in the list; none is withdrawn.
Announce(k) ==
    LET w == WorkOf[k] IN
    /\ k \notin ToSet(remote[w])
    /\ \E n \in 1 .. Len(remote[w]) + 1 : remote' = [remote EXCEPT ![w] = InsertAt(@, n, k)]
    /\ UNCHANGED <<tables, refresh, library, pages>>

\* What the user describes himself is never refreshed.
SixHoursPass(s) ==
    /\ subjects[s] # NoRow /\ subjects[s].fresh /\ subjects[s].origin # Local
    /\ subjects' = [subjects EXCEPT ![s].fresh = FALSE]
    /\ UNCHANGED <<remote, episodes, items, resources, links, nextSubject, nextEpisode, nextItem,
                   refresh, library, pages>>

Restart ==
    /\ refresh' = [r \in Refreshes |-> Resting]
    /\ library' = Quiet
    /\ shown' = {} /\ picker' = {}
    /\ UNCHANGED <<remote, tables>>

LibraryPage ==
    \/ LibraryResumes
    \/ \E w \in Works : BeginAssociation(w)
    \/ \E fs \in SUBSET Files \ {{}} : ImportFiles(fs)
    \/ \E s \in SubjectIds : RemoveSubject(s)
    \/ \E i \in ItemIds :
          \/ RemoveMedia(i) \/ CreateSubject(i)
          \/ \E e \in EpisodeIds : LinkMedia(e, i) \/ UnlinkMedia(e, i)

Next ==
    \/ \E r \in Refreshes : EnsureResumes(r) \/ (\E w \in Works : FindSubject(r, w))
    \/ LibraryPage
    \/ \E k \in EpisodeKeys : Announce(k)
    \/ \E s \in SubjectIds : SixHoursPass(s)
    \/ Restart

Spec == Init /\ [][Next]_vars

\* Requests time out and transactions end, so that a coroutine goes on.
FairSpec == Spec /\ \A r \in Refreshes : WF_vars(EnsureResumes(r))

------------------------------------------------------------------------------
(* Properties.                                                             *)

Coroutine ==
    [pc : {"idle", "check", "subject", "episodes", "summary", "store", "details", "load"},
     work : Works \cup {Local}, subject : SubjectIds \cup {NoId},
     got : Seq(EpisodeKeys), covers : SUBSET EpisodeKeys]

Operation ==
    [pc : {"idle", "page", "options", "episode", "link"}, work : Works \cup {Local},
     subject : SubjectIds \cup {NoId}, item : ItemIds \cup {NoId}, got : SUBSET EpisodeKeys]

\* The tables hold rows, and none beyond the last id that was given.
TypeOK ==
    /\ remote \in [Works -> Seq(EpisodeKeys)]
    /\ subjects \in [SubjectIds -> Subject \cup {NoRow}]
    /\ episodes \in [EpisodeIds -> Episode \cup {NoRow}]
    /\ items \in [ItemIds -> Files \cup {NoRow}]
    /\ resources \subseteq Folders /\ links \subseteq EpisodeIds \X ItemIds
    /\ nextSubject \in 0 .. MaxSubjects /\ \A s \in SubjectIds : s > nextSubject => subjects[s] = NoRow
    /\ nextEpisode \in 0 .. MaxEpisodes /\ \A e \in EpisodeIds : e > nextEpisode => episodes[e] = NoRow
    /\ nextItem \in 0 .. MaxItems /\ \A i \in ItemIds : i > nextItem => items[i] = NoRow
    /\ refresh \in [Refreshes -> Coroutine]
    /\ library \in Operation
    /\ shown \subseteq SubjectIds /\ picker \subseteq EpisodeIds

\* An episode belongs to a subject that is stored, a link joins an episode
\* and a file that are stored, and a folder is stored as long as a file of
\* it is, whatever a refresh that began before a removal still writes.
ReferencesResolve ==
    /\ \A e \in EpisodeIds : episodes[e] # NoRow => subjects[episodes[e].subject] # NoRow
    /\ \A l \in links : episodes[l[1]] # NoRow /\ items[l[2]] # NoRow
    /\ resources = {FolderOf[items[i]] : i \in {j \in ItemIds : items[j] # NoRow}}

\* Refreshes and associations of the same work at the same time make one
\* subject of it and one row of each episode, and the episode is under the
\* work it is an episode of.
OneRowEach ==
    /\ \A s, t \in SubjectIds :
          (subjects[s] # NoRow /\ subjects[t] # NoRow /\ subjects[s].origin = subjects[t].origin)
          => s = t \/ subjects[s].origin = Local
    /\ \A e, d \in EpisodeIds :
          (episodes[e] # NoRow /\ episodes[d] # NoRow /\ episodes[e].key = episodes[d].key)
          => e = d \/ episodes[e].key = Local
    /\ \A e \in EpisodeIds :
          episodes[e] # NoRow => subjects[episodes[e].subject].origin = Owner(episodes[e].key)

\* What a coroutine answers with is the work that was asked for, or nothing
\* that exists any more: never something else under the same number.
AnswerIsTheWork ==
    \A r \in Refreshes :
        (refresh[r].pc \in {"check", "store", "details", "load"} /\ subjects[refresh[r].subject] # NoRow)
        => subjects[refresh[r].subject].origin = refresh[r].work

\* A step of a coroutine that brings the catalogue up to date keeps every
\* episode under its number, and every link to it.
RefreshKeepsLinks ==
    [][(refresh' # refresh \/ library' # library) =>
          /\ links \subseteq links'
          /\ \A e \in EpisodeIds : episodes[e] # NoRow => episodes'[e] = episodes[e]]_vars

Holds(s, keys) == \A k \in keys : \E e \in EpisodeIds :
    episodes[e] # NoRow /\ episodes[e].subject = s /\ episodes[e].key = k

\* When a refresh claims details for the subject that it has brought up to
\* date, every episode that Bangumi listed when it began to ask is stored,
\* although others are announced between two pages, before or after those it
\* has (local_media_import.cpp:167-195, 801-827).
DetailsAreComplete ==
    [][\A r \in Refreshes :
          (refresh[r].pc = "details" /\ refresh'[r].pc = "load" /\ subjects[refresh[r].subject] # NoRow)
          => Holds(refresh[r].subject, refresh[r].covers)]_vars

\* "when necessary fetches the complete subject and all episodes and writes
\* them to the catalogue" (docs/library/library_design.md:150-151).
EnsureStoresAll ==
    [][\A r \in Refreshes :
          (refresh[r].pc = "details" /\ refresh'[r].pc = "load")
          => Holds(refresh'[r].subject, refresh[r].covers)]_vars

\* A refresh comes to an end, however often the list grows.
RefreshEnds == \A r \in Refreshes : refresh[r].pc # "idle" ~> refresh[r].pc = "idle"

=============================================================================
