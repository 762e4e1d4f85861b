--------------------------- MODULE SubjectDetails ---------------------------
(***************************************************************************)
(* The page of a subject, on top of the library page: a page of its        *)
(* episodes, in either order, with what the files are linked to.  What it  *)
(* asks for takes one coroutine each.  A new request does not stop those   *)
(* under way: it counts the generation up, and what an older one reads is  *)
(* dropped when it arrives, although it may have changed the database.     *)
(***************************************************************************)
EXTENDS LibraryPage

VARIABLES
    view,       \* SubjectDetailsViewModel
    tasks,      \* its coroutines
    wanted,     \* history: what the user asked to see last,
    failed      \* history: and whether that could not be read

detailsVars == <<view, tasks, wanted, failed>>
pageVars == <<libraryVars, detailsVars>>

Nothing == [subject |-> NoSubject, number |-> 1, descending |-> FALSE]

\* current, work: mCurrentSubject, mBangumiId; shown: mSubject; listed is what
\* was stored of it when it was read.
Blank == [current |-> NoSubject, work |-> NoSubject, shown |-> NoSubject,
          number |-> 1, descending |-> FALSE, episodes |-> <<>>, total |-> 0,
          first |-> 0, listed |-> {},
          loading |-> FALSE, refreshing |-> FALSE, more |-> FALSE, playing |-> FALSE,
          error |-> FALSE, generation |-> 0]

DetailsInit == view = Blank /\ tasks = {} /\ wanted = Nothing /\ failed = FALSE

PageInit == LibraryInit /\ DetailsInit

------------------------------------------------------------------------------
(* Requests.                                                               *)

Spawn(pc, subject, number, descending, generation) ==
    tasks' = tasks \cup {[pc |-> pc, subject |-> subject, number |-> number,
                          descending |-> descending, generation |-> generation]}

Wants(subject, number, descending) ==
    /\ wanted' = [subject |-> subject, number |-> number, descending |-> descending]
    /\ failed' = FALSE

\* Broken: a subject may be opened while an episode starts to play.
OpensSubject_WhilePlaying(s) ==
    /\ view' = [Blank EXCEPT !.current = s, !.loading = TRUE, !.playing = view.playing,
                             !.generation = view.generation + 1]
    /\ Spawn("page", s, 1, FALSE, view.generation + 1)
    /\ Wants(s, 1, FALSE)

\* openSubject()
OpensSubject(s) ==
    IF view.playing THEN UNCHANGED detailsVars
    ELSE /\ view' = [Blank EXCEPT !.current = s, !.loading = TRUE,
                                  !.generation = view.generation + 1]
         /\ Spawn("page", s, 1, FALSE, view.generation + 1)
         /\ Wants(s, 1, FALSE)

OpenSubject(s) ==
    /\ s \in known \cup gone /\ ~view.playing
    /\ Ask /\ OpensSubject(s)
    /\ UNCHANGED <<database, op, media, picker, editor, error, unread>>

OpenBangumiSubject(w) ==
    /\ ~view.playing
    /\ ~((view.loading \/ view.refreshing \/ view.more) /\ view.work = w)
    /\ Ask
    /\ view' = [Blank EXCEPT !.work = w, !.loading = TRUE, !.generation = view.generation + 1]
    /\ Spawn("find", w, 1, FALSE, view.generation + 1)
    /\ Wants(w, 1, FALSE)
    /\ UNCHANGED <<database, op, media, picker, editor, error, unread>>

Still == ~(view.loading \/ view.more \/ view.playing)

\* A page of the subject on show, in place of what is still under way.
TurnsTo(number, descending) ==
    /\ Still /\ view.current # NoSubject
    /\ Ask
    /\ view' = [view EXCEPT !.refreshing = FALSE, !.more = TRUE, !.error = FALSE,
                            !.descending = descending, !.generation = @ + 1]
    /\ Spawn("page", view.current, number, descending, view.generation + 1)
    /\ Wants(view.current, number, descending)
    /\ UNCHANGED <<database, op, media, picker, editor, error, unread>>

GoToEpisodePage(number) ==
    /\ number \in 1..PagesOf(view.total) \ {view.number}
    /\ TurnsTo(number, view.descending)

SetEpisodeSortDescending(descending) ==
    /\ descending # view.descending
    /\ TurnsTo(1, descending)

\* playEpisode(), of an episode on show.
PlayEpisode(n) ==
    /\ Still /\ n \in ToSet(view.episodes)
    /\ Ask
    /\ view' = [view EXCEPT !.playing = TRUE, !.error = FALSE]
    /\ Spawn("play", view.shown, n, FALSE, view.generation)
    /\ UNCHANGED <<database, op, media, picker, editor, error, unread, wanted, failed>>

PlayFirstAvailable == view.first # 0 /\ PlayEpisode(view.first)

\* A page without identity is opened.
Clear ==
    /\ Still /\ Ask
    /\ view' = [Blank EXCEPT !.generation = view.generation + 1]
    /\ wanted' = Nothing /\ failed' = FALSE
    /\ UNCHANGED <<database, op, media, picker, editor, error, unread, tasks>>

------------------------------------------------------------------------------
(* Answers.                                                                *)

Ends(t) == tasks' = tasks \ {t}
Goes(t, pc) == tasks' = (tasks \ {t}) \cup {[t EXCEPT !.pc = pc]}

\* Broken: what an older coroutine reads is shown.
Stale_Never(t) == FALSE

Stale(t) == t.generation # view.generation

\* listEpisodesPage(): the stored episodes in the order asked for, each at the
\* place that the number of those up to it says.
SortedBy(numbers, descending) ==
    LET upTo(n) == {m \in numbers : IF descending THEN m >= n ELSE m <= n} IN
    [i \in 1..Cardinality(numbers) |-> CHOOSE n \in numbers : Cardinality(upTo(n)) = i]
PageOf(numbers, number, descending) ==
    Part(SortedBy(numbers, descending), PageSize, (number - 1) * PageSize)

Linked(s, n) == \E f \in files : <<f, <<s, n>> >> \in links

\* Broken: the episodes are shown and the number of the page is not.
Shows_OldNumber(s, number, descending) ==
    [view EXCEPT !.current = s, !.shown = s, !.descending = descending,
                 !.episodes = PageOf(catalog[s], number, descending),
                 !.listed = catalog[s], !.total = Cardinality(catalog[s]), !.error = FALSE,
                 !.loading = FALSE, !.more = FALSE, !.refreshing = FALSE]

\* applyDetails(), after the fields that say what is on show; nothing is under
\* way any more.
Shows(s, number, descending) ==
    LET page == PageOf(catalog[s], number, descending)
        playable == SelectInSeq(page, LAMBDA n : Linked(s, n)) IN
    [view EXCEPT !.current = s, !.shown = s, !.number = number, !.descending = descending,
                 !.episodes = page, !.listed = catalog[s], !.total = Cardinality(catalog[s]),
                 !.first = IF playable = 0 THEN 0 ELSE page[playable], !.error = FALSE,
                 !.loading = FALSE, !.more = FALSE, !.refreshing = FALSE]

\* Nothing is under way any more, and there is nothing new to show.
ShowsNothing ==
    view' = [view EXCEPT !.loading = FALSE, !.more = FALSE, !.refreshing = FALSE,
                         !.error = TRUE]

\* What the service is asked for may change the database whether or not the
\* answer is still wanted: all of the work is stored.  A failure leaves nothing,
\* the work's summary, or its summary and all its episodes.  When requests
\* fail, what is stored will do.
Ensures(w, ok) ==
    \/ /\ ok /\ w \notin gone
       /\ known' = known \cup {w}
       /\ catalog' = [catalog EXCEPT ![w] = @ \cup 1..announced[w]]
    \/ ok /\ w \in known /\ UNCHANGED <<known, catalog>>
    \/ ~ok /\ UNCHANGED <<known, catalog>>
    \/ /\ ~ok /\ w \notin gone
       /\ known' = known \cup {w}
       /\ \E episodes \in {{}, 1..announced[w]} :
             catalog' = [catalog EXCEPT ![w] = @ \cup episodes]

\* loadPage()
PageAnswered(t) ==
    /\ t.pc = "page" /\ Ends(t)
    /\ \/ Stale(t) /\ UNCHANGED <<view, failed>>
       \/ /\ ~Stale(t) /\ t.subject \in known
          /\ view' = Shows(t.subject, t.number, t.descending)
          /\ UNCHANGED failed
       \/ ~Stale(t) /\ ShowsNothing /\ failed' = TRUE
    /\ UNCHANGED <<database, wanted>>

\* resolveAndLoad() asks for the id of the work first,
FindAnswered(t) ==
    /\ t.pc = "find"
    /\ \/ Stale(t) /\ Ends(t) /\ UNCHANGED <<view, failed>>
       \/ /\ ~Stale(t) /\ Goes(t, IF t.subject \in known THEN "local" ELSE "ensure")
          /\ UNCHANGED <<view, failed>>
       \/ ~Stale(t) /\ Ends(t) /\ ShowsNothing /\ failed' = TRUE
    /\ UNCHANGED <<database, wanted>>

\* shows what is stored of it,
LocalAnswered(t) ==
    /\ t.pc = "local"
    /\ \/ Stale(t) /\ Ends(t) /\ UNCHANGED view
       \/ /\ ~Stale(t) /\ t.subject \in known /\ Goes(t, "ensure")
          /\ view' = [Shows(t.subject, 1, FALSE) EXCEPT !.refreshing = TRUE]
       \/ ~Stale(t) /\ Goes(t, "ensure") /\ UNCHANGED view
    /\ UNCHANGED <<database, wanted, failed>>

\* A failure is an error only where nothing is on show.
Settles ==
    /\ IF view.shown # NoSubject
       THEN view' = [view EXCEPT !.loading = FALSE, !.refreshing = FALSE, !.error = FALSE]
       ELSE view' = [view EXCEPT !.loading = FALSE, !.refreshing = FALSE, !.error = TRUE]
    /\ failed' = (failed \/ view.shown = NoSubject)

\* has it refreshed,
EnsureAnswered(t) ==
    /\ t.pc = "ensure"
    /\ \E ok \in BOOLEAN :
        /\ Ensures(t.subject, ok)
        /\ \/ Stale(t) /\ Ends(t) /\ UNCHANGED <<view, failed>>
           \/ ~Stale(t) /\ ok /\ Goes(t, "read") /\ UNCHANGED <<view, failed>>
           \/ ~Stale(t) /\ ~ok /\ Ends(t) /\ Settles
    /\ UNCHANGED <<announced, numbered, files, gone, links, wanted>>

\* and shows what is stored of it now.
ReadAnswered(t) ==
    /\ t.pc = "read" /\ Ends(t)
    /\ \/ Stale(t) /\ UNCHANGED <<view, failed>>
       \/ /\ ~Stale(t) /\ t.subject \in known
          /\ view' = Shows(t.subject, 1, FALSE)
          /\ UNCHANGED failed
       \/ ~Stale(t) /\ Settles
    /\ UNCHANGED <<database, wanted>>

EpisodePlayed(t) ==
    /\ t.pc = "play" /\ Ends(t)
    /\ \/ Stale(t) /\ UNCHANGED view
       \/ /\ ~Stale(t) /\ Linked(t.subject, t.number)
          /\ view' = [view EXCEPT !.playing = FALSE, !.error = FALSE]
       \/ ~Stale(t) /\ view' = [view EXCEPT !.playing = FALSE, !.error = TRUE]
    /\ UNCHANGED <<database, wanted, failed>>

DetailsAnswer(t) ==
    /\ \/ PageAnswered(t) \/ FindAnswered(t) \/ LocalAnswered(t)
       \/ EnsureAnswered(t) \/ ReadAnswered(t) \/ EpisodePlayed(t)
    /\ UNCHANGED <<op, media, picker, editor, error, asked, unread>>

------------------------------------------------------------------------------
(* The two pages.                                                          *)

DetailsUser ==
    \/ \E s \in Subjects : OpenSubject(s)
    \/ \E w \in Works : OpenBangumiSubject(w)
    \/ \E n \in Numbers : GoToEpisodePage(n) \/ PlayEpisode(n)
    \/ \E descending \in BOOLEAN : SetEpisodeSortDescending(descending)
    \/ PlayFirstAvailable \/ Clear

\* The subject on show is opened again when the library page has changed it.
LibraryAnswer ==
    /\ LibraryAnswers
    /\ IF /\ op.kind = "update" /\ op.pc = "read" /\ ~error'
          /\ op.subject = view.shown
       THEN OpensSubject(view.shown)
       ELSE UNCHANGED detailsVars

DetailsAnswers == \E t \in tasks : DetailsAnswer(t)

PageNext ==
    \/ LibraryUser /\ UNCHANGED detailsVars
    \/ LibraryAnswer
    \/ DetailsUser
    \/ DetailsAnswers
    \/ (\E w \in Works : Announce(w)) /\ UNCHANGED detailsVars

PageSpec == PageInit /\ [][PageNext]_pageVars

\* Services answer each of their callers.
FairPages == PageSpec /\ WF_pageVars(LibraryAnswer) /\ WF_pageVars(DetailsAnswers)

------------------------------------------------------------------------------
(* Properties.                                                             *)

\* Once it is loaded, the page shows the subject, the page and the order that
\* were asked for last, however many older reads and refreshes are still under
\* way or come in later; if those could not be read, it shows what it showed
\* before or nothing, and never another subject
\* (subject_details_view_model.cpp:165-300, 327-463).
ShownIsAsked ==
    ~view.loading /\ ~view.more =>
        \/ view.shown = wanted.subject
           /\ (failed \/ wanted = [subject |-> view.current, number |-> view.number,
                                   descending |-> view.descending])
        \/ view.shown = NoSubject /\ (failed \/ wanted = Nothing)

\* The episodes on show are those that the number of the page and the order
\* say, of the list as it was when they were read, unless the page was asked
\* to turn and has not, and the one that plays first is among them
\* (subject_details_view_model.cpp:259-300, 327-365, 491-577).
EpisodesOfPage ==
    /\ view.shown # NoSubject /\ ~view.more /\ ~failed =>
          view.episodes = PageOf(view.listed, view.number, view.descending)
    /\ view.first # 0 => view.first \in ToSet(view.episodes)

\* Loading, refreshing, turning a page and starting to play all come to an end,
\* as do the operations of the library page, whatever fails
\* (subject_details_view_model.cpp:327-489, library_view_model.cpp:313,
\* 663-1115).
PagesGetFree ==
    /\ ~Still \/ view.refreshing ~> Still /\ ~view.refreshing
    /\ LibraryGetsFree
=============================================================================
