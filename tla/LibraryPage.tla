---------------------------- MODULE LibraryPage ----------------------------
(***************************************************************************)
(* The library page: the list of imported files with what they are linked  *)
(* to, the dialog that links a file to an episode of Bangumi, and the      *)
(* editor of what the user describes himself.  The page does one thing at  *)
(* a time; most of them change the database and then read the list again.  *)
(*                                                                         *)
(* The database is what the services make of it in one call: LibraryCatalog *)
(* has their transactions.  A subject stands for its id, an episode for    *)
(* its place in the list of its subject.  The number that Bangumi gives an *)
(* episode is something else, counted in halves (EP 1.5 is 3): a list has  *)
(* specials, which are not looked for, and fractions.  Titles and covers   *)
(* are left out, as is the order of groups, which follows from them.       *)
(* Bound: a subject that was removed is not stored again, since it would   *)
(* get another id.                                                         *)
(***************************************************************************)
EXTENDS Integers, Sequences, FiniteSets, SequencesExt

CONSTANTS
    Files,      \* media files
    Works,      \* subjects of Bangumi
    Customs,    \* subjects that the user describes himself
    NoSubject,
    NoFile,
    Numberings, \* external: the numbers that the episodes of a work may have
    PageSize,   \* kAssociationEpisodePageSize
    MaxNumber,  \* bound: episodes of a work
    MaxAsked    \* bound: what the user asks for

Subjects == Works \cup Customs
Numbers == 1..MaxNumber
Episodes == Subjects \X Numbers

\* The numbers that the user may look for, in halves; a special has none.
Halves == 1..2 * MaxNumber
Special == 0

ASSUME PageAssumption ==
    /\ NoSubject \notin Subjects /\ NoFile \notin Files
    /\ Numberings \subseteq [Numbers -> Halves \cup {Special}]
    /\ PageSize \in Nat \ {0} /\ MaxNumber \in Nat \ {0} /\ MaxAsked \in Nat

VARIABLES
    announced,  \* external: how many episodes Bangumi lists for each work,
    numbered,   \*   and the numbers that it gives them
    files,      \* the database: imported files,
    known,      \*   subjects,
    gone,       \*   subjects that were removed from it,
    catalog,    \*   the episodes of each,
    links,      \*   and the episodes that files are linked to
    op,         \* the operation under way
    media,      \* the list on show: files and links
    picker,     \* the dialog: subjects found, the one selected, its episodes
    editor,     \* the subject in the editor
    error,      \* an error message is on show
    asked,      \* what the user has asked for so far
    unread      \* history: the list could not be read since the last change

stored == <<files, known, gone, catalog, links>>
database == <<announced, numbered, stored>>
libraryVars == <<database, op, media, picker, editor, error, asked, unread>>

Idle == [kind |-> "none", pc |-> "idle", file |-> NoFile, subject |-> NoSubject,
         number |-> 0, sought |-> 0, page |-> 0, descending |-> FALSE, limit |-> 0, offset |-> 0]
Operation(kind, pc) == [Idle EXCEPT !.kind = kind, !.pc = pc]
NoOffers == [total |-> 0, page |-> 0, descending |-> FALSE, episodes |-> <<>>,
             focus |-> 0, selected |-> NoSubject]
EmptyPicker == [found |-> {}, offers |-> NoOffers]

\* isBusy(): one flag for each kind, and no two of them.
Busy == op.pc # "idle"

\* The database that the last run left, and the page that reads its list.
LibraryInit ==
    /\ announced \in [Works -> Numbers] /\ numbered \in [Works -> Numberings]
    /\ files \in SUBSET Files /\ known \in SUBSET Works /\ gone = {}
    /\ catalog = [s \in Subjects |-> IF s \in known THEN 1..announced[s] ELSE {}]
    /\ links = {}
    /\ op = Operation("list", "read") /\ media = [files |-> {}, links |-> {}]
    /\ picker = EmptyPicker /\ editor = NoSubject
    /\ error = FALSE /\ asked = 0 /\ unread = FALSE

------------------------------------------------------------------------------
(* What the user asks for.                                                 *)

Ask == asked < MaxAsked /\ asked' = asked + 1

Begin(operation) ==
    /\ Ask /\ ~Busy
    /\ op' = operation
    /\ error' = FALSE
    /\ UNCHANGED <<database, media, unread>>

ReadList == Begin(Operation("list", "read")) /\ UNCHANGED <<picker, editor>>

ImportFile(f) ==
    Begin([Operation("import", "do") EXCEPT !.file = f]) /\ UNCHANGED <<picker, editor>>

RemoveFile(f) ==
    /\ f \in media.files
    /\ Begin([Operation("remove", "do") EXCEPT !.file = f])
    /\ UNCHANGED <<picker, editor>>

PlayFile(f) ==
    /\ f \in media.files
    /\ Begin([Operation("play", "do") EXCEPT !.file = f])
    /\ UNCHANGED <<picker, editor>>

\* linkMedia(): an episode that the dialog offers.
Link(f, n) ==
    /\ f \in media.files /\ n \in ToSet(picker.offers.episodes)
    /\ Begin([Operation("link", "do") EXCEPT !.file = f, !.number = n,
                                             !.subject = picker.offers.selected])
    /\ UNCHANGED <<picker, editor>>

Unlink(f, e) ==
    /\ <<f, e>> \in media.links
    /\ Begin([Operation("unlink", "do") EXCEPT !.file = f, !.subject = e[1], !.number = e[2]])
    /\ UNCHANGED <<picker, editor>>

\* createCustomMetadata(): a subject with an episode for the file.
Describe(f, s) ==
    /\ f \in media.files /\ s \in Customs \ (known \cup gone)
    /\ Begin([Operation("describe", "do") EXCEPT !.file = f, !.subject = s, !.number = 1])
    /\ UNCHANGED <<picker, editor>>

OpenEditor(s) ==
    /\ s \in known
    /\ Begin([Operation("edit", "do") EXCEPT !.subject = s])
    /\ editor' = NoSubject
    /\ UNCHANGED picker

UpdateMetadata(s) ==
    /\ s = editor /\ s # NoSubject
    /\ Begin([Operation("update", "do") EXCEPT !.subject = s])
    /\ UNCHANGED <<picker, editor>>

DeleteMetadata(s) ==
    /\ s \in known
    /\ Begin([Operation("delete", "do") EXCEPT !.subject = s])
    /\ UNCHANGED <<picker, editor>>

SearchSubjects ==
    /\ Begin(Operation("search", "do"))
    /\ picker' = [picker EXCEPT !.offers = NoOffers]
    /\ UNCHANGED editor

------------------------------------------------------------------------------
(* Pages of episodes.                                                      *)

Least(a, b) == IF a < b THEN a ELSE b
AtLeast(a, b) == IF a < b THEN b ELSE a
PagesOf(total) == (total + PageSize - 1) \div PageSize

\* The list is asked for in ascending order; a page in descending order is
\* taken from its end.
Limit(page, descending, total) ==
    IF descending THEN Least(PageSize, AtLeast(0, total - (page - 1) * PageSize))
                  ELSE PageSize

Offset(page, descending, total) ==
    IF descending
    THEN AtLeast(0, total - (page - 1) * PageSize - Limit(page, descending, total))
    ELSE (page - 1) * PageSize

\* requestAssociationEpisodePage() and loadEpisodes() up to its request; sought
\* is the number to look for, or 0.
RequestPage(offers, page, descending, sought) ==
    LET limit == Limit(page, descending, offers.total)
        valid == offers.selected \in picker.found /\ limit >= 1 IN
    /\ Ask /\ ~Busy
    /\ picker' = [picker EXCEPT !.offers = [offers EXCEPT !.episodes = <<>>, !.focus = 0]]
    /\ error' = ~valid
    /\ op' = IF ~valid THEN Idle
             ELSE [Operation("episodes", "do") EXCEPT
                     !.subject = offers.selected, !.sought = sought, !.page = page,
                     !.descending = descending, !.limit = limit,
                     !.offset = Offset(page, descending, offers.total)]
    /\ UNCHANGED <<database, media, editor, unread>>

SelectSubject(w) ==
    /\ w \in picker.found
    /\ RequestPage([NoOffers EXCEPT !.selected = w], 1, FALSE, 0)

Selected == picker.offers.selected # NoSubject

GoToPage(page) ==
    /\ Selected
    /\ page \in 1..PagesOf(picker.offers.total) \ {picker.offers.page}
    /\ RequestPage(picker.offers, page, picker.offers.descending, 0)

SetDescending(descending) ==
    /\ Selected /\ picker.offers.total > 0
    /\ descending # picker.offers.descending
    /\ RequestPage(picker.offers, 1, descending, 0)

\* Broken: the order on show is forgotten.
PageWith_Ascending(place, descending, total) == (place - 1) \div PageSize + 1

PageWith(place, descending, total) ==
    IF descending THEN (total - place) \div PageSize + 1
                  ELSE (place - 1) \div PageSize + 1

\* The place that a number has if nothing but whole numbers comes before it.
Expected(sought) == (sought + 1) \div 2

\* locateAssociationEpisode(): the page where the number is expected.
Locate(sought) ==
    /\ Selected
    /\ Expected(sought) \in 1..picker.offers.total
    /\ RequestPage(picker.offers,
                   PageWith(Expected(sought), picker.offers.descending, picker.offers.total),
                   picker.offers.descending, sought)

\* What is no positive number, or one beyond the list, is refused.
LocateRefused ==
    /\ Selected /\ picker.offers.total > 0
    /\ Ask /\ ~Busy
    /\ error' = TRUE
    /\ UNCHANGED <<database, op, media, picker, editor, unread>>

\* The dialog is closed, which waits for no more than what concerns it.
ClosePicker ==
    /\ op.kind \in {"none", "list", "import", "remove", "play"}
    /\ picker # EmptyPicker /\ picker' = EmptyPicker
    /\ UNCHANGED <<database, op, media, editor, error, asked, unread>>

CloseEditor ==
    /\ op.kind \in {"none", "list", "import", "remove", "play"}
    /\ editor # NoSubject /\ editor' = NoSubject
    /\ UNCHANGED <<database, op, media, picker, error, asked, unread>>

------------------------------------------------------------------------------
(* Answers.                                                                *)

Fails == error' = TRUE /\ op' = Idle

Succeeds == op' = Idle /\ UNCHANGED error

\* The calls that change the database.
Imports ==
    /\ op.kind = "import" /\ files' = files \cup {op.file}
    /\ UNCHANGED <<known, gone, catalog, links>>

Removes ==
    /\ op.kind = "remove" /\ op.file \in files
    /\ files' = files \ {op.file}
    /\ links' = {l \in links : l[1] # op.file}
    /\ UNCHANGED <<known, gone, catalog>>

OpLink == <<op.file, <<op.subject, op.number>> >>

Links ==
    /\ op.kind = "link" /\ op.file \in files
    /\ op.subject \in known /\ op.number \in catalog[op.subject]
    /\ links' = links \cup {OpLink}
    /\ UNCHANGED <<files, known, gone, catalog>>

Unlinks ==
    /\ op.kind = "unlink" /\ OpLink \in links
    /\ links' = links \ {OpLink}
    /\ UNCHANGED <<files, known, gone, catalog>>

Describes ==
    /\ op.kind = "describe" /\ op.file \in files
    /\ known' = known \cup {op.subject}
    /\ catalog' = [catalog EXCEPT ![op.subject] = @ \cup {op.number}]
    /\ links' = links \cup {OpLink}
    /\ UNCHANGED <<files, gone>>

\* Only texts change.
Updates == op.kind = "update" /\ op.subject \in known /\ UNCHANGED stored

Deletes ==
    /\ op.kind = "delete" /\ op.subject \in known
    /\ known' = known \ {op.subject} /\ gone' = gone \cup {op.subject}
    /\ catalog' = [catalog EXCEPT ![op.subject] = {}]
    /\ links' = {l \in links : l[2][1] # op.subject}
    /\ UNCHANGED files

Stores == Imports \/ Removes \/ Links \/ Unlinks \/ Describes \/ Updates \/ Deletes

\* Describing a file takes three transactions, of which the first may stay, or
\* the first two: the subject, and its episode.
LeavesBehind ==
    \/ UNCHANGED stored
    \/ /\ op.kind = "describe"
       /\ known' = known \cup {op.subject}
       /\ \E episodes \in SUBSET {op.number} :
             catalog' = [catalog EXCEPT ![op.subject] = @ \cup episodes]
       /\ UNCHANGED <<files, gone, links>>

Changes == {"import", "remove", "link", "unlink", "describe", "update", "delete"}

\* Broken: the list is read again only after files came or went.
Stored_KeepsList ==
    /\ op.kind \in Changes /\ op.pc = "do"
    /\ \/ /\ Stores /\ UNCHANGED error
          /\ op' = IF op.kind \in {"import", "remove"} THEN [op EXCEPT !.pc = "read"] ELSE Idle
       \/ LeavesBehind /\ Fails
    /\ UNCHANGED <<announced, numbered, media, picker, editor, asked, unread>>

\* The change is made, and the list is read; or nothing is linked.
Stored ==
    /\ op.kind \in Changes /\ op.pc = "do"
    /\ \/ Stores /\ op' = [op EXCEPT !.pc = "read"] /\ UNCHANGED error
       \/ LeavesBehind /\ Fails
    /\ UNCHANGED <<announced, numbered, media, picker, editor, asked, unread>>

\* listLibraryMedia(): the files and what each is linked to.
LibraryMedia == [files |-> files, links |-> links]

\* reloadMedia() and applyMedia(), with what else is cleared after it.
ListRead ==
    /\ op.pc = "read"
    /\ \/ /\ media' = LibraryMedia
          /\ unread' = FALSE
          /\ picker' = IF op.kind = "describe"
                       THEN [found |-> {}, offers |-> [picker.offers EXCEPT !.episodes = <<>>]]
                       ELSE picker
          /\ editor' = IF op.kind \in {"update", "delete"} THEN NoSubject ELSE editor
          /\ Succeeds
       \/ Fails /\ unread' = TRUE /\ UNCHANGED <<media, picker, editor>>
    /\ UNCHANGED <<database, asked>>

Played ==
    /\ op.kind = "play"
    /\ \/ op.file \in files /\ Succeeds
       \/ Fails
    /\ UNCHANGED <<database, media, picker, editor, asked, unread>>

EditorRead ==
    /\ op.kind = "edit"
    /\ \/ op.subject \in known /\ editor' = op.subject /\ Succeeds
       \/ Fails /\ UNCHANGED editor
    /\ UNCHANGED <<database, media, picker, asked, unread>>

Found ==
    /\ op.kind = "search"
    /\ \/ \E found \in SUBSET Works : picker' = [picker EXCEPT !.found = found] /\ Succeeds
       \/ Fails /\ UNCHANGED picker
    /\ UNCHANGED <<database, media, editor, asked, unread>>

\* The part of a list that limit and offset name.
Part(list, limit, offset) == SubSeq(list, offset + 1, Least(offset + limit, Len(list)))

\* The episode on a page that has the number looked for, the last one if there
\* are several; 0 if none has, and the page says that this is where it was
\* expected.
Focus(w, page, sought) ==
    IF sought = 0 THEN 0 ELSE SelectLastInSeq(page, LAMBDA n : numbered[w][n] = sought)

\* loadEpisodes() from its answer; the service has stored the subject first
\* and then the episodes.
EpisodesRead ==
    LET total == announced[op.subject]
        page == Part([n \in 1..total |-> n], op.limit, op.offset)
        offered == IF op.descending THEN Reverse(page) ELSE page IN
    /\ op.kind = "episodes"
    /\ \/ /\ op.subject \notin gone
          /\ picker' = [picker EXCEPT !.offers =
                [total |-> total, page |-> Least(AtLeast(1, op.page), PagesOf(total)),
                 descending |-> op.descending, episodes |-> offered,
                 focus |-> Focus(op.subject, offered, op.sought),
                 selected |-> op.subject]]
          /\ known' = known \cup {op.subject}
          /\ catalog' = [catalog EXCEPT ![op.subject] = @ \cup ToSet(page)]
          /\ Succeeds
       \/ /\ Fails /\ known' \in {known, known \cup ({op.subject} \ gone)}
          /\ UNCHANGED <<catalog, picker>>
    /\ UNCHANGED <<announced, numbered, files, gone, links, media, editor, asked, unread>>

\* Bangumi lists another episode.
Announce(w) ==
    /\ announced[w] < MaxNumber
    /\ announced' = [announced EXCEPT ![w] = @ + 1]
    /\ UNCHANGED <<numbered, stored, op, media, picker, editor, error, asked, unread>>

------------------------------------------------------------------------------
LibraryAnswers == Stored \/ ListRead \/ Played \/ EditorRead \/ Found \/ EpisodesRead

LibraryUser ==
    \/ ReadList \/ SearchSubjects \/ LocateRefused \/ ClosePicker \/ CloseEditor
    \/ \E f \in Files : ImportFile(f) \/ RemoveFile(f) \/ PlayFile(f)
    \/ \E f \in Files, n \in Numbers : Link(f, n)
    \/ \E f \in Files, e \in Episodes : Unlink(f, e)
    \/ \E f \in Files, s \in Customs : Describe(f, s)
    \/ \E s \in Subjects : OpenEditor(s) \/ UpdateMetadata(s) \/ DeleteMetadata(s)
    \/ \E w \in Works : SelectSubject(w)
    \/ \E n \in Numbers : GoToPage(n)
    \/ \E sought \in Halves : Locate(sought)
    \/ \E descending \in BOOLEAN : SetDescending(descending)

LibraryNext == LibraryUser \/ LibraryAnswers \/ \E w \in Works : Announce(w)

LibrarySpec == LibraryInit /\ [][LibraryNext]_libraryVars

\* Services answer.
FairLibrary == LibrarySpec /\ WF_libraryVars(LibraryAnswers)

------------------------------------------------------------------------------
(* Properties.                                                             *)

\* Between two operations the page lists the files that are stored, with the
\* episodes they are linked to, after operations that succeeded and after
\* those that failed, whatever they had stored until then - unless reading
\* the list is what failed last (library_view_model.cpp:680-761, 879-917,
\* 944-985, 1034-1115).
ListIsStored ==
    ~Busy /\ ~unread => media = LibraryMedia

\* The order in which the dialog shows a list of so many episodes.
InOrder(total, descending) ==
    [i \in 1..total |-> IF descending THEN total + 1 - i ELSE i]

\* The episodes that the dialog offers are those of the page it says it shows,
\* in the order it says, each page of PageSize but the last, in either order.
\* Where a number is looked for, what is marked has that number, nothing is
\* marked only if no episode of the page has it, and it is not missed where the
\* episode at its place in the list has it: neither specials nor fractions come
\* before.  (While the list grows, pages in descending order are those of the
\* list that was known.)  (library_view_model.cpp:439-470, 813-878)
OffersThePage ==
    [][op.kind = "episodes" /\ op'.pc = "idle" /\ ~error'
       /\ picker.offers.total \in {0, picker'.offers.total} =>
         LET offers == picker'.offers
             ordered == InOrder(offers.total, offers.descending)
             Has(i) == numbered[op.subject][offers.episodes[i]] = op.sought IN
         /\ offers.episodes = Part(ordered, PageSize, (offers.page - 1) * PageSize)
         /\ op.sought # 0 =>
              /\ IF offers.focus = 0 THEN \A i \in DOMAIN offers.episodes : ~Has(i)
                                     ELSE offers.focus \in DOMAIN offers.episodes /\ Has(offers.focus)
              /\ numbered[op.subject][Expected(op.sought)] = op.sought => offers.focus # 0
      ]_libraryVars

\* Whatever fails, the page gets free for the next operation
\* (library_view_model.cpp:313, 663-1115).
LibraryGetsFree == Busy ~> ~Busy
=============================================================================
