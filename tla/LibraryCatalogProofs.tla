------------------------ MODULE LibraryCatalogProofs ------------------------
(***************************************************************************)
(* Theorems about LibraryCatalog, for every set of works, episodes, files  *)
(* and refreshes, every size of a page and every bound.                    *)
(***************************************************************************)
EXTENDS LibraryCatalog, FiniteSetTheorems, SequenceTheorems, TLAPS

\* The episodes that Bangumi has for a work; nothing else has any.
EpisodesFor(w) == {k \in EpisodeKeys : WorkOf[k] = w}

\* The tables hold rows, none beyond the last id that was given.
SubjectsOK ==
    /\ subjects \in [SubjectIds -> Subject \cup {NoRow}]
    /\ nextSubject \in 0 .. MaxSubjects
    /\ \A s \in SubjectIds : s > nextSubject => subjects[s] = NoRow
EpisodesOK ==
    /\ episodes \in [EpisodeIds -> Episode \cup {NoRow}]
    /\ nextEpisode \in 0 .. MaxEpisodes
    /\ \A e \in EpisodeIds : e > nextEpisode => episodes[e] = NoRow
ItemsOK ==
    /\ items \in [ItemIds -> Files \cup {NoRow}]
    /\ nextItem \in 0 .. MaxItems
    /\ \A i \in ItemIds : i > nextItem => items[i] = NoRow
    /\ resources \subseteq Folders
LinksOK == links \subseteq EpisodeIds \X ItemIds

TablesOK == SubjectsOK /\ EpisodesOK /\ ItemsOK /\ LinksOK
Consistent == TablesOK /\ ReferencesResolve /\ OneRowEach

\* What a coroutine has noted of a subject: the id was given once, and the row
\* under it, if there is one, is the work asked for.
Sound(c) ==
    c.subject # NoId =>
        /\ c.subject <= nextSubject
        /\ subjects[c.subject] # NoRow => subjects[c.subject].origin = c.work

\* A refresh has asked for a work and got episodes of it only.
RefreshOK(c) ==
    /\ c \in Coroutine
    /\ c.got \in Seq(EpisodesFor(c.work))
    /\ c.pc # "idle" => c.work \in Works
    /\ c.pc \in {"check", "store", "details", "load"} => c.subject # NoId
    /\ Sound(c)

\* So has an association; what the user describes is nobody's work.
LibraryOK(c) ==
    /\ c \in Operation
    /\ c.got \subseteq EpisodesFor(c.work)
    /\ c.pc \in {"page", "options"} => c.work \in Works
    /\ c.pc \in {"episode", "link"} => c.work = Local
    /\ c.pc # "idle" => c.subject # NoId
    /\ Sound(c)

PagesOK == shown \subseteq SubjectIds /\ picker \subseteq EpisodeIds
RemoteOK == remote \in [Works -> Seq(EpisodeKeys)] /\ \A w \in Works : remote[w] \in Seq(EpisodesFor(w))

RefreshesOK == DOMAIN refresh = Refreshes /\ refresh \in [Refreshes -> Coroutine]
               /\ \A r \in Refreshes : RefreshOK(refresh[r])

IInv == Consistent /\ RemoteOK /\ RefreshesOK /\ LibraryOK(library) /\ PagesOK

------------------------------------------------------------------------------
(* Helpers.                                                                *)

LEMMA Constants ==
    /\ \A s \in Subject : s # NoRow /\ s.origin \in Works \cup {Local}
                          /\ s.level \in {"summary", "details"} /\ s.fresh \in BOOLEAN
    /\ \A e \in Episode : e # NoRow /\ e.key \in EpisodeKeys \cup {Local} /\ e.subject \in SubjectIds
    /\ \A f \in Files : f # NoRow /\ FolderOf[f] \in Folders
    /\ \A k \in EpisodeKeys : k # Local /\ WorkOf[k] \in Works
    /\ Local \notin Works
BY ConstantsAssumption DEF Subject, Episode, Folders

LEMMA Ids ==
    /\ \A s \in SubjectIds : s \in Nat /\ s # NoId /\ s <= MaxSubjects
    /\ \A e \in EpisodeIds : e \in Nat /\ e <= MaxEpisodes
    /\ \A i \in ItemIds : i \in Nat /\ i <= MaxItems
    /\ MaxSubjects \in Nat /\ MaxEpisodes \in Nat /\ MaxItems \in Nat
BY ConstantsAssumption DEF SubjectIds, EpisodeIds, ItemIds, NoId

\* Pieces of a sequence, and sequences put together, have the same elements.
LEMMA PieceOf ==
    ASSUME NEW S, NEW s \in Seq(S), NEW m \in Nat, NEW n \in Nat, m > 0, n <= Len(s)
    PROVE  SubSeq(s, m, n) \in Seq(S)
<1>1. \A i \in m .. n : s[i] \in S
  BY ElementOfSeq
<1> QED BY <1>1, SubSeqProperties

LEMMA InsertedIn ==
    ASSUME NEW S, NEW s \in Seq(S), NEW n \in 1 .. Len(s) + 1, NEW x \in S
    PROVE  InsertAt(s, n, x) \in Seq(S)
<1>0. Len(s) \in Nat
  BY LenProperties
<1>1. SubSeq(s, 1, n - 1) \in Seq(S) /\ SubSeq(s, n, Len(s)) \in Seq(S)
  <2>1. \A i \in 1 .. n - 1 : s[i] \in S
    BY <1>0, ElementOfSeq
  <2>2. \A i \in n .. Len(s) : s[i] \in S
    BY <1>0, ElementOfSeq
  <2> QED BY <1>0, <2>1, <2>2, SubSeqProperties
<1>2. <<x>> \in Seq(S)
  OBVIOUS
<1> QED BY <1>1, <1>2, ConcatProperties DEF InsertAt

LEMMA ElementsIn == ASSUME NEW S, NEW s \in Seq(S) PROVE ToSet(s) \subseteq S
BY ElementOfSeq, LenProperties DEF ToSet

LEMMA MembersIn == ASSUME NEW S, NEW T, NEW s \in Seq(S), ToSet(s) \subseteq T PROVE s \in Seq(T)
<1>1. PICK n \in Nat : n = Len(s) /\ s \in [1 .. n -> S]
  BY LenProperties
<1>2. \A i \in 1 .. n : s[i] \in T
  BY <1>1 DEF ToSet
<1>3. s \in [1 .. n -> T]
  BY <1>1, <1>2
<1> QED BY <1>3

------------------------------------------------------------------------------
(* The transactions of CatalogStore keep the tables consistent.            *)

\* What a transaction may do to the subjects as far as others can tell: ids
\* are not given again, and a row keeps its work or goes.
Keeps ==
    /\ nextSubject' >= nextSubject
    /\ \A s \in SubjectIds : s <= nextSubject /\ subjects'[s] # NoRow =>
          subjects[s] # NoRow /\ subjects'[s].origin = subjects[s].origin

\* It adds episodes at most, which is all that a refresh may do.
AddsOnly ==
    /\ links \subseteq links'
    /\ \A e \in EpisodeIds : episodes[e] # NoRow => episodes'[e] = episodes[e]

LEMMA UpsertSubjectKeeps ==
    ASSUME Consistent, NEW w \in Works \cup {Local}, NEW level \in {"summary", "details"},
           NEW s \in SubjectIds, UpsertSubject(w, level, s)
    PROVE  /\ Consistent' /\ Keeps /\ AddsOnly
           /\ s <= nextSubject' /\ subjects'[s].origin = w
<1> USE DEF Consistent, TablesOK
<1>1. /\ nextSubject' \in 0 .. MaxSubjects /\ nextSubject' >= nextSubject /\ s <= nextSubject'
      /\ \/ /\ nextSubject' = nextSubject
            /\ w # Local /\ subjects[s] # NoRow /\ subjects[s].origin = w
         \/ /\ s = nextSubject + 1 /\ nextSubject' = s
            /\ w = Local \/ \A t \in SubjectIds : subjects[t] # NoRow => subjects[t].origin # w
  BY Ids DEF UpsertSubject, Target, SubjectOf, SubjectsOK
<1>2. subjects[s] \in Subject \cup {NoRow}
  BY DEF SubjectsOK
<1>3. Written(s, w, level) \in Subject /\ Written(s, w, level).origin = w
  BY <1>2, Constants DEF Written, Subject
<1>4. /\ subjects' = [subjects EXCEPT ![s] = Written(s, w, level)]
      /\ UNCHANGED <<episodes, items, resources, links, nextEpisode, nextItem>>
  BY DEF UpsertSubject
<1>5. \A t \in SubjectIds : subjects'[t] = IF t = s THEN Written(s, w, level) ELSE subjects[t]
  BY <1>4 DEF SubjectsOK
<1>6. Written(s, w, level) # NoRow
  BY <1>3, Constants
<1>7. TablesOK'
  <2>1. SubjectsOK'
    BY <1>1, <1>3, <1>4, <1>5, Ids DEF SubjectsOK
  <2> QED BY <2>1, <1>4 DEF EpisodesOK, ItemsOK, LinksOK
<1>8. Keeps /\ AddsOnly
  <2>1. Keeps
    BY <1>1, <1>3, <1>5, Ids DEF Keeps, SubjectsOK
  <2> QED BY <1>4, <2>1 DEF AddsOnly
<1>9. \A t \in SubjectIds : subjects[t] # NoRow => subjects'[t] # NoRow /\ subjects'[t].origin = subjects[t].origin
  BY <1>1, <1>3, <1>5, <1>6, Ids DEF SubjectsOK
<1>10. \A e \in EpisodeIds : episodes[e] # NoRow => episodes[e].subject \in SubjectIds
  BY Constants DEF EpisodesOK
<1>11. ReferencesResolve'
  BY <1>4, <1>9, <1>10 DEF ReferencesResolve
<1>12. OneRowEach'
  <2>1. ASSUME NEW a \in SubjectIds, NEW b \in SubjectIds, subjects'[a] # NoRow, subjects'[b] # NoRow,
               subjects'[a].origin = subjects'[b].origin, subjects'[a].origin # Local
        PROVE  a = b
    BY <2>1, <1>1, <1>3, <1>5 DEF OneRowEach
  <2>2. \A e \in EpisodeIds : episodes[e] # NoRow => subjects'[episodes[e].subject].origin = Owner(episodes[e].key)
    BY <1>9, <1>10 DEF OneRowEach, ReferencesResolve
  <2>3. UNCHANGED episodes
    BY <1>4
  <2> QED BY <2>1, <2>2, <2>3 DEF OneRowEach
<1> QED BY <1>1, <1>3, <1>5, <1>7, <1>8, <1>11, <1>12

\* New rows only, above the last id, each for a key of its own that was not
\* stored.
LEMMA UpsertEpisodesAdds ==
    ASSUME EpisodesOK, NEW s, NEW keys \in SUBSET (EpisodeKeys \cup {Local}), UpsertEpisodes(s, keys)
    PROVE  /\ s \in SubjectIds /\ subjects[s] # NoRow
           /\ EpisodesOK'
           /\ \A e \in EpisodeIds :
                 \/ episodes'[e] = episodes[e]
                 \/ /\ e > nextEpisode /\ episodes'[e] \in Episode
                    /\ episodes'[e].key \in keys \ KeysStored /\ episodes'[e].subject = s
           /\ \A e, d \in EpisodeIds :
                 (e > nextEpisode /\ d > nextEpisode /\ episodes'[e] # NoRow /\ episodes'[d] # NoRow
                  /\ episodes'[e].key = episodes'[d].key) => e = d
<1> DEFINE new == keys \ KeysStored
<1>1. s \in SubjectIds /\ subjects[s] # NoRow /\ nextEpisode' = nextEpisode + Cardinality(new)
      /\ nextEpisode + Cardinality(new) <= MaxEpisodes
  BY DEF UpsertEpisodes, Accepts
<1>2. PICK given \in Bijection(nextEpisode + 1 .. nextEpisode', new) :
         episodes' = [e \in EpisodeIds |->
              IF e \in DOMAIN given THEN [key |-> given[e], subject |-> s] ELSE episodes[e]]
  BY DEF UpsertEpisodes
<1>3. Cardinality(new) \in Nat
  <2>1. IsFiniteSet(EpisodeKeys \cup {Local})
    BY ConstantsAssumption, FS_AddElement
  <2>2. IsFiniteSet(new)
    BY <2>1, FS_Subset
  <2> QED BY <2>2, FS_CardinalityType
<1>4. nextEpisode \in Nat /\ nextEpisode' \in 0 .. MaxEpisodes /\ nextEpisode' >= nextEpisode
  BY <1>1, <1>3, Ids DEF EpisodesOK
<1> HIDE DEF new
<1>5. /\ given \in [nextEpisode + 1 .. nextEpisode' -> new]
      /\ \A a, b \in nextEpisode + 1 .. nextEpisode' : given[a] = given[b] => a = b
  BY DEF Bijection, Injection, IsInjective
<1>6. new \subseteq EpisodeKeys \cup {Local}
  BY DEF new
<1>7. \A e \in EpisodeIds :
         \/ episodes'[e] = episodes[e] /\ ~(e > nextEpisode /\ e <= nextEpisode')
         \/ /\ e > nextEpisode /\ e <= nextEpisode' /\ given[e] \in new
            /\ episodes'[e] = [key |-> given[e], subject |-> s]
  BY <1>2, <1>4, <1>5, Ids
<1>8. \A e \in EpisodeIds :
         \/ episodes'[e] = episodes[e]
         \/ /\ e > nextEpisode /\ e <= nextEpisode' /\ episodes'[e] \in Episode
            /\ episodes'[e].key \in new /\ episodes'[e].subject = s
  <2>1. ASSUME NEW k \in new
        PROVE  /\ [key |-> k, subject |-> s] \in Episode
               /\ [key |-> k, subject |-> s].key = k /\ [key |-> k, subject |-> s].subject = s
    BY <1>1, <1>6, <2>1 DEF Episode
  <2> SUFFICES ASSUME NEW e \in EpisodeIds, episodes'[e] # episodes[e]
               PROVE  /\ e > nextEpisode /\ e <= nextEpisode' /\ episodes'[e] \in Episode
                      /\ episodes'[e].key \in new /\ episodes'[e].subject = s
    OBVIOUS
  <2> QED BY <1>7, <2>1
<1>9. EpisodesOK'
  <2>1. episodes' \in [EpisodeIds -> Episode \cup {NoRow}]
    BY <1>2, <1>8 DEF EpisodesOK
  <2>2. \A e \in EpisodeIds : e > nextEpisode' => episodes'[e] = NoRow
    BY <1>4, <1>8, Ids DEF EpisodesOK
  <2> QED BY <1>4, <2>1, <2>2 DEF EpisodesOK
<1>10. ASSUME NEW e \in EpisodeIds, NEW d \in EpisodeIds, e > nextEpisode, d > nextEpisode,
              episodes'[e] # NoRow, episodes'[d] # NoRow, episodes'[e].key = episodes'[d].key
       PROVE  e = d
  <2>1. e <= nextEpisode' /\ d <= nextEpisode' /\ given[e] = given[d]
    <3>1. /\ e <= nextEpisode' /\ episodes'[e] = [key |-> given[e], subject |-> s]
          /\ d <= nextEpisode' /\ episodes'[d] = [key |-> given[d], subject |-> s]
      BY <1>7, <1>10 DEF EpisodesOK
    <3> QED BY <1>10, <3>1
  <2> QED BY <1>4, <1>5, <1>10, <2>1, Ids
<1> QED BY <1>1, <1>8, <1>9, <1>10 DEF new

LEMMA UpsertEpisodesKeeps ==
    ASSUME Consistent, NEW s, NEW keys \in SUBSET (EpisodeKeys \cup {Local}), UpsertEpisodes(s, keys),
           \A k \in keys : subjects[s].origin = Owner(k)
    PROVE  Consistent' /\ Keeps /\ AddsOnly
<1> USE DEF Consistent, TablesOK
<1>1. UNCHANGED <<subjects, items, resources, links, nextSubject, nextItem>>
  BY DEF UpsertEpisodes
<1>2. /\ s \in SubjectIds /\ subjects[s] # NoRow /\ EpisodesOK'
      /\ \A e \in EpisodeIds :
            \/ episodes'[e] = episodes[e]
            \/ /\ e > nextEpisode /\ episodes'[e] \in Episode
               /\ episodes'[e].key \in keys \ KeysStored /\ episodes'[e].subject = s
      /\ \A e, d \in EpisodeIds :
            (e > nextEpisode /\ d > nextEpisode /\ episodes'[e] # NoRow /\ episodes'[d] # NoRow
             /\ episodes'[e].key = episodes'[d].key) => e = d
  BY UpsertEpisodesAdds
<1>3. TablesOK'
  BY <1>1, <1>2 DEF SubjectsOK, ItemsOK, LinksOK
<1>4. AddsOnly
  BY <1>1, <1>2 DEF AddsOnly, EpisodesOK
<1>5. Keeps
  BY <1>1, Ids DEF Keeps, SubjectsOK
<1>6. ReferencesResolve'
  <2>1. \A e \in EpisodeIds : episodes'[e] # NoRow => subjects'[episodes'[e].subject] # NoRow
    BY <1>1, <1>2 DEF ReferencesResolve
  <2>2. \A l \in links' : episodes'[l[1]] # NoRow /\ items'[l[2]] # NoRow
    BY <1>1, <1>4 DEF ReferencesResolve, AddsOnly, LinksOK
  <2> QED BY <1>1, <2>1, <2>2 DEF ReferencesResolve
<1>7. OneRowEach'
  <2>1. ASSUME NEW e \in EpisodeIds, NEW d \in EpisodeIds, episodes'[e] # NoRow, episodes'[d] # NoRow,
               episodes'[e].key = episodes'[d].key, episodes'[e].key # Local
        PROVE  e = d
    <3>1. ASSUME NEW a \in EpisodeIds, NEW b \in EpisodeIds, a > nextEpisode, episodes'[a] # NoRow,
                 b <= nextEpisode, episodes'[b] # NoRow, episodes'[a].key # Local
          PROVE  episodes'[a].key # episodes'[b].key
      <4>1. episodes[a] = NoRow
        BY <3>1 DEF EpisodesOK
      <4>2. episodes'[a].key \notin KeysStored
        BY <1>2, <3>1, <4>1
      <4>3. episodes'[b] = episodes[b]
        BY <1>2, <3>1, Ids DEF EpisodesOK
      <4> QED BY <3>1, <4>2, <4>3 DEF KeysStored
    <3>2. CASE e > nextEpisode /\ d > nextEpisode
      BY <1>2, <2>1, <3>2
    <3>3. CASE e <= nextEpisode /\ d <= nextEpisode
      <4>1. episodes'[e] = episodes[e] /\ episodes'[d] = episodes[d]
        BY <1>2, <3>3, Ids DEF EpisodesOK
      <4> QED BY <2>1, <4>1 DEF OneRowEach
    <3> QED BY <2>1, <3>1, <3>2, <3>3, Ids DEF EpisodesOK
  <2>2. \A e \in EpisodeIds : episodes'[e] # NoRow => subjects'[episodes'[e].subject].origin = Owner(episodes'[e].key)
    BY <1>1, <1>2 DEF OneRowEach
  <2>3. UNCHANGED subjects
    BY <1>1
  <2> QED BY <2>1, <2>2, <2>3 DEF OneRowEach
<1> QED BY <1>3, <1>4, <1>5, <1>6, <1>7

LEMMA DeleteSubjectKeeps ==
    ASSUME Consistent, NEW s \in SubjectIds, DeleteSubject(s)
    PROVE  Consistent' /\ Keeps
<1> USE DEF Consistent, TablesOK
<1>1. /\ subjects' = [subjects EXCEPT ![s] = NoRow]
      /\ episodes' = [e \in EpisodeIds |-> IF e \in EpisodesOf(s) THEN NoRow ELSE episodes[e]]
      /\ links' = links \ LinksAmong(EpisodesOf(s), ItemIds)
      /\ UNCHANGED <<items, resources, nextSubject, nextEpisode, nextItem>>
  BY DEF DeleteSubject
<1>2. /\ \A t \in SubjectIds : subjects'[t] = IF t = s THEN NoRow ELSE subjects[t]
      /\ \A e \in EpisodeIds : episodes'[e] # NoRow => episodes'[e] = episodes[e] /\ episodes[e].subject # s
  BY <1>1 DEF SubjectsOK, EpisodesOf
<1>3. TablesOK'
  <2>1. SubjectsOK'
    BY <1>1, <1>2 DEF SubjectsOK
  <2>2. EpisodesOK'
    BY <1>1 DEF EpisodesOK
  <2> QED BY <1>1, <2>1, <2>2 DEF ItemsOK, LinksOK
<1>4. Keeps
  BY <1>1, <1>2, Ids DEF Keeps, SubjectsOK
<1>5. \A e \in EpisodeIds : episodes[e] # NoRow => episodes[e].subject \in SubjectIds
  BY Constants DEF EpisodesOK
<1>6. ReferencesResolve'
  <2>1. \A e \in EpisodeIds : episodes'[e] # NoRow => subjects'[episodes'[e].subject] # NoRow
    BY <1>2, <1>5 DEF ReferencesResolve
  <2>2. ASSUME NEW l \in links' PROVE episodes'[l[1]] # NoRow /\ items'[l[2]] # NoRow
    <3>1. l \in links /\ l[1] \in EpisodeIds /\ l[2] \in ItemIds /\ l = <<l[1], l[2]>>
      BY <1>1 DEF LinksOK
    <3>2. l[1] \notin EpisodesOf(s)
      BY <1>1, <3>1 DEF LinksAmong
    <3> QED BY <1>1, <3>1, <3>2 DEF ReferencesResolve
  <2> QED BY <1>1, <2>1, <2>2 DEF ReferencesResolve
<1>7. OneRowEach'
  <2>1. \A a, b \in SubjectIds : (subjects'[a] # NoRow /\ subjects'[b] # NoRow /\ subjects'[a].origin = subjects'[b].origin)
           => a = b \/ subjects'[a].origin = Local
    BY <1>2 DEF OneRowEach
  <2>2. \A e, d \in EpisodeIds : (episodes'[e] # NoRow /\ episodes'[d] # NoRow /\ episodes'[e].key = episodes'[d].key)
           => e = d \/ episodes'[e].key = Local
    BY <1>2 DEF OneRowEach
  <2>3. \A e \in EpisodeIds : episodes'[e] # NoRow => subjects'[episodes'[e].subject].origin = Owner(episodes'[e].key)
    BY <1>2, <1>5 DEF OneRowEach
  <2> QED BY <2>1, <2>2, <2>3 DEF OneRowEach
<1> QED BY <1>3, <1>4, <1>6, <1>7

------------------------------------------------------------------------------
(* So do the transactions of LibraryStore.                                 *)

LEMMA SubjectsAlone ==
    ASSUME Consistent, UNCHANGED <<subjects, episodes, nextSubject, nextEpisode>>
    PROVE  SubjectsOK' /\ EpisodesOK' /\ OneRowEach' /\ Keeps
<1> USE DEF Consistent, TablesOK
<1>1. SubjectsOK' /\ EpisodesOK'
  BY DEF SubjectsOK, EpisodesOK
<1>2. OneRowEach'
  BY DEF OneRowEach
<1>3. Keeps
  BY Ids DEF Keeps, SubjectsOK
<1> QED BY <1>1, <1>2, <1>3

LEMMA UpsertDiscoveriesKeeps ==
    ASSUME Consistent, NEW fs \in SUBSET Files, UpsertDiscoveries(fs)
    PROVE  Consistent' /\ Keeps
<1> USE DEF Consistent, TablesOK
<1> DEFINE new == {f \in fs : ItemOf(f) = {}}
<1>1. /\ nextItem' = nextItem + Cardinality(new) /\ nextItem + Cardinality(new) <= MaxItems
      /\ resources' = resources \cup {FolderOf[f] : f \in fs}
      /\ UNCHANGED <<subjects, episodes, links, nextSubject, nextEpisode>>
  BY DEF UpsertDiscoveries
<1>2. PICK given \in Bijection(nextItem + 1 .. nextItem', new) :
         items' = [i \in ItemIds |-> IF i \in DOMAIN given THEN given[i] ELSE items[i]]
  BY DEF UpsertDiscoveries
<1>3. Cardinality(new) \in Nat
  <2>1. IsFiniteSet(new)
    BY ConstantsAssumption, FS_Subset
  <2> QED BY <2>1, FS_CardinalityType
<1>4. nextItem \in Nat /\ nextItem' \in 0 .. MaxItems /\ nextItem' >= nextItem
  BY <1>1, <1>3, Ids DEF ItemsOK
<1>5. new \subseteq Files /\ (\A f \in new : \A i \in ItemIds : items[i] # f)
      /\ (\A f \in fs : f \in new \/ \E i \in ItemIds : items[i] = f)
  BY DEF ItemOf
<1> HIDE DEF new
<1>6. /\ given \in [nextItem + 1 .. nextItem' -> new]
      /\ \A f \in new : \E i \in nextItem + 1 .. nextItem' : given[i] = f
  BY DEF Bijection, Injection, Surjection
<1>7. \A i \in ItemIds :
         \/ items'[i] = items[i] /\ ~(i > nextItem /\ i <= nextItem')
         \/ i > nextItem /\ i <= nextItem' /\ items'[i] = given[i] /\ items'[i] \in new
  BY <1>2, <1>4, <1>6, Ids
<1>8. \A i \in ItemIds : items[i] # NoRow => items'[i] = items[i]
  BY <1>7 DEF ItemsOK
<1>9. ItemsOK'
  <2>1. items' \in [ItemIds -> Files \cup {NoRow}]
    BY <1>2, <1>5, <1>7 DEF ItemsOK
  <2>2. \A i \in ItemIds : i > nextItem' => items'[i] = NoRow
    BY <1>4, <1>7, Ids DEF ItemsOK
  <2>3. resources' \subseteq Folders
    BY <1>1, Constants DEF ItemsOK
  <2> QED BY <1>4, <2>1, <2>2, <2>3 DEF ItemsOK
<1>10. \A f \in fs : \E i \in ItemIds : items'[i] = f
  <2> SUFFICES ASSUME NEW f \in fs PROVE \E i \in ItemIds : items'[i] = f
    OBVIOUS
  <2>1. CASE f \in new
    <3>1. PICK i \in nextItem + 1 .. nextItem' : given[i] = f
      BY <1>6, <2>1
    <3>2. i \in ItemIds /\ i > nextItem /\ i <= nextItem'
      BY <1>4, Ids DEF ItemIds
    <3> QED BY <1>7, <3>1, <3>2
  <2>2. CASE f \notin new
    BY <1>5, <1>8, <2>2, Constants
  <2> QED BY <2>1, <2>2
<1>11. ReferencesResolve'
  <2>1. \A l \in links : l[1] \in EpisodeIds /\ l[2] \in ItemIds
    BY DEF LinksOK
  <2>2. \A l \in links' : episodes'[l[1]] # NoRow /\ items'[l[2]] # NoRow
    BY <1>1, <1>8, <2>1 DEF ReferencesResolve
  <2>3. ASSUME NEW i \in ItemIds, items'[i] # NoRow PROVE FolderOf[items'[i]] \in resources'
    <3>1. CASE items'[i] = items[i]
      BY <1>1, <2>3, <3>1 DEF ReferencesResolve
    <3>2. CASE items'[i] \in new
      BY <1>1, <3>2 DEF new
    <3> QED BY <1>7, <3>1, <3>2
  <2>4. ASSUME NEW d \in resources' PROVE \E i \in ItemIds : items'[i] # NoRow /\ FolderOf[items'[i]] = d
    <3>1. CASE d \in resources
      BY <1>8, <3>1 DEF ReferencesResolve
    <3>2. CASE d \in {FolderOf[f] : f \in fs}
      BY <1>10, <3>2, Constants
    <3> QED BY <1>1, <2>4, <3>1, <3>2
  <2>5. resources' = {FolderOf[items'[i]] : i \in {j \in ItemIds : items'[j] # NoRow}}
    BY <2>3, <2>4
  <2> QED BY <1>1, <2>2, <2>5 DEF ReferencesResolve
<1>12. LinksOK'
  BY <1>1 DEF LinksOK
<1> QED BY <1>1, <1>9, <1>11, <1>12, SubjectsAlone

LEMMA DeleteItemKeeps ==
    ASSUME Consistent, NEW i \in ItemIds, items[i] # NoRow, DeleteItem(i)
    PROVE  Consistent' /\ Keeps
<1> USE DEF Consistent, TablesOK
<1> DEFINE folder == FolderOf[items[i]]
           others == {j \in ItemIds \ {i} : items[j] # NoRow /\ FolderOf[items[j]] = folder}
<1>1. /\ items' = [items EXCEPT ![i] = NoRow]
      /\ links' = links \ LinksAmong(EpisodeIds, {i})
      /\ resources' = IF others = {} THEN resources \ {folder} ELSE resources
      /\ UNCHANGED <<subjects, episodes, nextSubject, nextEpisode, nextItem>>
  BY DEF DeleteItem
<1>2. \A j \in ItemIds : items'[j] = IF j = i THEN NoRow ELSE items[j]
  BY <1>1 DEF ItemsOK
<1>3. ItemsOK'
  BY <1>1, <1>2 DEF ItemsOK
<1>4. LinksOK'
  BY <1>1 DEF LinksOK
<1>5. ReferencesResolve'
  <2>1. ASSUME NEW l \in links' PROVE episodes'[l[1]] # NoRow /\ items'[l[2]] # NoRow
    <3>1. l \in links /\ l[1] \in EpisodeIds /\ l[2] \in ItemIds /\ l = <<l[1], l[2]>>
      BY <1>1 DEF LinksOK
    <3>2. l[2] # i
      BY <1>1, <3>1 DEF LinksAmong
    <3> QED BY <1>1, <1>2, <3>1, <3>2 DEF ReferencesResolve
  <2>2. resources = {FolderOf[items[k]] : k \in {j \in ItemIds : items[j] # NoRow}}
    BY DEF ReferencesResolve
  <2>3. {FolderOf[items'[k]] : k \in {j \in ItemIds : items'[j] # NoRow}}
        = {FolderOf[items[k]] : k \in {j \in ItemIds \ {i} : items[j] # NoRow}}
    BY <1>2
  <2>4. resources' = {FolderOf[items[k]] : k \in {j \in ItemIds \ {i} : items[j] # NoRow}}
    BY <1>1, <2>2
  <2>5. \A e \in EpisodeIds : episodes'[e] # NoRow => subjects'[episodes'[e].subject] # NoRow
    BY <1>1 DEF ReferencesResolve
  <2> QED BY <2>1, <2>3, <2>4, <2>5 DEF ReferencesResolve
<1> QED BY <1>1, <1>3, <1>4, <1>5, SubjectsAlone

LEMMA LinksKeep ==
    ASSUME Consistent, NEW e \in EpisodeIds, NEW i \in ItemIds, UpsertLink(e, i) \/ DeleteLink(e, i)
    PROVE  Consistent' /\ Keeps /\ (UpsertLink(e, i) => AddsOnly)
<1> USE DEF Consistent, TablesOK
<1>1. /\ \/ links' = links \cup {<<e, i>>} /\ episodes[e] # NoRow /\ items[i] # NoRow
         \/ links' \subseteq links
      /\ UNCHANGED <<subjects, episodes, items, resources, nextSubject, nextEpisode, nextItem>>
  BY DEF UpsertLink, DeleteLink
<1>2. ItemsOK' /\ LinksOK'
  BY <1>1 DEF ItemsOK, LinksOK
<1>3. ReferencesResolve'
  <2>1. \A l \in links' : episodes'[l[1]] # NoRow /\ items'[l[2]] # NoRow
    BY <1>1 DEF ReferencesResolve
  <2> QED BY <1>1, <2>1 DEF ReferencesResolve
<1>4. UpsertLink(e, i) => AddsOnly
  BY <1>1 DEF UpsertLink, AddsOnly
<1> QED BY <1>1, <1>2, <1>3, <1>4, SubjectsAlone
------------------------------------------------------------------------------
(* The coroutines: what they have noted stays sound.                       *)

LEMMA TablesRest ==
    ASSUME Consistent, UNCHANGED tables
    PROVE  Consistent' /\ Keeps /\ AddsOnly
<1>1. UNCHANGED <<subjects, episodes, items, resources, links, nextSubject, nextEpisode, nextItem>>
  BY DEF tables
<1>2. TablesOK'
  BY <1>1 DEF Consistent, TablesOK, SubjectsOK, EpisodesOK, ItemsOK, LinksOK
<1>3. ReferencesResolve'
  BY <1>1 DEF Consistent, ReferencesResolve
<1>4. AddsOnly
  BY <1>1 DEF AddsOnly
<1> QED BY <1>1, <1>2, <1>3, <1>4, SubjectsAlone DEF Consistent

LEMMA SoundStays ==
    ASSUME Keeps, NEW c, c.subject \in SubjectIds \cup {NoId}, Sound(c), nextSubject \in Nat, nextSubject' \in Nat
    PROVE  Sound(c)'
BY Ids DEF Keeps, Sound

LEMMA RefreshStays ==
    ASSUME Consistent, Consistent', Keeps, NEW c, RefreshOK(c)
    PROVE  RefreshOK(c)'
<1>1. nextSubject \in Nat /\ nextSubject' \in Nat
  BY Ids DEF Consistent, TablesOK, SubjectsOK
<1>2. c.subject \in SubjectIds \cup {NoId}
  BY DEF RefreshOK, Coroutine
<1> QED BY <1>1, <1>2, SoundStays DEF RefreshOK

LEMMA LibraryStays ==
    ASSUME Consistent, Consistent', Keeps, NEW c, LibraryOK(c)
    PROVE  LibraryOK(c)'
<1>1. nextSubject \in Nat /\ nextSubject' \in Nat
  BY Ids DEF Consistent, TablesOK, SubjectsOK
<1>2. c.subject \in SubjectIds \cup {NoId}
  BY DEF LibraryOK, Operation
<1> QED BY <1>1, <1>2, SoundStays DEF LibraryOK

LEMMA AllRest ==
    ASSUME IInv, Consistent', Keeps, UNCHANGED refresh
    PROVE  RefreshesOK'
<1>1. \A r \in Refreshes : RefreshOK(refresh[r])
  BY DEF IInv, RefreshesOK
<1>2. ASSUME NEW r \in Refreshes PROVE RefreshOK(refresh[r])'
  <2>1. PICK c : c = refresh[r]
    OBVIOUS
  <2>2. RefreshOK(c)'
    BY <1>1, <2>1, RefreshStays DEF IInv
  <2> QED BY <2>1, <2>2 DEF RefreshOK, Sound
<1> QED BY <1>2 DEF IInv, RefreshesOK

\* One of them goes on with c, and the others keep what they had.
LEMMA OneContinues ==
    ASSUME IInv, Consistent', Keeps, NEW r \in Refreshes, NEW c, RefreshOK(c)', Continue(r, c)
    PROVE  RefreshesOK'
<1>1. refresh' = [refresh EXCEPT ![r] = c]
  BY DEF Continue
<1>2. \A q \in Refreshes : RefreshOK(refresh[q])
  BY DEF IInv, RefreshesOK
<1>3. ASSUME NEW q \in Refreshes PROVE RefreshOK(refresh[q])'
  <2>1. PICK d : d = refresh[q]
    OBVIOUS
  <2>2. RefreshOK(d)'
    BY <1>2, <2>1, RefreshStays DEF IInv
  <2>3. refresh'[q] = IF q = r THEN c ELSE d
    BY <1>1, <2>1 DEF IInv, RefreshesOK
  <2> QED BY <2>2, <2>3 DEF RefreshOK, Sound
<1>4. c \in Coroutine
  BY DEF RefreshOK
<1> QED BY <1>1, <1>3, <1>4 DEF IInv, RefreshesOK

LEMMA LibraryRests ==
    ASSUME IInv, Consistent', Keeps, UNCHANGED library
    PROVE  LibraryOK(library)'
<1>1. PICK c : c = library
  OBVIOUS
<1>2. LibraryOK(c)'
  BY <1>1, LibraryStays DEF IInv
<1> QED BY <1>1, <1>2 DEF LibraryOK, Sound

\* Neither waits for anything.
LEMMA AtRest == RefreshOK(Resting) /\ LibraryOK(Quiet) /\ RefreshOK(Resting)' /\ LibraryOK(Quiet)'
<1>1. \A S : <<>> \in Seq(S)
  BY EmptySeq
<1>2. Resting \in Coroutine
  BY <1>1 DEF Resting, Coroutine
<1>3. Quiet \in Operation
  BY DEF Quiet, Operation
<1> QED BY <1>1, <1>2, <1>3 DEF RefreshOK, LibraryOK, Resting, Quiet, Sound, NoId

------------------------------------------------------------------------------
(* One step of a refresh.                                                  *)

\* What a step must do: keep the invariant, and add to the tables at most if
\* it is a step of a coroutine.
StepOK == IInv' /\ (AddsOnly \/ UNCHANGED <<refresh, library>>)

\* A step that leaves the tables and the library page alone.
LEMMA QuietStep ==
    ASSUME IInv, NEW r \in Refreshes, NEW c, RefreshOK(c), Continue(r, c),
           UNCHANGED <<remote, tables, library>>, PagesOK'
    PROVE  StepOK
<1>1. Consistent' /\ Keeps /\ AddsOnly
  BY TablesRest DEF IInv
<1>2. RefreshesOK'
  <2>1. RefreshOK(c)'
    BY <1>1, RefreshStays DEF IInv
  <2> QED BY <1>1, <2>1, OneContinues
<1>3. LibraryOK(library)'
  BY <1>1, LibraryRests
<1>4. RemoteOK'
  BY DEF IInv, RemoteOK
<1> QED BY <1>1, <1>2, <1>3, <1>4 DEF StepOK, IInv

LEMMA RefreshOf ==
    ASSUME IInv, NEW r \in Refreshes
    PROVE  /\ RefreshOK(refresh[r]) /\ refresh[r] \in Coroutine
           /\ refresh[r].pc # "idle" => refresh[r].work \in Works
           /\ refresh[r].subject # NoId => refresh[r].subject \in SubjectIds
BY DEF IInv, RefreshesOK, RefreshOK, Coroutine

LEMMA FindSubjectStep ==
    ASSUME IInv, NEW r \in Refreshes, NEW w \in Works, FindSubject(r, w)
    PROVE  StepOK
<1>1. PagesOK'
  BY DEF FindSubject, SubjectOf, IInv, PagesOK
<1>2. UNCHANGED <<remote, tables, library>>
  BY DEF FindSubject
<1>3. \A S : <<>> \in Seq(S)
  BY EmptySeq
<1>4. CASE Continue(r, [Resting EXCEPT !.pc = "subject", !.work = w])
  <2>1. PICK c : c = [Resting EXCEPT !.pc = "subject", !.work = w]
    OBVIOUS
  <2>2. RefreshOK(c)
    BY <1>3, <2>1 DEF Resting, RefreshOK, Coroutine, Sound
  <2> QED BY <1>1, <1>2, <1>4, <2>1, <2>2, QuietStep
<1>5. ASSUME NEW s \in SubjectOf(w), Continue(r, [Resting EXCEPT !.pc = "check", !.work = w, !.subject = s])
      PROVE  StepOK
  <2>1. PICK c : c = [Resting EXCEPT !.pc = "check", !.work = w, !.subject = s]
    OBVIOUS
  <2>2. s \in SubjectIds /\ subjects[s] # NoRow /\ subjects[s].origin = w
    BY DEF SubjectOf
  <2>3. s # NoId /\ s <= nextSubject
    BY <2>2, Ids DEF IInv, Consistent, TablesOK, SubjectsOK
  <2>4. RefreshOK(c)
    BY <1>3, <2>1, <2>2, <2>3 DEF Resting, RefreshOK, Coroutine, Sound
  <2> QED BY <1>1, <1>2, <1>5, <2>1, <2>4, QuietStep
<1> QED BY <1>4, <1>5 DEF FindSubject

\* An answer from the subject that the refresh knows.
LEMMA AnswerOK ==
    ASSUME IInv, NEW r \in Refreshes, refresh[r].pc # "idle", refresh[r].subject # NoId, NEW c,
           c = [refresh[r] EXCEPT !.pc = "load", !.subject = refresh[r].subject, !.got = <<>>, !.covers = {}]
    PROVE  RefreshOK(c)
<1>1. <<>> \in Seq(EpisodeKeys) /\ <<>> \in Seq(EpisodesFor(refresh[r].work))
  BY EmptySeq
<1> QED BY <1>1, RefreshOf DEF RefreshOK, Coroutine, Sound

LEMMA FallBackOK ==
    ASSUME IInv, NEW r \in Refreshes, refresh[r].pc # "idle", FallBack(r),
           UNCHANGED <<remote, tables, library>>, PagesOK'
    PROVE  StepOK
<1>1. CASE refresh[r].subject = NoId
  <2>1. Continue(r, Resting)
    BY <1>1 DEF FallBack, GiveUp
  <2> QED BY <2>1, AtRest, QuietStep DEF IInv
<1>2. CASE refresh[r].subject # NoId
  <2>1. PICK c : c = [refresh[r] EXCEPT !.pc = "load", !.subject = refresh[r].subject, !.got = <<>>, !.covers = {}]
    OBVIOUS
  <2>2. Continue(r, c)
    BY <1>2, <2>1 DEF FallBack, Answer
  <2> QED BY <1>2, <2>1, <2>2, AnswerOK, QuietStep
<1> QED BY <1>1, <1>2

LEMMA PagesRest == IInv /\ UNCHANGED pages => PagesOK'
BY DEF IInv, PagesOK, pages

LEMMA CheckFreshnessStep ==
    ASSUME IInv, NEW r \in Refreshes, CheckFreshness(r)
    PROVE  StepOK
<1>1. UNCHANGED <<remote, tables, library>> /\ PagesOK' /\ refresh[r].pc = "check"
  BY PagesRest DEF CheckFreshness
<1>2. refresh[r].subject # NoId
  BY <1>1, RefreshOf DEF RefreshOK
<1>3. PICK c : c = [refresh[r] EXCEPT !.pc = "load", !.subject = refresh[r].subject, !.got = <<>>, !.covers = {}]
  OBVIOUS
<1>4. PICK d : d = [refresh[r] EXCEPT !.pc = "subject"]
  OBVIOUS
<1>5. RefreshOK(c)
  BY <1>1, <1>2, <1>3, AnswerOK
<1>6. RefreshOK(d)
  BY <1>1, <1>4, RefreshOf DEF RefreshOK, Coroutine, Sound
<1>7. Continue(r, c) \/ Continue(r, d) \/ Continue(r, Resting)
  BY <1>3, <1>4 DEF CheckFreshness, Answer, GiveUp
<1> QED BY <1>1, <1>5, <1>6, <1>7, AtRest, QuietStep DEF IInv

LEMMA SubjectAnsweredStep ==
    ASSUME IInv, NEW r \in Refreshes, SubjectAnswered(r)
    PROVE  StepOK
<1>1. UNCHANGED <<remote, tables, library>> /\ PagesOK' /\ refresh[r].pc = "subject"
  BY PagesRest DEF SubjectAnswered
<1>2. PICK c : c = [refresh[r] EXCEPT !.pc = "episodes", !.covers = ToSet(remote[refresh[r].work])]
  OBVIOUS
<1>3. ToSet(remote[refresh[r].work]) \subseteq EpisodeKeys
  <2>1. remote[refresh[r].work] \in Seq(EpisodeKeys)
    BY <1>1, RefreshOf DEF IInv, RemoteOK
  <2> QED BY <2>1, ElementsIn
<1>4. RefreshOK(c)
  BY <1>1, <1>2, <1>3, RefreshOf DEF RefreshOK, Coroutine, Sound
<1>5. Continue(r, c) \/ FallBack(r) \/ Continue(r, Resting)
  BY <1>2 DEF SubjectAnswered, GiveUp
<1> QED BY <1>1, <1>4, <1>5, AtRest, QuietStep, FallBackOK DEF IInv

\* What Bangumi answers is of the work.
LEMMA ListedOK ==
    ASSUME IInv, NEW r \in Refreshes, refresh[r].pc = "episodes"
    PROVE  refresh[r].got \o Listed(r) \in Seq(EpisodesFor(refresh[r].work))
<1> DEFINE w == refresh[r].work
           all == remote[w]
           offset == Len(refresh[r].got)
           last == IF offset + PageSize < Len(all) THEN offset + PageSize ELSE Len(all)
<1>1. w \in Works /\ refresh[r].got \in Seq(EpisodesFor(w))
  BY RefreshOf DEF RefreshOK
<1>2. all \in Seq(EpisodesFor(w))
  BY <1>1 DEF IInv, RemoteOK
<1>3. offset \in Nat /\ Len(all) \in Nat /\ PageSize \in Nat
  BY <1>1, <1>2, LenProperties, ConstantsAssumption
<1>4. last \in Nat /\ last <= Len(all)
  BY <1>3
<1>5. Listed(r) \in Seq(EpisodesFor(w))
  <2> HIDE DEF all, offset, last
  <2>1. SubSeq(all, offset + 1, last) \in Seq(EpisodesFor(w))
    BY <1>2, <1>3, <1>4, PieceOf
  <2> QED BY <2>1 DEF Listed, all, offset, last
<1> QED BY <1>1, <1>5, ConcatProperties

LEMMA PageAnsweredStep ==
    ASSUME IInv, NEW r \in Refreshes, PageAnswered(r)
    PROVE  StepOK
<1>1. UNCHANGED <<remote, tables, library>> /\ PagesOK' /\ refresh[r].pc = "episodes"
  BY PagesRest DEF PageAnswered
<1>2. PICK got : got = refresh[r].got \o Listed(r)
  OBVIOUS
<1>3. got \in Seq(EpisodesFor(refresh[r].work))
  BY <1>1, <1>2, ListedOK
<1>4. got \in Seq(EpisodeKeys)
  BY <1>3, ElementOfSeq, LenProperties, IsASeq, SeqDef DEF EpisodesFor
<1>5. PICK c : c = [refresh[r] EXCEPT !.got = got, !.pc = IF Complete(r, got) THEN "summary" ELSE "episodes"]
  OBVIOUS
<1>6. RefreshOK(c)
  <2>1. PICK pc \in {"summary", "episodes"} : pc = IF Complete(r, got) THEN "summary" ELSE "episodes"
    OBVIOUS
  <2>2. c = [refresh[r] EXCEPT !.got = got, !.pc = pc]
    BY <1>5, <2>1
  <2> QED BY <1>1, <1>3, <1>4, <2>2, RefreshOf DEF RefreshOK, Coroutine, Sound
<1>7. Continue(r, c) \/ FallBack(r)
  BY <1>2, <1>5 DEF PageAnswered
<1> QED BY <1>1, <1>6, <1>7, QuietStep, FallBackOK

\* A step in which the tables are kept by a transaction, or by none.
LEMMA StoringStep ==
    ASSUME IInv, Consistent', Keeps, AddsOnly, NEW r \in Refreshes, NEW c, RefreshOK(c)', Continue(r, c),
           UNCHANGED <<remote, library, pages>>
    PROVE  StepOK
<1>1. RefreshesOK' /\ LibraryOK(library)' /\ PagesOK'
  BY OneContinues, LibraryRests, PagesRest
<1>2. RemoteOK'
  BY DEF IInv, RemoteOK
<1> QED BY <1>1, <1>2 DEF StepOK, IInv

LEMMA GivingUp ==
    ASSUME IInv, NEW r \in Refreshes, GiveUp(r), UNCHANGED <<remote, tables, library, pages>>
    PROVE  StepOK
BY AtRest, QuietStep, PagesRest DEF GiveUp

LEMMA StoreSummaryStep ==
    ASSUME IInv, NEW r \in Refreshes, StoreSummary(r)
    PROVE  StepOK
<1>1. UNCHANGED <<remote, library, pages>> /\ refresh[r].pc = "summary" /\ refresh[r].work \in Works
  BY RefreshOf DEF StoreSummary
<1>2. ASSUME NEW s \in SubjectIds, UpsertSubject(refresh[r].work, "summary", s),
             Continue(r, [refresh[r] EXCEPT !.pc = "store", !.subject = s])
      PROVE  StepOK
  <2>1. PICK c : c = [refresh[r] EXCEPT !.pc = "store", !.subject = s]
    OBVIOUS
  <2>2. Consistent' /\ Keeps /\ AddsOnly /\ s <= nextSubject' /\ subjects'[s].origin = refresh[r].work
    BY <1>1, <1>2, UpsertSubjectKeeps DEF IInv
  <2>3. RefreshOK(c)'
    BY <1>1, <2>1, <2>2, RefreshOf, Ids DEF RefreshOK, Coroutine, Sound
  <2> QED BY <1>1, <1>2, <2>1, <2>2, <2>3, StoringStep
<1> QED BY <1>1, <1>2, GivingUp DEF StoreSummary

LEMMA StoreEpisodesStep ==
    ASSUME IInv, NEW r \in Refreshes, StoreEpisodes(r)
    PROVE  StepOK
<1>1. UNCHANGED <<remote, library, pages>> /\ refresh[r].pc = "store" /\ refresh[r].work \in Works
  BY RefreshOf DEF StoreEpisodes
<1>2. ASSUME UpsertEpisodes(refresh[r].subject, ToSet(refresh[r].got)),
             Continue(r, [refresh[r] EXCEPT !.pc = "details", !.got = <<>>])
      PROVE  StepOK
  <2>1. PICK c : c = [refresh[r] EXCEPT !.pc = "details", !.got = <<>>]
    OBVIOUS
  <2>2. ToSet(refresh[r].got) \subseteq EpisodesFor(refresh[r].work)
    BY RefreshOf, ElementsIn DEF RefreshOK
  <2>3. \A k \in ToSet(refresh[r].got) : subjects[refresh[r].subject].origin = Owner(k)
    <3>1. subjects[refresh[r].subject] # NoRow
      BY <1>2 DEF UpsertEpisodes, Accepts
    <3>2. subjects[refresh[r].subject].origin = refresh[r].work
      BY <1>1, <3>1, RefreshOf DEF RefreshOK, Sound
    <3> QED BY <2>2, <3>2, Constants DEF Owner, EpisodesFor
  <2>4. ToSet(refresh[r].got) \subseteq EpisodeKeys
    BY <2>2 DEF EpisodesFor
  <2>5. Consistent' /\ Keeps /\ AddsOnly
    BY <1>2, <2>3, <2>4, UpsertEpisodesKeeps DEF IInv
  <2>6. RefreshOK(c)
    <3>1. \A S : <<>> \in Seq(S)
      BY EmptySeq
    <3> QED BY <1>1, <2>1, <3>1, RefreshOf DEF RefreshOK, Coroutine, Sound
  <2>7. RefreshOK(c)'
    BY <2>5, <2>6, RefreshStays DEF IInv
  <2> QED BY <1>1, <1>2, <2>1, <2>5, <2>7, StoringStep
<1> QED BY <1>1, <1>2, GivingUp DEF StoreEpisodes

LEMMA StoreDetailsStep ==
    ASSUME IInv, NEW r \in Refreshes, StoreDetails(r)
    PROVE  StepOK
<1>1. UNCHANGED <<remote, library, pages>> /\ refresh[r].pc = "details" /\ refresh[r].work \in Works
  BY RefreshOf DEF StoreDetails
<1>2. ASSUME NEW s \in SubjectIds, UpsertSubject(refresh[r].work, "details", s), Answer(r, s)
      PROVE  StepOK
  <2>1. PICK c : c = [refresh[r] EXCEPT !.pc = "load", !.subject = s, !.got = <<>>, !.covers = {}]
    OBVIOUS
  <2>2. Consistent' /\ Keeps /\ AddsOnly /\ s <= nextSubject' /\ subjects'[s].origin = refresh[r].work
    BY <1>1, <1>2, UpsertSubjectKeeps DEF IInv
  <2>3. \A S : <<>> \in Seq(S)
    BY EmptySeq
  <2>4. RefreshOK(c)'
    BY <1>1, <2>1, <2>2, <2>3, RefreshOf, Ids DEF RefreshOK, Coroutine, Sound
  <2> QED BY <1>1, <1>2, <2>1, <2>2, <2>4, StoringStep DEF Answer
<1> QED BY <1>1, <1>2, GivingUp DEF StoreDetails

LEMMA PageLoadsStep ==
    ASSUME IInv, NEW r \in Refreshes, PageLoads(r)
    PROVE  StepOK
<1>1. UNCHANGED <<remote, tables, library>> /\ refresh[r].pc = "load" /\ Continue(r, Resting)
  BY DEF PageLoads, GiveUp
<1>2. refresh[r].subject \in SubjectIds
  BY <1>1, RefreshOf DEF RefreshOK
<1>3. PagesOK'
  BY <1>2 DEF PageLoads, IInv, PagesOK
<1> QED BY <1>1, <1>3, AtRest, QuietStep

------------------------------------------------------------------------------
(* One step of the library page.                                           *)

\* What is done at once.
LEMMA AtOnceShown ==
    ASSUME IInv, Consistent', Keeps, UNCHANGED <<remote, refresh, library>>, PagesOK'
    PROVE  StepOK
<1>1. RefreshesOK' /\ LibraryOK(library)'
  BY AllRest, LibraryRests
<1>2. RemoteOK'
  BY DEF IInv, RemoteOK
<1> QED BY <1>1, <1>2 DEF StepOK, IInv

LEMMA AtOnce ==
    ASSUME IInv, Consistent', Keeps, UNCHANGED <<remote, refresh, library, pages>>
    PROVE  StepOK
BY AtOnceShown, PagesRest

LEMMA AtOnceSteps ==
    ASSUME IInv,
           \/ \E fs \in SUBSET Files \ {{}} : ImportFiles(fs)
           \/ \E s \in SubjectIds : RemoveSubject(s)
           \/ \E i \in ItemIds :
                 RemoveMedia(i) \/ \E e \in EpisodeIds : LinkMedia(e, i) \/ UnlinkMedia(e, i)
    PROVE  StepOK
<1>1. ASSUME NEW fs \in SUBSET Files, ImportFiles(fs) PROVE StepOK
  BY <1>1, UpsertDiscoveriesKeeps, AtOnce DEF ImportFiles, Idle, IInv
<1>2. ASSUME NEW s \in SubjectIds, RemoveSubject(s) PROVE StepOK
  <2>1. PagesOK'
    BY <1>2 DEF RemoveSubject, IInv, PagesOK
  <2>2. Consistent' /\ Keeps
    BY <1>2, DeleteSubjectKeeps DEF RemoveSubject, IInv
  <2> QED BY <1>2, <2>1, <2>2, AtOnceShown DEF RemoveSubject, Idle
<1>3. ASSUME NEW i \in ItemIds, RemoveMedia(i) PROVE StepOK
  BY <1>3, DeleteItemKeeps, AtOnce DEF RemoveMedia, Idle, IInv
<1>4. ASSUME NEW i \in ItemIds, NEW e \in EpisodeIds, LinkMedia(e, i) \/ UnlinkMedia(e, i) PROVE StepOK
  BY <1>4, LinksKeep, AtOnce DEF LinkMedia, UnlinkMedia, Idle, IInv
<1> QED BY <1>1, <1>2, <1>3, <1>4

\* What is done in several steps: the page goes on with c.
LEMMA PageContinues ==
    ASSUME IInv, Consistent', Keeps, AddsOnly, NEW c, LibraryOK(c)', library' = c,
           UNCHANGED <<remote, refresh>>, PagesOK'
    PROVE  StepOK
<1>1. RefreshesOK'
  BY AllRest
<1>2. RemoteOK' /\ LibraryOK(library)'
  BY DEF IInv, RemoteOK, LibraryOK, Sound
<1> QED BY <1>1, <1>2 DEF StepOK, IInv

\* It goes on, or stops, without having written.
LEMMA PageGoesOn ==
    ASSUME IInv, NEW c, LibraryOK(c), library' = c, UNCHANGED <<remote, tables, refresh>>, PagesOK'
    PROVE  StepOK
<1>1. Consistent' /\ Keeps /\ AddsOnly
  BY TablesRest DEF IInv
<1>2. LibraryOK(c)'
  BY <1>1, LibraryStays DEF IInv
<1> QED BY <1>1, <1>2, PageContinues

LEMMA BeginAssociationStep ==
    ASSUME IInv, NEW w \in Works, BeginAssociation(w)
    PROVE  StepOK
<1>1. PICK s \in SubjectIds : UpsertSubject(w, "summary", s) /\ Begin("page", w, s, NoId)
  BY DEF BeginAssociation
<1>2. PICK c : c = [Quiet EXCEPT !.pc = "page", !.work = w, !.subject = s, !.item = NoId]
  OBVIOUS
<1>3. Consistent' /\ Keeps /\ AddsOnly /\ s <= nextSubject' /\ subjects'[s].origin = w
  BY <1>1, UpsertSubjectKeeps DEF IInv
<1>4. LibraryOK(c)'
  BY <1>2, <1>3, Ids DEF LibraryOK, Operation, Quiet, Sound
<1>5. library' = c /\ UNCHANGED <<remote, refresh>> /\ PagesOK'
  BY <1>1, <1>2 DEF Begin, BeginAssociation, IInv, PagesOK
<1> QED BY <1>3, <1>4, <1>5, PageContinues

LEMMA CreateSubjectStep ==
    ASSUME IInv, NEW i \in ItemIds, CreateSubject(i)
    PROVE  StepOK
<1>1. PICK s \in SubjectIds : UpsertSubject(Local, "details", s) /\ Begin("episode", Local, s, i)
  BY DEF CreateSubject
<1>2. PICK c : c = [Quiet EXCEPT !.pc = "episode", !.work = Local, !.subject = s, !.item = i]
  OBVIOUS
<1>3. Consistent' /\ Keeps /\ AddsOnly /\ s <= nextSubject' /\ subjects'[s].origin = Local
  BY <1>1, UpsertSubjectKeeps DEF IInv
<1>4. LibraryOK(c)'
  BY <1>2, <1>3, Ids DEF LibraryOK, Operation, Quiet, Sound
<1>5. library' = c /\ UNCHANGED <<remote, refresh>> /\ PagesOK'
  BY <1>1, <1>2, PagesRest DEF Begin, CreateSubject
<1> QED BY <1>3, <1>4, <1>5, PageContinues

LEMMA AssociationPageStep ==
    ASSUME IInv, AssociationPage
    PROVE  StepOK
<1>1. /\ library.pc = "page" /\ LibraryOK(library) /\ library.work \in Works
      /\ UNCHANGED <<remote, tables, refresh>> /\ PagesOK'
  BY PagesRest DEF AssociationPage, IInv, LibraryOK
<1>2. ASSUME NEW offset \in 0 .. Len(remote[library.work]),
             library' = [library EXCEPT !.pc = "options", !.got =
                 {remote[library.work][n] : n \in
                     {m \in DOMAIN remote[library.work] : m > offset /\ m <= offset + PageSize}}]
      PROVE  StepOK
  <2>1. PICK got : got = {remote[library.work][n] : n \in
                     {m \in DOMAIN remote[library.work] : m > offset /\ m <= offset + PageSize}}
    OBVIOUS
  <2>2. got \subseteq EpisodesFor(library.work)
    <3>1. remote[library.work] \in Seq(EpisodesFor(library.work))
      BY <1>1 DEF IInv, RemoteOK
    <3>2. \A n \in DOMAIN remote[library.work] : remote[library.work][n] \in EpisodesFor(library.work)
      BY <3>1, ElementOfSeq, LenProperties
    <3> QED BY <2>1, <3>2
  <2>3. PICK c : c = [library EXCEPT !.pc = "options", !.got = got]
    OBVIOUS
  <2>4. got \subseteq EpisodeKeys
    BY <2>2 DEF EpisodesFor
  <2>5. LibraryOK(c)
    BY <1>1, <2>2, <2>3, <2>4 DEF LibraryOK, Operation, Sound
  <2> QED BY <1>1, <1>2, <2>1, <2>3, <2>5, PageGoesOn
<1> QED BY <1>1, <1>2, AtRest, PageGoesOn DEF AssociationPage

LEMMA AssociationOptionsStep ==
    ASSUME IInv, AssociationOptions
    PROVE  StepOK
<1>1. /\ library.pc = "options" /\ LibraryOK(library) /\ library.work \in Works
      /\ UNCHANGED <<remote, refresh, shown>> /\ library' = Quiet
  BY DEF AssociationOptions, IInv, LibraryOK
<1>2. CASE /\ UpsertEpisodes(library.subject, library.got)
           /\ picker' = {e \in EpisodeIds : episodes'[e] # NoRow /\ episodes'[e].key \in library.got}
  <2>1. subjects[library.subject] # NoRow
    BY <1>2 DEF UpsertEpisodes, Accepts
  <2>2. subjects[library.subject].origin = library.work
    BY <1>1, <2>1 DEF LibraryOK, Sound
  <2>3. \A k \in library.got : k \in EpisodeKeys /\ subjects[library.subject].origin = Owner(k)
    BY <1>1, <2>2, Constants DEF LibraryOK, Owner, EpisodesFor
  <2>4. Consistent' /\ Keeps /\ AddsOnly
    BY <1>2, <2>3, UpsertEpisodesKeeps DEF IInv
  <2>5. PagesOK'
    BY <1>1, <1>2 DEF IInv, PagesOK
  <2> QED BY <1>1, <2>4, <2>5, AtRest, PageContinues
<1>3. CASE UNCHANGED <<tables, picker>>
  BY <1>1, <1>3, AtRest, PagesRest, PageGoesOn DEF pages
<1> QED BY <1>2, <1>3 DEF AssociationOptions

LEMMA CreateEpisodeStep ==
    ASSUME IInv, CreateEpisode
    PROVE  StepOK
<1>1. /\ library.pc = "episode" /\ LibraryOK(library) /\ library.work = Local
      /\ UNCHANGED <<remote, refresh>> /\ PagesOK'
  BY PagesRest DEF CreateEpisode, IInv, LibraryOK
<1>2. CASE UpsertEpisodes(library.subject, {Local}) /\ library' = [library EXCEPT !.pc = "link"]
  <2>1. subjects[library.subject] # NoRow
    BY <1>2 DEF UpsertEpisodes, Accepts
  <2>2. \A k \in {Local} : subjects[library.subject].origin = Owner(k)
    BY <1>1, <2>1 DEF LibraryOK, Sound, Owner
  <2>3. Consistent' /\ Keeps /\ AddsOnly
    BY <1>2, <2>2, UpsertEpisodesKeeps DEF IInv
  <2>4. PICK c : c = [library EXCEPT !.pc = "link"]
    OBVIOUS
  <2>5. LibraryOK(c)
    BY <1>1, <2>4 DEF LibraryOK, Operation, Sound
  <2>6. LibraryOK(c)'
    BY <2>3, <2>5, LibraryStays DEF IInv
  <2> QED BY <1>1, <1>2, <2>3, <2>4, <2>6, PageContinues
<1>3. CASE library' = Quiet /\ UNCHANGED tables
  BY <1>1, <1>3, AtRest, PageGoesOn
<1> QED BY <1>2, <1>3 DEF CreateEpisode

LEMMA CreateLinkStep ==
    ASSUME IInv, CreateLink
    PROVE  StepOK
<1>1. library' = Quiet /\ UNCHANGED <<remote, refresh>> /\ PagesOK'
  BY PagesRest DEF CreateLink
<1>2. ASSUME NEW e \in EpisodesOf(library.subject), UpsertLink(e, library.item)
      PROVE  StepOK
  <2>1. e \in EpisodeIds /\ library.item \in ItemIds
    BY <1>2 DEF UpsertLink
  <2>2. Consistent' /\ Keeps /\ AddsOnly
    BY <1>2, <2>1, LinksKeep DEF IInv
  <2> QED BY <1>1, <2>2, AtRest, PageContinues
<1> QED BY <1>1, <1>2, AtRest, PageGoesOn DEF CreateLink

------------------------------------------------------------------------------
(* The world outside, and every step.                                      *)

LEMMA AnnounceStep ==
    ASSUME IInv, NEW k \in EpisodeKeys, Announce(k)
    PROVE  StepOK
<1> DEFINE w == WorkOf[k]
<1>1. UNCHANGED <<tables, refresh, library, pages>>
  BY DEF Announce
<1>2. PICK n \in 1 .. Len(remote[w]) + 1 : remote' = [remote EXCEPT ![w] = InsertAt(remote[w], n, k)]
  BY DEF Announce
<1>3. w \in Works /\ k \in EpisodesFor(w)
  BY Constants DEF EpisodesFor
<1>4. remote[w] \in Seq(EpisodesFor(w)) /\ remote[w] \in Seq(EpisodeKeys)
  BY <1>3 DEF IInv, RemoteOK
<1>5. InsertAt(remote[w], n, k) \in Seq(EpisodesFor(w)) /\ InsertAt(remote[w], n, k) \in Seq(EpisodeKeys)
  BY <1>3, <1>4, InsertedIn
<1>6. PICK s : s = InsertAt(remote[w], n, k)
  OBVIOUS
<1> HIDE DEF w
<1>7. RemoteOK'
  BY <1>2, <1>3, <1>5, <1>6 DEF IInv, RemoteOK
<1>8. Consistent' /\ Keeps
  BY <1>1, TablesRest DEF IInv
<1>9. RefreshesOK' /\ LibraryOK(library)' /\ PagesOK'
  BY <1>1, <1>8, AllRest, LibraryRests, PagesRest
<1> QED BY <1>1, <1>7, <1>8, <1>9 DEF StepOK, IInv

LEMMA SixHoursPassStep ==
    ASSUME IInv, NEW s \in SubjectIds, SixHoursPass(s)
    PROVE  StepOK
<1>1. /\ subjects[s] # NoRow /\ subjects' = [subjects EXCEPT ![s].fresh = FALSE]
      /\ UNCHANGED <<remote, episodes, items, resources, links, nextSubject, nextEpisode, nextItem,
                     refresh, library, pages>>
  BY DEF SixHoursPass
<1>2. subjects[s] \in Subject /\ subjects \in [SubjectIds -> Subject \cup {NoRow}]
  BY <1>1 DEF IInv, Consistent, TablesOK, SubjectsOK
<1>3. /\ subjects'[s] \in Subject /\ subjects'[s].origin = subjects[s].origin
      /\ \A t \in SubjectIds : t # s => subjects'[t] = subjects[t]
  BY <1>1, <1>2 DEF Subject
<1>4. \A t \in SubjectIds :
         /\ subjects'[t] # NoRow <=> subjects[t] # NoRow
         /\ subjects[t] # NoRow => subjects'[t].origin = subjects[t].origin
  BY <1>1, <1>3, Constants
<1>5. \A e \in EpisodeIds : episodes[e] # NoRow => episodes[e].subject \in SubjectIds
  BY Constants DEF IInv, Consistent, TablesOK, EpisodesOK
<1>6. TablesOK'
  <2>1. subjects' \in [SubjectIds -> Subject \cup {NoRow}]
    BY <1>1, <1>2, <1>3
  <2>2. SubjectsOK'
    BY <1>1, <1>4, <2>1 DEF IInv, Consistent, TablesOK, SubjectsOK
  <2> QED BY <1>1, <2>2 DEF IInv, Consistent, TablesOK, EpisodesOK, ItemsOK, LinksOK
<1>7. Keeps
  BY <1>1, <1>4, Ids DEF Keeps, IInv, Consistent, TablesOK, SubjectsOK
<1>8. ReferencesResolve'
  BY <1>1, <1>4, <1>5 DEF IInv, Consistent, ReferencesResolve
<1>9. OneRowEach'
  <2>1. \A a, b \in SubjectIds : (subjects'[a] # NoRow /\ subjects'[b] # NoRow /\ subjects'[a].origin = subjects'[b].origin)
           => a = b \/ subjects'[a].origin = Local
    BY <1>4 DEF IInv, Consistent, OneRowEach
  <2>2. \A e \in EpisodeIds : episodes'[e] # NoRow => subjects'[episodes'[e].subject].origin = Owner(episodes'[e].key)
    BY <1>1, <1>4, <1>5 DEF IInv, Consistent, OneRowEach, ReferencesResolve
  <2> QED BY <1>1, <2>1, <2>2 DEF IInv, Consistent, OneRowEach
<1> QED BY <1>1, <1>6, <1>7, <1>8, <1>9, AtOnce DEF Consistent

LEMMA RestartStep ==
    ASSUME IInv, Restart
    PROVE  StepOK
<1>1. Consistent' /\ AddsOnly
  BY TablesRest DEF Restart, IInv
<1>2. RefreshesOK'
  <2>1. \A r \in Refreshes : refresh'[r] = Resting
    BY DEF Restart
  <2>2. Resting \in Coroutine
    BY AtRest DEF RefreshOK
  <2>3. \A r \in Refreshes : RefreshOK(refresh[r])'
    BY <2>1, AtRest DEF RefreshOK, Sound
  <2> QED BY <2>2, <2>3 DEF Restart, RefreshesOK
<1>3. LibraryOK(library)'
  BY AtRest DEF Restart, LibraryOK, Sound
<1>4. RemoteOK' /\ PagesOK'
  BY DEF Restart, IInv, RemoteOK, PagesOK
<1> QED BY <1>1, <1>2, <1>3, <1>4 DEF StepOK, IInv

LEMMA Initially == Init => IInv
<1> SUFFICES ASSUME Init PROVE IInv
  OBVIOUS
<1>0. \A S : <<>> \in Seq(S)
  BY EmptySeq
<1>1. TablesOK
  BY Ids DEF Init, TablesOK, SubjectsOK, EpisodesOK, ItemsOK, LinksOK
<1>2. ReferencesResolve /\ OneRowEach
  BY DEF Init, ReferencesResolve, OneRowEach
<1>3. RemoteOK /\ PagesOK
  <2>1. remote \in [Works -> Seq(EpisodeKeys)]
    BY ConstantsAssumption DEF Init
  <2>2. ASSUME NEW w \in Works PROVE remote[w] \in Seq(EpisodesFor(w))
    <3>1. PICK list \in Seq(EpisodeKeys) : list = remote[w]
      BY <2>1
    <3>2. \A k \in ToSet(list) : WorkOf[k] = w
      BY <3>1, ConstantsAssumption DEF Init
    <3>3. ToSet(list) \subseteq EpisodesFor(w)
      BY <3>2, ElementsIn DEF EpisodesFor
    <3> QED BY <3>1, <3>3, MembersIn
  <2> QED BY <2>1, <2>2 DEF Init, RemoteOK, PagesOK
<1>4. RefreshesOK
  <2>1. Resting \in Coroutine
    BY AtRest DEF RefreshOK
  <2> QED BY <2>1, AtRest DEF Init, RefreshesOK
<1>5. LibraryOK(library)
  BY AtRest DEF Init
<1> QED BY <1>1, <1>2, <1>3, <1>4, <1>5 DEF IInv, Consistent

LEMMA EveryStep == IInv /\ [Next]_vars => StepOK
<1> SUFFICES ASSUME IInv, [Next]_vars PROVE StepOK
  OBVIOUS
<1>1. ASSUME NEW r \in Refreshes, EnsureResumes(r) PROVE StepOK
  BY <1>1, CheckFreshnessStep, SubjectAnsweredStep, PageAnsweredStep, StoreSummaryStep,
     StoreEpisodesStep, StoreDetailsStep, PageLoadsStep DEF EnsureResumes
<1>2. ASSUME NEW r \in Refreshes, NEW w \in Works, FindSubject(r, w) PROVE StepOK
  BY <1>2, FindSubjectStep
<1>3. CASE LibraryPage
  <2>1. CASE LibraryResumes
    BY <2>1, AssociationPageStep, AssociationOptionsStep, CreateEpisodeStep, CreateLinkStep DEF LibraryResumes
  <2>2. ASSUME NEW w \in Works, BeginAssociation(w) PROVE StepOK
    BY <2>2, BeginAssociationStep
  <2>3. ASSUME NEW i \in ItemIds, CreateSubject(i) PROVE StepOK
    BY <2>3, CreateSubjectStep
  <2> QED BY <1>3, <2>1, <2>2, <2>3, AtOnceSteps DEF LibraryPage
<1>4. ASSUME NEW k \in EpisodeKeys, Announce(k) PROVE StepOK
  BY <1>4, AnnounceStep
<1>5. ASSUME NEW s \in SubjectIds, SixHoursPass(s) PROVE StepOK
  BY <1>5, SixHoursPassStep
<1>6. CASE Restart
  BY <1>6, RestartStep
<1>7. CASE UNCHANGED vars
  <2>1. Consistent' /\ Keeps
    BY <1>7, TablesRest DEF vars, IInv
  <2> QED BY <1>7, <2>1, AtOnce DEF vars
<1> QED BY <1>1, <1>2, <1>3, <1>4, <1>5, <1>6, <1>7 DEF Next

LEMMA Invariant == Spec => []IInv
<1>1. IInv /\ [Next]_vars => IInv'
  BY EveryStep DEF StepOK
<1> QED BY <1>1, Initially, PTL DEF Spec

------------------------------------------------------------------------------
(* The theorems.                                                           *)

\* The tables hold rows, none beyond the last id that was given, and the
\* coroutines are at one of their await points.
THEOREM TypeCorrect == Spec => []TypeOK
<1>1. IInv => TypeOK
  BY DEF IInv, Consistent, TablesOK, SubjectsOK, EpisodesOK, ItemsOK, LinksOK, RemoteOK,
         RefreshesOK, LibraryOK, PagesOK, TypeOK
<1> QED BY <1>1, Invariant, PTL

\* No row refers to one that is not there, although subjects and files are
\* removed while refreshes write.
THEOREM ReferencesAlwaysResolve == Spec => []ReferencesResolve
<1>1. IInv => ReferencesResolve
  BY DEF IInv, Consistent
<1> QED BY <1>1, Invariant, PTL

\* However many refreshes and associations of a work run at the same time,
\* it has one subject, and an episode one row, under its own work.
THEOREM OneRowForEach == Spec => []OneRowEach
<1>1. IInv => OneRowEach
  BY DEF IInv, Consistent
<1> QED BY <1>1, Invariant, PTL

\* A coroutine answers with the work it was asked for, or with nothing that
\* exists any more.
THEOREM AnswersTheWork == Spec => []AnswerIsTheWork
<1>1. IInv => AnswerIsTheWork
  BY DEF IInv, RefreshesOK, RefreshOK, Sound, AnswerIsTheWork
<1> QED BY <1>1, Invariant, PTL

\* A step of a coroutine that brings the catalogue up to date keeps every
\* episode under its number, and every link.
THEOREM LinksAreKept == Spec => RefreshKeepsLinks
<1>1. IInv /\ [Next]_vars =>
         [(refresh' # refresh \/ library' # library) =>
          /\ links \subseteq links'
          /\ \A e \in EpisodeIds : episodes[e] # NoRow => episodes'[e] = episodes[e]]_vars
  BY EveryStep DEF StepOK, AddsOnly
<1> QED BY <1>1, Invariant, PTL DEF Spec, RefreshKeepsLinks
------------------------------------------------------------------------------
(* Details claim what is stored.                                           *)

\* What Bangumi listed when a refresh began to ask, it has got, or it is
\* further back in the list than the refresh has come, wherever episodes were
\* announced since; then all of it has been got, and then it is stored, as
\* long as the subject is.
Beyond(w, n, k) == \E m \in DOMAIN remote[w] : m > n /\ remote[w][m] = k
CoversOK(c) ==
    /\ c.pc \in {"check", "subject"} => c.got = <<>>
    /\ c.pc = "episodes" => \A k \in c.covers : k \in ToSet(c.got) \/ Beyond(c.work, Len(c.got), k)
    /\ c.pc \in {"summary", "store"} => c.covers \subseteq ToSet(c.got)
    /\ c.pc = "details" /\ subjects[c.subject] # NoRow => Holds(c.subject, c.covers)
CoversInv == \A r \in Refreshes : CoversOK(refresh[r])

LEMMA InsertedAt ==
    ASSUME NEW S, NEW s \in Seq(S), NEW n \in 1 .. Len(s) + 1, NEW x \in S
    PROVE  /\ Len(InsertAt(s, n, x)) = Len(s) + 1
           /\ \A m \in 1 .. Len(s) :
                 InsertAt(s, n, x)[IF m < n THEN m ELSE m + 1] = s[m]
<1>0. Len(s) \in Nat
  BY LenProperties
<1> DEFINE front == SubSeq(s, 1, n - 1)
           back == SubSeq(s, n, Len(s))
<1>1. /\ front \in Seq(S) /\ Len(front) = n - 1 /\ \A m \in 1 .. n - 1 : front[m] = s[m]
  <2>1. \A i \in 1 .. n - 1 : s[i] \in S
    BY <1>0, ElementOfSeq
  <2> QED BY <1>0, <2>1, SubSeqProperties
<1>2. /\ back \in Seq(S) /\ Len(back) = Len(s) - n + 1
      /\ \A m \in 1 .. Len(s) - n + 1 : back[m] = s[m + n - 1]
  <2>1. \A i \in n .. Len(s) : s[i] \in S
    BY <1>0, ElementOfSeq
  <2> QED BY <1>0, <2>1, SubSeqProperties
<1>3. <<x>> \in Seq(S) /\ Len(<<x>>) = 1
  OBVIOUS
<1> HIDE DEF front, back
<1>4. /\ front \o <<x>> \in Seq(S) /\ Len(front \o <<x>>) = n
      /\ \A m \in 1 .. n - 1 : (front \o <<x>>)[m] = s[m]
  BY <1>0, <1>1, <1>3, ConcatProperties
<1>5. PICK head \in Seq(S) : head = front \o <<x>>
  BY <1>4
<1>6. /\ Len(head \o back) = Len(s) + 1
      /\ \A m \in 1 .. n - 1 : (head \o back)[m] = s[m]
      /\ \A m \in n .. Len(s) : (head \o back)[m + 1] = s[m]
  <2>1. /\ Len(head \o back) = Len(head) + Len(back)
        /\ \A i \in 1 .. Len(head) + Len(back) :
              (head \o back)[i] = IF i <= Len(head) THEN head[i] ELSE back[i - Len(head)]
    BY <1>2, ConcatProperties
  <2>2. Len(head) = n /\ \A m \in 1 .. n - 1 : head[m] = s[m]
    BY <1>4, <1>5
  <2>3. ASSUME NEW m \in n .. Len(s) PROVE (head \o back)[m + 1] = s[m]
    <3>1. (head \o back)[m + 1] = back[m + 1 - n]
      BY <1>0, <1>2, <2>1, <2>2, SMTT(20)
    <3>2. back[m + 1 - n] = s[(m + 1 - n) + n - 1]
      BY <1>0, <1>2
    <3>3. (m + 1 - n) + n - 1 = m
      BY <1>0
    <3> QED BY <3>1, <3>2, <3>3
  <2>4. \A m \in 1 .. n - 1 : (head \o back)[m] = s[m]
    BY <1>0, <1>2, <2>1, <2>2, SMTT(20)
  <2>5. Len(head \o back) = Len(s) + 1
    BY <1>0, <1>2, <2>1, <2>2
  <2> QED BY <2>3, <2>4, <2>5
<1>7. InsertAt(s, n, x) = head \o back
  BY <1>5 DEF InsertAt, front, back
<1>8. PICK all : all = InsertAt(s, n, x)
  OBVIOUS
<1>9. /\ Len(all) = Len(s) + 1
      /\ \A m \in 1 .. n - 1 : all[m] = s[m]
      /\ \A m \in n .. Len(s) : all[m + 1] = s[m]
  BY <1>6, <1>7, <1>8
<1>10. ASSUME NEW m \in 1 .. Len(s) PROVE all[IF m < n THEN m ELSE m + 1] = s[m]
  <2>1. CASE m < n
    <3>1. m \in 1 .. n - 1
      BY <1>0, <2>1
    <3> QED BY <2>1, <3>1, <1>9
  <2>2. CASE ~(m < n)
    <3>1. m \in n .. Len(s)
      BY <1>0, <2>2
    <3> QED BY <2>2, <3>1, <1>9
  <2> QED BY <2>1, <2>2
<1> QED BY <1>8, <1>9, <1>10

\* Nothing comes nearer in a list.
ListsGrow == \A k : \A w \in Works, n \in Nat : Beyond(w, n, k) => Beyond(w, n, k)'

LEMMA ListsOnlyGrow == IInv /\ [Next]_vars => ListsGrow
<1> SUFFICES ASSUME IInv, [Next]_vars PROVE ListsGrow
  OBVIOUS
<1>1. CASE UNCHANGED remote
  BY <1>1 DEF ListsGrow, Beyond
<1>2. ASSUME NEW k \in EpisodeKeys, Announce(k) PROVE ListsGrow
  <2> DEFINE w == WorkOf[k]
  <2>1. w \in Works /\ remote[w] \in Seq(EpisodeKeys) /\ remote \in [Works -> Seq(EpisodeKeys)]
    BY Constants DEF IInv, RemoteOK
  <2>2. PICK n \in 1 .. Len(remote[w]) + 1 : remote' = [remote EXCEPT ![w] = InsertAt(remote[w], n, k)]
    BY <1>2 DEF Announce
  <2>3. PICK old, new :
           /\ old \in Seq(EpisodeKeys) /\ old = remote[w] /\ new = InsertAt(old, n, k)
           /\ Len(new) = Len(old) + 1
           /\ \A m \in 1 .. Len(old) : new[IF m < n THEN m ELSE m + 1] = old[m]
    BY <2>1, InsertedAt
  <2>4. new \in Seq(EpisodeKeys)
    BY <2>2, <2>3, InsertedIn
  <2>5. DOMAIN new = 1 .. Len(new) /\ DOMAIN old = 1 .. Len(old) /\ Len(old) \in Nat
    BY <2>3, <2>4, LenProperties
  <2>6. \A v \in Works : remote'[v] = IF v = w THEN new ELSE remote[v]
    BY <2>1, <2>2, <2>3
  <2> HIDE DEF w
  <2>7. ASSUME NEW v \in Works, NEW a \in Nat, NEW j, Beyond(v, a, j) PROVE Beyond(v, a, j)'
    <3>1. CASE v = w
      <4>1. PICK m \in 1 .. Len(old) : m > a /\ old[m] = j
        BY <2>3, <2>5, <2>7, <3>1 DEF Beyond
      <4>2. PICK i : i = IF m < n THEN m ELSE m + 1
        OBVIOUS
      <4>3. i \in 1 .. Len(new) /\ i > a /\ new[i] = j
        BY <2>3, <2>5, <4>1, <4>2
      <4> QED BY <2>5, <2>6, <3>1, <4>3 DEF Beyond
    <3>2. CASE v # w
      BY <2>6, <2>7, <3>2 DEF Beyond
    <3> QED BY <3>1, <3>2
  <2> QED BY <2>7 DEF ListsGrow
<1>3. ASSUME NEW r \in Refreshes, EnsureResumes(r) \/ \E w \in Works : FindSubject(r, w)
      PROVE  UNCHANGED remote
  BY <1>3 DEF EnsureResumes, CheckFreshness, SubjectAnswered, PageAnswered, StoreSummary, StoreEpisodes,
     StoreDetails, PageLoads, FindSubject
<1>4. CASE LibraryPage
  BY <1>1, <1>4 DEF LibraryPage, LibraryResumes, AssociationPage, AssociationOptions, CreateEpisode,
     CreateLink, BeginAssociation, ImportFiles, RemoveSubject, RemoveMedia, CreateSubject, LinkMedia, UnlinkMedia
<1> QED BY <1>1, <1>2, <1>3, <1>4 DEF Next, SixHoursPass, Restart, vars

\* As long as a subject is there, so are its episodes.
RowsStay ==
    \A s \in SubjectIds : s <= nextSubject /\ subjects'[s] # NoRow =>
        /\ subjects[s] # NoRow
        /\ \A e \in EpisodesOf(s) : episodes'[e] = episodes[e]

LEMMA EpisodesAdded ==
    ASSUME EpisodesOK, NEW s, NEW keys \in SUBSET (EpisodeKeys \cup {Local}), UpsertEpisodes(s, keys)
    PROVE  RowsStay
<1>1. UNCHANGED subjects
  BY DEF UpsertEpisodes
<1> QED BY <1>1, UpsertEpisodesAdds DEF RowsStay, EpisodesOf, EpisodesOK

LEMMA RowsOnlyStay == IInv /\ [Next]_vars => RowsStay
<1> SUFFICES ASSUME IInv, [Next]_vars PROVE RowsStay
  OBVIOUS
<1>0. Consistent /\ EpisodesOK /\ subjects \in [SubjectIds -> Subject \cup {NoRow}]
  BY DEF IInv, Consistent, TablesOK, SubjectsOK
<1>1. CASE UNCHANGED <<subjects, episodes>>
  BY <1>1 DEF RowsStay
<1>2. ASSUME NEW w \in Works \cup {Local}, NEW level \in {"summary", "details"},
             NEW s \in SubjectIds, UpsertSubject(w, level, s)
      PROVE  RowsStay
  BY <1>0, <1>2, UpsertSubjectKeeps DEF RowsStay, Keeps, AddsOnly, EpisodesOf
<1>3. CASE UNCHANGED tables
  BY <1>1, <1>3 DEF tables
<1>4. ASSUME NEW r \in Refreshes, EnsureResumes(r) \/ \E w \in Works : FindSubject(r, w)
      PROVE  RowsStay
  <2>1. CASE StoreSummary(r) \/ StoreDetails(r)
    <3>1. refresh[r].work \in Works
      BY <2>1, RefreshOf DEF StoreSummary, StoreDetails
    <3> QED BY <1>2, <1>3, <2>1, <3>1 DEF StoreSummary, StoreDetails
  <2>2. CASE StoreEpisodes(r)
    <3>1. ToSet(refresh[r].got) \subseteq EpisodeKeys
      BY RefreshOf, ElementsIn DEF RefreshOK, Coroutine
    <3> QED BY <1>0, <1>3, <2>2, <3>1, EpisodesAdded DEF StoreEpisodes
  <2> QED
    BY <1>3, <1>4, <2>1, <2>2
    DEF EnsureResumes, CheckFreshness, SubjectAnswered, PageAnswered, PageLoads, FindSubject
<1>5. CASE LibraryPage
  <2>1. CASE LibraryResumes
    <3>1. library.got \subseteq EpisodeKeys
      BY DEF IInv, LibraryOK, Operation
    <3>2. CASE AssociationOptions \/ CreateEpisode
      BY <1>0, <1>3, <3>1, <3>2, EpisodesAdded DEF AssociationOptions, CreateEpisode, tables
    <3> QED
      BY <1>1, <1>3, <2>1, <3>2 DEF LibraryResumes, AssociationPage, CreateLink, UpsertLink
  <2>2. CASE \/ \E w \in Works : BeginAssociation(w)
             \/ \E i \in ItemIds : CreateSubject(i)
    BY <1>2, <2>2 DEF BeginAssociation, CreateSubject
  <2>3. ASSUME NEW s \in SubjectIds, RemoveSubject(s) PROVE RowsStay
    <3>1. /\ subjects' = [subjects EXCEPT ![s] = NoRow]
          /\ episodes' = [e \in EpisodeIds |-> IF e \in EpisodesOf(s) THEN NoRow ELSE episodes[e]]
      BY <2>3 DEF RemoveSubject, DeleteSubject
    <3> QED BY <1>0, <3>1 DEF RowsStay, EpisodesOf
  <2>4. CASE \/ \E fs \in SUBSET Files \ {{}} : ImportFiles(fs)
             \/ \E i \in ItemIds : RemoveMedia(i) \/ \E e \in EpisodeIds : LinkMedia(e, i) \/ UnlinkMedia(e, i)
    BY <1>1, <2>4
    DEF ImportFiles, RemoveMedia, LinkMedia, UnlinkMedia, UpsertDiscoveries, DeleteItem, UpsertLink, DeleteLink
  <2> QED BY <1>5, <2>1, <2>2, <2>3, <2>4 DEF LibraryPage
<1>6. ASSUME NEW s \in SubjectIds, SixHoursPass(s) PROVE RowsStay
  BY <1>0, <1>6 DEF SixHoursPass, RowsStay, EpisodesOf
<1> QED BY <1>1, <1>3, <1>4, <1>5, <1>6 DEF Next, Announce, Restart, vars

LEMMA CoversStay ==
    ASSUME IInv, ListsGrow, RowsStay, NEW c, RefreshOK(c), CoversOK(c)
    PROVE  CoversOK(c)'
<1>1. c.pc = "episodes" => c.work \in Works /\ Len(c.got) \in Nat
  BY LenProperties DEF RefreshOK, Coroutine
<1>2. c.pc = "episodes" =>
         \A k \in c.covers : k \in ToSet(c.got) \/ Beyond(c.work, Len(c.got), k)'
  BY <1>1 DEF CoversOK, ListsGrow
<1>3. ASSUME c.pc = "details", subjects'[c.subject] # NoRow PROVE Holds(c.subject, c.covers)'
  <2>1. c.subject \in SubjectIds /\ c.subject <= nextSubject
    BY <1>3 DEF RefreshOK, Coroutine, Sound
  <2>2. subjects[c.subject] # NoRow /\ \A e \in EpisodesOf(c.subject) : episodes'[e] = episodes[e]
    BY <1>3, <2>1 DEF RowsStay
  <2> QED BY <1>3, <2>2 DEF CoversOK, Holds, EpisodesOf
<1> QED BY <1>2, <1>3 DEF CoversOK

\* What is got, and what is left of the list, after a page of it.
LEMMA PageCovers ==
    ASSUME IInv, NEW r \in Refreshes, refresh[r].pc = "episodes", CoversOK(refresh[r]),
           NEW got, got = refresh[r].got \o Listed(r), NEW k \in refresh[r].covers
    PROVE  /\ k \in ToSet(got) \/ Beyond(refresh[r].work, Len(got), k)
           /\ Complete(r, got) => k \in ToSet(got)
<1> DEFINE w == refresh[r].work
<1>0. PICK all \in Seq(EpisodeKeys), old \in Seq(EpisodeKeys), offset \in Nat :
         all = remote[w] /\ old = refresh[r].got /\ offset = Len(old)
  BY RefreshOf, LenProperties DEF RefreshOK, Coroutine, IInv, RemoteOK
<1>1. PICK last, part :
         /\ all = remote[w] /\ old = refresh[r].got /\ offset = Len(old)
         /\ last = (IF offset + PageSize < Len(all) THEN offset + PageSize ELSE Len(all))
         /\ part = SubSeq(all, offset + 1, last)
  BY <1>0
<1>2. Listed(r) = part /\ got = old \o part
  BY <1>1 DEF Listed
<1>3. DOMAIN all = 1 .. Len(all) /\ Len(all) \in Nat /\ PageSize \in Nat \ {0}
  BY LenProperties, ConstantsAssumption
<1>4. last \in Nat /\ last <= Len(all) /\ \A i \in offset + 1 .. last : all[i] \in EpisodeKeys
  BY <1>1, <1>3, ElementOfSeq
<1>5. /\ part \in Seq(EpisodeKeys) /\ Len(part) = IF offset + 1 <= last THEN last - offset ELSE 0
      /\ \A i \in 1 .. last - offset : part[i] = all[offset + i]
  <2>1. /\ SubSeq(all, offset + 1, last) \in Seq(EpisodeKeys)
        /\ Len(SubSeq(all, offset + 1, last)) =
              IF offset + 1 <= last THEN last - (offset + 1) + 1 ELSE 0
        /\ \A i \in 1 .. last - (offset + 1) + 1 :
              SubSeq(all, offset + 1, last)[i] = all[offset + 1 + i - 1]
    <3>1. offset + 1 \in Int /\ last \in Int
      BY <1>4
    <3> QED BY <1>4, <3>1, SubSeqProperties
  <2>2. last - (offset + 1) + 1 = last - offset
    BY <1>4
  <2>3. PICK seq : seq = SubSeq(all, offset + 1, last)
    OBVIOUS
  <2>4. /\ seq \in Seq(EpisodeKeys) /\ Len(seq) = IF offset + 1 <= last THEN last - offset ELSE 0
        /\ \A i \in 1 .. last - offset : seq[i] = all[offset + 1 + i - 1]
    BY <2>1, <2>2, <2>3
  <2>5. \A i \in 1 .. last - offset : offset + 1 + i - 1 = offset + i
    BY <1>4
  <2>6. part = seq
    BY <1>1, <2>3
  <2> QED BY <2>4, <2>5, <2>6
<1>6. /\ got \in Seq(EpisodeKeys) /\ Len(got) = offset + Len(part)
      /\ \A i \in 1 .. offset + Len(part) :
            got[i] = IF i <= offset THEN old[i] ELSE part[i - offset]
  <2>1. PICK both : both = old \o part
    OBVIOUS
  <2>2. /\ both \in Seq(EpisodeKeys) /\ Len(both) = Len(old) + Len(part)
        /\ \A i \in 1 .. Len(old) + Len(part) :
              both[i] = IF i <= Len(old) THEN old[i] ELSE part[i - Len(old)]
    BY <1>5, <2>1, ConcatProperties
  <2>3. got = both /\ Len(old) = offset
    BY <1>1, <1>2, <2>1
  <2> QED BY <2>2, <2>3
<1>7. DOMAIN got = 1 .. Len(got) /\ DOMAIN old = 1 .. offset
  BY <1>1, <1>6, LenProperties
<1>8. k \in ToSet(got) \/ Beyond(w, Len(got), k)
  <2>1. CASE k \in ToSet(old)
    <3>1. PICK i \in 1 .. offset : old[i] = k
      BY <1>7, <2>1 DEF ToSet
    <3>2. Len(part) \in Nat
      BY <1>5, LenProperties
    <3>3. i \in 1 .. offset + Len(part) /\ i <= offset
      BY <3>1, <3>2
    <3>4. i \in 1 .. Len(got) /\ got[i] = k
      BY <1>6, <3>1, <3>3
    <3> QED BY <1>7, <3>4 DEF ToSet
  <2>2. CASE Beyond(w, offset, k)
    <3>1. PICK m \in 1 .. Len(all) : m > offset /\ all[m] = k
      BY <1>1, <1>3, <2>2 DEF Beyond
    <3>2. CASE m <= last
      <4>1. m - offset \in 1 .. last - offset /\ offset + (m - offset) = m /\ offset + 1 <= last
        BY <1>4, <3>1, <3>2
      <4>2. part[m - offset] = k
        BY <1>5, <3>1, <4>1
      <4>3. Len(part) = last - offset
        BY <1>5, <4>1
      <4>4. offset + Len(part) = last
        BY <1>4, <4>3
      <4>5. m \in 1 .. offset + Len(part) /\ ~(m <= offset)
        BY <3>1, <3>2, <4>4
      <4>6. m \in 1 .. Len(got) /\ got[m] = k
        BY <1>6, <4>2, <4>5
      <4> QED BY <1>7, <4>6 DEF ToSet
    <3>3. CASE m > last
      <4>1. m > Len(got)
        BY <1>4, <1>5, <1>6, <3>1, <3>3
      <4> QED BY <1>1, <1>3, <3>1, <4>1 DEF Beyond
    <3> QED BY <1>4, <3>2, <3>3
  <2> QED BY <1>1, <2>1, <2>2 DEF CoversOK
<1>9. ASSUME Complete(r, got) PROVE ~Beyond(w, Len(got), k)
  <2>1. CASE Len(got) >= Len(all)
    <3>1. Len(got) \in Nat
      BY <1>6, LenProperties
    <3>2. \A m \in 1 .. Len(all) : ~(m > Len(got))
      BY <1>3, <2>1, <3>1
    <3>3. DOMAIN remote[w] = 1 .. Len(all)
      BY <1>1, <1>3
    <3> QED BY <3>2, <3>3 DEF Beyond
  <2>2. CASE part = <<>>
    <3>1. Len(part) = 0
      BY <2>2
    <3>2. ~(offset + 1 <= last)
      BY <1>4, <1>5, <3>1
    <3>3. Len(got) >= Len(all)
      BY <1>1, <1>3, <1>5, <1>6, <3>2
    <3> QED BY <2>1, <3>3
  <2>3. part = <<>> \/ Len(got) >= Len(all)
    BY <1>1, <1>2, <1>9 DEF Complete
  <2> QED BY <2>1, <2>2, <2>3
<1> QED BY <1>8, <1>9

\* What is got is stored, under the subject.
LEMMA StoredCovers ==
    ASSUME IInv, NEW s, NEW keys \in SUBSET EpisodeKeys, UpsertEpisodes(s, keys)
    PROVE  Holds(s, keys)'
<1>0. EpisodesOK
  BY DEF IInv, Consistent, TablesOK
<1> DEFINE new == keys \ KeysStored
<1>1. PICK given \in Bijection(nextEpisode + 1 .. nextEpisode', new) :
         episodes' = [e \in EpisodeIds |->
              IF e \in DOMAIN given THEN [key |-> given[e], subject |-> s] ELSE episodes[e]]
  BY DEF UpsertEpisodes
<1>2. /\ DOMAIN given = nextEpisode + 1 .. nextEpisode'
      /\ \A k \in new : \E e \in nextEpisode + 1 .. nextEpisode' : given[e] = k
  BY DEF Bijection, Injection, Surjection
<1>3. EpisodesOK' /\ Accepts(s, keys)
  BY <1>0, UpsertEpisodesAdds DEF UpsertEpisodes
<1>4. nextEpisode + 1 .. nextEpisode' \subseteq EpisodeIds
  BY <1>0, <1>3, Ids DEF EpisodesOK, EpisodeIds
<1>5. ASSUME NEW k \in keys
      PROVE  \E e \in EpisodeIds : episodes'[e] # NoRow /\ episodes'[e].subject = s /\ episodes'[e].key = k
  <2>1. CASE k \in KeysStored
    <3>1. PICK e \in EpisodeIds : episodes[e] # NoRow /\ episodes[e].key = k
      BY <2>1 DEF KeysStored
    <3>2. episodes[e].subject = s
      BY <1>3, <1>5, <3>1, Constants DEF Accepts
    <3>3. e <= nextEpisode
      BY <1>0, <3>1, Ids DEF EpisodesOK
    <3>4. episodes'[e] = episodes[e]
      BY <1>1, <1>2, <3>3, Ids, <1>0 DEF EpisodesOK
    <3> QED BY <3>1, <3>2, <3>4
  <2>2. CASE k \notin KeysStored
    <3>1. PICK e \in nextEpisode + 1 .. nextEpisode' : given[e] = k
      BY <1>2, <2>2
    <3>2. e \in EpisodeIds
      BY <1>4
    <3>3. PICK row : row = [key |-> k, subject |-> s]
      OBVIOUS
    <3>4. episodes'[e] = row
      BY <1>1, <1>2, <3>1, <3>2, <3>3
    <3>5. row \in Episode /\ row.key = k /\ row.subject = s
      BY <1>3, <3>3 DEF Episode, Accepts
    <3> QED BY <3>2, <3>4, <3>5, Constants
  <2> QED BY <2>1, <2>2
<1> QED BY <1>5 DEF Holds

LEMMA CoversStep == IInv /\ CoversInv /\ [Next]_vars => CoversInv'
<1> SUFFICES ASSUME IInv, CoversInv, [Next]_vars PROVE CoversInv'
  OBVIOUS
<1>0. ListsGrow /\ RowsStay /\ RefreshesOK /\ RefreshesOK'
  BY ListsOnlyGrow, RowsOnlyStay, EveryStep DEF StepOK, IInv
<1>1. ASSUME NEW q \in Refreshes, refresh'[q] = refresh[q] PROVE CoversOK(refresh[q])'
  <2>1. PICK c : c = refresh[q]
    OBVIOUS
  <2>2. CoversOK(c)'
    BY <1>0, <2>1, RefreshOf, CoversStay DEF CoversInv
  <2> QED BY <1>1, <2>1, <2>2 DEF CoversOK, Beyond, Holds
<1>2. CASE UNCHANGED refresh
  BY <1>1, <1>2 DEF CoversInv
<1>3. ASSUME NEW r \in Refreshes, NEW c, Continue(r, c), CoversOK(c)' PROVE CoversInv'
  <2>1. \A q \in Refreshes : refresh'[q] = IF q = r THEN c ELSE refresh[q]
    BY <1>0, <1>3 DEF Continue, RefreshesOK
  <2>2. CoversOK(refresh[r])'
    BY <1>3, <2>1 DEF CoversOK, Beyond, Holds
  <2> QED BY <1>1, <2>1, <2>2 DEF CoversInv
<1>4. ASSUME NEW r \in Refreshes, NEW c, Continue(r, c),
             c.pc \in {"check", "subject"} => c.got = <<>>,
             c.pc \notin {"episodes", "summary", "store", "details"}
      PROVE  CoversInv'
  BY <1>3, <1>4 DEF CoversOK
<1>5. ASSUME NEW r \in Refreshes, EnsureResumes(r) \/ \E w \in Works : FindSubject(r, w)
      PROVE  CoversInv'
  <2>0. refresh[r] \in Coroutine /\ CoversOK(refresh[r]) /\ RefreshOK(refresh[r])
    BY RefreshOf DEF CoversInv
  <2>1. ASSUME GiveUp(r) PROVE CoversInv'
    BY <1>4, <2>1 DEF GiveUp, Resting
  <2>2. ASSUME NEW s, Answer(r, s) PROVE CoversInv'
    <3>1. PICK c : c = [refresh[r] EXCEPT !.pc = "load", !.subject = s, !.got = <<>>, !.covers = {}]
      OBVIOUS
    <3>2. c.pc = "load"
      BY <2>0, <3>1 DEF Coroutine
    <3> QED BY <1>4, <2>2, <3>1, <3>2 DEF Answer
  <2>3. ASSUME FallBack(r) PROVE CoversInv'
    BY <2>1, <2>2, <2>3 DEF FallBack
  <2>4. CASE \E w \in Works : FindSubject(r, w)
    <3>1. PICK w \in Works :
             \/ Continue(r, [Resting EXCEPT !.pc = "subject", !.work = w])
             \/ \E s \in SubjectOf(w) :
                   Continue(r, [Resting EXCEPT !.pc = "check", !.work = w, !.subject = s])
      BY <2>4 DEF FindSubject
    <3>2. CASE Continue(r, [Resting EXCEPT !.pc = "subject", !.work = w])
      <4>1. PICK c : c = [Resting EXCEPT !.pc = "subject", !.work = w]
        OBVIOUS
      <4>2. c.pc = "subject" /\ c.got = <<>>
        BY <4>1 DEF Resting
      <4> QED BY <1>4, <3>2, <4>1, <4>2
    <3>3. ASSUME NEW s, Continue(r, [Resting EXCEPT !.pc = "check", !.work = w, !.subject = s])
          PROVE  CoversInv'
      <4>1. PICK c : c = [Resting EXCEPT !.pc = "check", !.work = w, !.subject = s]
        OBVIOUS
      <4>2. c.pc = "check" /\ c.got = <<>>
        BY <4>1 DEF Resting
      <4> QED BY <1>4, <3>3, <4>1, <4>2
    <3> QED BY <3>1, <3>2, <3>3
  <2>5. CASE CheckFreshness(r)
    <3>1. PICK c : c = [refresh[r] EXCEPT !.pc = "subject"]
      OBVIOUS
    <3>2. c.pc = "subject" /\ c.got = refresh[r].got
      BY <2>0, <3>1 DEF Coroutine
    <3>3. CheckFreshness(r) => c.got = <<>>
      BY <2>0, <3>2 DEF CheckFreshness, CoversOK
    <3> QED BY <1>4, <2>1, <2>2, <2>5, <3>1, <3>2, <3>3 DEF CheckFreshness
  <2>6. CASE SubjectAnswered(r)
    <3>1. PICK c : c = [refresh[r] EXCEPT !.pc = "episodes", !.covers = ToSet(remote[refresh[r].work])]
      OBVIOUS
    <3>2. CASE Continue(r, c)
      <4>1. refresh[r].work \in Works /\ UNCHANGED remote
        BY <2>6, RefreshOf DEF SubjectAnswered
      <4>2. c.pc = "episodes" /\ c.work = refresh[r].work /\ c.got = refresh[r].got
            /\ c.covers = ToSet(remote[refresh[r].work])
        BY <2>0, <3>1 DEF Coroutine
      <4>3. Len(c.got) = 0
        BY <2>0, <2>6, <4>2 DEF SubjectAnswered, CoversOK
      <4>4. CoversOK(c)'
        <5>1. PICK list \in Seq(EpisodeKeys) : list = remote[refresh[r].work]
          BY <4>1 DEF IInv, RemoteOK
        <5>2. \A m \in DOMAIN list : m > 0
          BY LenProperties
        <5>3. remote'[c.work] = list
          BY <4>1, <4>2, <5>1
        <5>4. \A k \in c.covers : Beyond(c.work, Len(c.got), k)'
          BY <4>2, <4>3, <5>1, <5>2, <5>3 DEF Beyond, ToSet
        <5> QED BY <4>2, <5>4 DEF CoversOK
      <4> QED BY <1>3, <3>2, <4>4
    <3> QED BY <2>1, <2>3, <2>6, <3>1, <3>2 DEF SubjectAnswered
  <2>7. CASE PageAnswered(r)
    <3>1. PICK got : got = refresh[r].got \o Listed(r)
      OBVIOUS
    <3>2. PICK c : c = [refresh[r] EXCEPT !.got = got,
                            !.pc = IF Complete(r, got) THEN "summary" ELSE "episodes"]
      OBVIOUS
    <3>3. CASE Continue(r, c)
      <4>1. refresh[r].pc = "episodes" /\ UNCHANGED remote
        BY <2>7 DEF PageAnswered
      <4>2. /\ c.pc = (IF Complete(r, got) THEN "summary" ELSE "episodes")
            /\ c.got = got /\ c.covers = refresh[r].covers /\ c.work = refresh[r].work
        BY <2>0, <3>2 DEF Coroutine
      <4>3. \A k \in c.covers : /\ k \in ToSet(got) \/ Beyond(c.work, Len(got), k)
                                /\ Complete(r, got) => k \in ToSet(got)
        BY <2>0, <3>1, <4>1, <4>2, PageCovers
      <4>4. CoversOK(c)'
        <5>1. CASE c.pc = "episodes"
          BY <4>1, <4>2, <4>3, <5>1 DEF CoversOK, Beyond
        <5>2. CASE c.pc = "summary" /\ Complete(r, got)
          BY <4>2, <4>3, <5>2 DEF CoversOK
        <5> QED BY <4>2, <5>1, <5>2
      <4> QED BY <1>3, <3>3, <4>4
    <3> QED BY <2>3, <2>7, <3>1, <3>2, <3>3 DEF PageAnswered
  <2>8. CASE StoreSummary(r)
    <3>1. ASSUME NEW s, Continue(r, [refresh[r] EXCEPT !.pc = "store", !.subject = s]) PROVE CoversInv'
      <4>1. PICK c : c = [refresh[r] EXCEPT !.pc = "store", !.subject = s]
        OBVIOUS
      <4>2. c.pc = "store" /\ c.got = refresh[r].got /\ c.covers = refresh[r].covers
        BY <2>0, <4>1 DEF Coroutine
      <4>3. CoversOK(c)'
        BY <2>0, <2>8, <4>2 DEF StoreSummary, CoversOK
      <4> QED BY <1>3, <3>1, <4>1, <4>3
    <3> QED BY <2>1, <2>8, <3>1 DEF StoreSummary
  <2>9. CASE StoreEpisodes(r)
    <3>1. CASE /\ UpsertEpisodes(refresh[r].subject, ToSet(refresh[r].got))
               /\ Continue(r, [refresh[r] EXCEPT !.pc = "details", !.got = <<>>])
      <4>1. PICK c : c = [refresh[r] EXCEPT !.pc = "details", !.got = <<>>]
        OBVIOUS
      <4>2. c.pc = "details" /\ c.subject = refresh[r].subject /\ c.covers = refresh[r].covers
        BY <2>0, <4>1 DEF Coroutine
      <4>3. refresh[r].covers \subseteq ToSet(refresh[r].got) /\ ToSet(refresh[r].got) \subseteq EpisodeKeys
        BY <2>0, <2>9, ElementsIn DEF StoreEpisodes, CoversOK, Coroutine
      <4>4. PICK s, keys : s = refresh[r].subject /\ keys = ToSet(refresh[r].got)
        OBVIOUS
      <4>5. Holds(s, keys)'
        BY <3>1, <4>3, <4>4, StoredCovers
      <4>6. c.covers \subseteq keys /\ c.subject = s /\ c.pc = "details"
        BY <4>2, <4>3, <4>4
      <4>7. CoversOK(c)'
        BY <4>5, <4>6 DEF CoversOK, Holds
      <4> QED BY <1>3, <3>1, <4>1, <4>7
    <3> QED BY <2>1, <2>9, <3>1 DEF StoreEpisodes
  <2>10. CASE StoreDetails(r) \/ PageLoads(r)
    BY <2>1, <2>2, <2>10 DEF StoreDetails, PageLoads
  <2> QED BY <1>5, <2>4, <2>5, <2>6, <2>7, <2>8, <2>9, <2>10 DEF EnsureResumes
<1>6. CASE Restart
  BY <1>6 DEF Restart, CoversInv, CoversOK, Resting
<1>7. CASE LibraryPage
  BY <1>2, <1>7
  DEF LibraryPage, LibraryResumes, AssociationPage, AssociationOptions, CreateEpisode, CreateLink,
     BeginAssociation, ImportFiles, RemoveSubject, RemoveMedia, CreateSubject, LinkMedia, UnlinkMedia
<1> QED BY <1>2, <1>5, <1>6, <1>7 DEF Next, Announce, SixHoursPass, vars

\* A refresh claims details for its subject only when every episode that
\* Bangumi listed as it began to ask is stored, although the list grows
\* between the pages and subjects are removed meanwhile.
THEOREM DetailsClaimAll == Spec => DetailsAreComplete
<1>1. Init => CoversInv
  BY DEF Init, CoversInv, CoversOK, Resting
<1>2. Spec => []CoversInv
  BY <1>1, CoversStep, Invariant, PTL DEF Spec
<1>3. CoversInv =>
        [\A r \in Refreshes :
          (refresh[r].pc = "details" /\ refresh'[r].pc = "load" /\ subjects[refresh[r].subject] # NoRow)
          => Holds(refresh[r].subject, refresh[r].covers)]_vars
  BY DEF CoversInv, CoversOK
<1> QED BY <1>2, <1>3, PTL DEF DetailsAreComplete

=============================================================================
