------------------------ MODULE SubjectDetailsProofs ------------------------
(***************************************************************************)
(* Theorems about the library page and the page of a subject, for every    *)
(* set of files and subjects, every size of a page and every bound.        *)
(***************************************************************************)
EXTENDS SubjectDetails, FiniteSetTheorems, SequenceTheorems, WellFoundedInduction, TLAPS

Optional == Subjects \cup {NoSubject}
Kinds == Changes \cup {"none", "list", "play", "edit", "search", "episodes"}
Offers == [total : 0..MaxNumber, page : Nat, descending : BOOLEAN, episodes : Seq(Numbers),
           focus : Nat, selected : Optional]
Picker == [found : SUBSET Works, offers : Offers]
Op == [kind : Kinds, pc : {"idle", "do", "read"}, file : Files \cup {NoFile},
       subject : Optional, number : 0..MaxNumber, sought : Halves \cup {0}, page : Nat,
       descending : BOOLEAN, limit : Nat, offset : Nat]

StoredTypes ==
    /\ announced \in [Works -> Numbers] /\ numbered \in [Works -> Numberings]
    /\ files \subseteq Files /\ known \subseteq Subjects /\ gone \subseteq Subjects
    /\ catalog \in [Subjects -> SUBSET Numbers]
    /\ links \subseteq Files \X Episodes

LibraryTypes ==
    /\ op \in Op
    /\ media \in [files : SUBSET Files, links : SUBSET (Files \X Episodes)]
    /\ picker \in Picker
    /\ editor \in Optional
    /\ error \in BOOLEAN /\ asked \in Nat /\ unread \in BOOLEAN

\* What loadEpisodes() has asked for is the page that it was told to show.
Requested(o, offers) ==
    /\ o.subject = offers.selected /\ o.subject \in Works
    /\ o.limit = Limit(o.page, o.descending, offers.total) /\ o.limit >= 1
    /\ o.offset = Offset(o.page, o.descending, offers.total)
    /\ \/ offers.total = 0 /\ o.page = 1 /\ o.sought = 0 /\ o.descending = FALSE
       \/ /\ o.page \in 1..PagesOf(offers.total)
          /\ o.sought # 0 =>
                /\ Expected(o.sought) \in 1..offers.total
                /\ o.page = PageWith(Expected(o.sought), o.descending, offers.total)

\* Which await an operation is at, and what it was begun with.
OpOK(o, offers) ==
    /\ o.pc = "idle" <=> o.kind = "none"
    /\ o.pc = "read" => o.kind \in Changes \cup {"list"}
    /\ o.kind = "list" => o.pc = "read"
    /\ o.kind = "import" => o.file \in Files
    /\ o.kind = "describe" => o.subject \in Customs /\ o.number = 1
    /\ o.kind = "episodes" => Requested(o, offers)

OpInv == OpOK(op, picker.offers)

\* The list is read again after everything that may have changed it.
ListInv == op.pc # "read" /\ ~unread => media = LibraryMedia

LibraryInv == StoredTypes /\ LibraryTypes /\ OpInv /\ ListInv

------------------------------------------------------------------------------
(* Operations and offers.                                                  *)

LEMMA IdleIsOp == Idle \in Op /\ \A offers : OpOK(Idle, offers)
BY PageAssumption DEF Idle, Op, OpOK, Kinds, Optional, Changes

LEMMA OperationIs ==
    ASSUME NEW kind \in Kinds, NEW pc \in {"idle", "do", "read"}
    PROVE  /\ Operation(kind, pc) \in Op
           /\ Operation(kind, pc).kind = kind /\ Operation(kind, pc).pc = pc
           /\ Operation(kind, pc).sought = 0
<1>1. Idle \in Op
    BY IdleIsOp
<1>2. Operation(kind, pc) = [Idle EXCEPT !.kind = kind, !.pc = pc]
    BY DEF Operation
<1>3. Idle.sought = 0
    BY DEF Idle
<1> QED BY <1>1, <1>2, <1>3 DEF Op

LEMMA NoOffersIsOffers == NoOffers \in Offers
BY PageAssumption DEF NoOffers, Offers, Optional

LEMMA QuotientIsNatural ==
    ASSUME NEW a \in Nat, NEW b \in Nat \ {0}
    PROVE  a \div b \in Nat
OBVIOUS

LEMMA PagesIsNatural ==
    ASSUME NEW total \in Nat
    PROVE  PagesOf(total) \in Nat /\ (total > 0 => PagesOf(total) >= 1)
<1> DEFINE a == total + PageSize - 1
<1>1. PageSize \in Nat \ {0} /\ a \in Nat
    BY PageAssumption
<1>2. a \div PageSize \in Nat
    BY <1>1, QuotientIsNatural
<1>3. ASSUME total > 0 PROVE a \div PageSize >= 1
    <2>1. a >= PageSize
        BY <1>1, <1>3
    <2> QED BY <2>1, <1>1
<1> QED BY <1>2, <1>3 DEF PagesOf

LEMMA PageWithIsNatural ==
    ASSUME NEW total \in Nat, NEW number \in 1..total, NEW descending \in BOOLEAN
    PROVE  PageWith(number, descending, total) \in 1..PagesOf(total)
<1>1. PageSize \in Nat \ {0}
    BY PageAssumption
<1> DEFINE a == total - number
           b == number - 1
           c == total + PageSize - 1
<1>2. a \in Nat /\ b \in Nat /\ c \in Nat /\ a + PageSize <= c /\ b + PageSize <= c
    BY <1>1
<1>3. \A x \in Nat : x + PageSize <= c =>
          x \div PageSize \in Nat /\ x \div PageSize + 1 <= c \div PageSize
    <2> TAKE x \in Nat
    <2> HAVE x + PageSize <= c
    <2>1. (x + PageSize) \div PageSize = x \div PageSize + 1
        BY <1>1
    <2>2. (x + PageSize) \div PageSize <= c \div PageSize
        BY <1>1, <1>2
    <2> QED BY <2>1, <2>2, <1>1, QuotientIsNatural
<1>4. c \div PageSize \in Nat
    BY <1>1, <1>2, QuotientIsNatural
<1> QED BY <1>2, <1>3, <1>4 DEF PageWith, PagesOf

LEMMA ProductIsNatural ==
    ASSUME NEW a \in Nat, NEW b \in Nat
    PROVE  a * b \in Nat
OBVIOUS

LEMMA LimitAndOffset ==
    ASSUME NEW page \in Nat \ {0}, NEW descending \in BOOLEAN, NEW total \in Nat
    PROVE  Limit(page, descending, total) \in Nat /\ Offset(page, descending, total) \in Nat
<1>1. PageSize \in Nat \ {0} /\ page - 1 \in Nat
    BY PageAssumption
<1> PICK k \in Nat : k = (page - 1) * PageSize
    BY <1>1, ProductIsNatural
<1> QED BY <1>1 DEF Limit, Offset, Least, AtLeast

------------------------------------------------------------------------------
(* Lists in order.                                                         *)

LEMMA FunctionIsList ==
    ASSUME NEW k \in Nat, NEW S, NEW f \in [1..k -> S]
    PROVE  f \in Seq(S) /\ Len(f) = k
OBVIOUS

\* SortedBy() is a list of the numbers, each once, in the order asked for.
LEMMA SortedIs ==
    ASSUME NEW numbers \in SUBSET Numbers, NEW descending \in BOOLEAN
    PROVE  LET list == SortedBy(numbers, descending) IN
           /\ list \in Seq(numbers) /\ Len(list) = Cardinality(numbers)
           /\ Cardinality(numbers) \in Nat
           /\ \A i, j \in 1..Cardinality(numbers) :
                 i < j => IF descending THEN list[i] > list[j] ELSE list[i] < list[j]
<1> DEFINE Before(m, n) == IF descending THEN m >= n ELSE m <= n
           UpTo(n) == {m \in numbers : Before(m, n)}
<1>1. numbers \subseteq Nat /\ IsFiniteSet(numbers)
    <2>1. MaxNumber \in Nat /\ Numbers \subseteq Nat /\ IsFiniteSet(Numbers)
        BY PageAssumption, FS_Interval DEF Numbers
    <2> QED BY <2>1, FS_Subset
<1> PICK k \in Nat : k = Cardinality(numbers)
    BY <1>1, FS_CardinalityType
<1>2. ASSUME NEW n \in numbers
      PROVE  /\ IsFiniteSet(UpTo(n)) /\ n \in UpTo(n)
             /\ Cardinality(UpTo(n)) \in 1..k
    <2>1. UpTo(n) \in SUBSET numbers /\ n \in UpTo(n)
        BY <1>1
    <2>2. /\ IsFiniteSet(UpTo(n)) /\ Cardinality(UpTo(n)) \in Nat
          /\ Cardinality(UpTo(n)) <= k
        BY <1>1, <2>1, FS_Subset, FS_CardinalityType
    <2>3. Cardinality(UpTo(n)) # 0
        BY <2>1, <2>2, FS_EmptySet
    <2> QED BY <2>1, <2>2, <2>3
<1>3. ASSUME NEW m \in numbers, NEW n \in numbers, Before(m, n), m # n
      PROVE  Cardinality(UpTo(m)) < Cardinality(UpTo(n))
    <2>1. UpTo(m) \in SUBSET UpTo(n) /\ n \notin UpTo(m)
        <3>1. \A x \in numbers : Before(x, m) => Before(x, n)
            <4>1. CASE descending
                BY <4>1, <1>1, <1>3
            <4>2. CASE ~descending
                BY <4>2, <1>1, <1>3
            <4> QED BY <4>1, <4>2
        <3>2. ~Before(n, m)
            BY <1>1, <1>3
        <3> HIDE DEF Before
        <3> QED BY <3>1, <3>2
    <2>2. UpTo(m) # UpTo(n)
        BY <2>1, <1>2
    <2>3. Cardinality(UpTo(m)) <= Cardinality(UpTo(n)) /\ Cardinality(UpTo(m)) # Cardinality(UpTo(n))
        BY <2>1, <2>2, <1>2, FS_Subset
    <2> QED BY <2>3, <1>2
<1>4. \A m, n \in numbers : Before(m, n) \/ Before(n, m)
    BY <1>1
<1> PICK rank : rank = [n \in numbers |-> Cardinality(UpTo(n))]
    OBVIOUS
<1>5. /\ rank \in [numbers -> 1..k] /\ \A n \in numbers : rank[n] = Cardinality(UpTo(n))
      /\ \A m, n \in numbers : rank[m] \in Nat /\ (Before(m, n) /\ m # n => rank[m] < rank[n])
    BY <1>2, <1>3
<1> PICK list : list = [i \in 1..k |-> CHOOSE n \in numbers : Cardinality(UpTo(n)) = i]
    OBVIOUS
<1>8. list = SortedBy(numbers, descending)
    BY DEF SortedBy
<1> HIDE DEF UpTo, Before
<1>6. rank \in Surjection(numbers, 1..k)
    <2>1. IsFiniteSet(1..k) /\ Cardinality(1..k) = k
        BY FS_Interval
    <2>2. \A m, n \in numbers : rank[m] = rank[n] => m = n
        BY <1>4, <1>5
    <2>3. rank \in Injection(numbers, 1..k)
        BY <1>5, <2>2 DEF Injection, IsInjective
    <2> QED BY <2>1, <2>3, FS_Injection
<1>7. ASSUME NEW i \in 1..k PROVE list[i] \in numbers /\ rank[list[i]] = i
    <2>1. \E n \in numbers : Cardinality(UpTo(n)) = i
        BY <1>5, <1>6 DEF Surjection
    <2>2. list[i] \in numbers /\ Cardinality(UpTo(list[i])) = i
        BY <2>1
    <2> QED BY <2>2, <1>5
<1>9. ASSUME NEW i \in 1..k, NEW j \in 1..k, i < j
      PROVE  IF descending THEN list[i] > list[j] ELSE list[i] < list[j]
    <2> PICK a \in numbers, b \in numbers : a = list[i] /\ b = list[j] /\ rank[a] = i /\ rank[b] = j
        BY <1>7
    <2>1. a # b /\ ~Before(b, a)
        BY <1>5, <1>9
    <2>2. a \in Nat /\ b \in Nat
        BY <1>1
    <2> QED BY <2>1, <2>2 DEF Before
<1>10. list \in Seq(numbers) /\ Len(list) = k
    <2>1. \A i \in 1..k : list[i] \in numbers
        BY <1>7
    <2>2. list \in [1..k -> numbers]
        BY <2>1
    <2> QED BY <2>2, FunctionIsList
<1> QED BY <1>8, <1>9, <1>10

------------------------------------------------------------------------------
(* The library page.                                                       *)

LEMMA BeginKeeps ==
    ASSUME LibraryInv, NEW operation \in Op, operation.kind # "episodes",
           OpOK(operation, NoOffers), operation.pc # "idle",
           Begin(operation), picker' \in Picker, editor' \in Optional
    PROVE  LibraryInv'
<1>1. op' = operation /\ asked' \in Nat /\ error' = FALSE
    BY PageAssumption DEF Begin, Ask, LibraryInv, LibraryTypes
<1>2. UNCHANGED <<announced, numbered, files, known, gone, catalog, links, media, unread>>
    BY DEF Begin, database, stored
<1>3. op.pc = "idle"
    BY DEF Begin, Busy
<1>4. StoredTypes' /\ LibraryTypes'
    BY <1>1, <1>2 DEF LibraryInv, StoredTypes, LibraryTypes
<1>5. OpInv'
    BY <1>1 DEF OpInv, OpOK
<1>6. ListInv'
    BY <1>1, <1>2, <1>3 DEF LibraryInv, ListInv, LibraryMedia
<1> QED BY <1>4, <1>5, <1>6 DEF LibraryInv

LEMMA ReadListKeeps == LibraryInv /\ ReadList => LibraryInv'
<1> SUFFICES ASSUME LibraryInv, ReadList PROVE LibraryInv'
    OBVIOUS
<1> PICK o : o = Operation("list", "read")
    OBVIOUS
<1>1. o \in Op /\ o.kind = "list" /\ o.pc = "read"
    BY OperationIs DEF Kinds
<1>2. OpOK(o, NoOffers)
    BY <1>1 DEF OpOK
<1>3. Begin(o) /\ picker' \in Picker /\ editor' \in Optional
    BY DEF ReadList, LibraryInv, LibraryTypes
<1> QED BY <1>1, <1>2, <1>3, BeginKeeps

\* Everything else that is begun and is not a page of the dialog.
LEMMA DoKeeps ==
    ASSUME LibraryInv, NEW o \in Op, o.kind \notin {"none", "list", "episodes"}, o.pc = "do",
           o.kind = "import" => o.file \in Files,
           o.kind = "describe" => o.subject \in Customs /\ o.number = 1,
           Begin(o), picker' \in Picker, editor' \in Optional
    PROVE  LibraryInv'
<1>1. OpOK(o, NoOffers)
    BY DEF OpOK
<1> QED BY <1>1, BeginKeeps

LEMMA FilesKeep ==
    ASSUME LibraryInv, NEW f \in Files, ImportFile(f) \/ RemoveFile(f) \/ PlayFile(f)
    PROVE  LibraryInv'
<1>1. PICK kind \in {"import", "remove", "play"} :
          /\ Begin([Operation(kind, "do") EXCEPT !.file = f])
          /\ UNCHANGED <<picker, editor>>
    BY DEF ImportFile, RemoveFile, PlayFile
<1> PICK o : o = [Operation(kind, "do") EXCEPT !.file = f]
    OBVIOUS
<1>2. Operation(kind, "do") \in Op /\ Operation(kind, "do").kind = kind
      /\ Operation(kind, "do").pc = "do"
    BY OperationIs DEF Kinds, Changes
<1>3. o \in Op /\ o.kind = kind /\ o.pc = "do" /\ o.file = f
    BY <1>2 DEF Op
<1> QED BY <1>1, <1>3, DoKeeps DEF LibraryInv, LibraryTypes

LEMMA LinkKeeps ==
    ASSUME LibraryInv, NEW f \in Files, NEW n \in Numbers, Link(f, n)
    PROVE  LibraryInv'
<1> PICK o : o = [Operation("link", "do") EXCEPT !.file = f, !.number = n,
                                                 !.subject = picker.offers.selected]
    OBVIOUS
<1>1. Begin(o) /\ UNCHANGED <<picker, editor>>
    BY DEF Link
<1>2. Operation("link", "do") \in Op /\ Operation("link", "do").kind = "link"
      /\ Operation("link", "do").pc = "do"
    BY OperationIs DEF Kinds, Changes
<1>3. picker.offers.selected \in Optional /\ n \in 0..MaxNumber
    BY DEF LibraryInv, LibraryTypes, Picker, Offers, Numbers
<1>4. o \in Op /\ o.kind = "link" /\ o.pc = "do"
    BY <1>2, <1>3 DEF Op
<1> QED BY <1>1, <1>4, DoKeeps DEF LibraryInv, LibraryTypes

LEMMA UnlinkKeeps ==
    ASSUME LibraryInv, NEW f \in Files, NEW e \in Episodes, Unlink(f, e)
    PROVE  LibraryInv'
<1> PICK o : o = [Operation("unlink", "do") EXCEPT !.file = f, !.subject = e[1], !.number = e[2]]
    OBVIOUS
<1>1. Begin(o) /\ UNCHANGED <<picker, editor>>
    BY DEF Unlink
<1>2. Operation("unlink", "do") \in Op /\ Operation("unlink", "do").kind = "unlink"
      /\ Operation("unlink", "do").pc = "do"
    BY OperationIs DEF Kinds, Changes
<1>3. e[1] \in Optional /\ e[2] \in 0..MaxNumber
    BY DEF Episodes, Optional, Numbers
<1>4. o \in Op /\ o.kind = "unlink" /\ o.pc = "do"
    BY <1>2, <1>3 DEF Op
<1> QED BY <1>1, <1>4, DoKeeps DEF LibraryInv, LibraryTypes

LEMMA DescribeKeeps ==
    ASSUME LibraryInv, NEW f \in Files, NEW s \in Customs, Describe(f, s)
    PROVE  LibraryInv'
<1> PICK o : o = [Operation("describe", "do") EXCEPT !.file = f, !.subject = s, !.number = 1]
    OBVIOUS
<1>1. Begin(o) /\ UNCHANGED <<picker, editor>>
    BY DEF Describe
<1>2. Operation("describe", "do") \in Op /\ Operation("describe", "do").kind = "describe"
      /\ Operation("describe", "do").pc = "do"
    BY OperationIs DEF Kinds, Changes
<1>3. s \in Optional /\ 1 \in 0..MaxNumber
    BY PageAssumption DEF Optional, Subjects
<1>4. o \in Op /\ o.kind = "describe" /\ o.pc = "do" /\ o.subject = s /\ o.number = 1
    BY <1>2, <1>3 DEF Op
<1> QED BY <1>1, <1>4, DoKeeps DEF LibraryInv, LibraryTypes

LEMMA SubjectsKeep ==
    ASSUME LibraryInv, NEW s \in Subjects,
           OpenEditor(s) \/ UpdateMetadata(s) \/ DeleteMetadata(s)
    PROVE  LibraryInv'
<1>1. PICK kind \in {"edit", "update", "delete"} :
          /\ Begin([Operation(kind, "do") EXCEPT !.subject = s])
          /\ picker' = picker /\ editor' \in Optional
    BY DEF OpenEditor, UpdateMetadata, DeleteMetadata, LibraryInv, LibraryTypes, Optional
<1> PICK o : o = [Operation(kind, "do") EXCEPT !.subject = s]
    OBVIOUS
<1>2. Operation(kind, "do") \in Op /\ Operation(kind, "do").kind = kind
      /\ Operation(kind, "do").pc = "do"
    BY OperationIs DEF Kinds, Changes
<1>3. o \in Op /\ o.kind = kind /\ o.pc = "do"
    BY <1>2 DEF Op, Optional
<1> QED BY <1>1, <1>3, DoKeeps DEF LibraryInv, LibraryTypes

LEMMA SearchKeeps ==
    ASSUME LibraryInv, SearchSubjects
    PROVE  LibraryInv'
<1> PICK o : o = Operation("search", "do")
    OBVIOUS
<1>1. o \in Op /\ o.kind = "search" /\ o.pc = "do"
    BY OperationIs DEF Kinds
<1>2. Begin(o) /\ picker' \in Picker /\ editor' \in Optional
    BY NoOffersIsOffers DEF SearchSubjects, LibraryInv, LibraryTypes, Picker
<1> QED BY <1>1, <1>2, DoKeeps

\* The page that loadEpisodes() asks for, if it asks.
LEMMA RequestKeeps ==
    ASSUME LibraryInv, NEW offers \in Offers, NEW page \in Nat \ {0},
           NEW descending \in BOOLEAN, NEW sought \in Halves \cup {0},
           \/ offers.total = 0 /\ page = 1 /\ sought = 0 /\ descending = FALSE
           \/ /\ page \in 1..PagesOf(offers.total)
              /\ sought # 0 =>
                    /\ Expected(sought) \in 1..offers.total
                    /\ page = PageWith(Expected(sought), descending, offers.total),
           RequestPage(offers, page, descending, sought)
    PROVE  LibraryInv'
<1>0. offers.total \in Nat
    BY PageAssumption DEF Offers
<1> PICK limit \in Nat : limit = Limit(page, descending, offers.total)
    BY <1>0, LimitAndOffset
<1> PICK offset \in Nat : offset = Offset(page, descending, offers.total)
    BY <1>0, LimitAndOffset
<1> PICK asks : asks = [offers EXCEPT !.episodes = <<>>, !.focus = 0]
    OBVIOUS
<1> PICK o : o = [Operation("episodes", "do") EXCEPT
                     !.subject = offers.selected, !.sought = sought, !.page = page,
                     !.descending = descending, !.limit = limit, !.offset = offset]
    OBVIOUS
<1>1. asks \in Offers /\ asks.total = offers.total /\ asks.selected = offers.selected
    <2>1. <<>> \in Seq(Numbers) /\ 0 \in Nat
        OBVIOUS
    <2> QED BY <2>1 DEF Offers
<1>2. offers.selected \in Optional
    BY DEF Offers
<1>3. Operation("episodes", "do") \in Op /\ Operation("episodes", "do").kind = "episodes"
      /\ Operation("episodes", "do").pc = "do"
    BY OperationIs DEF Kinds
<1>4. /\ o \in Op /\ o.kind = "episodes" /\ o.pc = "do" /\ o.subject = offers.selected
      /\ o.sought = sought /\ o.page = page /\ o.descending = descending
      /\ o.limit = limit /\ o.offset = offset
    BY <1>2, <1>3 DEF Op
<1> DEFINE valid == offers.selected \in picker.found /\ limit >= 1
<1>5. /\ asked' \in Nat /\ op.pc = "idle"
      /\ picker' = [picker EXCEPT !.offers = asks] /\ error' = ~valid
      /\ op' = IF ~valid THEN Idle ELSE o
      /\ UNCHANGED <<announced, numbered, files, known, gone, catalog, links, media, editor, unread>>
    BY PageAssumption
    DEF RequestPage, Ask, Busy, LibraryInv, LibraryTypes, database, stored
<1>6. picker' \in Picker /\ picker'.offers = asks
    BY <1>1, <1>5 DEF LibraryInv, LibraryTypes, Picker
<1>7. StoredTypes' /\ LibraryTypes'
    BY <1>4, <1>5, <1>6, IdleIsOp DEF LibraryInv, StoredTypes, LibraryTypes
<1>8. OpInv'
    <2>1. CASE ~valid
        BY <2>1, <1>5, IdleIsOp DEF OpInv
    <2>2. CASE valid
        <3>1. offers.selected \in Works
            BY <2>2 DEF LibraryInv, LibraryTypes, Picker
        <3>2. Requested(o, asks)
            BY <3>1, <2>2, <1>1, <1>4 DEF Requested
        <3>3. OpOK(o, asks)
            BY <3>2, <1>4 DEF OpOK
        <3> QED BY <3>3, <2>2, <1>5, <1>6 DEF OpInv
    <2> QED BY <2>1, <2>2
<1>9. ListInv'
    BY <1>5 DEF LibraryInv, ListInv, LibraryMedia
<1> QED BY <1>7, <1>8, <1>9 DEF LibraryInv

LEMMA SelectSubjectKeeps ==
    ASSUME LibraryInv, NEW w \in Works, SelectSubject(w)
    PROVE  LibraryInv'
<1> PICK offers : offers = [NoOffers EXCEPT !.selected = w]
    OBVIOUS
<1>1. offers \in Offers /\ offers.total = 0
    <2>1. w \in Optional /\ NoOffers.total = 0
        BY DEF Optional, Subjects, NoOffers
    <2> QED BY <2>1, NoOffersIsOffers DEF Offers
<1>2. RequestPage(offers, 1, FALSE, 0)
    BY DEF SelectSubject
<1>3. 0 \in Halves \cup {0} /\ 1 \in Nat \ {0} /\ FALSE \in BOOLEAN
    BY PageAssumption
<1> QED BY <1>1, <1>2, <1>3, RequestKeeps

LEMMA TurnKeeps ==
    ASSUME LibraryInv, NEW n \in Numbers, GoToPage(n)
    PROVE  LibraryInv'
<1> PICK offers : offers = picker.offers
    OBVIOUS
<1>1. /\ offers \in Offers /\ offers.total \in Nat /\ offers.descending \in BOOLEAN
    BY PageAssumption DEF LibraryInv, LibraryTypes, Picker, Offers
<1>2. n \in 1..PagesOf(offers.total) /\ RequestPage(offers, n, offers.descending, 0)
    BY DEF GoToPage
<1>3. 0 \in Halves \cup {0} /\ n \in Nat \ {0}
    BY PageAssumption DEF Numbers
<1> QED BY <1>1, <1>2, <1>3, RequestKeeps

LEMMA LocateKeeps ==
    ASSUME LibraryInv, NEW sought \in Halves, Locate(sought)
    PROVE  LibraryInv'
<1> PICK offers : offers = picker.offers
    OBVIOUS
<1>1. /\ offers \in Offers /\ offers.total \in Nat /\ offers.descending \in BOOLEAN
    BY PageAssumption DEF LibraryInv, LibraryTypes, Picker, Offers
<1> PICK place : place = Expected(sought)
    OBVIOUS
<1> PICK page : page = PageWith(place, offers.descending, offers.total)
    OBVIOUS
<1>2. place \in 1..offers.total /\ RequestPage(offers, page, offers.descending, sought)
    BY DEF Locate
<1>3. page \in 1..PagesOf(offers.total) /\ PagesOf(offers.total) \in Nat
    BY <1>2, <1>1, PageWithIsNatural, PagesIsNatural
<1>4. sought \in Halves \cup {0} /\ page \in Nat \ {0}
    BY <1>3
<1> QED BY <1>1, <1>2, <1>3, <1>4, RequestKeeps

LEMMA LocateRefusedKeeps ==
    ASSUME LibraryInv, LocateRefused
    PROVE  LibraryInv'
<1>1. /\ asked' \in Nat /\ error' \in BOOLEAN
      /\ UNCHANGED <<announced, numbered, files, known, gone, catalog, links, op, media, picker,
                     editor, unread>>
    BY DEF LocateRefused, Ask, LibraryInv, LibraryTypes, database, stored
<1>2. StoredTypes' /\ LibraryTypes'
    BY <1>1 DEF LibraryInv, StoredTypes, LibraryTypes
<1>3. OpInv' /\ ListInv'
    BY <1>1 DEF LibraryInv, OpInv, ListInv, LibraryMedia
<1> QED BY <1>2, <1>3 DEF LibraryInv

LEMMA SetDescendingKeeps ==
    ASSUME LibraryInv, NEW descending \in BOOLEAN, SetDescending(descending)
    PROVE  LibraryInv'
<1> PICK offers : offers = picker.offers
    OBVIOUS
<1>1. offers \in Offers /\ offers.total \in Nat /\ offers.total > 0
    BY PageAssumption DEF LibraryInv, LibraryTypes, Picker, Offers, SetDescending
<1>2. 1 \in 1..PagesOf(offers.total)
    BY <1>1, PagesIsNatural
<1>3. RequestPage(offers, 1, descending, 0)
    BY DEF SetDescending
<1>4. 0 \in Halves \cup {0} /\ 1 \in Nat \ {0}
    BY PageAssumption
<1> QED BY <1>1, <1>2, <1>3, <1>4, RequestKeeps

LEMMA CloseKeeps ==
    ASSUME LibraryInv, ClosePicker \/ CloseEditor
    PROVE  LibraryInv'
<1>1. /\ op.kind # "episodes"
      /\ UNCHANGED <<announced, numbered, files, known, gone, catalog, links, op, media, error, asked, unread>>
    BY DEF ClosePicker, CloseEditor, database, stored
<1>2. EmptyPicker \in Picker
    BY NoOffersIsOffers DEF EmptyPicker, Picker
<1>3. picker' \in Picker /\ editor' \in Optional
    BY <1>2 DEF ClosePicker, CloseEditor, LibraryInv, LibraryTypes, Optional
<1>4. StoredTypes' /\ LibraryTypes'
    BY <1>1, <1>3 DEF LibraryInv, StoredTypes, LibraryTypes
<1>5. OpInv'
    BY <1>1 DEF LibraryInv, OpInv, OpOK
<1>6. ListInv'
    BY <1>1 DEF LibraryInv, ListInv, LibraryMedia
<1> QED BY <1>4, <1>5, <1>6 DEF LibraryInv

LEMMA UserKeeps ==
    ASSUME LibraryInv, LibraryUser
    PROVE  LibraryInv'
<1>1. CASE ReadList
    BY <1>1, ReadListKeeps
<1>2. CASE SearchSubjects
    BY <1>2, SearchKeeps
<1>3. CASE ClosePicker \/ CloseEditor
    BY <1>3, CloseKeeps
<1>4. CASE \E f \in Files : ImportFile(f) \/ RemoveFile(f) \/ PlayFile(f)
    BY <1>4, FilesKeep
<1>5. CASE \E f \in Files, n \in Numbers : Link(f, n)
    BY <1>5, LinkKeeps
<1>6. CASE \E f \in Files, e \in Episodes : Unlink(f, e)
    BY <1>6, UnlinkKeeps
<1>7. CASE \E f \in Files, s \in Customs : Describe(f, s)
    BY <1>7, DescribeKeeps
<1>8. CASE \E s \in Subjects : OpenEditor(s) \/ UpdateMetadata(s) \/ DeleteMetadata(s)
    BY <1>8, SubjectsKeep
<1>9. CASE \E w \in Works : SelectSubject(w)
    BY <1>9, SelectSubjectKeeps
<1>10. CASE \E n \in Numbers : GoToPage(n)
    BY <1>10, TurnKeeps
<1>11. CASE \E descending \in BOOLEAN : SetDescending(descending)
    BY <1>11, SetDescendingKeeps
<1>12. CASE \E sought \in Halves : Locate(sought)
    BY <1>12, LocateKeeps
<1>13. CASE LocateRefused
    BY <1>13, LocateRefusedKeeps
<1> QED BY <1>1, <1>2, <1>3, <1>4, <1>5, <1>6, <1>7, <1>8, <1>9, <1>10, <1>11, <1>12, <1>13
        DEF LibraryUser

\* A part of a list, whatever limit and offset are.
LEMMA PartIs ==
    ASSUME NEW S, NEW list \in Seq(S), NEW limit \in Nat, NEW offset \in Nat
    PROVE  Part(list, limit, offset) \in Seq(S)
<1>1. PICK length \in Nat : length = Len(list) /\ \A i \in 1..length : list[i] \in S
    OBVIOUS
<1>2. PICK first \in Nat, last \in Nat :
          /\ first = offset + 1 /\ last = Least(offset + limit, length) /\ last <= length
    BY DEF Least
<1>3. \A i \in first..last : list[i] \in S
    BY <1>1, <1>2
<1>4. SubSeq(list, first, last) \in Seq(S)
    BY <1>3, SubSeqProperties
<1> QED BY <1>1, <1>2, <1>4 DEF Part

\* The database after the calls that change it.
LEMMA StoresTyped ==
    ASSUME LibraryInv, Stores
    PROVE  files' \subseteq Files /\ known' \subseteq Subjects /\ gone' \subseteq Subjects
           /\ catalog' \in [Subjects -> SUBSET Numbers] /\ links' \subseteq Files \X Episodes
<1> USE DEF LibraryInv, StoredTypes
<1>0. op \in Op /\ (op.kind = "import" => op.file \in Files) /\ (op.kind = "describe" => op.subject \in Customs /\ op.number = 1)
    BY DEF LibraryTypes, OpInv, OpOK
<1>1. CASE Imports
    BY <1>0, <1>1 DEF Imports
<1>2. CASE Removes
    BY <1>2 DEF Removes
<1>3. CASE Links
    <2>1. OpLink \in Files \X Episodes
        BY <1>3 DEF Links, OpLink, Episodes
    <2> QED BY <1>3, <2>1 DEF Links
<1>4. CASE Unlinks
    BY <1>4 DEF Unlinks
<1>5. CASE Describes
    <2>1. op.subject \in Subjects /\ op.number \in Numbers
        BY <1>0, <1>5, PageAssumption DEF Describes, Subjects, Numbers
    <2>2. OpLink \in Files \X Episodes
        BY <1>5, <2>1 DEF Describes, OpLink, Episodes
    <2>3. catalog[op.subject] \cup {op.number} \in SUBSET Numbers
        BY <2>1
    <2> QED BY <1>5, <2>1, <2>2, <2>3 DEF Describes
<1>6. CASE Updates
    BY <1>6 DEF Updates, stored
<1>7. CASE Deletes
    <2>1. {} \in SUBSET Numbers
        OBVIOUS
    <2> QED BY <1>7, <2>1 DEF Deletes
<1> QED BY <1>1, <1>2, <1>3, <1>4, <1>5, <1>6, <1>7 DEF Stores

LEMMA StoredKeeps ==
    ASSUME LibraryInv, Stored
    PROVE  LibraryInv'
<1>0. /\ op.kind \in Changes /\ op.pc = "do" /\ op \in Op
      /\ UNCHANGED <<announced, numbered, media, picker, editor, asked, unread>>
    BY DEF Stored, LibraryInv, LibraryTypes
<1>1. CASE Stores /\ op' = [op EXCEPT !.pc = "read"] /\ UNCHANGED error
    <2>1. /\ op' \in Op /\ op'.kind = op.kind /\ op'.pc = "read" /\ op'.file = op.file
          /\ op'.subject = op.subject /\ op'.number = op.number
        BY <1>0, <1>1 DEF Op
    <2>2. StoredTypes' /\ LibraryTypes'
        BY <1>0, <1>1, <2>1, StoresTyped DEF LibraryInv, StoredTypes, LibraryTypes
    <2>3. OpInv'
        BY <1>0, <2>1 DEF LibraryInv, OpInv, OpOK, Changes
    <2> QED BY <2>1, <2>2, <2>3 DEF LibraryInv, ListInv
<1>2. CASE LeavesBehind /\ Fails
    <2>1. op' = Idle /\ error' = TRUE
        BY <1>2 DEF Fails
    <2>2. UNCHANGED <<files, gone, links>>
        BY <1>2 DEF LeavesBehind, stored
    <2>3. known' \subseteq Subjects /\ catalog' \in [Subjects -> SUBSET Numbers]
        <3>1. CASE UNCHANGED stored
            BY <3>1 DEF stored, LibraryInv, StoredTypes
        <3>2. CASE op.kind = "describe"
            <4>1. op.subject \in Subjects /\ {op.number} \subseteq Numbers
                BY <3>2, PageAssumption DEF LibraryInv, OpInv, OpOK, Subjects, Numbers
            <4>2. known' = known \/ known' = known \cup {op.subject}
                BY <1>2 DEF LeavesBehind, stored
            <4>3. \/ catalog' = catalog
                  \/ \E episodes \in SUBSET {op.number} :
                        catalog' = [catalog EXCEPT ![op.subject] = @ \cup episodes]
                BY <1>2 DEF LeavesBehind, stored
            <4> QED BY <4>1, <4>2, <4>3 DEF LibraryInv, StoredTypes
        <3> QED BY <1>2, <3>1, <3>2 DEF LeavesBehind
    <2>4. StoredTypes' /\ LibraryTypes'
        BY <1>0, <2>1, <2>2, <2>3, IdleIsOp DEF LibraryInv, StoredTypes, LibraryTypes
    <2>5. OpInv'
        BY <2>1, IdleIsOp DEF OpInv
    <2>6. ListInv'
        BY <1>0, <2>2 DEF LibraryInv, ListInv, LibraryMedia
    <2> QED BY <2>4, <2>5, <2>6 DEF LibraryInv
<1> QED BY <1>1, <1>2 DEF Stored

LEMMA ListReadKeeps ==
    ASSUME LibraryInv, ListRead
    PROVE  LibraryInv'
<1>0. /\ op' = Idle
      /\ UNCHANGED <<announced, numbered, files, known, gone, catalog, links, asked>>
    BY DEF ListRead, Fails, Succeeds, database, stored
<1>1. OpInv'
    BY <1>0, IdleIsOp DEF OpInv
<1>2. picker' \in Picker
    <2> PICK offers : offers = [picker.offers EXCEPT !.episodes = <<>>]
        OBVIOUS
    <2>1. picker' = picker \/ picker' = [found |-> {}, offers |-> offers]
        BY DEF ListRead
    <2>2. <<>> \in Seq(Numbers) /\ picker.offers \in Offers
        BY DEF LibraryInv, LibraryTypes, Picker
    <2>3. offers \in Offers
        BY <2>2 DEF Offers
    <2> QED BY <2>1, <2>3 DEF LibraryInv, LibraryTypes, Picker
<1>3. LibraryMedia \in [files : SUBSET Files, links : SUBSET (Files \X Episodes)]
    BY DEF LibraryMedia, LibraryInv, StoredTypes
<1>4. /\ media' \in [files : SUBSET Files, links : SUBSET (Files \X Episodes)]
      /\ editor' \in Optional /\ error' \in BOOLEAN /\ unread' \in BOOLEAN
    BY <1>3 DEF ListRead, Fails, Succeeds, LibraryInv, LibraryTypes, Optional
<1>5. StoredTypes' /\ LibraryTypes'
    BY <1>0, <1>2, <1>4, IdleIsOp DEF LibraryInv, StoredTypes, LibraryTypes
<1>6. ListInv'
    BY <1>0 DEF ListRead, ListInv, LibraryMedia
<1> QED BY <1>1, <1>5, <1>6 DEF LibraryInv

LEMMA OthersAnswered ==
    ASSUME LibraryInv, Played \/ EditorRead \/ Found
    PROVE  LibraryInv'
<1>0. /\ op.kind \in {"play", "edit", "search"} /\ op' = Idle
      /\ UNCHANGED <<announced, numbered, files, known, gone, catalog, links, media, asked, unread>>
    BY DEF Played, EditorRead, Found, Fails, Succeeds, database, stored
<1>1. op.pc # "read"
    BY <1>0 DEF LibraryInv, OpInv, OpOK, Changes
<1>2. picker' \in Picker
    <2>1. CASE picker' = picker
        BY <2>1 DEF LibraryInv, LibraryTypes
    <2>2. CASE \E found \in SUBSET Works : picker' = [picker EXCEPT !.found = found]
        BY <2>2 DEF LibraryInv, LibraryTypes, Picker
    <2> QED BY <2>1, <2>2 DEF Played, EditorRead, Found
<1>3. editor' \in Optional /\ error' \in BOOLEAN
    BY DEF Played, EditorRead, Found, Fails, Succeeds, LibraryInv, LibraryTypes, StoredTypes, Optional
<1>4. StoredTypes' /\ LibraryTypes'
    BY <1>0, <1>2, <1>3, IdleIsOp DEF LibraryInv, StoredTypes, LibraryTypes
<1>5. OpInv'
    BY <1>0, IdleIsOp DEF OpInv
<1>6. ListInv'
    BY <1>0, <1>1 DEF LibraryInv, ListInv, LibraryMedia
<1> QED BY <1>4, <1>5, <1>6 DEF LibraryInv

LEMMA ReverseIs ==
    ASSUME NEW S, NEW list \in Seq(S)
    PROVE  /\ Reverse(list) \in Seq(S) /\ Len(Reverse(list)) = Len(list)
           /\ \A i \in 1..Len(list) : Reverse(list)[i] = list[Len(list) - i + 1]
<1> PICK n \in Nat : n = Len(list) /\ DOMAIN list = 1..n
    OBVIOUS
<1>1. \A i \in 1..n : n - i + 1 \in 1..n /\ list[n - i + 1] \in S
    OBVIOUS
<1> PICK back : back = [i \in 1..n |-> list[n - i + 1]]
    OBVIOUS
<1>2. back \in Seq(S) /\ Len(back) = n
    BY <1>1
<1> QED BY <1>2 DEF Reverse

\* The list that Bangumi has of a work.
LEMMA WholeList ==
    ASSUME NEW total \in Numbers
    PROVE  /\ [n \in 1..total |-> n] \in Seq(Numbers)
           /\ Len([n \in 1..total |-> n]) = total
<1>1. total \in Nat /\ 1..total \subseteq Numbers
    BY PageAssumption DEF Numbers
<1> QED BY <1>1

\* What is offered, in the order that was asked for.
Offered(total) ==
    LET page == Part([n \in 1..total |-> n], op.limit, op.offset) IN
    IF op.descending THEN Reverse(page) ELSE page

LEMMA OfferedIs ==
    ASSUME NEW total \in Numbers, op \in Op
    PROVE  /\ Part([n \in 1..total |-> n], op.limit, op.offset) \in Seq(Numbers)
           /\ Offered(total) \in Seq(Numbers)
<1> PICK list : list = [n \in 1..total |-> n]
    OBVIOUS
<1>1. list \in Seq(Numbers)
    BY WholeList
<1>2. op.limit \in Nat /\ op.offset \in Nat
    BY DEF Op
<1> PICK page : page = Part(list, op.limit, op.offset)
    OBVIOUS
<1>3. page \in Seq(Numbers)
    BY <1>1, <1>2, PartIs
<1>4. Reverse(page) \in Seq(Numbers)
    BY <1>3, ReverseIs
<1> QED BY <1>3, <1>4 DEF Offered

LEMMA LeastIs ==
    ASSUME NEW S \in SUBSET Nat, S # {}
    PROVE  Min(S) \in S /\ \A n \in S : Min(S) <= n
<1>1. \E x \in S : \A y \in S : <<y, x>> \notin OpToRel(<, Nat)
    BY NatLessThanWellFounded, WFMin
<1>2. PICK x \in S : \A y \in S : ~(y < x)
    BY <1>1 DEF OpToRel
<1>3. \A y \in S : x <= y
    BY <1>2
<1> QED BY <1>3 DEF Min

LEMMA GreatestIs ==
    ASSUME NEW k \in Nat, NEW S \in SUBSET (1..k), S # {}
    PROVE  Max(S) \in S
<1>1. PICK T : T = {k - n : n \in S}
    OBVIOUS
<1>2. T \subseteq Nat /\ T # {}
    <2>1. \A n \in S : n \in 1..k
        OBVIOUS
    <2>2. \A n \in S : k - n \in Nat
        BY <2>1
    <2> QED BY <1>1, <2>2
<1>3. Min(T) \in T /\ \A m \in T : Min(T) <= m
    BY <1>2, LeastIs
<1>4. PICK x \in S : Min(T) = k - x
    BY <1>1, <1>3
<1>5. \A y \in S : x >= y
    <2> TAKE y \in S
    <2>1. k - y \in T
        BY <1>1
    <2>2. k - x <= k - y
        BY <1>3, <1>4, <2>1
    <2>3. x \in Nat /\ y \in Nat
        OBVIOUS
    <2> QED BY <2>2, <2>3
<1> QED BY <1>5 DEF Max

\* What is marked has the number looked for, and nothing only if nothing has.
LEMMA FocusIs ==
    ASSUME NEW w, NEW page \in Seq(Numbers), NEW sought
    PROVE  /\ Focus(w, page, sought) \in Nat
           /\ sought # 0 =>
                IF Focus(w, page, sought) = 0
                THEN \A i \in DOMAIN page : numbered[w][page[i]] # sought
                ELSE /\ Focus(w, page, sought) \in DOMAIN page
                     /\ numbered[w][page[Focus(w, page, sought)]] = sought
<1>1. CASE sought = 0
    BY <1>1 DEF Focus
<1>2. CASE sought # 0
    <2> PICK I : I = {i \in 1..Len(page) : numbered[w][page[i]] = sought}
        OBVIOUS
    <2>1. Focus(w, page, sought) = IF I # {} THEN Max(I) ELSE 0
        BY <1>2 DEF Focus, SelectLastInSeq
    <2>2. Len(page) \in Nat /\ DOMAIN page = 1..Len(page) /\ I \in SUBSET (1..Len(page))
        OBVIOUS
    <2>3. CASE I = {}
        BY <2>1, <2>2, <2>3
    <2>4. CASE I # {}
        <3>1. Max(I) \in I
            BY <2>2, <2>4, GreatestIs
        <3>2. Max(I) \in 1..Len(page) /\ numbered[w][page[Max(I)]] = sought
            BY <3>1
        <3> QED BY <2>1, <2>2, <2>4, <3>2
    <2> QED BY <2>3, <2>4
<1> QED BY <1>1, <1>2

LEMMA EpisodesReadKeep ==
    ASSUME LibraryInv, EpisodesRead
    PROVE  LibraryInv'
<1>0. /\ op.kind = "episodes" /\ op' = Idle /\ op \in Op /\ error' \in BOOLEAN
      /\ UNCHANGED <<announced, numbered, files, gone, links, media, editor, asked, unread>>
    BY DEF EpisodesRead, Fails, Succeeds, LibraryInv, LibraryTypes
<1>1. op.pc # "read"
    BY <1>0 DEF LibraryInv, OpInv, OpOK, Changes
<1>2. op.subject \in Works /\ op.subject \in Subjects
    BY <1>0 DEF LibraryInv, OpInv, OpOK, Requested, Subjects
<1> PICK total : total = announced[op.subject]
    OBVIOUS
<1>3. total \in Numbers /\ total \in Nat
    BY <1>2, PageAssumption DEF LibraryInv, StoredTypes, Numbers
<1> PICK page : page = Part([n \in 1..total |-> n], op.limit, op.offset)
    OBVIOUS
<1> PICK offered : offered = IF op.descending THEN Reverse(page) ELSE page
    OBVIOUS
<1>4. page \in Seq(Numbers) /\ offered \in Seq(Numbers)
    BY <1>0, <1>3, OfferedIs DEF Offered
<1>5. ToSet(page) \subseteq Numbers /\ DOMAIN offered \subseteq Nat
    <2>1. \A i \in DOMAIN page : page[i] \in Numbers
        BY <1>4
    <2>2. Len(offered) \in Nat /\ DOMAIN offered = 1..Len(offered)
        BY <1>4
    <2>3. \A i \in DOMAIN offered : i \in Nat
        BY <2>2
    <2>4. ToSet(page) \subseteq Numbers
        BY <2>1 DEF ToSet
    <2> QED BY <2>3, <2>4, Zenon
<1>6. picker' \in Picker
    <2>1. CASE picker' = picker
        BY <2>1 DEF LibraryInv, LibraryTypes
    <2>2. ASSUME NEW number, NEW focus,
                 number = Least(AtLeast(1, op.page), PagesOf(total)),
                 focus = Focus(op.subject, offered, op.sought)
          PROVE  [total |-> total, page |-> number, descending |-> op.descending,
                  episodes |-> offered, focus |-> focus, selected |-> op.subject] \in Offers
        <3>1. number \in Nat
            <4>1. op.page \in Nat /\ PagesOf(total) \in Nat
                BY <1>0, <1>3, PagesIsNatural DEF Op
            <4> QED BY <4>1, <2>2 DEF Least, AtLeast
        <3>2. focus \in Nat
            BY <1>4, <2>2, FocusIs
        <3>3. op.descending \in BOOLEAN /\ op.subject \in Optional /\ total \in 0..MaxNumber
            BY <1>0, <1>3 DEF Op, Numbers
        <3> QED BY <3>1, <3>2, <3>3, <1>4 DEF Offers
    <2>3. CASE picker' # picker
        <3> PICK offers : offers =
                [total |-> total, page |-> Least(AtLeast(1, op.page), PagesOf(total)),
                 descending |-> op.descending, episodes |-> offered,
                 focus |-> Focus(op.subject, offered, op.sought),
                 selected |-> op.subject]
            OBVIOUS
        <3>1. offers \in Offers
            BY <2>2
        <3>2. picker' = [picker EXCEPT !.offers = offers]
            BY <2>3 DEF EpisodesRead
        <3> QED BY <3>1, <3>2 DEF LibraryInv, LibraryTypes, Picker
    <2> QED BY <2>1, <2>3
<1>7. known' \subseteq Subjects /\ catalog' \in [Subjects -> SUBSET Numbers]
    <2>1. known' \subseteq known \cup {op.subject}
        BY DEF EpisodesRead
    <2>2. catalog' = catalog \/ catalog' = [catalog EXCEPT ![op.subject] = @ \cup ToSet(page)]
        BY DEF EpisodesRead
    <2> QED BY <2>1, <2>2, <1>2, <1>5 DEF LibraryInv, StoredTypes
<1>8. StoredTypes' /\ LibraryTypes'
    BY <1>0, <1>6, <1>7, IdleIsOp DEF LibraryInv, StoredTypes, LibraryTypes
<1>9. OpInv'
    BY <1>0, IdleIsOp DEF OpInv
<1>10. ListInv'
    BY <1>0, <1>1 DEF LibraryInv, ListInv, LibraryMedia
<1> QED BY <1>8, <1>9, <1>10 DEF LibraryInv

LEMMA LibraryAnswersKeep ==
    ASSUME LibraryInv, LibraryAnswers
    PROVE  LibraryInv'
BY StoredKeeps, ListReadKeeps, OthersAnswered, EpisodesReadKeep DEF LibraryAnswers

LEMMA AnnounceKeeps ==
    ASSUME LibraryInv, NEW w \in Works, Announce(w)
    PROVE  LibraryInv'
<1>1. announced' \in [Works -> Numbers]
    BY PageAssumption DEF Announce, LibraryInv, StoredTypes, Numbers
<1>2. UNCHANGED <<numbered, files, known, gone, catalog, links, op, media, picker, editor, error,
                  asked, unread>>
    BY DEF Announce, stored
<1>3. StoredTypes' /\ LibraryTypes'
    BY <1>1, <1>2 DEF LibraryInv, StoredTypes, LibraryTypes
<1>4. OpInv' /\ ListInv'
    BY <1>2 DEF LibraryInv, OpInv, ListInv, LibraryMedia
<1> QED BY <1>3, <1>4 DEF LibraryInv

------------------------------------------------------------------------------
(* The page of a subject.                                                  *)

Task == [pc : {"page", "find", "local", "ensure", "read", "play"}, subject : Optional,
         number : Numbers, descending : BOOLEAN, generation : Nat]
Wanted == [subject : Optional, number : Numbers, descending : BOOLEAN]

ViewTypes ==
    /\ DOMAIN view = DOMAIN Blank
    /\ view.current \in Optional /\ view.work \in Optional /\ view.shown \in Optional
    /\ view.number \in Numbers /\ view.listed \subseteq Numbers
    /\ view.descending \in BOOLEAN /\ view.loading \in BOOLEAN /\ view.refreshing \in BOOLEAN
    /\ view.more \in BOOLEAN /\ view.playing \in BOOLEAN /\ view.error \in BOOLEAN
    /\ view.generation \in Nat /\ view.total \in Nat
    /\ view.episodes \in Seq(Numbers) /\ view.first \in {0} \cup Numbers

DetailsTypes == ViewTypes /\ tasks \subseteq Task /\ wanted \in Wanted /\ failed \in BOOLEAN

\* Of the coroutines that are not out of date all but those that play are about
\* what the user asked for last; refreshes are about the first page of a work.
TaskOK(t) ==
    /\ t.generation <= view.generation
    /\ t.pc \in {"find", "local", "ensure", "read"} =>
         t.subject \in Works /\ t.number = 1 /\ t.descending = FALSE
    /\ t.pc # "play" /\ t.generation = view.generation =>
         wanted = [subject |-> t.subject, number |-> t.number, descending |-> t.descending]
TasksInv == \A t \in tasks : TaskOK(t)

\* What is on show is the subject asked for last, or nothing.
ViewInv ==
    /\ view.current \in {NoSubject, wanted.subject} /\ view.shown \in {NoSubject, view.current}
    /\ view.loading => view.shown = NoSubject

AskedInv == TasksInv /\ ViewInv /\ ShownIsAsked

LEMMA BlankIs ==
    /\ DOMAIN Blank = {"current", "work", "shown", "number", "descending", "episodes", "total",
                       "first", "listed", "loading", "refreshing", "more", "playing", "error",
                       "generation"}
    /\ Blank.current = NoSubject /\ Blank.work = NoSubject /\ Blank.shown = NoSubject
    /\ Blank.number = 1 /\ Blank.listed = {} /\ Blank.first = 0 /\ Blank.episodes = <<>>
    /\ Blank.descending = FALSE /\ Blank.loading = FALSE /\ Blank.refreshing = FALSE
    /\ Blank.more = FALSE /\ Blank.playing = FALSE /\ Blank.error = FALSE
    /\ Blank.generation = 0 /\ Blank.total = 0
BY DEF Blank

\* A subject or a work is opened.
Opens(s) ==
    /\ DOMAIN view' = DOMAIN Blank
    /\ view'.current \in {NoSubject, s} /\ view'.work \in {NoSubject, s}
    /\ view'.shown = NoSubject /\ view'.loading = TRUE
    /\ view'.number = 1 /\ view'.listed = {} /\ view'.descending = FALSE
    /\ view'.episodes = <<>> /\ view'.first = 0 /\ view'.total = 0
    /\ view'.more = FALSE /\ view'.refreshing = FALSE /\ view'.error = FALSE
    /\ view'.playing = FALSE
    /\ view'.generation = view.generation + 1

LEMMA OpensSubjectIs ==
    ASSUME NEW s, OpensSubject(s), ~view.playing
    PROVE  Opens(s) /\ Spawn("page", s, 1, FALSE, view.generation + 1) /\ Wants(s, 1, FALSE)
<1> PICK next : next = view.generation + 1
    OBVIOUS
<1>1. view' = [Blank EXCEPT !.current = s, !.loading = TRUE, !.generation = next]
    BY DEF OpensSubject
<1>2. Opens(s)
    BY <1>1, BlankIs DEF Opens
<1> QED BY <1>2 DEF OpensSubject

LEMMA OpenBangumiIs ==
    ASSUME NEW w, OpenBangumiSubject(w)
    PROVE  Opens(w) /\ Spawn("find", w, 1, FALSE, view.generation + 1) /\ Wants(w, 1, FALSE)
<1> PICK next : next = view.generation + 1
    OBVIOUS
<1>1. view' = [Blank EXCEPT !.work = w, !.loading = TRUE, !.generation = next]
    BY DEF OpenBangumiSubject
<1>2. Opens(w)
    BY <1>1, BlankIs DEF Opens
<1> QED BY <1>2 DEF OpenBangumiSubject

\* A request makes everything older out of date.
LEMMA SpawnKeeps ==
    ASSUME DetailsTypes, TasksInv, view'.generation = view.generation + 1,
           NEW pc \in {"page", "find"}, NEW s \in Optional, NEW number \in Numbers,
           NEW descending \in BOOLEAN,
           pc = "find" => s \in Works /\ number = 1 /\ descending = FALSE,
           Spawn(pc, s, number, descending, view.generation + 1),
           Wants(s, number, descending)
    PROVE  tasks' \subseteq Task /\ wanted' \in Wanted /\ failed' = FALSE /\ TasksInv'
           /\ wanted'.subject = s
<1> PICK next : next = view.generation + 1
    OBVIOUS
<1> PICK new : new = [pc |-> pc, subject |-> s, number |-> number,
                      descending |-> descending, generation |-> next]
    OBVIOUS
<1>0. next \in Nat /\ view.generation \in Nat /\ view.generation < next /\ view'.generation = next
    BY DEF DetailsTypes, ViewTypes
<1>1. new \in Task /\ tasks' = tasks \cup {new}
    BY <1>0 DEF Spawn, Task
<1>2. wanted' = [subject |-> s, number |-> number, descending |-> descending] /\ failed' = FALSE
    BY DEF Wants
<1>3. TaskOK(new)'
    BY <1>0, <1>2 DEF TaskOK
<1>4. ASSUME NEW t \in tasks PROVE TaskOK(t)'
    <2>1. t \in Task /\ TaskOK(t)
        BY DEF DetailsTypes, TasksInv
    <2>2. t.generation \in Nat /\ t.generation < next
        BY <1>0, <2>1 DEF Task, TaskOK
    <2> QED BY <1>0, <2>1, <2>2 DEF TaskOK
<1> QED BY <1>1, <1>2, <1>3, <1>4 DEF DetailsTypes, TasksInv, Wanted

DetailsInv == DetailsTypes /\ AskedInv /\ EpisodesOfPage

LEMMA OpensKeeps ==
    ASSUME DetailsInv, NEW s \in Optional, Opens(s), NEW pc \in {"page", "find"},
           pc = "find" => s \in Works,
           Spawn(pc, s, 1, FALSE, view.generation + 1), Wants(s, 1, FALSE)
    PROVE  DetailsInv'
<1>1. 1 \in Numbers /\ s \in Optional /\ NoSubject \in Optional /\ FALSE \in BOOLEAN
    BY PageAssumption DEF Numbers, Optional
<1>2. tasks' \subseteq Task /\ wanted' \in Wanted /\ failed' = FALSE /\ TasksInv'
      /\ wanted'.subject = s
    BY <1>1, SpawnKeeps DEF DetailsInv, AskedInv, Opens
<1>3. ViewTypes'
    <2>1. view'.generation \in Nat
        BY DEF DetailsInv, DetailsTypes, ViewTypes, Opens
    <2>2. view'.current \in Optional /\ view'.work \in Optional
        BY <1>1 DEF Opens
    <2>3. <<>> \in Seq(Numbers)
        OBVIOUS
    <2>4. view'.episodes \in Seq(Numbers) /\ view'.first \in {0} \cup Numbers /\ view'.total \in Nat
        BY <2>3 DEF Opens
    <2>5. view'.shown \in Optional /\ view'.number \in Numbers /\ view'.listed \subseteq Numbers
        BY <1>1 DEF Opens
    <2> QED BY <2>1, <2>2, <2>4, <2>5 DEF ViewTypes, Opens
<1>4. ViewInv' /\ ShownIsAsked'
    BY <1>2 DEF Opens, ViewInv, ShownIsAsked
<1>5. EpisodesOfPage'
    BY DEF Opens, EpisodesOfPage
<1> QED BY <1>2, <1>3, <1>4, <1>5 DEF DetailsInv, DetailsTypes, AskedInv

LEMMA TurnsToKeeps ==
    ASSUME DetailsInv, NEW number \in Numbers, NEW descending \in BOOLEAN,
           TurnsTo(number, descending)
    PROVE  DetailsInv'
<1> PICK next : next = view.generation + 1
    OBVIOUS
<1>1. view' = [view EXCEPT !.refreshing = FALSE, !.more = TRUE, !.error = FALSE,
                           !.descending = descending, !.generation = next]
    BY DEF TurnsTo
<1>2. /\ DOMAIN view' = DOMAIN view /\ view'.generation = next /\ view'.more = TRUE
      /\ view'.refreshing = FALSE /\ view'.error = FALSE /\ view'.descending = descending
      /\ view'.current = view.current /\ view'.shown = view.shown /\ view'.work = view.work
      /\ view'.number = view.number /\ view'.listed = view.listed
      /\ view'.episodes = view.episodes /\ view'.first = view.first /\ view'.total = view.total
      /\ view'.loading = view.loading /\ view'.playing = view.playing
    BY <1>1, BlankIs DEF DetailsInv, DetailsTypes, ViewTypes
<1>3. Spawn("page", view.current, number, descending, view.generation + 1)
      /\ Wants(view.current, number, descending)
    BY DEF TurnsTo
<1>4. view.current \in Optional
    BY DEF DetailsInv, DetailsTypes, ViewTypes
<1>5. tasks' \subseteq Task /\ wanted' \in Wanted /\ failed' = FALSE /\ TasksInv'
      /\ wanted'.subject = view.current
    BY <1>2, <1>3, <1>4, SpawnKeeps DEF DetailsInv, AskedInv
<1>6. ViewTypes'
    <2>1. next \in Nat
        BY DEF DetailsInv, DetailsTypes, ViewTypes
    <2> QED BY <1>2, <2>1 DEF DetailsInv, DetailsTypes, ViewTypes
<1>7. ViewInv' /\ ShownIsAsked'
    BY <1>2, <1>5 DEF DetailsInv, AskedInv, ViewInv, ShownIsAsked
<1>8. EpisodesOfPage'
    BY <1>2 DEF DetailsInv, EpisodesOfPage
<1> QED BY <1>5, <1>6, <1>7, <1>8 DEF DetailsInv, DetailsTypes, AskedInv

LEMMA PlayKeeps ==
    ASSUME DetailsInv, NEW n \in Numbers, PlayEpisode(n)
    PROVE  DetailsInv'
<1> PICK new : new = [pc |-> "play", subject |-> view.shown, number |-> n,
                      descending |-> FALSE, generation |-> view.generation]
    OBVIOUS
<1>1. /\ view' = [view EXCEPT !.playing = TRUE, !.error = FALSE]
      /\ tasks' = tasks \cup {new} /\ wanted' = wanted /\ failed' = failed
    BY DEF PlayEpisode, Spawn
<1>2. /\ DOMAIN view' = DOMAIN view /\ view'.generation = view.generation
      /\ view'.more = view.more /\ view'.refreshing = view.refreshing
      /\ view'.error = FALSE /\ view'.descending = view.descending
      /\ view'.current = view.current /\ view'.shown = view.shown /\ view'.work = view.work
      /\ view'.number = view.number /\ view'.listed = view.listed
      /\ view'.episodes = view.episodes /\ view'.first = view.first /\ view'.total = view.total
      /\ view'.loading = view.loading /\ view'.playing = TRUE
    BY <1>1, BlankIs DEF DetailsInv, DetailsTypes, ViewTypes
<1>3. view.shown \in Optional /\ view.generation \in Nat
    BY DEF DetailsInv, DetailsTypes, ViewTypes
<1>4. new \in Task /\ new.pc = "play" /\ new.generation = view.generation
    BY <1>3 DEF Task
<1>5. DetailsTypes'
    BY <1>1, <1>2, <1>4 DEF DetailsInv, DetailsTypes, ViewTypes
<1>6. TasksInv'
    BY <1>1, <1>2, <1>3, <1>4 DEF DetailsInv, AskedInv, TasksInv, TaskOK
<1>7. ViewInv' /\ ShownIsAsked'
    BY <1>1, <1>2 DEF DetailsInv, AskedInv, ViewInv, ShownIsAsked
<1>8. EpisodesOfPage'
    BY <1>1, <1>2 DEF DetailsInv, EpisodesOfPage
<1> QED BY <1>5, <1>6, <1>7, <1>8 DEF DetailsInv, AskedInv

LEMMA ClearKeeps ==
    ASSUME DetailsInv, Clear
    PROVE  DetailsInv'
<1> PICK next : next = view.generation + 1
    OBVIOUS
<1>1. view' = [Blank EXCEPT !.generation = next]
      /\ wanted' = Nothing /\ failed' = FALSE /\ tasks' = tasks
    BY DEF Clear
<1>2. /\ DOMAIN view' = DOMAIN Blank /\ view'.generation = next
      /\ view'.current = NoSubject /\ view'.work = NoSubject /\ view'.shown = NoSubject
      /\ view'.number = 1 /\ view'.listed = {}
      /\ view'.episodes = <<>> /\ view'.first = 0 /\ view'.total = 0
      /\ view'.descending = FALSE /\ view'.loading = FALSE /\ view'.refreshing = FALSE
      /\ view'.more = FALSE /\ view'.playing = FALSE /\ view'.error = FALSE
    BY <1>1, BlankIs
<1>3. next \in Nat /\ view.generation \in Nat /\ view.generation < next
    BY DEF DetailsInv, DetailsTypes, ViewTypes
<1>4. 1 \in Numbers /\ NoSubject \in Optional
    BY PageAssumption DEF Numbers, Optional
<1>5. DetailsTypes'
    <2>1. <<>> \in Seq(Numbers)
        OBVIOUS
    <2>2. view'.episodes \in Seq(Numbers) /\ view'.first \in {0} \cup Numbers /\ view'.total \in Nat
        BY <2>1, <1>2
    <2>3. ViewTypes'
        BY <1>2, <1>3, <1>4, <2>2 DEF ViewTypes
    <2>4. wanted' \in Wanted
        BY <1>1, <1>4 DEF Wanted, Nothing
    <2> QED BY <1>1, <2>3, <2>4 DEF DetailsInv, DetailsTypes
<1>6. ASSUME NEW t \in tasks PROVE TaskOK(t)'
    <2>1. t \in Task /\ TaskOK(t)
        BY DEF DetailsInv, DetailsTypes, AskedInv, TasksInv
    <2>2. t.generation \in Nat /\ t.generation < next
        BY <1>3, <2>1 DEF Task, TaskOK
    <2> QED BY <1>2, <2>1, <2>2 DEF TaskOK
<1>7. ViewInv' /\ ShownIsAsked'
    BY <1>1, <1>2 DEF ViewInv, ShownIsAsked, Nothing
<1>8. EpisodesOfPage'
    BY <1>2 DEF EpisodesOfPage
<1> QED BY <1>1, <1>5, <1>6, <1>7, <1>8 DEF DetailsInv, AskedInv, TasksInv

LEMMA DetailsUserKeeps ==
    ASSUME DetailsInv, StoredTypes, DetailsUser
    PROVE  DetailsInv'
<1> USE DEF DetailsUser
<1>1. ASSUME NEW s \in Subjects, OpenSubject(s) PROVE DetailsInv'
    BY <1>1, OpensSubjectIs, OpensKeeps DEF OpenSubject, Optional
<1>2. ASSUME NEW w \in Works, OpenBangumiSubject(w) PROVE DetailsInv'
    BY <1>2, OpenBangumiIs, OpensKeeps DEF Subjects, Optional
<1>3. ASSUME NEW n \in Numbers, GoToEpisodePage(n) PROVE DetailsInv'
    BY <1>3, TurnsToKeeps DEF GoToEpisodePage, DetailsInv, DetailsTypes, ViewTypes
<1>4. ASSUME NEW n \in Numbers, PlayEpisode(n) PROVE DetailsInv'
    BY <1>4, PlayKeeps
<1>7. ASSUME PlayFirstAvailable PROVE DetailsInv'
    <2>1. view.first \in Numbers
        BY <1>7 DEF PlayFirstAvailable, DetailsInv, DetailsTypes, ViewTypes
    <2> QED BY <1>7, <2>1, PlayKeeps DEF PlayFirstAvailable
<1>5. ASSUME NEW descending \in BOOLEAN, SetEpisodeSortDescending(descending) PROVE DetailsInv'
    <2>1. 1 \in Numbers
        BY PageAssumption DEF Numbers
    <2> QED BY <1>5, <2>1, TurnsToKeeps DEF SetEpisodeSortDescending
<1>6. ASSUME Clear PROVE DetailsInv'
    BY <1>6, ClearKeeps
<1> QED BY <1>1, <1>2, <1>3, <1>4, <1>5, <1>6, <1>7

\* The page that is read is a list of what is stored.
LEMMA PageOfIs ==
    ASSUME NEW numbers \in SUBSET Numbers, NEW number \in Numbers, NEW descending \in BOOLEAN
    PROVE  PageOf(numbers, number, descending) \in Seq(numbers)
<1> PICK list : list = SortedBy(numbers, descending)
    OBVIOUS
<1> PICK offset : offset = (number - 1) * PageSize
    OBVIOUS
<1>1. list \in Seq(numbers)
    BY SortedIs
<1>2. PageSize \in Nat /\ offset \in Nat
    <2>1. number - 1 \in Nat /\ PageSize \in Nat
        BY PageAssumption DEF Numbers
    <2> QED BY <2>1, ProductIsNatural
<1>3. Part(list, PageSize, offset) \in Seq(numbers)
    BY <1>1, <1>2, PartIs
<1> QED BY <1>3 DEF PageOf

LEMMA FirstIs ==
    ASSUME NEW page \in Seq(Numbers), NEW I \in SUBSET (1..Len(page)), I # {}
    PROVE  Min(I) \in DOMAIN page /\ page[Min(I)] \in ToSet(page)
<1>2. Len(page) \in Nat /\ DOMAIN page = 1..Len(page)
    OBVIOUS
<1>3. I \in SUBSET Nat /\ I \subseteq DOMAIN page
    BY <1>2
<1>4. Min(I) \in DOMAIN page
    BY <1>3, LeastIs
<1> QED BY <1>4 DEF ToSet

\* The page after applyDetails().
ShownWith(v, s, number, descending) ==
    /\ DOMAIN v = DOMAIN Blank /\ v.current = s /\ v.shown = s /\ v.number = number
    /\ v.descending = descending /\ v.work = view.work
    /\ v.listed \subseteq Numbers /\ v.episodes = PageOf(v.listed, number, descending)
    /\ v.episodes \in Seq(Numbers) /\ v.total \in Nat /\ v.first \in {0} \cup Numbers
    /\ v.first # 0 => v.first \in ToSet(v.episodes)
    /\ v.error = FALSE /\ v.loading = FALSE /\ v.more = FALSE /\ v.refreshing = FALSE
    /\ v.playing = view.playing /\ v.generation = view.generation

LEMMA ShowsIs ==
    ASSUME ViewTypes, StoredTypes, NEW s \in Subjects, NEW number \in Numbers,
           NEW descending \in BOOLEAN
    PROVE  ShownWith(Shows(s, number, descending), s, number, descending)
<1> PICK v : v = Shows(s, number, descending)
    OBVIOUS
<1> PICK numbers : numbers = catalog[s]
    OBVIOUS
<1> PICK page : page = PageOf(numbers, number, descending)
    OBVIOUS
<1> PICK i : i = SelectInSeq(page, LAMBDA n : Linked(s, n))
    OBVIOUS
<1> PICK first : first = IF i = 0 THEN 0 ELSE page[i]
    OBVIOUS
<1> PICK total : total = Cardinality(numbers)
    OBVIOUS
<1>1. numbers \in SUBSET Numbers
    BY DEF StoredTypes
<1>2. page \in Seq(Numbers)
    <2>1. page \in Seq(numbers)
        BY <1>1, PageOfIs
    <2> QED BY <2>1, <1>1
<1>3. first \in {0} \cup Numbers /\ (first # 0 => first \in ToSet(page))
    <2>1. i # 0 => i \in DOMAIN page /\ page[i] \in ToSet(page)
        <3> PICK I : I = {j \in 1..Len(page) : Linked(s, page[j])}
            OBVIOUS
        <3>1. i = IF I # {} THEN Min(I) ELSE 0
            BY DEF SelectInSeq
        <3> QED BY <3>1, <1>2, FirstIs
    <2>2. \A j \in DOMAIN page : page[j] \in Numbers
        BY <1>2
    <2> QED BY <2>1, <2>2
<1>4. total \in Nat
    BY <1>1, SortedIs
<1>5. v = [view EXCEPT !.current = s, !.shown = s, !.number = number, !.descending = descending,
                 !.episodes = page, !.listed = numbers, !.total = total,
                 !.first = first, !.error = FALSE,
                 !.loading = FALSE, !.more = FALSE, !.refreshing = FALSE]
    BY DEF Shows
<1>6. /\ DOMAIN v = DOMAIN Blank /\ v.current = s /\ v.shown = s /\ v.number = number
      /\ v.descending = descending /\ v.work = view.work
      /\ v.listed = numbers /\ v.episodes = page /\ v.total = total /\ v.first = first
      /\ v.error = FALSE /\ v.loading = FALSE /\ v.more = FALSE /\ v.refreshing = FALSE
      /\ v.playing = view.playing /\ v.generation = view.generation
    BY <1>5, BlankIs DEF ViewTypes
<1> QED BY <1>1, <1>2, <1>3, <1>4, <1>6 DEF ShownWith

\* What an answer does to the page.
ViewOK == ViewTypes /\ ViewInv /\ ShownIsAsked /\ EpisodesOfPage /\ failed \in BOOLEAN

Refreshed(v) == [v EXCEPT !.refreshing = TRUE]

LEMMA ShownKeeps ==
    ASSUME DetailsInv, StoredTypes, NEW t \in tasks, ~Stale(t), t.pc # "play",
           t.subject \in Subjects, NEW v, v = Shows(t.subject, t.number, t.descending),
           view' = v \/ view' = Refreshed(v),
           wanted' = wanted, failed' = failed
    PROVE  ViewOK' /\ view'.generation = view.generation
<1>1. t \in Task /\ TaskOK(t) /\ t.generation = view.generation /\ ViewTypes
    BY DEF DetailsInv, DetailsTypes, AskedInv, TasksInv, Stale
<1>2. wanted = [subject |-> t.subject, number |-> t.number, descending |-> t.descending]
    BY <1>1 DEF TaskOK
<1>3. t.number \in Numbers /\ t.descending \in BOOLEAN
    BY <1>1 DEF Task
<1>4. ShownWith(v, t.subject, t.number, t.descending)
    BY <1>1, <1>3, ShowsIs
<1>5. /\ DOMAIN view' = DOMAIN Blank /\ view'.current = t.subject /\ view'.shown = t.subject
      /\ view'.number = t.number /\ view'.descending = t.descending /\ view'.work = view.work
      /\ view'.listed = v.listed /\ view'.episodes = v.episodes /\ view'.total = v.total
      /\ view'.first = v.first /\ view'.error = FALSE /\ view'.loading = FALSE
      /\ view'.more = FALSE /\ view'.refreshing \in BOOLEAN
      /\ view'.playing = view.playing /\ view'.generation = view.generation
    BY <1>4, BlankIs DEF Refreshed, ShownWith
<1>6. ViewTypes'
    <2>1. t.subject \in Optional
        BY DEF Optional
    <2> QED BY <1>1, <1>3, <1>4, <1>5, <2>1 DEF ViewTypes, ShownWith
<1>7. ViewInv' /\ ShownIsAsked'
    BY <1>2, <1>5 DEF ViewInv, ShownIsAsked
<1>8. EpisodesOfPage'
    BY <1>4, <1>5 DEF EpisodesOfPage, ShownWith
<1> QED BY <1>5, <1>6, <1>7, <1>8 DEF ViewOK, DetailsInv, DetailsTypes

\* Nothing else is shown, and what was under way may have failed.
LEMMA FlagsKeep ==
    ASSUME DetailsInv, wanted' = wanted, failed' \in BOOLEAN, failed => failed',
           DOMAIN view' = DOMAIN view,
           view'.current = view.current, view'.work = view.work, view'.shown = view.shown,
           view'.number = view.number, view'.listed = view.listed,
           view'.descending = view.descending, view'.episodes = view.episodes,
           view'.total = view.total, view'.first = view.first,
           view'.generation = view.generation,
           view'.loading \in BOOLEAN, view'.refreshing \in BOOLEAN, view'.more \in BOOLEAN,
           view'.playing \in BOOLEAN, view'.error \in BOOLEAN,
           view'.loading => view.loading,
           \/ failed'
           \/ view'.loading = view.loading /\ view'.more = view.more
           \/ view.shown # NoSubject /\ view'.more = view.more
    PROVE  ViewOK'
<1>1. ViewTypes'
    BY DEF DetailsInv, DetailsTypes, ViewTypes
<1>2. ViewInv'
    BY DEF DetailsInv, AskedInv, ViewInv
<1>3. ShownIsAsked'
    BY DEF DetailsInv, AskedInv, ViewInv, ShownIsAsked
<1>4. EpisodesOfPage'
    BY DEF DetailsInv, EpisodesOfPage
<1> QED BY <1>1, <1>2, <1>3, <1>4 DEF ViewOK

LEMMA ShowsNothingKeeps ==
    ASSUME DetailsInv, ShowsNothing, failed' = TRUE, wanted' = wanted
    PROVE  ViewOK' /\ view'.generation = view.generation
<1>1. /\ DOMAIN view' = DOMAIN view /\ view'.generation = view.generation
      /\ view'.current = view.current /\ view'.shown = view.shown /\ view'.work = view.work
      /\ view'.number = view.number /\ view'.listed = view.listed
      /\ view'.episodes = view.episodes /\ view'.first = view.first /\ view'.total = view.total
      /\ view'.descending = view.descending
      /\ view'.loading = FALSE /\ view'.more = FALSE /\ view'.refreshing = FALSE
      /\ view'.error = TRUE /\ view'.playing = view.playing
    BY BlankIs DEF ShowsNothing, DetailsInv, DetailsTypes, ViewTypes
<1>2. view.playing \in BOOLEAN
    BY DEF DetailsInv, DetailsTypes, ViewTypes
<1> QED BY <1>1, <1>2, FlagsKeep

LEMMA SettlesKeeps ==
    ASSUME DetailsInv, Settles, wanted' = wanted
    PROVE  ViewOK' /\ view'.generation = view.generation
<1>1. /\ DOMAIN view' = DOMAIN view /\ view'.generation = view.generation
      /\ view'.current = view.current /\ view'.shown = view.shown /\ view'.work = view.work
      /\ view'.number = view.number /\ view'.listed = view.listed
      /\ view'.episodes = view.episodes /\ view'.first = view.first /\ view'.total = view.total
      /\ view'.descending = view.descending
      /\ view'.loading = FALSE /\ view'.more = view.more /\ view'.refreshing = FALSE
      /\ view'.error \in BOOLEAN /\ view'.playing = view.playing
    BY BlankIs DEF Settles, DetailsInv, DetailsTypes, ViewTypes
<1>2. view.playing \in BOOLEAN /\ view.more \in BOOLEAN /\ failed \in BOOLEAN
    BY DEF DetailsInv, DetailsTypes, ViewTypes
<1>3. failed' \in BOOLEAN /\ (failed => failed') /\ (view.shown = NoSubject => failed')
    BY <1>2 DEF Settles
<1> QED BY <1>1, <1>2, <1>3, FlagsKeep

LEMMA PlayedKeeps ==
    ASSUME DetailsInv, NEW problem \in BOOLEAN, wanted' = wanted, failed' = failed,
           view' = [view EXCEPT !.playing = FALSE, !.error = problem]
    PROVE  ViewOK' /\ view'.generation = view.generation
<1>1. /\ DOMAIN view' = DOMAIN view /\ view'.generation = view.generation
      /\ view'.current = view.current /\ view'.shown = view.shown /\ view'.work = view.work
      /\ view'.number = view.number /\ view'.listed = view.listed
      /\ view'.episodes = view.episodes /\ view'.first = view.first /\ view'.total = view.total
      /\ view'.descending = view.descending
      /\ view'.loading = view.loading /\ view'.more = view.more
      /\ view'.refreshing = view.refreshing
      /\ view'.error = problem /\ view'.playing = FALSE
    BY BlankIs DEF DetailsInv, DetailsTypes, ViewTypes
<1>2. view.loading \in BOOLEAN /\ view.more \in BOOLEAN /\ view.refreshing \in BOOLEAN
      /\ failed \in BOOLEAN
    BY DEF DetailsInv, DetailsTypes, ViewTypes
<1> QED BY <1>1, <1>2, FlagsKeep

LEMMA SamePage ==
    ASSUME DetailsInv, UNCHANGED <<view, wanted, failed>>
    PROVE  ViewOK' /\ view'.generation = view.generation
BY DEF DetailsInv, DetailsTypes, AskedInv, ViewOK, ViewTypes, ViewInv, ShownIsAsked, EpisodesOfPage

\* A coroutine ends or goes on to its next request.
GoesOn(t) ==
    \/ Ends(t)
    \/ /\ t.pc \in {"find", "local", "ensure"}
       /\ \E pc \in {"local", "ensure", "read"} : Goes(t, pc)

LEMMA GoesOnKeeps ==
    ASSUME DetailsInv, NEW t \in tasks, GoesOn(t), ViewOK', wanted' = wanted,
           view'.generation = view.generation
    PROVE  DetailsInv'
<1>1. ASSUME NEW u \in tasks PROVE u \in Task /\ TaskOK(u)'
    BY DEF DetailsInv, DetailsTypes, AskedInv, TasksInv, TaskOK
<1>2. CASE Ends(t)
    <2>1. tasks' \subseteq tasks
        BY <1>2 DEF Ends
    <2>2. tasks' \subseteq Task /\ TasksInv'
        BY <2>1, <1>1 DEF TasksInv
    <2> QED BY <2>2 DEF DetailsInv, DetailsTypes, AskedInv, ViewOK
<1>3. ASSUME t.pc \in {"find", "local", "ensure"}, NEW pc \in {"local", "ensure", "read"},
             Goes(t, pc)
      PROVE  DetailsInv'
    <2> PICK u : u = [t EXCEPT !.pc = pc]
        OBVIOUS
    <2>1. t \in Task /\ TaskOK(t)'
        BY <1>1
    <2>2. /\ u \in Task /\ u.pc = pc /\ u.subject = t.subject /\ u.number = t.number
          /\ u.descending = t.descending /\ u.generation = t.generation
        BY <2>1 DEF Task
    <2>3. TaskOK(u)'
        BY <1>3, <2>1, <2>2 DEF TaskOK
    <2>4. tasks' \subseteq tasks \cup {u}
        BY <1>3 DEF Goes
    <2>5. tasks' \subseteq Task /\ TasksInv'
        BY <1>1, <2>2, <2>3, <2>4 DEF TasksInv
    <2> QED BY <2>5 DEF DetailsInv, DetailsTypes, AskedInv, ViewOK
<1> QED BY <1>2, <1>3 DEF GoesOn

LEMMA PageAnsweredKeeps ==
    ASSUME DetailsInv, StoredTypes, NEW t \in tasks, PageAnswered(t)
    PROVE  DetailsInv'
<1>1. t.pc = "page" /\ GoesOn(t) /\ wanted' = wanted
    BY DEF PageAnswered, GoesOn
<1>2. CASE UNCHANGED <<view, failed>>
    BY <1>1, <1>2, SamePage, GoesOnKeeps
<1>3. CASE /\ ~Stale(t) /\ t.subject \in known
           /\ view' = Shows(t.subject, t.number, t.descending) /\ UNCHANGED failed
    <2>1. t.subject \in Subjects
        BY <1>3 DEF StoredTypes
    <2>2. ViewOK' /\ view'.generation = view.generation
        BY <1>1, <1>3, <2>1, ShownKeeps
    <2> QED BY <1>1, <2>2, GoesOnKeeps
<1>4. CASE ShowsNothing /\ failed' = TRUE
    BY <1>1, <1>4, ShowsNothingKeeps, GoesOnKeeps
<1> QED BY <1>2, <1>3, <1>4 DEF PageAnswered

LEMMA FindAnsweredKeeps ==
    ASSUME DetailsInv, NEW t \in tasks, FindAnswered(t)
    PROVE  DetailsInv'
<1>1. GoesOn(t) /\ wanted' = wanted
    BY DEF FindAnswered, GoesOn
<1>2. CASE UNCHANGED <<view, failed>>
    BY <1>1, <1>2, SamePage, GoesOnKeeps
<1>3. CASE ShowsNothing /\ failed' = TRUE
    BY <1>1, <1>3, ShowsNothingKeeps, GoesOnKeeps
<1> QED BY <1>2, <1>3 DEF FindAnswered

\* What a refresh shows is the first page, which is what it stands for.
LEMMA FirstPageShown ==
    ASSUME DetailsInv, StoredTypes, NEW t \in tasks, t.pc \in {"local", "read"},
           ~Stale(t), t.subject \in known, wanted' = wanted, failed' = failed, GoesOn(t),
           \/ view' = Shows(t.subject, 1, FALSE)
           \/ view' = Refreshed(Shows(t.subject, 1, FALSE))
    PROVE  DetailsInv'
<1>1. t.number = 1 /\ t.descending = FALSE
    BY DEF DetailsInv, AskedInv, TasksInv, TaskOK
<1> PICK v : v = Shows(t.subject, t.number, t.descending)
    OBVIOUS
<1>2. view' = v \/ view' = Refreshed(v)
    BY <1>1
<1>3. t.subject \in Subjects
    BY DEF StoredTypes
<1>4. ViewOK' /\ view'.generation = view.generation
    BY <1>2, <1>3, ShownKeeps
<1> QED BY <1>4, GoesOnKeeps

LEMMA LocalAnsweredKeeps ==
    ASSUME DetailsInv, StoredTypes, NEW t \in tasks, LocalAnswered(t)
    PROVE  DetailsInv'
<1>1. t.pc = "local" /\ GoesOn(t) /\ wanted' = wanted /\ failed' = failed
    BY DEF LocalAnswered, GoesOn
<1>2. CASE UNCHANGED view
    BY <1>1, <1>2, SamePage, GoesOnKeeps
<1>3. CASE /\ ~Stale(t) /\ t.subject \in known
           /\ view' = [Shows(t.subject, 1, FALSE) EXCEPT !.refreshing = TRUE]
    <2>1. view' = Refreshed(Shows(t.subject, 1, FALSE))
        BY <1>3 DEF Refreshed
    <2> QED BY <1>1, <1>3, <2>1, FirstPageShown
<1> QED BY <1>2, <1>3 DEF LocalAnswered

LEMMA EnsureAnsweredKeeps ==
    ASSUME DetailsInv, NEW t \in tasks, EnsureAnswered(t)
    PROVE  DetailsInv'
<1>1. GoesOn(t) /\ wanted' = wanted
    BY DEF EnsureAnswered, GoesOn
<1>2. CASE UNCHANGED <<view, failed>>
    BY <1>1, <1>2, SamePage, GoesOnKeeps
<1>3. CASE Settles
    BY <1>1, <1>3, SettlesKeeps, GoesOnKeeps
<1> QED BY <1>2, <1>3 DEF EnsureAnswered

LEMMA ReadAnsweredKeeps ==
    ASSUME DetailsInv, StoredTypes, NEW t \in tasks, ReadAnswered(t)
    PROVE  DetailsInv'
<1>1. t.pc = "read" /\ GoesOn(t) /\ wanted' = wanted
    BY DEF ReadAnswered, GoesOn
<1>2. CASE UNCHANGED <<view, failed>>
    BY <1>1, <1>2, SamePage, GoesOnKeeps
<1>3. CASE ~Stale(t) /\ t.subject \in known /\ view' = Shows(t.subject, 1, FALSE) /\ UNCHANGED failed
    BY <1>1, <1>3, FirstPageShown
<1>4. CASE Settles
    BY <1>1, <1>4, SettlesKeeps, GoesOnKeeps
<1> QED BY <1>2, <1>3, <1>4 DEF ReadAnswered

LEMMA EpisodePlayedKeeps ==
    ASSUME DetailsInv, NEW t \in tasks, EpisodePlayed(t)
    PROVE  DetailsInv'
<1>1. GoesOn(t) /\ wanted' = wanted /\ failed' = failed
    BY DEF EpisodePlayed, GoesOn
<1>2. CASE UNCHANGED view
    BY <1>1, <1>2, SamePage, GoesOnKeeps
<1>3. ASSUME NEW problem \in BOOLEAN, view' = [view EXCEPT !.playing = FALSE, !.error = problem]
      PROVE  DetailsInv'
    BY <1>1, <1>3, PlayedKeeps, GoesOnKeeps
<1> QED BY <1>2, <1>3 DEF EpisodePlayed

\* Answers to the page of a subject may change what is stored of works, and
\* nothing that the library page lists.
LEMMA LibraryUnaffected ==
    ASSUME LibraryInv, StoredTypes', UNCHANGED <<files, links, op, media, picker, editor, error, unread>>,
           asked' \in Nat
    PROVE  LibraryInv'
<1>1. LibraryTypes' /\ OpInv' /\ ListInv'
    BY DEF LibraryInv, LibraryTypes, OpInv, ListInv, LibraryMedia
<1> QED BY <1>1 DEF LibraryInv

LEMMA EnsuresTyped ==
    ASSUME StoredTypes, NEW w \in Works, NEW ok \in BOOLEAN, Ensures(w, ok),
           UNCHANGED <<announced, numbered, files, gone, links>>
    PROVE  StoredTypes'
<1>1. w \in Subjects /\ 1..announced[w] \subseteq Numbers
    BY PageAssumption DEF Subjects, StoredTypes, Numbers
<1>2. known' \subseteq known \cup {w}
    BY DEF Ensures
<1>3. \/ catalog' = catalog
      \/ \E episodes \in {{}, 1..announced[w]} :
            catalog' = [catalog EXCEPT ![w] = @ \cup episodes]
    BY DEF Ensures
<1> QED BY <1>1, <1>2, <1>3 DEF StoredTypes

LEMMA DetailsAnswerKeeps ==
    ASSUME LibraryInv, DetailsInv, NEW t \in tasks, DetailsAnswer(t)
    PROVE  LibraryInv' /\ DetailsInv'
<1>0. StoredTypes /\ asked' \in Nat /\ UNCHANGED <<op, media, picker, editor, error, unread>>
    BY DEF DetailsAnswer, LibraryInv, LibraryTypes
<1>1. DetailsInv'
    BY <1>0, PageAnsweredKeeps, FindAnsweredKeeps, LocalAnsweredKeeps, EnsureAnsweredKeeps,
       ReadAnsweredKeeps, EpisodePlayedKeeps DEF DetailsAnswer
<1>2. StoredTypes' /\ UNCHANGED <<files, links>>
    <2>1. CASE EnsureAnswered(t)
        <3>1. t.subject \in Works
            BY <2>1 DEF EnsureAnswered, DetailsInv, AskedInv, TasksInv, TaskOK
        <3> QED BY <2>1, <3>1, <1>0, EnsuresTyped DEF EnsureAnswered
    <2>2. CASE UNCHANGED database
        BY <2>2, <1>0 DEF database, stored, StoredTypes
    <2> QED BY <2>1, <2>2
        DEF DetailsAnswer, PageAnswered, FindAnswered, LocalAnswered, ReadAnswered, EpisodePlayed
<1> QED BY <1>0, <1>1, <1>2, LibraryUnaffected

LEMMA DetailsUserLeaves ==
    ASSUME LibraryInv, DetailsUser
    PROVE  LibraryInv'
<1>1. UNCHANGED <<database, op, media, picker, editor, error, unread>> /\ asked' = asked + 1
    BY DEF DetailsUser, OpenSubject, OpenBangumiSubject, GoToEpisodePage, SetEpisodeSortDescending,
           TurnsTo, PlayFirstAvailable, PlayEpisode, Clear, Ask
<1>2. asked' \in Nat
    BY <1>1 DEF LibraryInv, LibraryTypes
<1>3. StoredTypes'
    BY <1>1 DEF database, stored, LibraryInv, StoredTypes
<1> QED BY <1>1, <1>2, <1>3, LibraryUnaffected DEF database, stored

LEMMA DetailsStay ==
    ASSUME DetailsInv, UNCHANGED detailsVars
    PROVE  DetailsInv'
<1>1. ViewOK' /\ view' = view /\ tasks' = tasks /\ wanted' = wanted
    BY SamePage DEF detailsVars
<1>2. tasks' \subseteq Task /\ TasksInv'
    BY <1>1 DEF DetailsInv, DetailsTypes, AskedInv, TasksInv, TaskOK
<1> QED BY <1>1, <1>2 DEF DetailsInv, DetailsTypes, AskedInv, ViewOK

LEMMA LibraryAnswerKeeps ==
    ASSUME LibraryInv, DetailsInv, LibraryAnswer
    PROVE  LibraryInv' /\ DetailsInv'
<1>1. LibraryInv'
    BY LibraryAnswersKeep DEF LibraryAnswer
<1>2. CASE UNCHANGED detailsVars
    BY <1>1, <1>2, DetailsStay
<1>3. CASE OpensSubject(view.shown) /\ ~view.playing
    <2>1. view.shown \in Optional
        BY DEF DetailsInv, DetailsTypes, ViewTypes
    <2>2. Opens(view.shown) /\ Spawn("page", view.shown, 1, FALSE, view.generation + 1)
          /\ Wants(view.shown, 1, FALSE)
        BY <1>3, OpensSubjectIs
    <2> QED BY <1>1, <2>1, <2>2, OpensKeeps
<1> QED BY <1>2, <1>3 DEF LibraryAnswer, OpensSubject

------------------------------------------------------------------------------
(* Theorems.                                                               *)

PageInv == LibraryInv /\ DetailsInv

LEMMA PageInitOK == PageInit => PageInv
<1> SUFFICES ASSUME PageInit PROVE PageInv
    OBVIOUS
<1> USE DEF PageInit, LibraryInit, DetailsInit
<1>1. StoredTypes
    <2>1. known \subseteq Subjects
        BY DEF Subjects
    <2>2. \A w \in Works : 1..announced[w] \subseteq Numbers
        BY PageAssumption DEF Numbers
    <2>3. catalog \in [Subjects -> SUBSET Numbers]
        BY <2>2
    <2> QED BY <2>1, <2>3 DEF StoredTypes
<1>2. op \in Op /\ op.kind = "list" /\ op.pc = "read"
    BY OperationIs DEF Kinds
<1>3. LibraryTypes
    <2>1. EmptyPicker \in Picker
        BY NoOffersIsOffers DEF EmptyPicker, Picker
    <2> QED BY <1>2, <2>1 DEF LibraryTypes, Optional
<1>4. OpInv /\ ListInv
    BY <1>2 DEF OpInv, OpOK, ListInv
<1>5. DetailsTypes
    <2>1. 1 \in Numbers /\ NoSubject \in Optional /\ <<>> \in Seq(Numbers)
        BY PageAssumption DEF Numbers, Optional
    <2>2. ViewTypes
        <3>1. view.episodes \in Seq(Numbers) /\ view.first \in {0} \cup Numbers /\ view.total \in Nat
            BY <2>1, BlankIs
        <3>2. /\ view.current \in Optional /\ view.work \in Optional /\ view.shown \in Optional
              /\ view.number \in Numbers /\ view.listed \subseteq Numbers /\ view.generation \in Nat
            BY <2>1, BlankIs
        <3> QED BY <3>1, <3>2, BlankIs DEF ViewTypes
    <2>3. wanted \in Wanted
        BY <2>1 DEF Wanted, Nothing
    <2> QED BY <2>2, <2>3 DEF DetailsTypes
<1>6. TasksInv /\ ViewInv /\ ShownIsAsked /\ EpisodesOfPage
    BY BlankIs DEF TasksInv, ViewInv, ShownIsAsked, EpisodesOfPage, Nothing
<1> QED BY <1>1, <1>3, <1>4, <1>5, <1>6 DEF PageInv, LibraryInv, DetailsInv, AskedInv

LEMMA PageStep == PageInv /\ [PageNext]_pageVars => PageInv'
<1> SUFFICES ASSUME PageInv, [PageNext]_pageVars PROVE PageInv'
    OBVIOUS
<1> USE DEF PageInv
<1>1. CASE LibraryUser /\ UNCHANGED detailsVars
    BY <1>1, UserKeeps, DetailsStay
<1>2. CASE LibraryAnswer
    BY <1>2, LibraryAnswerKeeps
<1>3. CASE DetailsUser
    BY <1>3, DetailsUserLeaves, DetailsUserKeeps DEF LibraryInv
<1>4. CASE DetailsAnswers
    BY <1>4, DetailsAnswerKeeps DEF DetailsAnswers
<1>5. CASE (\E w \in Works : Announce(w)) /\ UNCHANGED detailsVars
    BY <1>5, AnnounceKeeps, DetailsStay
<1>6. CASE UNCHANGED pageVars
    <2>1. UNCHANGED <<files, links, op, media, picker, editor, error, unread, asked>> /\ StoredTypes'
        BY <1>6 DEF pageVars, libraryVars, database, stored, LibraryInv, StoredTypes
    <2>2. LibraryInv'
        BY <2>1, LibraryUnaffected DEF LibraryInv, LibraryTypes
    <2> QED BY <1>6, <2>2, DetailsStay DEF pageVars
<1> QED BY <1>1, <1>2, <1>3, <1>4, <1>5, <1>6 DEF PageNext

\* What the two pages keep at all times (library_view_model.cpp:341-1251,
\* subject_details_view_model.cpp:165-577).
THEOREM PagesStayConsistent == PageSpec => []PageInv
<1>1. PageInit => PageInv
    BY PageInitOK
<1>2. PageInv /\ [PageNext]_pageVars => PageInv'
    BY PageStep
<1> QED BY <1>1, <1>2, PTL DEF PageSpec

\* Between two operations the library page lists what is stored, unless the
\* list could not be read (library_view_model.cpp:680-761, 879-1115).
THEOREM ListAgrees == PageSpec => []ListIsStored
<1>1. PageInv => ListIsStored
    BY DEF PageInv, LibraryInv, ListInv, ListIsStored, Busy
<1> QED BY <1>1, PagesStayConsistent, PTL

\* The page of a subject shows what was asked for last and never what older
\* requests bring (subject_details_view_model.cpp:165-300, 327-463).
THEOREM ShowsTheAsked == PageSpec => []ShownIsAsked
<1>1. PageInv => ShownIsAsked
    BY DEF PageInv, DetailsInv, AskedInv
<1> QED BY <1>1, PagesStayConsistent, PTL

\* The episodes on show are those that the number of the page and the order
\* say (subject_details_view_model.cpp:259-300, 327-365, 491-577).
THEOREM ShowsThePage == PageSpec => []EpisodesOfPage
<1>1. PageInv => EpisodesOfPage
    BY DEF PageInv, DetailsInv
<1> QED BY <1>1, PagesStayConsistent, PTL

------------------------------------------------------------------------------
(* The page that the dialog offers.                                        *)

LEMMA DivisionIs ==
    ASSUME NEW a \in Nat, NEW b \in Nat \ {0}
    PROVE  a \div b \in Nat /\ (a \div b) * b <= a /\ a < (a \div b) * b + b
OBVIOUS

LEMMA InOrderIs ==
    ASSUME NEW total \in Numbers, NEW descending \in BOOLEAN
    PROVE  /\ InOrder(total, descending) \in Seq(Numbers)
           /\ Len(InOrder(total, descending)) = total
           /\ \A i \in 1..total : InOrder(total, descending)[i]
                                 = IF descending THEN total + 1 - i ELSE i
<1>1. total \in Nat /\ \A i \in 1..total : i \in Numbers /\ total + 1 - i \in Numbers
    BY PageAssumption DEF Numbers
<1> PICK f : f = [i \in 1..total |-> IF descending THEN total + 1 - i ELSE i]
    OBVIOUS
<1>2. f \in [1..total -> Numbers]
    BY <1>1
<1> QED BY <1>1, <1>2, FunctionIsList DEF InOrder

\* A part of a list that is known to have so many elements.
Taken(S, part, list, offset, size) ==
    part \in Seq(S) /\ Len(part) = size /\ \A i \in 1..size : part[i] = list[offset + i]

LEMMA PartOf ==
    ASSUME NEW S, NEW list \in Seq(S), NEW limit \in Nat, NEW offset \in Nat, NEW size \in Nat,
           offset + size <= Len(list), size <= limit,
           size = limit \/ offset + size = Len(list)
    PROVE  Taken(S, Part(list, limit, offset), list, offset, size)
<1>1. Len(list) \in Nat
    OBVIOUS
<1>2. Least(offset + limit, Len(list)) = offset + size
    BY <1>1 DEF Least
<1>3. PICK first \in Nat, last \in Nat : first = offset + 1 /\ last = offset + size
    OBVIOUS
<1>4. PICK part : part = SubSeq(list, first, last)
    OBVIOUS
<1>5. part = Part(list, limit, offset)
    BY <1>2, <1>3, <1>4 DEF Part
<1>6. \A i \in first..last : list[i] \in S
    BY <1>1, <1>3
<1>7. /\ part \in Seq(S) /\ Len(part) = IF first <= last THEN last - first + 1 ELSE 0
      /\ \A i \in 1..last - first + 1 : part[i] = list[first + i - 1]
    BY <1>4, <1>6, SubSeqProperties
<1>8. last - first + 1 = size /\ Len(part) = size
    BY <1>3, <1>7
<1>9. \A i \in 1..size : first + i - 1 = offset + i
    BY <1>3
<1> QED BY <1>5, <1>7, <1>8, <1>9 DEF Taken

\* Numbers from the one after bottom up, and from top down.
Ascends(list, bottom, size) ==
    list \in Seq(Numbers) /\ Len(list) = size /\ \A i \in 1..size : list[i] = bottom + i
Descends(list, top, size) ==
    list \in Seq(Numbers) /\ Len(list) = size /\ \A i \in 1..size : list[i] = top + 1 - i

LEMMA ReverseOfPart ==
    ASSUME NEW top \in Nat, NEW size \in Nat, NEW page, Ascends(page, top - size, size)
    PROVE  Descends(Reverse(page), top, size)
<1>1. \A i \in 1..size : size - i + 1 \in 1..size /\ top - size + (size - i + 1) = top + 1 - i
    OBVIOUS
<1>2. PICK back : back = Reverse(page)
    OBVIOUS
<1>3. page \in Seq(Numbers) /\ Len(page) = size /\ \A i \in 1..size : page[i] = top - size + i
    BY DEF Ascends
<1>4. /\ back \in Seq(Numbers) /\ Len(back) = size
      /\ \A i \in 1..size : back[i] = page[size - i + 1]
    BY <1>2, <1>3, ReverseIs
<1>5. \A i \in 1..size : back[i] = top + 1 - i
    BY <1>1, <1>3, <1>4
<1> QED BY <1>2, <1>4, <1>5 DEF Descends

LEMMA LastPart ==
    ASSUME NEW total \in Numbers, NEW top \in 1..total, NEW size \in 1..top,
           NEW limit \in Nat, size <= limit, size = limit \/ size = top
    PROVE  Descends(Part(InOrder(total, TRUE), limit, total - top), top, size)
<1>1. total \in Nat /\ top \in Nat /\ size \in Nat
    BY PageAssumption DEF Numbers
<1>2. PICK offset \in Nat : offset = total - top
    BY <1>1
<1>3. PICK ordered : ordered = InOrder(total, TRUE)
    OBVIOUS
<1>4. ordered \in Seq(Numbers) /\ Len(ordered) = total
      /\ \A i \in 1..total : ordered[i] = total + 1 - i
    BY <1>3, InOrderIs
<1>5. offset + size <= Len(ordered) /\ (size = limit \/ offset + size = Len(ordered))
    BY <1>1, <1>2, <1>4
<1>6. Taken(Numbers, Part(ordered, limit, offset), ordered, offset, size)
    BY <1>1, <1>4, <1>5, PartOf
<1>7. \A i \in 1..size : offset + i \in 1..total /\ total + 1 - (offset + i) = top + 1 - i
    BY <1>1, <1>2
<1>8. \A i \in 1..size : ordered[offset + i] = top + 1 - i
    BY <1>4, <1>7
<1>9. Descends(Part(ordered, limit, offset), top, size)
    BY <1>6, <1>8 DEF Taken, Descends
<1> QED BY <1>2, <1>3, <1>9

LEMMA FirstPart ==
    ASSUME NEW total \in Numbers, NEW top \in 1..total, NEW size \in 1..top
    PROVE  Ascends(Part([n \in 1..total |-> n], size, top - size), top - size, size)
<1>1. total \in Nat /\ top \in Nat /\ size \in Nat
    BY PageAssumption DEF Numbers
<1>2. PICK offset \in Nat : offset = top - size
    BY <1>1
<1>3. PICK list : list = [n \in 1..total |-> n]
    OBVIOUS
<1>4. list \in Seq(Numbers) /\ Len(list) = total
    BY <1>3, WholeList
<1>5. offset + size <= Len(list)
    BY <1>1, <1>2, <1>4
<1>6. Taken(Numbers, Part(list, size, offset), list, offset, size)
    BY <1>1, <1>4, <1>5, PartOf
<1>7. \A i \in 1..size : offset + i \in 1..total
    BY <1>1, <1>2
<1>8. \A i \in 1..size : list[offset + i] = offset + i
    BY <1>3, <1>7
<1>9. Ascends(Part(list, size, offset), offset, size)
    BY <1>6, <1>8 DEF Taken, Ascends
<1> QED BY <1>2, <1>3, <1>9

\* A page in descending order, got from the end of the list in ascending order.
LEMMA OfferedDescending ==
    ASSUME NEW total \in Numbers, NEW k \in Nat, k < total, op \in Op,
           op.descending = TRUE, op.limit = Least(PageSize, total - k),
           op.offset = total - k - op.limit
    PROVE  /\ Offered(total) = Part(InOrder(total, TRUE), PageSize, k)
           /\ \A n \in 1..total : k <= total - n /\ total - n < k + PageSize =>
                 n \in ToSet(Offered(total))
<1>1. total \in Nat /\ PageSize \in Nat \ {0}
    BY PageAssumption DEF Numbers
<1>2. PICK top \in 1..total : top = total - k /\ k = total - top
    BY <1>1
<1>3. PICK size \in Nat : size = op.limit
    BY DEF Op
<1>4. size = Least(PageSize, top) /\ op.offset = top - size
    BY <1>2, <1>3
<1>5. size \in 1..top /\ size <= PageSize /\ (size = PageSize \/ size = top)
    BY <1>1, <1>4 DEF Least
<1>6. PICK page : page = Part([n \in 1..total |-> n], size, top - size)
    OBVIOUS
<1>7. PICK part : part = Part(InOrder(total, TRUE), PageSize, total - top)
    OBVIOUS
<1>8. Ascends(page, top - size, size)
    BY <1>5, <1>6, FirstPart
<1>9. PICK offered : offered = Reverse(page)
    OBVIOUS
<1>10. Descends(offered, top, size)
    BY <1>3, <1>8, <1>9, ReverseOfPart
<1>11. Descends(part, top, size)
    BY <1>1, <1>5, <1>7, LastPart
<1>12. offered = part
    BY <1>10, <1>11, SeqEqual DEF Descends
<1>13. offered = Offered(total)
    BY <1>3, <1>4, <1>6, <1>9 DEF Offered
<1>14. ASSUME NEW n \in 1..total, k <= total - n, total - n < k + PageSize
       PROVE  n \in ToSet(offered)
    <2>1. PICK i \in Int : i = top + 1 - n
        BY <1>1
    <2>2. i \in 1..size /\ top + 1 - i = n
        BY <1>1, <1>2, <1>5, <1>14, <2>1
    <2>3. offered[i] = n /\ i \in DOMAIN offered
        BY <2>2, <1>10 DEF Descends
    <2> QED BY <2>3 DEF ToSet
<1> QED BY <1>2, <1>7, <1>12, <1>13, <1>14

LEMMA OfferedAscending ==
    ASSUME NEW total \in Numbers, NEW k \in Nat, op \in Op,
           op.descending = FALSE, op.limit = PageSize, op.offset = k
    PROVE  /\ Offered(total) = Part(InOrder(total, FALSE), PageSize, k)
           /\ \A n \in 1..total : k <= n - 1 /\ n - 1 < k + PageSize =>
                 n \in ToSet(Offered(total))
<1>1. total \in Nat /\ PageSize \in Nat \ {0}
    BY PageAssumption DEF Numbers
<1>2. PICK list : list = [n \in 1..total |-> n]
    OBVIOUS
<1>3. list \in Seq(Numbers) /\ Len(list) = total /\ \A i \in 1..total : list[i] = i
    BY <1>2, WholeList
<1>4. PICK page : page = Part(list, PageSize, k)
    OBVIOUS
<1>5. list = InOrder(total, FALSE) /\ page = Offered(total)
    BY <1>2, <1>4 DEF InOrder, Offered
<1>6. ASSUME NEW n \in 1..total, k <= n - 1, n - 1 < k + PageSize
      PROVE  n \in ToSet(page)
    <2>1. PICK size \in Nat : /\ k + size <= total /\ size <= PageSize /\ n - k <= size
                              /\ size = PageSize \/ k + size = total
        <3>1. CASE k + PageSize <= total
            <4>1. n - k <= PageSize
                BY <1>1, <1>6
            <4> QED BY <4>1, <3>1, <1>1
        <3>2. CASE ~(k + PageSize <= total)
            <4>1. PICK size \in Nat : size = total - k
                BY <1>1, <1>6
            <4>2. k + size = total /\ size <= PageSize /\ n - k <= size
                BY <4>1, <3>2, <1>1, <1>6
            <4> QED BY <4>2
        <3> QED BY <3>1, <3>2
    <2>2. Taken(Numbers, page, list, k, size)
        BY <1>1, <1>3, <1>4, <2>1, PartOf
    <2>3. PICK i \in 1..size : i = n - k
        BY <1>1, <1>6, <2>1
    <2>4. page[i] = n /\ i \in DOMAIN page
        BY <1>1, <1>3, <2>2, <2>3 DEF Taken
    <2> QED BY <2>4 DEF ToSet
<1> QED BY <1>4, <1>5, <1>6

\* The request that is answered, against the list as it is now.
Asked(total) ==
    /\ op.page \in 1..PagesOf(total) /\ op.limit >= 1
    /\ op.limit = Limit(op.page, op.descending, total)
    /\ op.offset = Offset(op.page, op.descending, total)
    /\ op.sought # 0 => /\ Expected(op.sought) \in 1..total
                        /\ op.page = PageWith(Expected(op.sought), op.descending, total)

LEMMA AskedIs ==
    ASSUME LibraryInv, op.kind = "episodes", NEW total \in Numbers,
           picker.offers.total \in {0, total}
    PROVE  Asked(total)
<1>1. Requested(op, picker.offers) /\ op \in Op
    BY DEF LibraryInv, LibraryTypes, OpInv, OpOK
<1>2. PageSize \in Nat \ {0} /\ total \in Nat /\ total > 0
    BY PageAssumption DEF Numbers
<1>3. PagesOf(0) = 0
    <2>1. PICK a \in Nat : a = 0 + PageSize - 1 /\ a < PageSize
        BY <1>2
    <2>2. a \div PageSize = 0
        BY <1>2, <2>1
    <2> QED BY <2>1, <2>2 DEF PagesOf
<1>4. CASE picker.offers.total = total
    BY <1>1, <1>2, <1>4 DEF Requested, Asked
<1>5. CASE picker.offers.total = 0
    <2>1. op.page \notin 1..PagesOf(0)
        BY <1>3
    <2>2. op.page = 1 /\ op.sought = 0 /\ op.descending = FALSE
        BY <1>1, <1>5, <2>1 DEF Requested
    <2>3. /\ op.limit = Limit(op.page, op.descending, picker.offers.total) /\ op.limit >= 1
          /\ op.offset = Offset(op.page, op.descending, picker.offers.total)
        BY <1>1 DEF Requested
    <2>4. /\ op.limit = Limit(op.page, op.descending, total)
          /\ op.offset = Offset(op.page, op.descending, total)
        BY <2>2, <2>3 DEF Limit, Offset
    <2>5. 1 \in 1..PagesOf(total)
        BY <1>2, PagesIsNatural
    <2> QED BY <2>2, <2>3, <2>4, <2>5 DEF Asked
<1> QED BY <1>4, <1>5

LEMMA OfferedIsThePage ==
    ASSUME op \in Op, NEW total \in Numbers, Asked(total)
    PROVE  /\ Offered(total) = Part(InOrder(total, op.descending), PageSize, (op.page - 1) * PageSize)
           /\ op.sought # 0 => Expected(op.sought) \in ToSet(Offered(total))
<1> PICK place : place = Expected(op.sought)
    OBVIOUS
<1>1. PageSize \in Nat \ {0} /\ total \in Nat /\ op.page - 1 \in Nat /\ op.descending \in BOOLEAN
    <2>1. PagesOf(total) \in Nat
        BY PageAssumption, PagesIsNatural DEF Numbers
    <2> QED BY <2>1, PageAssumption DEF Asked, Op, Numbers
<1>2. PICK before \in Nat : before = op.page - 1
    BY <1>1
<1>3. PICK k \in Nat : k = before * PageSize
    BY <1>1, ProductIsNatural
<1>4. (op.page - 1) * PageSize = k
    BY <1>2, <1>3
<1>5. CASE op.descending = TRUE
    <2>1. /\ op.limit = Least(PageSize, AtLeast(0, total - k)) /\ op.limit >= 1
          /\ op.offset = AtLeast(0, total - k - op.limit)
        BY <1>4, <1>5 DEF Asked, Limit, Offset
    <2>2. k < total
        BY <1>1, <2>1 DEF Least, AtLeast
    <2>3. op.limit = Least(PageSize, total - k) /\ op.offset = total - k - op.limit
        BY <1>1, <2>1, <2>2 DEF Least, AtLeast
    <2>4. op.sought # 0 => /\ place \in 1..total /\ k <= total - place
                           /\ total - place < k + PageSize
        <3> SUFFICES ASSUME op.sought # 0
                     PROVE  /\ place \in 1..total /\ k <= total - place
                            /\ total - place < k + PageSize
            OBVIOUS
        <3>1. place \in 1..total /\ op.page = (total - place) \div PageSize + 1
            BY <1>5 DEF Asked, PageWith
        <3>2. PICK a \in Nat : a = total - place
            BY <1>1, <3>1
        <3>3. before = a \div PageSize
            BY <1>1, <1>2, <3>1, <3>2, DivisionIs
        <3>4. k <= a /\ a < k + PageSize
            BY <1>1, <1>3, <3>3, DivisionIs
        <3> QED BY <3>1, <3>2, <3>4
    <2> QED BY <1>4, <1>5, <2>2, <2>3, <2>4, OfferedDescending
<1>6. CASE op.descending = FALSE
    <2>1. op.limit = PageSize /\ op.offset = k
        BY <1>4, <1>6 DEF Asked, Limit, Offset
    <2>2. op.sought # 0 => /\ place \in 1..total /\ k <= place - 1
                           /\ place - 1 < k + PageSize
        <3> SUFFICES ASSUME op.sought # 0
                     PROVE  /\ place \in 1..total /\ k <= place - 1
                            /\ place - 1 < k + PageSize
            OBVIOUS
        <3>1. place \in 1..total /\ op.page = (place - 1) \div PageSize + 1
            BY <1>6 DEF Asked, PageWith
        <3>2. PICK a \in Nat : a = place - 1
            BY <1>1, <3>1
        <3>3. before = a \div PageSize
            BY <1>1, <1>2, <3>1, <3>2, DivisionIs
        <3>4. k <= a /\ a < k + PageSize
            BY <1>1, <1>3, <3>3, DivisionIs
        <3> QED BY <3>1, <3>2, <3>4
    <2> QED BY <1>4, <1>6, <2>1, <2>2, OfferedAscending
<1> QED BY <1>1, <1>5, <1>6

\* What OffersThePage says of an answer.
OffersIt ==
    LET offers == picker'.offers
        ordered == InOrder(offers.total, offers.descending)
        Has(i) == numbered[op.subject][offers.episodes[i]] = op.sought IN
    /\ offers.episodes = Part(ordered, PageSize, (offers.page - 1) * PageSize)
    /\ op.sought # 0 =>
         /\ IF offers.focus = 0 THEN \A i \in DOMAIN offers.episodes : ~Has(i)
                                ELSE offers.focus \in DOMAIN offers.episodes /\ Has(offers.focus)
         /\ numbered[op.subject][Expected(op.sought)] = op.sought => offers.focus # 0

LEMMA OffersStep ==
    ASSUME LibraryInv, EpisodesRead, ~error',
           picker.offers.total \in {0, picker'.offers.total}
    PROVE  OffersIt
<1>1. op.kind = "episodes" /\ op \in Op /\ op.subject \in Works
    BY DEF EpisodesRead, LibraryInv, LibraryTypes, OpInv, OpOK, Requested
<1>2. PICK total \in Numbers : total = announced[op.subject]
    BY <1>1 DEF LibraryInv, StoredTypes
<1>3. PICK offered : offered = Offered(total)
    OBVIOUS
<1>4. PICK focus : focus = Focus(op.subject, offered, op.sought)
    OBVIOUS
<1>5. PICK offers :
          offers = [total |-> total, page |-> Least(AtLeast(1, op.page), PagesOf(total)),
                    descending |-> op.descending, episodes |-> offered, focus |-> focus,
                    selected |-> op.subject]
    OBVIOUS
<1>6. picker' = [picker EXCEPT !.offers = offers]
    <2>1. ~Fails
        BY DEF Fails
    <2>2. LET t == announced[op.subject] IN
          picker' = [picker EXCEPT !.offers =
              [total |-> t, page |-> Least(AtLeast(1, op.page), PagesOf(t)),
               descending |-> op.descending, episodes |-> Offered(t),
               focus |-> Focus(op.subject, Offered(t), op.sought),
               selected |-> op.subject]]
        BY <2>1, Zenon DEF EpisodesRead, Offered
    <2> QED BY <1>2, <1>3, <1>4, <1>5, <2>2
<1>7. picker'.offers = offers
    BY <1>6 DEF LibraryInv, LibraryTypes, Picker
<1>8. /\ offers.total = total /\ offers.page = Least(AtLeast(1, op.page), PagesOf(total))
      /\ offers.descending = op.descending /\ offers.episodes = offered /\ offers.focus = focus
    BY <1>5
<1>9. Asked(total)
    BY <1>1, <1>7, <1>8, AskedIs
<1>10. offers.page = op.page
    <2>1. PagesOf(total) \in Nat
        BY PageAssumption, PagesIsNatural DEF Numbers
    <2> QED BY <1>8, <1>9, <2>1 DEF Asked, Least, AtLeast
<1>11. /\ offered = Part(InOrder(total, op.descending), PageSize, (op.page - 1) * PageSize)
       /\ op.sought # 0 => Expected(op.sought) \in ToSet(offered)
    BY <1>1, <1>3, <1>9, OfferedIsThePage
<1>12. offered \in Seq(Numbers)
    BY <1>1, <1>3, OfferedIs
<1>13. ASSUME op.sought # 0
       PROVE  /\ IF focus = 0
                 THEN \A i \in DOMAIN offered : numbered[op.subject][offered[i]] # op.sought
                 ELSE focus \in DOMAIN offered /\ numbered[op.subject][offered[focus]] = op.sought
              /\ numbered[op.subject][Expected(op.sought)] = op.sought => focus # 0
    <2>1. IF focus = 0
          THEN \A i \in DOMAIN offered : numbered[op.subject][offered[i]] # op.sought
          ELSE focus \in DOMAIN offered /\ numbered[op.subject][offered[focus]] = op.sought
        BY <1>4, <1>12, <1>13, FocusIs
    <2>2. PICK i \in DOMAIN offered : offered[i] = Expected(op.sought)
        BY <1>11, <1>13 DEF ToSet
    <2> QED BY <2>1, <2>2
<1> QED BY <1>7, <1>8, <1>10, <1>11, <1>13 DEF OffersIt

\* Whoever is not about to answer for a page leaves it asked for.
LEMMA OthersLeaveIt ==
    ASSUME LibraryInv, op.kind = "episodes", op'.pc = "idle", [PageNext]_pageVars
    PROVE  EpisodesRead
<1>1. op.pc = "do"
    BY DEF LibraryInv, LibraryTypes, OpInv, OpOK, Op, Changes
<1>2. op' # op
    BY <1>1
<1>3. ~LibraryUser
    <2>1. \A o : ~Begin(o)
        BY <1>1 DEF Begin, Busy
    <2>2. \A offers, page, descending, sought : ~RequestPage(offers, page, descending, sought)
        BY <1>1 DEF RequestPage, Busy
    <2>3. ~LocateRefused
        BY <1>1 DEF LocateRefused, Busy
    <2> QED BY <2>1, <2>2, <2>3
        DEF LibraryUser, ReadList, SearchSubjects, ClosePicker, CloseEditor, ImportFile, RemoveFile,
            PlayFile, Link, Unlink, Describe, OpenEditor, UpdateMetadata, DeleteMetadata,
            SelectSubject, GoToPage, Locate, SetDescending
<1>4. ~DetailsUser
    BY <1>2 DEF DetailsUser, OpenSubject, OpenBangumiSubject, GoToEpisodePage,
                SetEpisodeSortDescending, TurnsTo, PlayFirstAvailable, PlayEpisode, Clear
<1>5. ~DetailsAnswers /\ ~(\E w \in Works : Announce(w)) /\ ~UNCHANGED pageVars
    BY <1>2 DEF DetailsAnswers, DetailsAnswer, Announce, pageVars, libraryVars
<1>6. LibraryAnswers
    BY <1>3, <1>4, <1>5 DEF PageNext, LibraryAnswer
<1> QED BY <1>1, <1>6 DEF LibraryAnswers, Stored, ListRead, Played, EditorRead, Found, Changes

\* The dialog offers the page it says, in the order it says, for every size of
\* a page.  What it marks has the number that was looked for; it misses none
\* that the page has, and none that is at its place in the list, whatever
\* specials and fractions there are (library_view_model.cpp:439-470, 813-878).
THEOREM OffersTheRightPage == PageSpec => OffersThePage
<1>1. PageInv /\ [PageNext]_pageVars =>
        [op.kind = "episodes" /\ op'.pc = "idle" /\ ~error'
         /\ picker.offers.total \in {0, picker'.offers.total} => OffersIt]_libraryVars
    BY OthersLeaveIt, OffersStep DEF PageInv
<1> QED BY <1>1, PagesStayConsistent, PTL DEF PageSpec, OffersThePage, OffersIt
=============================================================================
