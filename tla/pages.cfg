\* The library page and the page of a subject.
SPECIFICATION FairPages
CONSTANTS
    Files = {f1}
    Works = {w1}
    Customs = {c1}
    NoSubject = NoSubject
    NoFile = NoFile
    Numberings <- MCNumberings
    PageSize = 2
    MaxNumber = 3
    MaxAsked = 4
INVARIANT ListIsStored
INVARIANT ShownIsAsked
INVARIANT EpisodesOfPage
PROPERTY OffersThePage
PROPERTY PagesGetFree
CHECK_DEADLOCK FALSE
