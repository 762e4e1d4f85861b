SPECIFICATION FairSpec
CONSTANTS
    w1 = w1
    k1 = k1
    k2 = k2
    k3 = k3
    f1 = f1
    r1 = r1
    d1 = d1
    Local = Local
    NoRow = NoRow
    Works <- OneWork
    EpisodeKeys <- ThreeKeys
    WorkOf <- OneWorkOf
    Listings <- TwoAtFirst
    Files <- OneFile
    FolderOf <- MCFolderOf
    Refreshes <- OneRefresh
    PageSize = 1
    MaxSubjects = 2
    MaxEpisodes = 3
    MaxItems = 1
INVARIANT ReferencesResolve
INVARIANT OneRowEach
INVARIANT AnswerIsTheWork
PROPERTY RefreshKeepsLinks
PROPERTY DetailsAreComplete
PROPERTY RefreshEnds
