SPECIFICATION StartSpec
CONSTANTS
    NMirrors = 3
    Enabled <- MCEnabled
    MaxRequests = 2
    MaxRedirects = 1
    Outside = Outside
    UnsafePath <- Outside
    LocalHosts <- MCLocalHosts
    LongKeys <- MCLongKeys
    PackagesLimit = 256
    Starts <- MCStarts
INVARIANT FirstOfEachId
INVARIANT RequestBudget
PROPERTY AsksPermittedMirrors
PROPERTY NoWaitAfterCancel
PROPERTY PinnedToItsMirror
PROPERTY Contract
CHECK_DEADLOCK FALSE
