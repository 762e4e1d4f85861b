SPECIFICATION FairController
CONSTANTS
    u1 = u1
    u2 = u2
    bad = bad
    none = none
    Urls <- MCUrls
    BadUrl = bad
    NoUrl = none
    Commands <- MCCommands
    Capacity = 2
    MediaLength = 1
    StartTime <- MCStartTime
    MaxSends = 4
    MaxMessages = 1
    MaxFaults = 0
    Targets <- MCTargets
    MaxCalls = 2
CHECK_DEADLOCK FALSE
PROPERTY ButtonsInOrder
PROPERTY SeekingResolves
PROPERTY PlayIsShown
PROPERTY ShutdownCompletes
