SPECIFICATION Spec
CONSTANTS
    u1 = u1
    u2 = u2
    bad = bad
    none = none
    Urls <- MCUrls
    BadUrl = bad
    NoUrl = none
    Commands <- SeekCommands
    Capacity = 1
    MediaLength = 1
    StartTime <- MCStartTime
    MaxSends = 4
    MaxMessages = 1
    MaxFaults = 0
PROPERTY OnlyPausePauses
CHECK_DEADLOCK FALSE
