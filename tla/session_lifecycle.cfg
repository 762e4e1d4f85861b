SPECIFICATION Spec
CONSTANTS
    u1 = u1
    u2 = u2
    bad = bad
    none = none
    Urls <- MCUrls
    BadUrl = bad
    NoUrl = none
    Commands <- LifecycleCommands
    Capacity = 2
    MediaLength = 1
    StartTime <- MCStartTime
    MaxSends = 4
    MaxMessages = 1
    MaxFaults = 1
INVARIANT ShownMediumIsOpen
INVARIANT PositionWithinMedium
INVARIANT PlayingMeansRunning
PROPERTY GenerationNamesMedium
PROPERTY OwnsOnePipeline
CHECK_DEADLOCK FALSE
