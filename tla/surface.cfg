SPECIFICATION FairSpec
CONSTANTS
    p1 = p1
    p2 = p2
    Producers <- MCProducers
    MaxCalls = 4
INVARIANT NotificationOnItsWay
PROPERTY FrameArrives
CHECK_DEADLOCK FALSE
PROPERTY FrameReleased
