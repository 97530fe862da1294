SPECIFICATION FairSpec
CONSTANTS
    kMaxQueuedPcmFrames = 2
    MaxFrames = 5
INVARIANTS
    QueueIsNewestSuffix
    StatsConserved
    StaleFramesBounded
PROPERTIES
    HeldUntilAccepted
    InOrder
    FramesSettle
    DestructorReturns
CHECK_DEADLOCK FALSE
