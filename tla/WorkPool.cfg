CONSTANTS
    t1 = t1
    t2 = t2
    e1 = e1
    e2 = e2
    Threads <- TwoThreads
    Endpoints <- TwoEndpoints
    MaxQueued = 4
    StartResults <- MayFail
    MaskResults <- MayFail
SPECIFICATION FairSpec
INVARIANTS
    NoUseAfterFree
    StartedIsListed
PROPERTIES
    SignalledExits
    QueuedIsPicked
