CONSTANTS
    t1 = t1
    t2 = t2
    e1 = e1
    e2 = e2
    Threads <- OneThread
    Endpoints <- TwoEndpoints
    MaxQueued = 8
    StartResults <- Succeeds
    MaskResults <- Succeeds
SPECIFICATION FairSpec
PROPERTY ShutdownReachesAll
