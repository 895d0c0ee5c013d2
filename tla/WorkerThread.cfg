CONSTANTS
    w1 = w1
    w2 = w2
    Workers <- TwoWorkers
SPECIFICATION FairSpec
INVARIANTS
    NoOrphan
PROPERTIES
    RequestSticks
    RequestIsHonoured
    DeleteReturns
