CONSTANTS
    c1 = c1
    c2 = c2
    Consumers <- TwoConsumers
    Geometries <- SmallOrLarge
    ExpectedSizes = {1, 2}
    PageSize = 4
    UnlinkChoices <- Always
    MaxObjects = 2
SPECIFICATION OpenSpec
INVARIANTS
    OpenIsComplete
CHECK_DEADLOCK FALSE
