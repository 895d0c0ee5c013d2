CONSTANTS
    Count = 4
    MaxItems = 7
    MaxCrashes = 4
SPECIFICATION FairSpec
INVARIANTS
    RetainedIntact
    ReservationHolds
    DeliveredInOrder
    LockstepLag
PROPERTIES
    Refinement
    AllDelivered
