CONSTANTS
    queue_depth = 8
    Types = {1, 2}
    MessageType <- MessageTypes
    Limits = {7, 8}
    MaxSent = 9
    MaxStrays = 1
SPECIFICATION FairSpec
INVARIANT EveryMessageAccounted
INVARIANT HandledOnceInOrder
PROPERTY StateAdvances
PROPERTY MessagesComeBack
