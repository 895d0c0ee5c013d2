CONSTANTS
    a1 = a1
    a2 = a2
    Allocators <- TwoAllocators
    ItemSize <- Different
    SlabBytes = 4096
    HeaderBytes = 64
    NrSlabs = 3
    ItemCounts = {3}
    NoGrowFlags <- NeverAsked
    MaxTotal = 4
SPECIFICATION Spec
INVARIANTS
    FreeListSound
    PagesOwned
    FirstSlabServes
