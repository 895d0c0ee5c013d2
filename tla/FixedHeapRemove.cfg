CONSTANTS
    Items = {1, 2, 3, 4, 5, 6}
    Key <- SixKeys
    max_items = 6
    Sizes = {6}
    NULL = 0
SPECIFICATION HeapSpec
INVARIANT RemoveKeepsHeap
