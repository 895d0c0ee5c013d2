CONSTANTS
    n1 = n1
    n2 = n2
    n3 = n3
    n4 = n4
    LIST_POISON_NEXT = LIST_POISON_NEXT
    LIST_POISON_PREV = LIST_POISON_PREV
    FREED = FREED
    NULL = NULL
    Nodes <- MCNodes
    KeyOf <- MCKeyOf
    Hash <- MCHash
    BitAnd <- MCBitAnd
    BucketCounts = {2, 3, 4}
    Unreadable = {}
    DeletesLate = FALSE
SPECIFICATION Spec
INVARIANT BucketsAreRings
INVARIANT FindAgrees
