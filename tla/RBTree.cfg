CONSTANTS
    Nodes = {1, 2, 3, 4, 5, 6, 7, 8, 9, 10, 11, 12}
    Key <- KeysWithTwin
    NULL = 0
SPECIFICATION Spec
INVARIANTS
    RedBlack
    FindsAll
    NeighboursInOrder
