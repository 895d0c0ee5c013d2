CONSTANTS
    o1 = o1
    o2 = o2
    o3 = o3
    t1 = t1
    t2 = t2
    NrCells = 6
    CellBytes = 4
    HdrBytes = 2
    MaxByte = 3
    Sizes <- FittingSizes
    Payloads <- SomePayloads
    Explored = {}
    Threads <- OneThread
    Objects <- SomeObjects
SYMMETRY ObjectNames
SPECIFICATION LogSpec
INVARIANTS
    NoOverlap
    HeadersTrue
    EmptyServes
