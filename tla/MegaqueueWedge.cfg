CONSTANTS
    Count = 4
    MaxItems = 7
    MaxCrashes = 3
SPECIFICATION Spec
INVARIANT NeverEmptyAndFull
