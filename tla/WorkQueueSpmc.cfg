CONSTANTS
    max_items = 8
    MaxPushed = 9
SPECIFICATION Spec
INVARIANT SpmcExactlyOnce
