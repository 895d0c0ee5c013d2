CONSTANTS
    t1 = t1
    t2 = t2
    t3 = t3
    t4 = t4
    NULL = NULL
    Timers <- TwoTimers
    max_timers = 2
    Delays = {1}
    IntBits = 3
    MaxTime = 5
    MaxArms = 4
    MaxDisarms = 0
SPECIFICATION Spec
INVARIANT SortedByTime
