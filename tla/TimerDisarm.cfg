CONSTANTS
    t1 = t1
    t2 = t2
    t3 = t3
    t4 = t4
    NULL = NULL
    Timers <- TwoTimers
    max_timers = 2
    Delays = {1}
    IntBits = 8
    MaxTime = 3
    MaxArms = 4
    MaxDisarms = 1
SPECIFICATION Spec
INVARIANT DisarmedStaysQuiet
