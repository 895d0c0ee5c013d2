CONSTANTS
    t1 = t1
    t2 = t2
    t3 = t3
    t4 = t4
    NULL = NULL
    Timers <- FourTimers
    max_timers = 3
    Delays = {1}
    IntBits = 2
    MaxTime = 3
    MaxArms = 4
    MaxDisarms = 1
SPECIFICATION FairSpec
INVARIANTS
    ArmedIsPending
    EarliestFirst
    FiresOnce
PROPERTIES
    SleepIsSafe
    ArmedFires
