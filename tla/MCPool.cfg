SPECIFICATION FairSpec
CONSTANTS
    Threads = {t1, t2, t3}
    Slots = {s1, s2}
    MaxResources = 2
    MaxCalls = 2
INVARIANTS
    Exclusive
    NothingLost
    NoLostWakeup
PROPERTIES
    EveryWaitEnds
CHECK_DEADLOCK FALSE
