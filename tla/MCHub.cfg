CONSTANTS
    t1 = t1
    t2 = t2
    Threads = {t1, t2}
    N = 2
    MaxPosts = 2
    MaxBoth = 2
    MaxServes = 2
SPECIFICATION FairSpec
INVARIANTS NoLostWakeup NoWriteAfterClose
PROPERTIES KeepsMailboxPromise StopEnds
CHECK_DEADLOCK FALSE
