CONSTANTS
    N = 2
    Oversize = {}
    FirstKinds = {"plain", "big", "file", "stream", "defer", "bad"}
    ResumeKinds = {"plain", "stream"}
    StreamModes = {"gen", "tick"}
    MaxPending = 9
    SlowFactor = 1
    DrainMax = 1
    MaxTotal = 4
    FileUnits = 2
    StreamLen = 1
    MaxPush = 0
SPECIFICATION FairSpec
INVARIANTS
    NoStaleDeadline
PROPERTIES
    EveryRequestAnswered
CHECK_DEADLOCK FALSE
