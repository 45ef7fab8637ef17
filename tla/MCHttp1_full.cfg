CONSTANTS
    N = 3
    Oversize = {}
    FirstKinds = {"plain", "big", "file", "stream", "bad"}
    ResumeKinds = {"plain", "stream", "defer"}
    StreamModes = {"gen"}
    MaxPending = 2
    SlowFactor = 1
    DrainMax = 1
    MaxTotal = 6
    FileUnits = 2
    StreamLen = 1
    MaxPush = 0
SPECIFICATION FairSpec
PROPERTIES
    EveryRequestAnswered
CHECK_DEADLOCK FALSE
