CONSTANTS
    N = 2
    Oversize = {}
    FirstKinds = {"plain", "defer"}
    ResumeKinds = {"file"}
    StreamModes = {"gen", "tick"}
    MaxPending = 9
    SlowFactor = 1
    DrainMax = 1
    MaxTotal = 3
    FileUnits = 2
    StreamLen = 1
    MaxPush = 0
SPECIFICATION Spec
INVARIANTS
    NothingStalls
CHECK_DEADLOCK FALSE
