CONSTANTS
    N = 2
    Oversize = {1, 2}
    FirstKinds = {"plain", "big", "file", "stream", "defer", "bad"}
    ResumeKinds = {"plain", "stream", "defer"}
    StreamModes = {"gen", "tick"}
    MaxPending = 2
    SlowFactor = 1
    DrainMax = 1
    MaxTotal = 3
    FileUnits = 2
    StreamLen = 1
    MaxPush = 1
SPECIFICATION Spec
INVARIANTS
    ResponsesInOrder
    WriteDeadline
PROPERTIES
    NothingAfterShutdown
CHECK_DEADLOCK FALSE
