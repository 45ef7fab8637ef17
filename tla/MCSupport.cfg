\* A parse, a flight or a bounded run of the others ends.
SPECIFICATION SupportSpec
CHECK_DEADLOCK FALSE
CONSTANTS
    Parts = {"hello", "flight", "certs", "files", "wait", "heap"}
    Radix = 8
    RandomLen = 1
    MaxSid = 1
    ShareLen = 2
    MaxExt = 6
    V12 = 3
    V13 = 4
    X25519Group = 29
    Suite = 19
    SigPss = 20
    ProtoH11 <- Http11Bytes
    ProtoH2 <- Http2Bytes
    TlsConns = {s, t}
    Versions = {1, 2}
    MaxChanges = 3
    MaxPicks = 2
    Paths = {p, q}
    Sizes = {1, 2, 3}
    InlineMax = 2
    CacheMax = 3
    MaxWritten = 1
    MaxRequests = 3
    Waiters = {u, v}
    Ms = 2
    Sec = 3
    MaxWait = 4
    MaxClock = 5
    Dues = {1, 2, 3}
    MaxTimers = 6
INVARIANTS
    HelloRight
    FlightRight
    PairsAlive
    NoMissedChange
    FdsBalanced
    
    PromiseKept
    WaitsRight
    EarliestFirst
PROPERTIES
    NewPairServed
