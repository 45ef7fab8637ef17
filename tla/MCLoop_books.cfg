CONSTANTS
    w1 = w1
    w2 = w2
    Workers = {w1, w2}
    MaxFd = 2
    Listeners = {"tls"}
    TlsListeners = {"tls"}
    MaxConns = 1
    MaxClients = 2
    MaxSends = 2
    MaxNames = 1
SPECIFICATION Spec
SYMMETRY Symmetry
INVARIANT RightConnection
PROPERTY KeepsSlots
CHECK_DEADLOCK FALSE
