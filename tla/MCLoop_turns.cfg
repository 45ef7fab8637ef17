CONSTANTS
    w1 = w1
    Workers = {w1}
    MaxFd = 2
    Listeners = {"tls"}
    TlsListeners = {"tls"}
    MaxConns = 0
    MaxClients = 3
    MaxSends = 2
    MaxNames = 0
SPECIFICATION FairSpec
INVARIANT LoopInv
PROPERTIES EveryClientAccepted EveryHandshakeRuns StopCloses
CHECK_DEADLOCK FALSE
