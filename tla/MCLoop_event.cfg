CONSTANTS
    w1 = w1
    Workers = {w1}
    MaxFd = 2
    Listeners = {"plain"}
    TlsListeners = {}
    MaxConns = 0
    MaxClients = 3
    MaxSends = 2
    MaxNames = 2
SPECIFICATION Spec
INVARIANT RightEvent
CHECK_DEADLOCK FALSE
