\* A closed connection, with no session left, is the end.
SPECIFICATION TlsSpec
CHECK_DEADLOCK FALSE
CONSTANTS
    BioCap = 4
    MaxRecord = 5
    MaxPlain = 2
    OutRecords = 2
    KuRoom = 2
    KuSize = 1
    RekeyAt = 3
    MaxKeyUpdates = 2
    FlightSeq = 4
    FlightSize = 5
    SndCap = 4
    Responses = {1, 5}
    MaxApp = 2
    MaxWrites = 2
    MaxSessions = 2
    MaxInputs = 3
INVARIANTS
    NonceNeverReused
    ClientOpensAll
    OutFits
    ContentInOrder
    NoStrandedInput
