\* Functions return and stop; so do the ladder and a key after MaxUses.
SPECIFICATION Spec
CHECK_DEADLOCK FALSE
CONSTANTS
    W = 4
    Window = 2
    NewtonSteps = 2
    MinBits = 8
    MaxBits = 16
    Keys <- MCKeys
    Blinds = {0, 1, 2, 6, 11, 90}
    Messages <- MCMessages
    FaultMessages = {2, 77, 142}
    Faults <- MCFaults
    MaxUses = 3
    P = 229
    A24 = 37
    Bits = 8
    Points <- MCPoints
    M = 8
    C = 5
    Block = 2
    Lanes = 8
    Rounds = 10
INVARIANTS
    NothingWrongReleased
    SigningRight
    X25519Right
    ArithmeticRight
    ChecksumRight
    GcmRight
