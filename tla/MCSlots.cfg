\* three workers compete for two slots and four descriptors
CONSTANTS
    w1 = w1
    w2 = w2
    w3 = w3
    Workers = {w1, w2, w3}
    Fds = {1, 2, 3, 4}
    MaxConns = 2
SPECIFICATION Spec
SYMMETRY Symmetry
INVARIANTS CountExact WithinLimit FdsMatch
