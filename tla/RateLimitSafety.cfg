SPECIFICATION Spec
CONSTANTS
    Workers = {w1, w2}
    Limit = 2
    Window = 4
    MaxDelay = 1
    MaxLatency = 1
    MaxTime = 5
    MaxTries = 3
SYMMETRY Symmetric
INVARIANTS TypeOK WindowBounded RequestsBounded
CHECK_DEADLOCK FALSE
