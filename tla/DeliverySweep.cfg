SPECIFICATION Spec
CONSTANTS
    Notifs = {n1}
    Workers = {w1}
    NoMsg = NoMsg
    MaxRetries = 1
    MaxAttempts = 2
    MaxQueued = 1
    MaxFaults = 0
PROPERTY SweepGivesUp
CHECK_DEADLOCK FALSE
