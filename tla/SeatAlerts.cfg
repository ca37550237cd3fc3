SPECIFICATION SystemSpec
CONSTANTS
    Sections = {s1}
    Watchers = {u1}
    Workers = {w1}
    Senders = {v1}
    NoJob = NoJob
    MaxRetries = 0
    MaxFailures = 0
    MaxQueued = 1
    MaxOpenings = 1
    MaxEvents = 3
    MaxFaults = 1
    SendRetries = 0
    MaxAttempts = 1
    MaxSendFaults = 1
INVARIANT OneAlertPerOpening
PROPERTY ImplementsDelivery
CHECK_DEADLOCK FALSE
