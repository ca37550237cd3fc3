\* No symmetry: it is unsound for a liveness property.
SPECIFICATION FairSpec
CONSTANTS
    Notifs = {n1}
    Workers = {w1, w2}
    NoMsg = NoMsg
    MaxRetries = 1
    MaxAttempts = 2
    MaxQueued = 1
    MaxFaults = 2
INVARIANTS TypeOK SendingNeverCommitted ClaimIsExclusive AttemptsCountOutcomes DeliveryAccounted
PROPERTIES OutcomeIsFinal ImplementsLedger AlertResolved
CHECK_DEADLOCK FALSE
