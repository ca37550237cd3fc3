SPECIFICATION Spec
CONSTANTS
    Sections = {s1}
    Watchers = {u1}
    Workers = {w1, w2}
    NoJob = NoJob
    MaxRetries = 0
    MaxFailures = 1
    MaxQueued = 1
    MaxOpenings = 1
    MaxEvents = 3
    MaxFaults = 1
SYMMETRY Symmetric
INVARIANTS HistoryMatchesStatus MessageAfterCommit AlertsComeFromOpenings OpeningsAreReal
PROPERTIES OpeningIsRecognised ClosedIsPrompt
CHECK_DEADLOCK FALSE
