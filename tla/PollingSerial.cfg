\* No symmetry: it is unsound for a liveness property.
SPECIFICATION FairSpec
CONSTANTS
    Sections = {s1}
    Watchers = {u1}
    Workers = {w1}
    NoJob = NoJob
    MaxRetries = 1
    MaxFailures = 1
    MaxQueued = 1
    MaxOpenings = 1
    MaxEvents = 4
    MaxFaults = 1
INVARIANT TypeOK
PROPERTY OpeningReachesWatchers
CHECK_DEADLOCK FALSE
