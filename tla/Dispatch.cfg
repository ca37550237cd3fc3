\* No symmetry: it is unsound for a liveness property.
SPECIFICATION FairSpec
CONSTANTS
    Sections = {s1, s2, s3}
    Abandonable = {s3}
    Limit = 2
    ClosedWait = 1
    OpenWait = 2
    CapWait = 2
    MaxExponent = 2
    MaxQueued = 1
    MaxFaults = 1
INVARIANT TypeOK
PROPERTIES NobodyOvertakes BacklogDrains
CHECK_DEADLOCK FALSE
