SPECIFICATION Spec
CONSTANTS
    Sections = {s1, s2, s3}
    Destinations = {d1, d2}
    Requests = {r1, r2}
    Limit = 1
SYMMETRY Symmetric
INVARIANTS TypeOK OvershootBounded AcceptedMeansWatched NoOrphanSection
