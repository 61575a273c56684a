CONSTANTS
    Projects = {p1, p2, p3}
    Enrolled = {p1, p2}
    Locations = {l1, l2, l3}
    Texts = {x}
    Sessions = {s1, s2}
    None = None
    NowLimit = 2
    MaxRevision = 2
    MaxAuthored = 1
    MaxBackups = 2
SPECIFICATION Spec
\* The counters may all be at their bounds.
CHECK_DEADLOCK FALSE
SYMMETRY LedgerSymmetry
INVARIANTS
    StaleDraftRefused
