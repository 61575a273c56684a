CONSTANTS
    o1 = o1
    o2 = o2
    o3 = o3
    b1 = b1
    b2 = b2
    b3 = b3
    k1 = k1
    k2 = k2
    f1 = f1
    f2 = f2
    f3 = f3
    Obls = {o1, o2, o3}
    FollowUps = {o1, o2}
    Carries <- MCCarries
    Files = {f1, f2, f3}
    None = None
    Criteria = {k1, k2}
    Blockers = {b1, b2, b3}
    Ledger0 = Ledger0
    Freeze = Freeze
    Gates = {Ledger0, Freeze}
    Disks <- MCDisks
    Closures <- MCClosures
    Phases <- MCPhases
    DepSets <- MCDepSets
    Contents <- MCContents
    MaxEdits = 2
SPECIFICATION Spec
\* A call ends.
CHECK_DEADLOCK FALSE
INVARIANTS
    ClosedIsProven
    QueueIsSound
    FreezeIsCurrent
    PhaseIsBacked
