CONSTANTS
    Runs = {r1, r2}
    r1 = r1
    r2 = r2
    Procs = {p1, p2}
    p1 = p1
    p2 = p2
    Waves = {"A1", "A2", "O1", "B1", "B3", "B4", "X"}
    Names = {"n1", "n2", "n3", "n4", "n5", "n6"}
    Path <- MCPath
    Role <- MCRole
    Specs <- MCSpecs
    First <- MCFirst
    Dirs = {d1, d2}
    Calls <- MCCalls
    MaxEdits = 1
    None = None
SPECIFICATION FairSpec
\* Every call may have reported.
CHECK_DEADLOCK FALSE
INVARIANTS
    RefusalLeftNothing
    RecordedIsKept
    InstalledIsValidated
    TagIsEarned
PROPERTIES
    EveryRunReports
