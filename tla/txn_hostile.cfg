CONSTANTS
    Txns = {t1, t2}
    Docs = {d0, d1}
    Initial = d0
    None = None
    Unread = Unread
    Absent = Absent
    Profiles <- Hostile
    MaxEdits = 1
SPECIFICATION Spec
\* Every caller may be done.
CHECK_DEADLOCK FALSE
INVARIANTS
    TypeOK
    Preserved
    NoLostUpdate
    RefusedNotInstalled
    Durable
    QuarantineNamed
PROPERTIES
    EveryCallEnds
