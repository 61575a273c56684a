CONSTANTS
    Txns = {t1, t2, t3}
    Docs = {d0}
    Initial = d0
    None = None
    Unread = Unread
    Absent = Absent
    Profiles <- Cooperative
    MaxEdits = 0
SPECIFICATION Spec
\* Every caller may be done.
CHECK_DEADLOCK FALSE
PROPERTIES
    AtomicSpec
    BrieflyVacant
