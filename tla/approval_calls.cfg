CONSTANTS
    Approvals = {a1, a2}
    Payloads = {p1, p2}
    Consumers = {c1, c2}
    Auditors = {u1}
    None = None
    Lifetime = 1
    MaxTime = 1
SPECIFICATION Spec
\* Every call may be over.
CHECK_DEADLOCK FALSE
SYMMETRY ApprovalSymmetry
INVARIANTS
    TypeOK
    RefusedUnspent
    GrantOnRecord
    AuditSound
PROPERTIES
    SingleUseSpec
