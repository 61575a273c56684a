CONSTANTS
    None = None
    Disks <- MCDisks
    Edited <- MCEdited
    Programs <- MCPrograms
    TraceContracts <- MCContracts
    MaxEdits = 2
SPECIFICATION Spec
\* A gate ends.
CHECK_DEADLOCK FALSE
INVARIANTS
    AcceptedIsEligible
    EligibleIsWitnessed
    BlockedIsEnvironment
    GovernedIsEligible
PROPERTIES
    GateEnds
