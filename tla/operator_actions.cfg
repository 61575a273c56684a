CONSTANTS
    Runs = {r1, r2}
    r1 = r1
    r2 = r2
    cache0 = cache0
    TopNotes = {"a"}
    NestedNotes = {"b"}
    Dirs = {cache0, d1}
    Files = {f1, f2}
    Same = {f1}
    None = None
    Root = Root
    Scenarios <- Mixed
SPECIFICATION Spec
\* Every run may be done.
CHECK_DEADLOCK FALSE
INVARIANTS
    FailureLeavesNothing
    AsideNamedElsewhere
PROPERTIES
    RemovesOnlyOwn
    SpendsFirst
