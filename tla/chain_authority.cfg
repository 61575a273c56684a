CONSTANTS
    Chains = {c1, c2}
    t1 = t1
    t2 = t2
    t3 = t3
    Tokens = {t1, t2, t3}
    Bound <- MCBound
    Plans <- MCPlans
    MaxWorld = 1
    None = None
SPECIFICATION Spec
\* Every chain may have ended.
CHECK_DEADLOCK FALSE
SYMMETRY Callers
INVARIANTS
    GrantedIsNotReplayable
