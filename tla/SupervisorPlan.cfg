SPECIFICATION Spec
CONSTANTS
    t1 = t1
    t2 = t2
    t3 = t3
    w1 = w1
    w2 = w2
    a = a
    b = b
    NoAccess = NoAccess
    Nothing = Nothing
    Idle = Idle
    Turn = {t1, t2}
    MaxStamp = 2
    Worker = {w1, w2}
    Scope = {a, b}
    Plans <- ThreePlans
    MaxAttempts = 2
    MaxTurns = 1
SYMMETRY Symmetry
INVARIANTS
    FirstPlanActs
    ActsAsPermitted
    ContextStaysInScope
CHECK_DEADLOCK FALSE
