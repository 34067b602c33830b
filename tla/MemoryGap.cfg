SPECIFICATION Spec
CONSTANTS
    t1 = t1
    t2 = t2
    t3 = t3
    w1 = w1
    w2 = w2
    a = a
    b = b
    NoAccess = NoAccess
    Nothing = Nothing
    Idle = Idle
    Turn = {t1, t2, t3}
    MaxStamp = 3
    Worker = {w1}
    Scope = {a, b}
    Plans <- OnePlan
    MaxAttempts = 1
    MaxTurns = 4
INVARIANTS
    OtherAccessCuts
CHECK_DEADLOCK FALSE
