SPECIFICATION LockSpec
CONSTANTS
    s1 = s1
    s2 = s2
    d1 = d1
    d2 = d2
    p1 = p1
    p2 = p2
    p3 = p3
    Proc = {p1, p2}
    Writer = {p1, p2}
    MayDie = {}
    LockMayFail = {}
    State = {s1, s2}
    Dev = {d1, d2}
    Setups <- Circular
PROPERTY Terminates
CHECK_DEADLOCK FALSE
