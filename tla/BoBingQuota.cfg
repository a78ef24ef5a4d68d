SPECIFICATION Spec
CONSTANTS
    Publish = {p1, p2}
    Forward = {}
    Query = {}
    DayInit = {}
    Broadcast = {}
    Flags = {2}
    Quaternions = {q1, q2}
    Dice = 1
    Base = 1
    TuiWen = 3
    Cap = 12
    MaxKey = 2
    Faults = FALSE
CHECK_DEADLOCK FALSE
INVARIANT ThrowsWithinQuota
SYMMETRY Alike
