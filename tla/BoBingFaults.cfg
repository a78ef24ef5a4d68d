SPECIFICATION Spec
CONSTANTS
    Publish = {p1}
    Forward = {f1}
    Query = {c1}
    DayInit = {}
    Broadcast = {b1}
    Flags = {0, 14, 18}
    Quaternions = {q1}
    Dice = 1
    Base = 1
    TuiWen = 1
    Cap = 2
    MaxKey = 1
    Faults = TRUE
CHECK_DEADLOCK FALSE
INVARIANTS ConditionWithinGrants
