SPECIFICATION Spec
CONSTANTS
    Publish = {p1, p2}
    Forward = {}
    Query = {}
    DayInit = {d1}
    Broadcast = {}
    Flags = {1, 14}
    Quaternions = {q1, q2}
    Dice = 2
    Base = 1
    TuiWen = 3
    Cap = 12
    MaxKey = 2
    Faults = FALSE
CHECK_DEADLOCK FALSE
INVARIANTS ScoresAgree RowsSound NeverOverdrawn ReplayIsBanned
SYMMETRY Alike
