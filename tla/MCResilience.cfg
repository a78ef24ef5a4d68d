SPECIFICATION SpecPart
CONSTANTS
    Callers = {c1, c2, c3}
    MaxRequests = 2
    Interval = 3
    Timeout = 2
    TripAfter = 2
    MaxTime = 7
    MaxAdmitted = 4
INVARIANTS CountsAddUp PoolSafety LimiterSafety GuardSafety
PROPERTIES OnlyProbesClose OpenForTimeout WedgedIsForever
    ResilienceSteps ResilienceLiveness
CHECK_DEADLOCK FALSE
