SPECIFICATION FairSpec
CONSTANTS
    Student = {s1, s2}
    Task = {t1, t2}
    Client = {c1, c2}
    Ops = {"init", "rank"}
    Faults = {}
    MaxRequests = 3
    MaxBreak = 0
    MaxAppraisal = 0
CHECK_DEADLOCK FALSE
INVARIANTS RankedIsCovered PublishedIsPending
PROPERTIES MadeIsStored
