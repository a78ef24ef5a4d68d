SPECIFICATION Spec
CONSTANTS
    Student = {s1, s2}
    Task = {t1, t2}
    Client = {c1, c2}
    Ops = {"init", "rank", "pay", "appraise"}
    Faults = {"redis", "db", "mq", "expire"}
    MaxRequests = 3
    MaxBreak = 1
    MaxAppraisal = 1
CHECK_DEADLOCK FALSE
SYMMETRY Alike
INVARIANTS IndexHasOneHolder CacheAgrees
PROPERTIES StoredOnce
