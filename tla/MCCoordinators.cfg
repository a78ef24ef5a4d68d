SPECIFICATION SpecPart
CONSTANTS
    N = 2
    Retrier = {r1, r2}
    MaxRetries = 1
    Accepts = {"failed"}
    Lossy = TRUE
    Caller = {c1, c2}
    Begins = 2
    Run = {c1, c2}
    SagaSteps = 4
    RetryCount = 1
    Compensable = {1, 2, 4}
INVARIANTS ConfirmNeedsAllAcks ConfirmedIsReal TCCSafety SagaSafety
PROPERTIES SagaUndoBackwards CallsReturn
CHECK_DEADLOCK FALSE
