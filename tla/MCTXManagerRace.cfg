SPECIFICATION Spec
CONSTANTS
    N = 2
    Node = {n1}
    Home = n1
    Foreground = fg
    MaxAttempt = 1
    MaxAge = 1
    MaxCrash = 0
INVARIANTS ConfirmNeedsAllAcks CancelHasCause LogIsBacked SettledIsClaimed
