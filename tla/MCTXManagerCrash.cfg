SPECIFICATION FairSpec
CONSTANTS
    N = 1
    Node = {n1}
    Home = n1
    Foreground = fg
    MaxAttempt = 2
    MaxAge = 2
    MaxCrash = 1
PROPERTIES EventuallySettled EventuallyReturns
