SPECIFICATION Spec
CONSTANTS
    N = 1
    Node = {n1, n2}
    Home = n1
    Foreground = fg
    MaxAttempt = 2
    MaxAge = 2
    MaxCrash = 0
PROPERTY ImplementsTCC
INVARIANT OneSecondPhaseRun
