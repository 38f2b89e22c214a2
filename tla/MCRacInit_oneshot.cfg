SPECIFICATION Spec
CONSTANTS
    N = 3
    Configs <- Services
    BurstLimit = 2
    BurstWindow = 1
    MaxPid = 3
    MaxTime = 2
CHECK_DEADLOCK FALSE
INVARIANT OneshotActiveAfterExit
