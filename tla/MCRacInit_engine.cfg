SPECIFICATION Spec
CONSTANTS
    N = 3
    Configs <- MCConfigs
    BurstLimit = 2
    BurstWindow = 1
    MaxPid = 4
    MaxTime = 2
CHECK_DEADLOCK FALSE
INVARIANTS CycleExact DependenciesFirst OneProcess BurstBounded
PROPERTY ExitNoticed
