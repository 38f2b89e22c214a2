SPECIFICATION FairSpec
CONSTANTS
    MaxTasks = 4
    Quantum = 2
    MaxPid = 4
    Signals = {9}
    Threads = FALSE
    Kthreads = 0
PROPERTIES NoStarvation
