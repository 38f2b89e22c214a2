SPECIFICATION CooperativeSpec
CONSTANTS
    MaxTasks = 4
    Quantum = 2
    MaxPid = 5
    Signals = {2, 19}
    Threads = TRUE
    Kthreads = 1
INVARIANT SchedInv
PROPERTY NoStarvation
