SPECIFICATION Spec
CONSTANTS
    MaxTasks = 5
    Quantum = 1
    MaxPid = 6
    Signals = {9}
    Threads = FALSE
    Kthreads = 0
INVARIANTS OrphansReaped
