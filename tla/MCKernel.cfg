SPECIFICATION KernelSpec
CONSTANTS
    Callers = {1, 2}
    Total = 5
    WordBits = 2
    Reserved = {2}
    MaxCount = 2
    Initial = 8
    Grow = 4
    FrameUnits = 4
    MaxHeap = 16
    Extents = {8, 16}
    Sizes = {1, 3}
    Aligns = {1, 4}
    MaxLive = 3
    Nil = Nil
    MaxTasks = 5
    Quantum = 2
    MaxPid = 5
    Signals = {2}
    Threads = FALSE
    Kthreads = 0
    ThreadCalls = FALSE
    Focus = {"phys", "heap", "space", "processes"}
INVARIANTS
    FramesExclusive HeapSound HeapBounded  
    ParentAlive NoLostWakeup PageTablesLive
CHECK_DEADLOCK FALSE
