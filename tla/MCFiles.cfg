SPECIFICATION Spec
CONSTANTS
    Nil = Nil
    Procs = {1, 2}
    InitProc = 1
    MaxFds = 2
    PipeCap = 2
    NBytes = 3
    MaxWrite = 2
    Tasks = {1, 2}
    InitTask = 1
    Uids = {0, 1}
    Gids = {0}
    Names = {"a"}
    Modes <- MCModes
    MaxInodes = 3
    MaxFiles = 1
INVARIANTS FsckClean FileContents TmpTree  ClosedIsUnreferenced
PROPERTIES PipeIsChannel ReadersReturn 
CHECK_DEADLOCK FALSE
