SPECIFICATION StorageSpec
CONSTANTS
    m1 = m1
    m2 = m2
    None = None
    Lba = {s0, m1, m2, d}
    Val = {0, 1}
    CacheMax = 3
    SB = s0
    DataLba = {d}
    Cap = 2
    MaxTxn = 3
    Tasks = {t1}
    IrqsOff = TRUE
    IoErrors = FALSE
INVARIANTS  NeverNameless ReturnedMeansDurable
PROPERTIES CommittedLogIntact CrashAtomic
SYMMETRY Symmetry
CHECK_DEADLOCK FALSE
