SPECIFICATION Spec
CONSTANTS
    None = None
    Lba = {s0, m1, m2}
    Val = {0, 1}
    CacheMax = 3
    SB = s0
    DataLba = {m2}
    Cap = 2
    MaxTxn = 3
    Tasks = {t1}
    IrqsOff = TRUE
    IoErrors = TRUE
PROPERTY CommittedLogIntact
