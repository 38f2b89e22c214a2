SPECIFICATION MountSpec
CONSTANTS
    None = None
    Lba = {s0, m1, m2}
    Val = {0, 1}
    CacheMax = 2
    Tasks = {t1, t2}
    SB = s0
    DataLba = {m2}
    Cap = 1
    MaxTxn = 3
    IrqsOff = TRUE
    IoErrors = TRUE
INVARIANT CacheCoherent
PROPERTIES  MountCompletes
