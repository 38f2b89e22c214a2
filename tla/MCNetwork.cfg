SPECIFICATION Spec
CONSTANTS
    Gateway = "gateway"
    Dns = "dns"
    Others = {"other"}
    Macs = {"m1", "m2"}
    CacheSize = 2
    Names = {"n1", "n2"}
    BootName = "boot"
    RetryAfter = 0
    GiveUpAfter = 0
    MaxTick = 2
    MaxEcho = 1
    MaxWire = 2
    None = None
    Refused = Refused
    Procs = {1, 2}
    Fds = {3, 4}
    Ports = {80}
    Backlogs = {0}
    MaxSockets = 3
    MaxBuf = 1
    MaxConns = 1
    Size = 2
    IdxMod = 4
    RxBufs = 2
    MaxFrames = 5
INVARIANTS
    TcpStreams SocketPairs DescriptorsConserved FramesInOrder ArpLatest 
 
CHECK_DEADLOCK FALSE
