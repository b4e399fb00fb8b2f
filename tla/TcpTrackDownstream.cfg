SPECIFICATION FairSpec
CONSTANTS
    SeqMod = 16
    Isn = 0
    ClientBytes = 0
    ServerBytes = 5
    MaxSeg = 2
    MaxWindow = 2
    ToSocksCap = 1
    FromSocksCap = 1
    MaxFins = 1
    Port = "443"
    FirstUid = "unknown"
    AppProxy = "socks"
    DefaultProxy = "http"
    FastOpen = {FALSE}
    IdShared = TRUE
    SocksReplies = {"ok"}
    Windows = {0, 2}
CHECK_DEADLOCK FALSE
INVARIANTS
    DownstreamFifo
    ClosedOnce
PROPERTIES
    ReaderEnds
    ImplementsPipeToClient
