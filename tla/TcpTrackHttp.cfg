SPECIFICATION FairSpec
CONSTANTS
    SeqMod = 16
    Isn = 0
    ClientBytes = 3
    ServerBytes = 0
    MaxSeg = 1
    MaxWindow = 1
    ToSocksCap = 1
    FromSocksCap = 1
    MaxFins = 1
    Port = "443"
    FirstUid = "app"
    AppProxy = "http"
    DefaultProxy = "none"
    FastOpen = {TRUE}
    IdShared = FALSE
    SocksReplies = {"ok"}
    Windows = {1}
CHECK_DEADLOCK FALSE
INVARIANTS
    ConnectFirst
PROPERTIES
    StopEndsRun
    WriterEnds
    ImplementsPipeToServer
