SPECIFICATION Spec
CONSTANTS
    SeqMod = 16
    Isn = 13
    ClientBytes = 2
    ServerBytes = 0
    MaxSeg = 2
    MaxWindow = 2
    ToSocksCap = 1
    FromSocksCap = 1
    MaxFins = 2
    Port = "other"
    FirstUid = "app"
    AppProxy = "none"
    DefaultProxy = "none"
    FastOpen = {FALSE}
    IdShared = TRUE
    SocksReplies = {"ok"}
    Windows = {2}
CHECK_DEADLOCK FALSE
INVARIANTS
    TypeOK
    UpstreamFifo
    SocketReleased
PROPERTIES
    ImplementsTrackLife
