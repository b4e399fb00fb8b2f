SPECIFICATION Spec
CONSTANTS
    SeqMod = 16
    Isn = 0
    ClientBytes = 1
    ServerBytes = 1
    MaxSeg = 1
    MaxWindow = 1
    ToSocksCap = 1
    FromSocksCap = 1
    MaxFins = 2
    Port = "443"
    FirstUid = "app"
    AppProxy = "socks"
    DefaultProxy = "none"
    FastOpen = {FALSE}
    IdShared = TRUE
    SocksReplies = {"ok", "refused"}
    Windows = {1}
CHECK_DEADLOCK FALSE
INVARIANTS
    ClosedOnce
