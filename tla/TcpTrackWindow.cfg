SPECIFICATION Spec
CONSTANTS
    SeqMod = 16
    Isn = 0
    ClientBytes = 1
    ServerBytes = 0
    MaxSeg = 1
    MaxWindow = 1
    ToSocksCap = 1
    FromSocksCap = 1
    MaxFins = 2
    Port = "other"
    FirstUid = "app"
    AppProxy = "none"
    DefaultProxy = "none"
    FastOpen = {FALSE}
    IdShared = TRUE
    SocksReplies = {"ok"}
    Windows = {1}
CHECK_DEADLOCK FALSE
INVARIANTS
    WindowRestored
