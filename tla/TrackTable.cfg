SPECIFICATION FairSpec
CONSTANTS
    Conns = {c1}
    TcpTracks = {t1, t2}
    UdpTracks = {u1, u2}
    Nil = Nil
    WriteCap = 1
    MaxAnswers = 1
CHECK_DEADLOCK FALSE
INVARIANTS
    LiveIndexed
    UdpEntryKept
    StopReachesAll
PROPERTIES
    StopIsFinal
    TracksLive
    StopReturnsUnlessHeld
