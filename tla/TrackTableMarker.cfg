SPECIFICATION FairSpec
CONSTANTS
    Conns = {c1}
    TcpTracks = {t1, t2}
    UdpTracks = {u1}
    Nil = Nil
    WriteCap = 1
    MaxAnswers = 1
CHECK_DEADLOCK FALSE
PROPERTIES
    BlockedReaderEnds
