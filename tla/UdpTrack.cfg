SPECIFICATION FairSpec
CONSTANTS
    FromTunCap = 1
    WriteCap = 1
CHECK_DEADLOCK FALSE
INVARIANTS
    ClosedOnce
    SocketsReleased
PROPERTIES
    ImplementsTrackLife
    TrackEnds
    HelpersEnd
    DeliveryReturns
