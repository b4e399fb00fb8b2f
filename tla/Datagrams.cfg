SPECIFICATION FairSpec
CONSTANTS
    q1 = q1
    q2 = q2
    q3 = q3
    q4 = q4
    p1 = p1
    p2 = p2
    MTU = 15000
    Requests <- MCRequests
    cacheKey <- MCKey
    Ttl = 1
    MaxTime = 2
    Parts <- MCParts
    Mixes <- MCMixes
    IPIds = {7, 8}
    Length <- MCLength
    WriteCap = 1
    FirstIPID = 65534
CHECK_DEADLOCK FALSE
INVARIANTS
    TypeOK
    Reassembled
    CachedAnswers
    AnswersInOrder
PROPERTIES
    AnswersWhole
