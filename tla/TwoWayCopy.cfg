SPECIFICATION FairSpec
CONSTANTS
    Conn = {c1}
CHECK_DEADLOCK FALSE
INVARIANTS
    BuffersExclusive
PROPERTIES
    PairEnds
    CopiersSettle
