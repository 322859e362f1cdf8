SPECIFICATION FairSpec
CONSTANTS
    s1 = s1
    s2 = s2
    NoSnapshot = NoSnapshot
    Garbled = Garbled
    Failed = Failed
    Sweeper <- OneSweeper
    NumCorners = 1
    Records <- ThreeRecords
    Queries = {q1, q2}
    LaneGroups <- AtOnce
    LaneFailures <- Outages
    JunkLanes <- Junk
    TokenLimit = 3
    Tier1Cost = 2
    MovesAside = TRUE
    Dying = TRUE
INVARIANTS
    TypeOK
    BaselineIsReal
    FatalityOnRecord
PROPERTIES
    NeverBlindForever
