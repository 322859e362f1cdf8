SPECIFICATION Spec
CONSTANTS
    s1 = s1
    s2 = s2
    NoSnapshot = NoSnapshot
    Garbled = Garbled
    Failed = Failed
    Sweeper <- OneSweeper
    NumCorners = 1
    Records <- TwoRecords
    Queries = {q1}
    LaneGroups <- AtOnce
    LaneFailures <- FatalLane
    JunkLanes <- NoJunk
    TokenLimit = 0
    Tier1Cost = 2
    MovesAside = TRUE
    Dying = TRUE
INVARIANTS
    CommittedIsSettled
