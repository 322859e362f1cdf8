SPECIFICATION Spec
CONSTANTS
    s1 = s1
    s2 = s2
    NoSnapshot = NoSnapshot
    Garbled = Garbled
    Failed = Failed
    Sweeper <- TwoSweepers
    NumCorners = 1
    Records <- NoiseOrDeath
    Queries = {q1}
    LaneGroups <- TwoSteps
    LaneFailures <- FatalLane
    JunkLanes <- NoJunk
    TokenLimit = 1
    Tier1Cost = 2
    MovesAside = FALSE
    Dying = TRUE
SYMMETRY SweeperSymmetry
INVARIANTS
    BaselineIsReal
    FatalityOnRecord
    OneRecordEach
