SPECIFICATION FairSpec
CONSTANTS
    p1 = p1
    p2 = p2
    p3 = p3
    None = None
    Corrupt = Corrupt
    Proc <- ThreeProcs
    StaleAfter = 1
    LongCycles = TRUE
    MaxCrashes = 1
    NoteCap = 3
INVARIANTS
    TypeOK
    OverlapExplained
    OrphansNoted
    NoLockLeftBehind
PROPERTIES
    CyclesKeepRunning
