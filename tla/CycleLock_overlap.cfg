SPECIFICATION Spec
CONSTANTS
    p1 = p1
    p2 = p2
    p3 = p3
    None = None
    Corrupt = Corrupt
    Proc <- TwoProcs
    StaleAfter = 1
    LongCycles = FALSE
    MaxCrashes = 0
    NoteCap = 2
INVARIANTS
    NeverOverlap
