SPECIFICATION JudgeSpec
CONSTANTS
    NoSnapshot = NoSnapshot
    NoVerdict = NoVerdict
    NoDecision = NoDecision
    MaxCount = 1
    Queries = {q1, q2}
    Attempts = 3
    Jumps <- Bars
    MinCollisions = 1
    ReauditAt = 1
    Signatures <- SomeSignatures
INVARIANTS
    TypeOK
    FloorIsExact
    NothingCancelled
    RefusedMeansSilent
    DeathsReachTierTwo
    TiersAgree
    CreditWhereDue
    GateHolds
SYMMETRY QuerySymmetry
