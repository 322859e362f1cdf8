SPECIFICATION FairSpec
CONSTANTS
    sweep = sweep
    push = push
    d1 = d1
    d2 = d2
    d3 = d3
    i1 = i1
    i2 = i2
    None = None
    Process <- Processes
    Decision <- Decisions
    Owner <- Owners
    Id <- Ids
    IdOf <- TwoAlike
    MaxAttempts = 4
    Dying = TRUE
INVARIANTS
    TypeOK
    Reconcilable
PROPERTIES
    ImplementsDiary
    EverythingSettles
CHECK_DEADLOCK FALSE
