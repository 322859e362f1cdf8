SPECIFICATION FairSpec
CONSTANTS
    h1 = h1
    h2 = h2
    e1 = e1
    e2 = e2
    e3 = e3
    rescore = rescore
    flag = flag
    None = None
    Invalid = Invalid
    Handler <- TwoHandlers
    Envelope <- Envelopes
    Kinds = {"plain", "screened", "poison"}
    Action <- Verbs
    Decisions <- TwoDecisions
    Wirings <- AllWirings
    ActionLimit = 1
    TokenLimit = 2
    Tier2Cost = 1
    MaxSignatures = 2
    MaxDeliveries = 2
    MaxCrashes = 1
INVARIANTS
    TypeOK
    NothingLostOnAck
    RecordIsExact
    PaidFor
    LedgerAgrees
    RestraintIsDecided
PROPERTIES
    EventuallyJournaled
CHECK_DEADLOCK FALSE
