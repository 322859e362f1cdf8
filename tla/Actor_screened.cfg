SPECIFICATION Spec
CONSTANTS
    h1 = h1
    h2 = h2
    e1 = e1
    e2 = e2
    e3 = e3
    rescore = rescore
    flag = flag
    None = None
    Invalid = Invalid
    Handler <- TwoHandlers
    Envelope <- TwoEnvelopes
    Kinds = {"plain", "screened"}
    Action <- Verbs
    Decisions <- TwoDecisions
    Wirings <- AsSelected
    ActionLimit = 1
    TokenLimit = 0
    Tier2Cost = 1
    MaxSignatures = 2
    MaxDeliveries = 1
    MaxCrashes = 0
INVARIANTS
    ScreenedIsNoRestraint
CHECK_DEADLOCK FALSE
