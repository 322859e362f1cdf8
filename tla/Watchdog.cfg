SPECIFICATION Spec
CONSTANTS
    NoManifest = NoManifest
    NumCorners = 2
    Requests <- SomeRequests
    ManualId <- ManualIds
    TickId <- TickIds
    TokenLimit = 3
    Tier1Cost = 1
    Tier2Cost = 2
    ActionLimits = {0, 1}
    MaxEntries = 4
    DayOf <- SomeDays
    Rosters <- SomeRosters
    MinEvidence = 2
    Step = 2
    Floor = 0
    Ceiling = 3
    Default = 0
    HistoryLimit = 2
INVARIANTS
    TypeOK
    AccountsAddUp
    StreakIsRight
    SpendAddsUp
    ManifestIsTheRun
    BarIsExplained
    BannerIsTrue
PROPERTIES
    RaiseIsEarned
CHECK_DEADLOCK FALSE
