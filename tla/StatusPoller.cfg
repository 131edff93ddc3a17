SPECIFICATION FairSpec
CONSTANTS
    a = a  b = b
    IdOf <- MCIdOf
    RawStatus <- MCRawStatus
    ListPageSize = 2
    ResyncEvery = 2
    NoReport = NoReport
    HealthyKind = {"vm"}
INVARIANTS
    TypeOK
    CacheIsLastReport
    OnlyGapsMislead
PROPERTIES
    DeletedOnce
    ReportsConverge
    LoopGoesOn
