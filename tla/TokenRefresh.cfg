SPECIFICATION FairSpec
CONSTANTS
    RefreshMargin = 3
    ReuseDelta = 1
    Lifetimes <- MCLifetimes
    DiscoveryTimeout = 1
    ProbeTimeout = 2
    InitialBackoff = 1
    MaxBackoff = 4
INVARIANTS
    TypeOK
    ExpiredMeansTrying
    BackoffCountsFailures
PROPERTIES
    HealthyIsRecent
    TokenRecovers
    StopsWhenCancelled
