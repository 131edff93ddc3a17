SPECIFICATION FairSpec
CONSTANTS
    k1 = k1  k2 = k2
    v1 = v1  v2 = v2
    c1 = c1
    NoValue = NoValue
    Key <- MCKey
    Value <- MCValue
    Caller <- MCCaller
    Healthy <- MCHealthy
    InitialBackoff = 1
    MaxBackoff = 2
INVARIANTS
    TypeOK
    NothingDropped
    NoLostWakeup
    AttemptedKeyIsPending
    BackoffOnlyWhilePending
PROPERTIES
    DeliverySpec
    LatestDelivered
    StopsWhenCancelled
