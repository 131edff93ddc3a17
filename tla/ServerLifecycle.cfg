SPECIFICATION FairOsacServerSpec
CONSTANTS
    InitialBackoff = 1
    MaxBackoff = 2
    MaxFails = 2
    MaxUpsets = 1
    HealthySvc <- MCHealthySvc
    ProbeTimeout = 5
    SelfProbeTimeout = 1
INVARIANTS
    ServerTypeOK
    OnlyRefusalIsFatal
    BackoffCountsFailures
    RegistersOnlyWhenReady
    SuccessMeansDrained
PROPERTIES
    ServingIsRegistered
    ProcessEnds
