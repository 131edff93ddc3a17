SPECIFICATION FairServerSpec
CONSTANTS
    InitialBackoff = 1
    MaxBackoff = 2
    MaxFails = 2
    MaxUpsets = 1
    HealthySvc <- MCHealthySvc
    ProbeTimeout = 5
    SelfProbeTimeout = 1
PROPERTY
    ServingStartsRegistration
