SPECIFICATION Spec
CONSTANTS
    a = a
    IdOf <- MCIdOf
    RawStatus <- MCRawStatus
    ListPageSize = 1
    ResyncEvery = 2
    NoReport = NoReport
    MaxRestarts = 1
PROPERTIES
    LiveStatusConverges
    GoneStatusConverges
