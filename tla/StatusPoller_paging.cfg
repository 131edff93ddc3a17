SPECIFICATION Spec
CONSTANTS
    a = a  b = b
    IdOf <- MCIdOf
    RawStatus <- MCRawStatus
    ListPageSize = 1
    ResyncEvery = 2
    NoReport = NoReport
    HealthyKind = {"cluster", "vm"}
INVARIANT
    NoFalseDeletion
