SPECIFICATION Spec
CONSTANTS
    Matrix = {29}
    MaxInt32 = 3
    defaultPageSize = 2
    maxPageSize = 3
    None = None
    MaxClusters = 2
    Name = {"n1", "n2"}
    CreateSpec <- MCSpec
    NodeSets <- MCNodeSets
    Catalogs <- MCCatalogs
    OsacState = {"PROGRESSING", "READY"}
    OsacPages <- MCOsacPages
    PageSizes <- MCPageSizes
    RpcCode <- MCRpcCode
    LostCode = {"Unavailable"}
INVARIANTS
    TypeOK
    CreateAnswersAreTrue
    GetAnswersAreTrue
    CreatedAsRequested
    ListingIsComplete
