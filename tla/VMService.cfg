SPECIFICATION FairSpec
CONSTANTS
    c1 = c1
    c2 = c2
    v1 = v1
    None = None
    Client = {c1, c2}
    VmId = {v1}
    VmSpec <- MCVmSpec
    MaxNets = 3
    PollRounds = 1
    MaxInt32 = 1024
    RpcCode <- MCRpcCode
    LostCode <- MCLostCode
INVARIANTS
    TypeOK
    SubnetsBoundedByConcurrency
    AttachedNetworkIsReady
    AnswersAreTrue
    DisksAsRequested
PROPERTIES
    RequestsEnd
