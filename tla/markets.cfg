SPECIFICATION MarketsSpec
CONSTANTS
    w1 = w1  w2 = w2  alice = alice  bob = bob  j1 = j1  j2 = j2
    JobIds = {j1, j2}
    Workers = {w1, w2}
    WalletOf <- MCWalletOf
    Stake <- MCStake
    Cards <- MCCards
    Posted <- MCPosted
    Prices = {1}
    Needs = {4}
    ProofOf <- MCProofOf
    MaxConcurrent = 1
    FailStatuses = {"ASSIGNED"}
    NoWallet = NoWallet
    d1 = d1  r1 = r1  i1 = i1  i2 = i2
    GpuJobs = {i1, i2}
    PostedBodies <- MCPostedBodies
    PostedRewards = {2}
    MaxPosted = 1
    GpuWorkers = {d1, r1}
    GpuDaemons = {d1}
    GpuWallet <- MCGpuWallet
    GpuStake <- MCGpuStake
    GpuVram <- MCGpuVram
    Loaded <- MCLoaded
    InferAsk <- MCInferAsk
    RenderAsk <- MCRenderAsk
    NoOne = NoOne
    Deposits <- MCDeposits
    Increments <- MCIncrements
    MaxNonce = 4
    MaxElsewhere = 2
INVARIANTS
    ComputeConsistent
    
    ReceiptsCountOnce
PROPERTIES
    ImplementsJobLife
    PendingEnds
    ImplementsGpuLife
    AssignedEnds
CHECK_DEADLOCK FALSE
