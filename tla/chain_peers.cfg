SPECIFICATION Spec
CONSTANTS
    n1 = n1  n2 = n2  alice = alice  bob = bob
    r1 = r1  r2 = r2  r3 = r3  c1 = c1  s1 = s1
    t1 = t1  t2 = t2  t3 = t3  b1 = b1  b2 = b2  b3 = b3  b4 = b4
    Nodes = {n1, n2}
    Addresses = {alice, bob}
    Receipts = {r1, r2}
    ComputeIds = {}
    StorageIds = {s1}
    Txs = {t1}
    BlockIds = {b1, b2, b3}
    GenesisId = genesis
    Wallet <- MCWallet
    ReceiptOf <- AllSigned
    ComputeOf <- MCComputeOf
    StorageOf <- MCStorageOf
    TxOf <- MCTxOf
    Difficulty = 1
    BlockReward = 2
    MaxSupply = 5
    MinFee = 1
    Roles = {"compute"}
    StakeMinimums <- MCStakeMinimums
    ComputeRole = "compute"
    StakeAmounts = {3}
    MinerThreads = 1
SYMMETRY Symmetry
INVARIANTS
    ReceiptsSpentOnce
    ServiceProofsSpentOnce
    SpentSetsMatchChain
    FreshBlockAccepted
    CacheMatchesChain
    SupplyCapped
CHECK_DEADLOCK FALSE
