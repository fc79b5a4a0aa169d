SPECIFICATION LedgerSpec
CONSTANTS
    n1 = n1  n2 = n2  alice = alice  bob = bob
    r1 = r1  r2 = r2  r3 = r3  c1 = c1  s1 = s1
    t1 = t1  t2 = t2  t3 = t3  b1 = b1  b2 = b2  b3 = b3  b4 = b4
    Nodes = {n1}
    Addresses = {alice, bob}
    Receipts = {r1, r2, r3}
    ComputeIds = {c1}
    StorageIds = {}
    Txs = {t1, t2, t3}
    BlockIds = {b1, b2, b3}
    GenesisId = genesis
    Wallet <- MCWallet
    ReceiptOf <- OneForged
    ComputeOf <- MCComputeOf
    StorageOf <- MCStorageOf
    TxOf <- MCTxOf
    Difficulty = 1
    BlockReward = 4
    MaxSupply = 12
    MinFee = 1
    Roles = {"compute", "storage"}
    StakeMinimums <- MCStakeMinimums
    ComputeRole = "compute"
    StakeAmounts = {1, 2}
    MinerThreads = 2
    th1 = th1  th2 = th2  v1 = v1  v2 = v2  p1 = p1  p2 = p2
    GovThreads = {th1}
    Proposals = {p1, p2}
    Voters = {v1, v2}
    Weights = {1, 2}
    PayloadOf <- PaymentAndRate
    PostedTally <- OneTaken
    GovKeys = {"tx_fee_pct", "other"}
    FeeKey = "tx_fee_pct"
    FeePct = 1
    Supply = 20
    Incomes = {2}
    MaxIncome = 2
SYMMETRY LedgerSymmetry
INVARIANTS
    MempoolFunded
    Conservation
    VotesDecide
    TreasuryKept
CHECK_DEADLOCK FALSE
