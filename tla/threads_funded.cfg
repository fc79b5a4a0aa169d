SPECIFICATION Spec
CONSTANTS
    h1 = h1  h2 = h2  alice = alice  t1 = t1  t2 = t2
    r1 = r1  r2 = r2  p1 = p1  s1 = s1
    Threads = {h1, h2}
    Senders = {alice}
    Txs = {t1, t2}
    Sender <- MCSender
    Cost <- MCCost
    Funds <- MCFunds
    Receipts = {r1}
    PeerReceipts = {}
    StorageIds = {}
    MaxBlocks = 1
    NoThread = none
SYMMETRY Symmetry
INVARIANTS
    MempoolFunded
CHECK_DEADLOCK FALSE
