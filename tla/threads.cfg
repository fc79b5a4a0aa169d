SPECIFICATION ThreadsSpec
CONSTANTS
    h1 = h1  h2 = h2  alice = alice  t1 = t1  t2 = t2
    r1 = r1  r2 = r2  p1 = p1  s1 = s1
    Threads = {h1, h2}
    Senders = {alice}
    Txs = {t1}
    Sender <- MCSender
    Cost <- MCCost
    Funds <- MCFunds
    Receipts = {r1}
    PeerReceipts = {p1}
    StorageIds = {s1}
    MaxBlocks = 2
    NoThread = none
    rs1 = rs1  rs2 = rs2  rh1 = rh1  rh2 = rh2  daemon = daemon
    Sessions = {rs1}
    Handlers = {rh1, rh2}
    Flushers = {daemon}
    Sizes = {1, 2}
    FlushBytes = 2
    MaxBytes = 5
    NoOwner = none
    u1 = u1  u2 = u2  e1 = e1  e2 = e2
    Terminals = {u1, u2}
    Seeds = {e1, e2}
    Passphrases = {"", "pp"}
    Password = "secret"
    Deposit = 2
INVARIANTS
    QuiescentConsistent
    HomeConsistent
PROPERTIES
    AddBlockReturns
    CallsReturn
CHECK_DEADLOCK FALSE
