SPECIFICATION GovSpec
CONSTANTS
    th1 = th1  th2 = th2  v1 = v1  v2 = v2
    p1 = p1  p2 = p2
    GovThreads = {th1, th2}
    Proposals = {p1}
    Voters = {v1}
    Weights = {2}
    PayloadOf <- Payments
    PostedTally <- Fresh
    GovKeys = {"tx_fee_pct", "other"}
    FeeKey = "tx_fee_pct"
    FeePct = 1
    Supply = 20
    Incomes = {1}
    MaxIncome = 4
SYMMETRY VoterSymmetry
INVARIANTS
    SpendingRequiresPassed
CHECK_DEADLOCK FALSE
