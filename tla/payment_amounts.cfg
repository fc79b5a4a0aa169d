SPECIFICATION ChannelSpec
CONSTANTS
    Deposits <- MCDeposits
    Increments <- MCIncrements
    MaxNonce = 3
    MaxElsewhere = 2
INVARIANTS
    AmountsIncrease
CHECK_DEADLOCK FALSE
