SPECIFICATION RelaySpec
CONSTANTS
    rs1 = rs1  rs2 = rs2  rh1 = rh1  rh2 = rh2  daemon = daemon
    Sessions = {rs1}
    Handlers = {rh1, rh2}
    Flushers = {}
    Sizes = {1, 2}
    FlushBytes = 2
    MaxBytes = 4
    NoOwner = none
INVARIANTS
    NeverOverclaims
CHECK_DEADLOCK FALSE
