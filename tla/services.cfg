SPECIFICATION ServicesSpec
CONSTANTS
    rs1 = rs1  rs2 = rs2  rh1 = rh1  rh2 = rh2  daemon = daemon
    Sessions = {rs1, rs2}
    Handlers = {rh1}
    Flushers = {rh1}
    Sizes = {1, 2}
    FlushBytes = 2
    MaxBytes = 4
    NoOwner = none
    n1 = n1  n2 = n2  bare = bare  o1 = o1  o2 = o2  th1 = th1  th2 = th2
    DnsNames = {n1, n2, bare}
    DnsOwners = {o1, o2}
    DnsThreads = {th1, th2}
    DnsAsks <- MCAsks
    Normal <- MCNormal
    QueryTypes = {"address"}
    RegistrationFee = 100
    TransferFee = 1
    CnameDepth = 1
    MaxRequests = 3
    Nobody = Nobody
    TornFile = TornFile
    da = da  db = db  hd1 = hd1  hd2 = hd2  c1 = c1  c2 = c2  c3 = c3
    Dids = {da, db}
    Handles = {hd1, hd2}
    Claims = {c1, c2, c3}
    ClaimOf <- MCClaimOf
    WeightProof = 5
    WeightStake = 2
    WeightPeer = 10
    WeightPenalty = 20
    IdThreads = {th1, th2}
    IdAsks <- MCIdAsks
    MaxIdRequests = 3
    MaxCounted = 1
    NoHandle = NoHandle
    i1 = i1  i2 = i2  w1 = w1  w2 = w2
    FaucetThreads = {th1, th2}
    Ips = {i1, i2}
    Wallets = {w1, w2}
    Drip = 10
    IpCooldown = 2
    AddrCooldown = 3
    FaucetFunds = 25
    MaxHistory = 1
    FaucetEnd = 3
    Unasked = Unasked
    sn1 = sn1  sn2 = sn2  up1 = up1  up2 = up2  ch1 = ch1  ch2 = ch2
    StoreNodes <- MCStoreNodes
    Uploads = {up1, up2}
    Plain <- MCPlain
    ChunkSize <- MCChunkSize
    Replication = 1
    MaxFaults = 1
    MaxChallenges = 1
    NoKey = NoKey
    plain = plain  urgent = urgent  long = long  longer = longer
    Contents = {plain, urgent, long, longer}
    LoraPriority <- MCPriority
    LoraLength <- MCLength
    DataSize = 214
    LoraSessions = 2
    MaxLost = 1
    InitialReward = 48
    HalvingInterval = 2
    MaxRewards = 200
    Interval = 2
    TargetTime = 10
    MinDifficulty = 4
    MaxDifficulty = 40
    Clamp = 4
    BlockTimes <- MCTimes
    MaxHeight = 6
    k1 = k1  k2 = k2  k3 = k3
    ScriptKeys = {k1, k2, k3}
    Programs <- MCPrograms
    Conditionals <- MCConditionals
    MaxStack = 9
    MaxOps = 15
    MaxWord = 7
    NoScriptKey = NoScriptKey
    MaxHops = 3
    rb = rb  rx = rx  ry = ry
    RelayIds = {rb, rx, ry}
    Bootstrap <- MCBootstrap
    Directories = 2
    Listings <- MCListings
    BadEntry = BadEntry
    DiscoverTasks = {th1, th2}
    Regions = {"EU", "US", "none"}
    NoRegion = "none"
    MinUptime = 8
    MaxResults = 2
    MaxAge = 1
    DirectoryEnd = 1
    DirectoryStops = 1
    NoCache = NoCache
    Torn = Torn
INVARIANTS
    DnsConsistent
    IdentityConsistent
    FaucetConsistent
    StorageConsistent
    ScheduleConsistent
    ScriptsHold
    RecordsArrive
    DirectoryConsistent
PROPERTIES
    ImplementsMeter
    OwnerChangesByTransfer
    LaterUploadsHarmless
    ArrivesUnlessSpoiled
CHECK_DEADLOCK FALSE
