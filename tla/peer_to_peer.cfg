SPECIFICATION PeerToPeerSpec
CONSTANTS
    g1 = g1  g2 = g2  g3 = g3  m1 = m1  m2 = m2
    GossipNodes = {g1, g2, g3}
    GossipPeers <- MCGossipPeers
    Messages = {m1, m2}
    Origin <- MCOrigin
    Fanout = 2
    MsgTTL = 2
    SeenLimits = {1, 2}
    GossipLoss = 1
    h1 = h1  h2 = h2  h3 = h3
    Hosts = {h1, h2, h3}
    Seeds <- MCSeeds
    MaxPeers <- MCMaxPeers
    BanAfter = 2
    MaxFaults = 1
    MaxStops = 1
    s1 = s1  s2 = s2
    SyncNodes = {s1, s2}
    Quota <- MCQuota
    BatchSize = 2
    SyncFaults = 1
    NoPeer = NoPeer
INVARIANTS
    GossipConsistent
    TableConsistent
    SyncConsistent
PROPERTIES
    GossipEnds
    Delivered
    AllKnown
    CatchUp
CHECK_DEADLOCK FALSE
