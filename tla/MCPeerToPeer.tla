---------------------------- MODULE MCPeerToPeer ----------------------------
(***************************************************************************)
(* The three services of a P2P node: gossip of messages (Gossip), the peer *)
(* table (PeerTable) and chain sync (ChainSync, which has its own delivery *)
(* of gossiped blocks and its own reachable peers).  Each is looked at     *)
(* alone: a behaviour is one of one of them.                               *)
(***************************************************************************)
EXTENDS Gossip, PeerTable, ChainSync

CONSTANTS g1, g2, g3, m1, m2, h1, h2, h3, s1, s2

\* g1 does not know g3, which knows it.
MCGossipPeers == [n \in GossipNodes |-> CASE n = g1 -> {g2} [] n = g2 -> {g1, g3} [] n = g3 -> {g1, g2}]
MCOrigin == [m \in Messages |-> IF m = m1 THEN g1 ELSE g2]

\* A line of seeds, and little room in the middle.
MCSeeds == [n \in Hosts |-> CASE n = h1 -> {} [] n = h2 -> {h1} [] n = h3 -> {h2}]
MCMaxPeers == [n \in Hosts |-> IF n = h2 THEN 1 ELSE 2]

\* One node mines more than the other.
MCQuota == [n \in SyncNodes |-> IF n = s1 THEN 3 ELSE 1]

VARIABLE part    \* whose behaviour it is: "gossip", "table" or "sync"

allVars == <<gossipVars, tableVars, syncVars, part>>

OfGossip(A) == part = "gossip" /\ A /\ UNCHANGED <<tableVars, syncVars, part>>
OfTable(A)  == part = "table" /\ A /\ UNCHANGED <<gossipVars, syncVars, part>>
OfSync(A)   == part = "sync" /\ A /\ UNCHANGED <<gossipVars, tableVars, part>>

PeerToPeerInit ==
    /\ part \in {"gossip", "table", "sync"}
    /\ GossipInit /\ TableInit /\ SyncInit
    /\ part # "gossip" => \A limit \in SeenLimits : seenMax <= limit

PeerToPeerNext == OfGossip(GossipNext) \/ OfTable(TableNext) \/ OfSync(SyncNext)

\* GossipFairness, TableFairness and SyncFairness.
PeerToPeerFairness ==
    /\ WF_allVars(OfGossip(GossipTurn))
    /\ \A n \in Hosts :
        /\ WF_allVars(OfTable(PingLoop(n))) /\ WF_allVars(OfTable(StartNode(n)))
        /\ \A m \in Hosts \ {n} : WF_allVars(OfTable(ExchangePeers(n, m)))
    /\ \A n \in SyncNodes :
        /\ WF_allVars(OfSync(Save(n))) /\ WF_allVars(OfSync(SyncStep(n)))
        /\ \A m \in SyncNodes \ {n} : WF_allVars(OfSync(LearnHeight(n, m)))

PeerToPeerSpec == PeerToPeerInit /\ [][PeerToPeerNext]_allVars /\ PeerToPeerFairness
=============================================================================
