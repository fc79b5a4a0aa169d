----------------------------- MODULE PeerTable -----------------------------
(***************************************************************************)
(* PeerDiscovery and Peer (border/p2p/discovery.py, peer.py) with the      *)
(* routes that change the table (server.py), on every node: the ping loop, *)
(* the exchange of peers, announcements, the file peers.json, and nodes    *)
(* that stop and start again.  A ping may fail because the other side is   *)
(* down, or because the request or the answer is lost (a fault).           *)
(*                                                                         *)
(* The table is a dictionary whose order only decides who finds room in a  *)
(* full one: the model takes any order.                                    *)
(***************************************************************************)
EXTENDS Integers, FiniteSets, FiniteSetsExt, Functions

CONSTANTS
    Hosts,       \* the nodes, by address
    Seeds,       \* Seeds[n]: the seed list of n
    MaxPeers,    \* MaxPeers[n]: max_peers of n
    BanAfter,    \* ban_after of mark_failure
    MaxFaults,   \* bound on requests and answers lost
    MaxStops     \* bound on nodes that stop

ASSUME PeerAssumption ==
    /\ IsFiniteSet(Hosts) /\ Seeds \in [Hosts -> SUBSET Hosts]
    /\ MaxPeers \in [Hosts -> Nat] /\ BanAfter \in Nat \ {0} /\ MaxFaults \in Nat /\ MaxStops \in Nat

VARIABLES
    up,        \* the nodes that run
    table,     \* table[n]: _peers, a function from addresses to [state, fails]
    todo,      \* todo[n]: what the ping loop has still to do in this round
    disk,      \* disk[n]: the addresses in peers.json
    faults, stops

tableVars == <<up, table, todo, disk, faults, stops>>

PeerState == {"UNKNOWN", "CONNECTED", "DISCONNECTED", "BANNED"}
NewPeer == [state |-> "UNKNOWN", fails |-> 0]

\* Mutant: a success does not clear the count of failures.
TouchOnly(peer) == [peer EXCEPT !.state = "CONNECTED"]

\* touch
Touch(peer) == [state |-> "CONNECTED", fails |-> 0]

MarkFailure(peer) ==
    [state |-> IF peer.fails + 1 >= BanAfter THEN "BANNED" ELSE "DISCONNECTED",
     fails |-> peer.fails + 1]

\* is_reachable
Reachable(peer) == peer.state # "BANNED"
GetPeers(t) == {m \in DOMAIN t : Reachable(t[m])}

Smaller(a, b) == IF a < b THEN a ELSE b

\* _add_peer for each of S, in any order: the tables that may result
Added(n, t, S) ==
    LET new == (S \ DOMAIN t) \ {n}
        room == IF Cardinality(DOMAIN t) < MaxPeers[n] THEN MaxPeers[n] - Cardinality(DOMAIN t) ELSE 0
    IN IF new = {} THEN {t}
       ELSE {[m \in DOMAIN t \cup T |-> IF m \in T THEN NewPeer ELSE t[m]] :
                T \in kSubset(Smaller(room, Cardinality(new)), new)}

\* __init__: the seeds, then the file
Booted(n, file) == UNION {Added(n, t, file) : t \in Added(n, <<>>, Seeds[n])}

TableInit ==
    /\ up = Hosts
    /\ table \in {f \in [Hosts -> UNION {Booted(n, {}) : n \in Hosts}] : \A n \in Hosts : f[n] \in Booted(n, {})}
    /\ todo = [n \in Hosts |-> {}]
    /\ disk = [n \in Hosts |-> {}]
    /\ faults = 0 /\ stops = 0

\* _ping_loop begins a round
PingRound(n) ==
    /\ n \in up /\ todo[n] = {} /\ table[n] # <<>>
    /\ todo' = [todo EXCEPT ![n] = DOMAIN table[n]]
    /\ UNCHANGED <<up, table, disk, faults, stops>>

\* One turn of the loop is over; after the last peer the table is saved (_persist).
PingDone(n, m) ==
    /\ todo' = [todo EXCEPT ![n] = @ \ {m}]
    /\ disk' = IF todo[n] = {m} THEN [disk EXCEPT ![n] = DOMAIN table[n]] ELSE disk
    /\ UNCHANGED <<up, stops>>

\* Mutant: the route does not add the caller.
PingUnnoticed(n, m) ==
    /\ n \in up /\ m \in todo[n] /\ m \in up /\ Reachable(table[n][m])
    /\ table' = [table EXCEPT ![n][m] = Touch(@)]
    /\ PingDone(n, m)
    /\ UNCHANGED faults

\* _ping of a peer that answers; its route adds the caller.
PingAnswered(n, m) ==
    /\ n \in up /\ m \in todo[n] /\ m \in up /\ Reachable(table[n][m])
    /\ \E t \in Added(m, table[m], {n}) :
           table' = [table EXCEPT ![m] = t, ![n][m] = Touch(@)]
    /\ PingDone(n, m)
    /\ UNCHANGED faults

\* _ping without an answer: the peer is down, or did not get the request.
PingFailed(n, m) ==
    /\ n \in up /\ m \in todo[n] /\ Reachable(table[n][m])
    /\ m \notin up \/ faults < MaxFaults
    /\ faults' = IF m \in up THEN faults + 1 ELSE faults
    /\ table' = [table EXCEPT ![n][m] = MarkFailure(@)]
    /\ PingDone(n, m)

\* _ping whose answer is lost: the peer has added the caller.
PingUnanswered(n, m) ==
    /\ n \in up /\ m \in todo[n] /\ m \in up /\ Reachable(table[n][m])
    /\ faults < MaxFaults
    /\ faults' = faults + 1
    /\ \E t \in Added(m, table[m], {n}) :
           table' = [table EXCEPT ![m] = t, ![n][m] = MarkFailure(@)]
    /\ PingDone(n, m)

\* A banned peer is passed over.
PingSkipped(n, m) ==
    /\ n \in up /\ m \in todo[n] /\ ~ Reachable(table[n][m])
    /\ PingDone(n, m)
    /\ UNCHANGED <<table, faults>>

\* _exchange_peers; without an answer nothing changes.
ExchangePeers(n, m) ==
    /\ n \in up /\ m \in up /\ m \in GetPeers(table[n])
    /\ \E t \in Added(n, table[n], GetPeers(table[m])) : table' = [table EXCEPT ![n] = t]
    /\ UNCHANGED <<up, todo, disk, faults, stops>>

\* _announce_to and its route
Announce(n, m) ==
    /\ n \in up /\ m \in up /\ m \in GetPeers(table[n])
    /\ \E t \in Added(m, table[m], {n}) : table' = [table EXCEPT ![m] = t]
    /\ UNCHANGED <<up, todo, disk, faults, stops>>

\* The process ends, at any point of a round.
StopNode(n) ==
    /\ n \in up /\ stops < MaxStops
    /\ up' = up \ {n} /\ stops' = stops + 1
    /\ todo' = [todo EXCEPT ![n] = {}]
    /\ UNCHANGED <<table, disk, faults>>

\* A new process: states and counts of failures were not saved (_load_persisted).
StartNode(n) ==
    /\ n \notin up
    /\ up' = up \cup {n}
    /\ \E t \in Booted(n, disk[n]) : table' = [table EXCEPT ![n] = t]
    /\ UNCHANGED <<todo, disk, faults, stops>>

PingTurn(n, m) == PingAnswered(n, m) \/ PingFailed(n, m) \/ PingUnanswered(n, m) \/ PingSkipped(n, m)

TableNext ==
    \E n \in Hosts :
        \/ PingRound(n) \/ StopNode(n) \/ StartNode(n)
        \/ \E m \in Hosts : PingTurn(n, m) \/ ExchangePeers(n, m) \/ Announce(n, m)

PingLoop(n) == PingRound(n) \/ \E m \in Hosts : PingTurn(n, m)

\* The two loops of a node go on, the exchange with each reachable peer (a sample of five
\* at a time), and a node that stopped is started again.  announce_self has no caller.
TableFairness ==
    \A n \in Hosts :
        /\ WF_tableVars(PingLoop(n)) /\ WF_tableVars(StartNode(n))
        /\ \A m \in Hosts \ {n} : WF_tableVars(ExchangePeers(n, m))

TableSpec == TableInit /\ [][TableNext]_tableVars /\ TableFairness

-----------------------------------------------------------------------------
(* Properties *)

\* The types; no node is its own peer and no table is above max_peers, whichever of the
\* five ways an address came in (_add_peer).
TableTypeOK ==
    /\ up \subseteq Hosts
    /\ \A n \in Hosts : /\ DOMAIN table[n] \subseteq Hosts \ {n} /\ todo[n] \subseteq DOMAIN table[n]
                        /\ \A m \in DOMAIN table[n] : table[n][m] \in [state : PeerState, fails : 0..BanAfter]
                        /\ Cardinality(DOMAIN table[n]) <= MaxPeers[n]
    /\ disk \in [Hosts -> SUBSET Hosts]
    /\ faults \in 0..MaxFaults /\ stops \in 0..MaxStops

\* A peer is banned after BanAfter failures in a row, not before, and an answer in between
\* starts the count again (touch, mark_failure, _ping).
BanIsEarned ==
    \A n \in Hosts : \A m \in DOMAIN table[n] :
        table[n][m].state = CASE table[n][m].fails >= BanAfter -> "BANNED"
                              [] table[n][m].fails \in 1..(BanAfter - 1) -> "DISCONNECTED"
                              [] OTHER -> IF table[n][m].state = "UNKNOWN" THEN "UNKNOWN" ELSE "CONNECTED"

SomeBanned == \E n \in Hosts : \E m \in DOMAIN table[n] : ~ Reachable(table[n][m])

KnowsAll(n) == SomeBanned \/ DOMAIN table[n] = Hosts \ {n}
HasRoom(n) == MaxPeers[n] >= Cardinality(Hosts) - 1

\* While nobody is banned, from any ping round on, every node that has room gets to know
\* every other through pings and exchanges, also when nodes stop and forget what they had
\* not yet saved, and when a node in between has no room for them.
AllKnown == (\E n \in Hosts : todo[n] # {}) ~> (\A n \in Hosts : HasRoom(n) => KnowsAll(n))

\* A table holds other hosts only, within its limit, and bans those that earned it.
TableConsistent == TableTypeOK /\ BanIsEarned
=============================================================================
