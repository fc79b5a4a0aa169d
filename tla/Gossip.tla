------------------------------- MODULE Gossip -------------------------------
(***************************************************************************)
(* GossipRouter (border/p2p/gossip.py) on every node of a network.  Each   *)
(* POST to /p2p/gossip is served by a thread of its own, and receive tests *)
(* and marks the cache of seen messages in two critical sections, so two   *)
(* copies of a message may both pass the test.  The cache holds seenMax    *)
(* ids and forgets the oldest; its limit is chosen at the start, so that a *)
(* cache that is large enough and one that is not are both looked at.      *)
(* Envelopes may be lost, at most GossipLoss of them, and arrive in any    *)
(* order.                                                                  *)
(***************************************************************************)
EXTENDS Integers, FiniteSets, SequencesExt, Bags

CONSTANTS
    GossipNodes,
    GossipPeers,   \* GossipPeers[n]: the reachable peers of n (get_peers)
    Messages,      \* message ids: payloads, since _make_id hashes them
    Origin,        \* Origin[m]: the node that broadcasts m
    Fanout,        \* GOSSIP_FANOUT
    MsgTTL,        \* MSG_TTL
    SeenLimits,    \* the values of SEEN_CACHE_MAX that are looked at
    GossipLoss

ASSUME GossipAssumption ==
    /\ IsFiniteSet(Messages)   \* an id has 24 hexadecimal digits
    /\ Fanout \in Nat \ {0} /\ MsgTTL \in Nat \ {0} /\ GossipLoss \in Nat
    /\ SeenLimits \subseteq Nat \ {0}
    /\ GossipPeers \in [GossipNodes -> SUBSET GossipNodes] /\ Origin \in [Messages -> GossipNodes]

Envelope == [to : GossipNodes, msg : Messages, ttl : 1..MsgTTL]

VARIABLES
    seenMax,   \* SEEN_CACHE_MAX
    seen,      \* seen[n]: _seen, oldest first
    sent,      \* the messages that were broadcast
    flight,    \* the bag of envelopes on their way (threads in _send_to)
    checked,   \* the bag of those found new and not yet marked (threads in receive)
    handled,   \* handled[n]: the messages that the handlers of n were called with
    lost       \* how many envelopes were lost

gossipVars == <<seenMax, seen, sent, flight, checked, handled, lost>>

GossipInit ==
    /\ seenMax \in SeenLimits
    /\ seen = [n \in GossipNodes |-> <<>>]
    /\ sent = {}
    /\ flight = EmptyBag
    /\ checked = EmptyBag
    /\ handled = [n \in GossipNodes |-> {}]
    /\ lost = 0

\* _already_seen
AlreadySeen(n, m) == m \in Range(seen[n])

\* _mark_seen: an id that is known keeps its place.
MarkSeen(s, m) ==
    IF m \in Range(s) THEN s
    ELSE LET t == Append(s, m) IN IF Len(t) > seenMax THEN Tail(t) ELSE t

\* The sets of peers that random.sample may return
Targets(n) ==
    LET size == IF Fanout < Cardinality(GossipPeers[n]) THEN Fanout
                ELSE Cardinality(GossipPeers[n])
    IN {T \in SUBSET GossipPeers[n] : Cardinality(T) = size}

One(e) == SetToBag({e})

\* A thread per target; `from` are the envelopes on their way.
GossipSend(from, T, m, ttl) ==
    from (+) SetToBag([to : T, msg : {m}, ttl : {ttl}])

\* Mutant: the message is sent and not marked.
BroadcastUnmarked(m, T) ==
    /\ m \notin sent
    /\ flight' = GossipSend(flight, T, m, MsgTTL)
    /\ sent' = sent \cup {m}
    /\ UNCHANGED <<seenMax, seen, checked, handled, lost>>

\* broadcast: the message is marked before it is sent.
Broadcast(m, T) ==
    /\ m \notin sent
    /\ seen' = [seen EXCEPT ![Origin[m]] = MarkSeen(@, m)]
    /\ flight' = GossipSend(flight, T, m, MsgTTL)
    /\ sent' = sent \cup {m}
    /\ UNCHANGED <<seenMax, checked, handled, lost>>

\* receive: the test
GossipReceive(e) ==
    /\ BagIn(e, flight)
    /\ flight' = flight (-) One(e)
    /\ checked' = IF AlreadySeen(e.to, e.msg) THEN checked ELSE checked (+) One(e)
    /\ UNCHANGED <<seenMax, seen, sent, handled, lost>>

\* Mutants: the hop count is not reduced; the last hop is not taken.
ForwardSameTTL(e, T) == GossipSend(flight, T, e.msg, e.ttl)
ForwardTooLate(e, T) == IF e.ttl > 2 THEN GossipSend(flight, T, e.msg, e.ttl - 1) ELSE flight

\* The last part of receive
Forward(e, T) == IF e.ttl > 1 THEN GossipSend(flight, T, e.msg, e.ttl - 1) ELSE flight

\* The rest of receive, a second critical section: handlers that raise are passed over.
Handle(e, T) ==
    /\ BagIn(e, checked)
    /\ checked' = checked (-) One(e)
    /\ seen' = [seen EXCEPT ![e.to] = MarkSeen(@, e.msg)]
    /\ handled' = [handled EXCEPT ![e.to] = @ \cup {e.msg}]
    /\ flight' = Forward(e, T)
    /\ UNCHANGED <<seenMax, sent, lost>>

\* _send_to fails
Lose(e) ==
    /\ BagIn(e, flight) /\ lost < GossipLoss
    /\ flight' = flight (-) One(e)
    /\ lost' = lost + 1
    /\ UNCHANGED <<seenMax, seen, sent, checked, handled>>

\* One of the threads that send and receive goes on.
GossipTurn ==
    \E e \in Envelope : GossipReceive(e) \/ \E T \in Targets(e.to) : Handle(e, T)

GossipNext ==
    \/ \E m \in Messages : \E T \in Targets(Origin[m]) : Broadcast(m, T)
    \/ \E e \in Envelope : GossipReceive(e) \/ Lose(e) \/ \E T \in Targets(e.to) : Handle(e, T)

\* Threads that can go on do.
GossipFairness == WF_gossipVars(GossipTurn)

GossipSpec == GossipInit /\ [][GossipNext]_gossipVars /\ GossipFairness

-----------------------------------------------------------------------------
(* Properties *)

\* The types; the cache is never above its limit and holds no id twice (_mark_seen).
GossipTypeOK ==
    /\ \A n \in GossipNodes : /\ seen[n] \in Seq(Messages) /\ Len(seen[n]) <= seenMax
                              /\ IsInjective(seen[n])
    /\ sent \subseteq Messages /\ lost \in 0..GossipLoss
    /\ IsABag(flight) /\ IsABag(checked) /\ DOMAIN flight \cup DOMAIN checked \subseteq Envelope
    /\ handled \in [GossipNodes -> SUBSET Messages]

\* While the cache is large enough, what a node has sent or handled is in it: a message is
\* handled again only by threads that made their test before the first one marked it, and
\* a node never handles its own message, whichever way copies come back.
SeenRemembers ==
    Cardinality(Messages) <= seenMax =>
        \A n \in GossipNodes, m \in Messages :
            /\ m \in handled[n] => AlreadySeen(n, m)
            /\ m \in sent => AlreadySeen(Origin[m], m) /\ m \notin handled[Origin[m]]

Quiet == flight = EmptyBag /\ checked = EmptyBag

\* A storm ends: also when the cache is too small to stop a message from coming round
\* again, its hop count does (receive).
GossipEnds == <>[]Quiet

Reach(n, k) ==   \* the nodes within k hops of n
    LET within[i \in 0..k] ==
            IF i = 0 THEN {n} ELSE within[i - 1] \cup UNION {GossipPeers[x] : x \in within[i - 1]}
    IN within[k]

\* Where nodes have no more peers than the fanout, and unless an envelope is lost,
\* every node within MSG_TTL hops of the origin hands the message to its handlers.
Delivered ==
    (\A n \in GossipNodes : Cardinality(GossipPeers[n]) <= Fanout) =>
    <>[](lost > 0 \/ \A m \in sent : \A n \in Reach(Origin[m], MsgTTL) \ {Origin[m]} : m \in handled[n])

\* What a node knows of messages is right, whichever threads are between test and mark.
GossipConsistent == GossipTypeOK /\ SeenRemembers
=============================================================================
