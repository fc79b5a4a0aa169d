-------------------------------- MODULE Lora --------------------------------
(***************************************************************************)
(* The LoRa bridge and receiver (border/lora.py).  A broadcaster sends the *)
(* contents of a queue, cut into packets, over the radio; a receiver       *)
(* collects packets by session and puts a content together when it has as  *)
(* many as the session has.  Packets may be lost and are never sent again. *)
(* Sessions are numbered modulo LoraSessions, so a number comes back.      *)
(***************************************************************************)
EXTENDS Integers, FiniteSets, SequencesExt

CONSTANTS
    Contents,
    LoraPriority,   \* LoraPriority[c]: 0 is an emergency
    LoraLength,     \* LoraLength[c]: bytes of c, compressed
    DataSize,       \* LORA_DATA_SIZE
    LoraSessions,   \* 65536
    MaxLost         \* bound: packets that are lost

ASSUME LoraAssumption ==
    /\ LoraPriority \in [Contents -> Nat] /\ LoraLength \in [Contents -> Nat \ {0}]
    /\ DataSize \in Nat \ {0} /\ LoraSessions \in Nat \ {0} /\ MaxLost \in Nat

VARIABLES
    simulation,    \* simulation_mode of the broadcaster: nothing is sent
    loraQueue,     \* _queue
    loraCounter,   \* _session_counter
    loraAir,       \* the packets on their way
    packetsSent,   \* _packets_sent
    sessionOf,     \* sessionOf[c]: the session that c was broadcast in, or -1
    loraSessions,  \* _sessions of the receiver
    loraReceived,  \* _received_content
    lostPackets,   \* how many packets were lost
    spoiled        \* the sessions that a packet of was lost

loraVars == <<simulation, loraQueue, loraCounter, loraAir, packetsSent, sessionOf, loraSessions,
              loraReceived, lostPackets, spoiled>>

\* LoRaPacket: header and payload; the payload is known by content and position.
LoraPacket == [session : 0..LoraSessions - 1, seq : Nat, total : Nat, of : Contents]

LoraInit ==
    /\ simulation \in BOOLEAN
    /\ loraQueue = <<>>
    /\ loraCounter = 0
    /\ loraAir = <<>>
    /\ packetsSent = 0
    /\ sessionOf = [c \in Contents |-> -1]
    /\ loraSessions = [s \in 0..LoraSessions - 1 |-> <<>>]
    /\ loraReceived = <<>>
    /\ lostPackets = 0
    /\ spoiled = {}

(* ------------------------------ the broadcaster -------------------------- *)

\* _queue.append and a stable sort by priority
Queued(q, c) ==
    LET before == SelectSeq(q, LAMBDA d : LoraPriority[d] <= LoraPriority[c])
    IN  before \o <<c>> \o SubSeq(q, Len(before) + 1, Len(q))

\* queue, queue_news and queue_emergency
QueueContent(c) ==
    /\ sessionOf[c] = -1 /\ c \notin Range(loraQueue)
    /\ loraQueue' = Queued(loraQueue, c)
    /\ UNCHANGED <<simulation, loraCounter, loraAir, packetsSent, sessionOf, loraSessions, loraReceived,
                   lostPackets, spoiled>>

\* LoRaChunker.chunk
LoraChunk(c, session) ==
    LET total == (LoraLength[c] + DataSize - 1) \div DataSize
    IN  [i \in 1..total |-> [session |-> session, seq |-> i - 1, total |-> total, of |-> c]]

\* broadcast_next; a simulated broadcast only counts the packets.
BroadcastNext ==
    /\ loraQueue # <<>>
    /\ LET c == Head(loraQueue)
           packets == LoraChunk(c, loraCounter % LoraSessions)
       IN  /\ loraQueue' = Tail(loraQueue)
           /\ sessionOf' = [sessionOf EXCEPT ![c] = loraCounter % LoraSessions]
           /\ loraAir' = IF simulation THEN loraAir ELSE loraAir \o packets
           /\ packetsSent' = packetsSent + Len(packets)
    /\ loraCounter' = loraCounter + 1
    /\ UNCHANGED <<simulation, loraSessions, loraReceived, lostPackets, spoiled>>

\* The radio loses a packet.
LosePacket ==
    /\ loraAir # <<>> /\ lostPackets < MaxLost
    /\ loraAir' = Tail(loraAir)
    /\ lostPackets' = lostPackets + 1
    /\ spoiled' = spoiled \cup {Head(loraAir).session}
    /\ UNCHANGED <<simulation, loraQueue, loraCounter, packetsSent, sessionOf, loraSessions, loraReceived>>

(* -------------------------------- the receiver --------------------------- *)

\* reassemble gives back a content exactly if there are as many packets as the
\* first one says and, by sequence number, they are those of one content:
\* otherwise gzip refuses the bytes.
Reassembled(ps) ==
    /\ Len(ps) = ps[1].total
    /\ Cardinality({ps[i].of : i \in DOMAIN ps}) = 1
    /\ {ps[i].seq : i \in DOMAIN ps} = 0..Len(ps) - 1

\* Mutant: a session that is complete is not deleted.
AfterContentKept(s, ps) == [loraSessions EXCEPT ![s] = ps]

\* del self._sessions[session_id]
AfterContent(s, ps) == [loraSessions EXCEPT ![s] = <<>>]

\* receive_packet
ReceivePacket ==
    /\ loraAir # <<>>
    /\ LET p == Head(loraAir)
           ps == Append(loraSessions[p.session], p)
       IN  IF Len(ps) >= p.total /\ Reassembled(ps)
           THEN /\ loraReceived' = Append(loraReceived, p.of)
                /\ loraSessions' = AfterContent(p.session, ps)
           ELSE /\ loraSessions' = [loraSessions EXCEPT ![p.session] = ps]
                /\ UNCHANGED loraReceived
    /\ loraAir' = Tail(loraAir)
    /\ UNCHANGED <<simulation, loraQueue, loraCounter, packetsSent, sessionOf, lostPackets, spoiled>>

LoraNext ==
    \/ \E c \in Contents : QueueContent(c)
    \/ BroadcastNext \/ LosePacket \/ ReceivePacket

\* The broadcaster goes on with its queue and the receiver listens.
LoraFairness == WF_loraVars(BroadcastNext) /\ WF_loraVars(ReceivePacket)

LoraSpec == LoraInit /\ [][LoraNext]_loraVars /\ LoraFairness

(* ------------------------------- properties ------------------------------ *)

\* Every content that is sent arrives, unless a packet was lost in a session of
\* its number: a session that completes leaves nothing behind for the content
\* that gets its number next (lora.py:322-339).
ArrivesUnlessSpoiled ==
    <>[](simulation \/ \A c \in Contents : sessionOf[c] # -1 =>
            c \in Range(loraReceived) \/ sessionOf[c] \in spoiled)
=============================================================================
