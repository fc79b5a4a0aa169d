----------------------------- MODULE ChainSync -----------------------------
(***************************************************************************)
(* How the chains of P2P nodes get together: ChainSync (border/p2p/sync.py) *)
(* with its requests to a peer, the handler of gossiped blocks (node.py),  *)
(* the heights that pings report (discovery.py), and the SQLite store that *)
(* a node loads when it starts (chain.py, store.py).                       *)
(*                                                                         *)
(* A block's hash commits to its ancestors, so a block is the sequence of  *)
(* ids from the first after the genesis block to its own, a chain is its   *)
(* last block, and a block fits a chain when its front is that chain (what *)
(* else add_block checks is in module BorderChain).  The sync thread takes *)
(* a step per request and per block; requests may fail, at most SyncFaults *)
(* times, too seldom for a ban.  Its event only shortens a wait that also  *)
(* ends by itself, so trigger changes nothing here.                        *)
(***************************************************************************)
EXTENDS Integers, FiniteSets, SequencesExt

CONSTANTS
    SyncNodes,
    Quota,         \* Quota[n]: how many blocks node n mines, a bound
    BatchSize,     \* BATCH_SIZE
    SyncFaults,    \* bound on requests that fail and restarts, together
    NoPeer

ASSUME SyncAssumption ==
    /\ Quota \in [SyncNodes -> Nat] /\ BatchSize \in Nat \ {0}
    /\ SyncFaults \in Nat /\ NoPeer \notin SyncNodes

VARIABLES
    tip,      \* tip[n]: the chain of n
    rows,     \* rows[n]: the table blocks, ordered by idx
    heights,  \* heights[n][m]: chain_height in n's record of m
    news,     \* blocks that were broadcast
    mined,    \* mined[n]: how many blocks n has mined
    thread,   \* thread[n]: where the sync thread of n is
    failed, restarts

syncVars == <<tip, rows, heights, news, mined, thread, failed, restarts>>

Idle == [pc |-> "idle", peer |-> NoPeer, our |-> 0, lo |-> 0, hi |-> 0, end |-> 0, top |-> 0, batch |-> <<>>]

\* The block with index i on a chain (block_hash_at); the genesis block is the empty sequence.
BlockAt(c, i) == SubSeq(c, 1, i)

\* blocks_range
BlocksRange(c, start, end) ==
    [k \in 1..((IF end < Len(c) THEN end ELSE Len(c)) - start + 1) |-> BlockAt(c, start + k - 1)]

SyncInit ==
    /\ tip = [n \in SyncNodes |-> <<>>]
    /\ rows = [n \in SyncNodes |-> <<>>]
    /\ heights = [n \in SyncNodes |-> [m \in SyncNodes |-> 0]]
    /\ news = {} /\ mined = [n \in SyncNodes |-> 0]
    /\ thread = [n \in SyncNodes |-> Idle]
    /\ failed = 0 /\ restarts = 0

Saved(n) == Len(rows[n]) = Len(tip[n])

\* add_block up to _save, under the lock of the chain
Fits(n, b) == Saved(n) /\ Front(b) = tip[n]

\* _save: append_block inserts the latest block.
Save(n) ==
    /\ ~ Saved(n)
    /\ rows' = [rows EXCEPT ![n] = Append(@, tip[n])]
    /\ UNCHANGED <<tip, heights, news, mined, thread, failed, restarts>>

\* A miner's block enters its own chain.
Mine(n) ==
    /\ Saved(n) /\ mined[n] < Quota[n]
    /\ mined' = [mined EXCEPT ![n] = @ + 1]
    /\ tip' = [tip EXCEPT ![n] = Append(@, <<n, mined'[n]>>)]
    /\ UNCHANGED <<rows, heights, news, thread, failed, restarts>>

\* broadcast_block, after add_block has returned
BroadcastBlock(n) ==
    /\ Saved(n) /\ tip[n] # <<>> /\ Last(tip[n])[1] = n /\ tip[n] \notin news
    /\ news' = news \cup {tip[n]}
    /\ UNCHANGED <<tip, rows, heights, mined, thread, failed, restarts>>

\* _handle_block_gossip of a block that fits; others are old, refused or a gap.
GossipBlock(n, b) ==
    /\ b \in news /\ Fits(n, b)
    /\ tip' = [tip EXCEPT ![n] = b]
    /\ UNCHANGED <<rows, heights, news, mined, thread, failed, restarts>>

\* A ping: the answer tells the height of the peer.
LearnHeight(n, m) ==
    /\ n # m
    /\ heights' = [heights EXCEPT ![n][m] = Len(tip[m])]
    /\ UNCHANGED <<tip, rows, news, mined, thread, failed, restarts>>

-----------------------------------------------------------------------------
(* The sync thread *)

ThreadBecomes(n, t) ==
    /\ thread' = [thread EXCEPT ![n] = t]
    /\ UNCHANGED <<tip, rows, heights, news, mined, restarts>>

\* A request to the peer succeeds, or fails with one of the faults.
Request(ok) == IF ok THEN UNCHANGED failed ELSE failed + restarts < SyncFaults /\ failed' = failed + 1

\* _sync_pass: a peer with the highest reported height, if that is above ours
SyncPass(n, m) ==
    /\ thread[n].pc = "idle"
    /\ m # n /\ \A x \in SyncNodes \ {n} : heights[n][x] <= heights[n][m]
    /\ heights[n][m] > Len(tip[n])
    /\ ThreadBecomes(n, [Idle EXCEPT !.pc = "tip", !.peer = m, !.our = Len(tip[n])])
    /\ UNCHANGED failed

\* Mutant: that the peer has a block is enough.
SameAtIndex(n, m, i) == i <= Len(tip[m])

\* Same block as the peer's at index i, if the peer has one (_fetch_block_hash)
SameAt(n, m, i) == i <= Len(tip[m]) /\ BlockAt(tip[n], i) = BlockAt(tip[m], i)

\* Mutant: the last block that the peer reported is left out.
DownloadShort(n, t, fork) ==
    IF fork + 1 < heights[n][t.peer]
    THEN [t EXCEPT !.pc = "fetch", !.lo = fork + 1, !.top = heights[n][t.peer] - 1] ELSE Idle

\* _sync_from with a fork point: from there on, up to the height reported now
Download(n, t, fork) ==
    IF fork + 1 <= heights[n][t.peer]
    THEN [t EXCEPT !.pc = "fetch", !.lo = fork + 1, !.top = heights[n][t.peer]] ELSE Idle

\* _find_fork, the fast path
CompareTips(n, ok) ==
    LET t == thread[n]
        high == IF t.our < heights[n][t.peer] THEN t.our ELSE heights[n][t.peer]
    IN
    /\ t.pc = "tip"
    /\ Request(ok)
    /\ ThreadBecomes(n, IF ok /\ SameAt(n, t.peer, t.our) THEN Download(n, t, t.our)
                        ELSE [t EXCEPT !.pc = "search", !.lo = 0, !.hi = high])

\* _find_fork, one turn of the search: a request that fails counts as a difference.
SearchFork(n, ok) ==
    LET t == thread[n]
        mid == (t.lo + t.hi + 1) \div 2
    IN
    /\ t.pc = "search" /\ t.lo < t.hi
    /\ Request(ok)
    /\ ThreadBecomes(n, IF ok /\ SameAt(n, t.peer, mid) THEN [t EXCEPT !.lo = mid]
                        ELSE [t EXCEPT !.hi = mid - 1])

\* _find_fork returns
ForkFound(n) ==
    /\ thread[n].pc = "search" /\ thread[n].lo >= thread[n].hi
    /\ ThreadBecomes(n, Download(n, thread[n], thread[n].lo))
    /\ UNCHANGED failed

\* _fetch_blocks: a batch; an empty or failed answer ends the pass.
FetchBlocks(n, ok) ==
    LET t == thread[n]
        end == IF t.lo + BatchSize - 1 < t.top THEN t.lo + BatchSize - 1 ELSE t.top
        blocks == BlocksRange(tip[t.peer], t.lo, end)
    IN
    /\ t.pc = "fetch"
    /\ Request(ok)
    /\ ThreadBecomes(n, IF ok /\ blocks # <<>> THEN [t EXCEPT !.pc = "apply", !.end = end, !.batch = blocks]
                        ELSE Idle)

\* The block is added: the next of the batch, the next batch, or the end of the pass
ApplyBlock(n) ==
    LET t == thread[n]
        rest == Tail(t.batch)
    IN
    /\ t.pc = "apply" /\ Fits(n, Head(t.batch))
    /\ tip' = [tip EXCEPT ![n] = Head(t.batch)]
    /\ thread' = [thread EXCEPT ![n] =
           IF rest # <<>> THEN [t EXCEPT !.batch = rest]
           ELSE IF t.end + 1 <= t.top THEN [t EXCEPT !.pc = "fetch", !.lo = t.end + 1, !.batch = <<>>] ELSE Idle]
    /\ UNCHANGED <<rows, heights, news, mined, failed, restarts>>

\* The block is refused, and the pass is over.
RefuseBlock(n) ==
    /\ thread[n].pc = "apply" /\ Saved(n) /\ ~ Fits(n, Head(thread[n].batch))
    /\ ThreadBecomes(n, Idle)
    /\ UNCHANGED failed

\* A new process loads the chain from the store (_load).
RestartNode(n) ==
    /\ failed + restarts < SyncFaults
    /\ restarts' = restarts + 1
    /\ tip' = [tip EXCEPT ![n] = IF rows[n] = <<>> THEN <<>> ELSE Last(rows[n])]
    /\ heights' = [heights EXCEPT ![n] = [m \in SyncNodes |-> 0]]
    /\ thread' = [thread EXCEPT ![n] = Idle]
    /\ UNCHANGED <<rows, news, mined, failed>>

SyncStep(n) ==
    \/ ForkFound(n) \/ ApplyBlock(n) \/ RefuseBlock(n)
    \/ \E m \in SyncNodes : SyncPass(n, m)
    \/ \E ok \in BOOLEAN : CompareTips(n, ok) \/ SearchFork(n, ok) \/ FetchBlocks(n, ok)

SyncNext ==
    \/ \E n \in SyncNodes :
           \/ Save(n) \/ Mine(n) \/ BroadcastBlock(n) \/ RestartNode(n)
           \/ \E b \in news : GossipBlock(n, b)
           \/ \E m \in SyncNodes : LearnHeight(n, m)
           \/ SyncStep(n)

\* The ping and sync loops of a node go on; a save ends.  Gossip may get nowhere.
SyncFairness ==
    \A n \in SyncNodes :
        /\ WF_syncVars(Save(n)) /\ WF_syncVars(SyncStep(n))
        /\ \A m \in SyncNodes \ {n} : WF_syncVars(LearnHeight(n, m))

SyncSpec == SyncInit /\ [][SyncNext]_syncVars /\ SyncFairness

-----------------------------------------------------------------------------
(* Properties *)

\* The types; the store holds the chain or lacks its last block only, also while gossip
\* and sync add blocks in turn and nodes start again (_save appends the latest block).
SyncTypeOK ==
    \A n \in SyncNodes :
        /\ tip[n] \in Seq(SyncNodes \X Nat) /\ Range(heights[n]) \subseteq Nat
        /\ rows[n] \in {BlocksRange(tip[n], 1, Len(tip[n])),
                        BlocksRange(tip[n], 1, Len(tip[n]) - 1)}
        /\ failed \in 0..SyncFaults /\ restarts \in 0..SyncFaults

\* The height up to which two chains are one
Common(c, d) == CHOOSE i \in 0..Len(c) :
    /\ IsPrefix(BlockAt(c, i), d)
    /\ (i = Len(c) \/ ~ IsPrefix(BlockAt(c, i + 1), d))

\* The search ends at a common block, and at the last one when no request has failed: also
\* when both chains grow while it goes on (_find_fork).
SearchFindsFork ==
    \A n \in SyncNodes :
        LET t == thread[n]
            common == Common(BlockAt(tip[n], t.our), tip[t.peer])
        IN (t.pc = "search" /\ t.lo >= t.hi) =>
               t.lo <= common /\ (failed = 0 => t.lo = common)

\* A block that its miner has broadcast is in the miner's store, so that a restart does
\* not bring the miner back to a chain without it.
BroadcastIsStored ==
    \A b \in news : b \in Range(rows[Last(b)[1]])

Forked(n, m) == ~ IsPrefix(tip[n], tip[m]) /\ ~ IsPrefix(tip[m], tip[n])

\* Nodes whose chains do not contradict each other end up with the same chain, by sync
\* alone, though requests fail and nodes start again in the middle of a pass.
CatchUp == <>[](\A n, m \in SyncNodes : tip[n] = tip[m] \/ \E x, y \in SyncNodes : Forked(x, y))

\* Chain, store and search of a node agree while gossip, sync and restarts go on.
SyncConsistent == SyncTypeOK /\ SearchFindsFork /\ BroadcastIsStored
=============================================================================
