---------------------------- MODULE BorderChain ----------------------------
(***************************************************************************)
(* BorderChain (border/blockchain/chain.py): the replicated ledger.  Each  *)
(* node keeps a chain, a mempool with its reservations, three pools of     *)
(* service proofs with the ids already rewarded, a balance cache and the   *)
(* stakes.  Blocks are produced in two steps (create_block, then           *)
(* add_block) by the relay's mining daemon and by POST /chain/mine, so     *)
(* that everything else may happen between the two; accepted blocks are    *)
(* broadcast and may reach a peer late, twice, out of order or never; a    *)
(* node may also replace its chain by a peer's longer one.                 *)
(*                                                                         *)
(* Data abstraction.  Amounts are naturals (the smallest unit).  A hash    *)
(* commits to everything below it, so the previous_hash of a block is the  *)
(* sequence of the ids of its ancestors.  The order of transactions inside *)
(* a block has no effect on any state, so a mempool and a block hold bags  *)
(* of transactions ([Txs -> Nat]).  A missing key of a dict of amounts is  *)
(* 0.  The retargeting of the difficulty is in module Economics: here the  *)
(* difficulty is the one carried between two retargets.                    *)
(***************************************************************************)
EXTENDS Integers, Sequences, FiniteSets, Functions

CONSTANTS
    Nodes,          \* the nodes, each with one BorderChain object
    Addresses,      \* wallet addresses (the coinbase pseudo-address is none)
    Receipts,       \* bandwidth receipts: receipt_id
    ComputeIds,     \* compute proofs: proof_id
    StorageIds,     \* storage proofs: proof_id
    Txs,            \* transactions: tx_id
    BlockIds,       \* block hashes (a bound on the blocks of a behaviour)
    GenesisId,      \* hash of the genesis block
    Wallet,         \* Wallet[n]: the address node n mines for
    ReceiptOf,      \* ReceiptOf[r]: [bytes, value, signed]
    ComputeOf,      \* ComputeOf[c]: [value, worker]
    StorageOf,      \* StorageOf[s]: [value, signed]
    TxOf,           \* TxOf[t]: [from, to, amount, fee, signed]
    Difficulty,     \* bytes a block must prove
    BlockReward,    \* block_reward(index) within one halving era
    MaxSupply,      \* MAX_SUPPLY
    MinFee,         \* MIN_FEE_PER_TX
    Roles,          \* staking roles
    StakeMinimums,  \* StakeMinimums[role]
    ComputeRole,    \* the role add_compute_proof asks for
    StakeAmounts,   \* amounts offered to stake and slash
    MinerThreads    \* blocks one node may have in the making at a time

ASSUME SizesAssumption ==
    /\ Difficulty \in Nat \ {0}
    /\ BlockReward \in Nat /\ MaxSupply \in Nat /\ MinFee \in Nat
    /\ MinerThreads \in Nat
    /\ StakeAmounts \subseteq Nat

ASSUME TablesAssumption ==
    /\ Wallet \in [Nodes -> Addresses]
    /\ ReceiptOf \in [Receipts -> [bytes : Nat, value : Nat, signed : BOOLEAN]]
    /\ ComputeOf \in [ComputeIds -> [value : Nat, worker : Addresses]]
    /\ StorageOf \in [StorageIds -> [value : Nat, signed : BOOLEAN]]
    /\ TxOf \in [Txs -> [from : Addresses, to : Addresses, amount : Nat,
                         fee : Nat, signed : BOOLEAN]]
    /\ ComputeRole \in Roles
    /\ StakeMinimums \in [Roles -> Nat \ {0}]

ASSUME FiniteAssumption ==
    /\ IsFiniteSet(Addresses) /\ IsFiniteSet(Txs)
    /\ IsFiniteSet(Receipts) /\ IsFiniteSet(ComputeIds) /\ IsFiniteSet(StorageIds)

ASSUME GenesisAssumption == GenesisId \notin BlockIds

VARIABLES
    chain,          \* chain[n]: _chain, oldest block first
    mempool,        \* mempool[n][t]: copies of t in _mempool
    reserved,       \* reserved[n][a]: _mempool_reserved
    pendingProofs,  \* _pending_proofs, by receipt id
    pendingCompute, \* _pending_compute_proofs
    pendingStorage, \* _pending_storage_proofs
    spentReceipts,  \* _spent_receipts
    spentCompute,   \* _spent_compute_proofs
    spentStorage,   \* _spent_storage_proofs
    balance,        \* balance[n][a]: _balance_cache
    stakes,         \* stakes[n][a]: amount of the stake entry
    candidates,     \* candidates[n]: blocks created and not yet offered to add_block
    network,        \* blocks accepted by their miner and broadcast
    fetched         \* fetched[n]: chain read from a peer by _sync_with_peers

poolVars  == <<pendingProofs, pendingCompute, pendingStorage>>
spentVars == <<spentReceipts, spentCompute, spentStorage>>
moneyVars == <<mempool, reserved, balance>>
vars == <<chain, moneyVars, poolVars, spentVars, stakes, candidates, network, fetched>>

-----------------------------------------------------------------------------
(* Blocks *)

TxBag == [Txs -> Nat]
NoTxs == [t \in Txs |-> 0]

Block == [id : BlockIds \cup {GenesisId}, index : Nat,
          prev : Seq(BlockIds \cup {GenesisId}), miner : Addresses,
          proofs : SUBSET Receipts, compute : SUBSET ComputeIds,
          storage : SUBSET StorageIds, txs : TxBag, reward : Nat]

\* Block.genesis(): no proofs, a coinbase of 0 to an address of its own.
Genesis == [id |-> GenesisId, index |-> 0, prev |-> <<>>,
            miner |-> CHOOSE a \in Addresses : TRUE,
            proofs |-> {}, compute |-> {}, storage |-> {}, txs |-> NoTxs, reward |-> 0]

\* What the hash of b commits to: its ancestors and itself.
HashOf(b) == Append(b.prev, b.id)

LatestBlock(c) == c[Len(c)]

TotalBytes(rs) == SumFunction([r \in rs |-> ReceiptOf[r].bytes])

\* Mutant: the sender is not charged the fee.
CostWithoutFee(t) == TxOf[t].amount

Cost(t) == TxOf[t].amount + TxOf[t].fee

\* Outflow and inflow of address a in a bag of transactions.
Outflow(bag, a) ==
    SumFunction([t \in {u \in Txs : TxOf[u].from = a} |-> bag[t] * Cost(t)])
Inflow(bag, a) ==
    SumFunction([t \in {u \in Txs : TxOf[u].to = a} |-> bag[t] * TxOf[t].amount])
Fees(bag) == SumFunction([t \in Txs |-> bag[t] * TxOf[t].fee])

\* _apply_tx_to_cache over the transactions of a block, coinbase included.
Delta(b, a) ==
    (IF b.miner = a THEN b.reward ELSE 0) + Inflow(b.txs, a) - Outflow(b.txs, a)

\* _rebuild_balance_cache
Replay(c) == [a \in Addresses |-> SumFunction([k \in DOMAIN c |-> Delta(c[k], a)])]

TotalSupply(c) == SumFunction([k \in DOMAIN c |-> c[k].reward])

\* Mutant: the cap looks at one block only.
HeadroomOfOneBlock(supply) == MaxSupply

Headroom(supply) == IF supply < MaxSupply THEN MaxSupply - supply ELSE 0

\* The coinbase Block.finalize puts into a block over these contents.
CoinbaseReward(supply, rs, cs, ss, bag) ==
    LET raw == BlockReward
               + SumFunction([r \in rs |-> ReceiptOf[r].value])
               + SumFunction([c \in cs |-> ComputeOf[c].value])
               + SumFunction([s \in ss |-> StorageOf[s].value])
               + Fees(bag)
    IN  IF raw <= Headroom(supply) THEN raw ELSE Headroom(supply)

ProofsIn(c)  == UNION {c[k].proofs  : k \in DOMAIN c}
ComputeIn(c) == UNION {c[k].compute : k \in DOMAIN c}
StorageIn(c) == UNION {c[k].storage : k \in DOMAIN c}

ValidTx(t) == TxOf[t].signed /\ TxOf[t].fee >= MinFee

-----------------------------------------------------------------------------
Init ==
    /\ chain = [n \in Nodes |-> <<Genesis>>]
    /\ mempool = [n \in Nodes |-> NoTxs]
    /\ reserved = [n \in Nodes |-> [a \in Addresses |-> 0]]
    /\ pendingProofs = [n \in Nodes |-> {}]
    /\ pendingCompute = [n \in Nodes |-> {}]
    /\ pendingStorage = [n \in Nodes |-> {}]
    /\ spentReceipts = [n \in Nodes |-> {}]
    /\ spentCompute = [n \in Nodes |-> {}]
    /\ spentStorage = [n \in Nodes |-> {}]
    /\ balance = [n \in Nodes |-> [a \in Addresses |-> 0]]
    /\ stakes = [n \in Nodes |-> [a \in Addresses |-> 0]]
    /\ candidates = [n \in Nodes |-> {}]
    /\ network = {}
    /\ fetched = [n \in Nodes |-> <<>>]

-----------------------------------------------------------------------------
(* Proof and transaction intake *)

\* add_proof: no signature check here, only in _validate_block.
AddProof(n, r) ==
    /\ r \notin spentReceipts[n]
    /\ r \notin pendingProofs[n]
    /\ pendingProofs' = [pendingProofs EXCEPT ![n] = @ \cup {r}]
    /\ UNCHANGED <<chain, moneyVars, pendingCompute, pendingStorage, spentVars,
                   stakes, candidates, network, fetched>>

HasMinimumStake(n, a, role) == stakes[n][a] >= StakeMinimums[role]

AddComputeProof(n, c) ==
    /\ c \notin spentCompute[n]
    /\ c \notin pendingCompute[n]
    /\ HasMinimumStake(n, ComputeOf[c].worker, ComputeRole)
    /\ pendingCompute' = [pendingCompute EXCEPT ![n] = @ \cup {c}]
    /\ UNCHANGED <<chain, moneyVars, pendingProofs, pendingStorage, spentVars,
                   stakes, candidates, network, fetched>>

AddStorageProof(n, s) ==
    /\ s \notin spentStorage[n]
    /\ s \notin pendingStorage[n]
    /\ StorageOf[s].signed
    /\ pendingStorage' = [pendingStorage EXCEPT ![n] = @ \cup {s}]
    /\ UNCHANGED <<chain, moneyVars, pendingProofs, pendingCompute, spentVars,
                   stakes, candidates, network, fetched>>

\* add_transaction: the confirmed balance less what the mempool already reserves
\* must cover the cost.  A tx_id that is already pooled or confirmed is not refused.
AddTransaction(n, t) ==
    LET from == TxOf[t].from IN
    /\ ValidTx(t)
    /\ balance[n][from] - reserved[n][from] >= Cost(t)
    /\ mempool' = [mempool EXCEPT ![n][t] = @ + 1]
    /\ reserved' = [reserved EXCEPT ![n][from] = @ + Cost(t)]
    /\ UNCHANGED <<chain, balance, poolVars, spentVars, stakes, candidates, network, fetched>>

-----------------------------------------------------------------------------
(* Block production *)

\* Mutant: pending proofs are taken without looking at the spent sets.
NewBlockUnfiltered(n, id) ==
    LET bag == [t \in Txs |-> IF ValidTx(t) THEN mempool[n][t] ELSE 0]
    IN  [id |-> id, index |-> Len(chain[n]), prev |-> HashOf(LatestBlock(chain[n])),
         miner |-> Wallet[n], proofs |-> pendingProofs[n], compute |-> pendingCompute[n],
         storage |-> pendingStorage[n], txs |-> bag,
         reward |-> CoinbaseReward(TotalSupply(chain[n]), pendingProofs[n],
                                   pendingCompute[n], pendingStorage[n], bag)]

\* create_block on node n, then Block.finalize; nothing of the node changes.
NewBlock(n, id) ==
    LET rs  == pendingProofs[n] \ spentReceipts[n]
        cs  == pendingCompute[n] \ spentCompute[n]
        ss  == pendingStorage[n] \ spentStorage[n]
        bag == [t \in Txs |-> IF ValidTx(t) THEN mempool[n][t] ELSE 0]
    IN  [id |-> id, index |-> Len(chain[n]), prev |-> HashOf(LatestBlock(chain[n])),
         miner |-> Wallet[n], proofs |-> rs, compute |-> cs, storage |-> ss,
         txs |-> bag,
         reward |-> CoinbaseReward(TotalSupply(chain[n]), rs, cs, ss, bag)]

AllBlocks == network \cup UNION {candidates[n] : n \in Nodes}

CreateBlock(n, id) ==
    /\ TotalBytes(pendingProofs[n] \ spentReceipts[n]) >= Difficulty
    /\ Cardinality(candidates[n]) < MinerThreads
    /\ id \notin {b.id : b \in AllBlocks}
    /\ candidates' = [candidates EXCEPT ![n] = @ \cup {NewBlock(n, id)}]
    /\ UNCHANGED <<chain, moneyVars, poolVars, spentVars, stakes, network, fetched>>

\* _validate_block.  The block's own hash is right by construction, and the
\* difficulty is the same for all blocks here.
ValidateBlock(n, b) ==
    /\ b.index = Len(chain[n])
    /\ b.prev = HashOf(LatestBlock(chain[n]))
    /\ TotalBytes(b.proofs) >= Difficulty
    /\ \A r \in b.proofs : r \notin spentReceipts[n] /\ ReceiptOf[r].signed
    /\ \A s \in b.storage : StorageOf[s].signed
    /\ \A t \in Txs : b.txs[t] > 0 => TxOf[t].signed

ReleasedEntirely(n, b) ==
    [a \in Addresses |-> IF Outflow(b.txs, a) > 0 THEN 0 ELSE reserved[n][a]]

\* Reservations after the block's transactions released theirs, never below 0.
Released(n, b) ==
    [a \in Addresses |-> IF reserved[n][a] > Outflow(b.txs, a)
                         THEN reserved[n][a] - Outflow(b.txs, a) ELSE 0]

\* _add_block_locked, once the block is valid.
AddBlock(n, b) ==
    /\ ValidateBlock(n, b)
    /\ chain' = [chain EXCEPT ![n] = Append(@, b)]
    /\ spentReceipts' = [spentReceipts EXCEPT ![n] = @ \cup b.proofs]
    /\ spentCompute' = [spentCompute EXCEPT ![n] = @ \cup b.compute]
    /\ spentStorage' = [spentStorage EXCEPT ![n] = @ \cup b.storage]
    /\ pendingProofs' = [pendingProofs EXCEPT ![n] = @ \ b.proofs]
    /\ pendingCompute' = [pendingCompute EXCEPT ![n] = @ \ b.compute]
    /\ pendingStorage' = [pendingStorage EXCEPT ![n] = @ \ b.storage]
    /\ reserved' = [reserved EXCEPT ![n] = Released(n, b)]
    /\ mempool' = [mempool EXCEPT ![n] =
                      [t \in Txs |-> IF b.txs[t] > 0 THEN 0 ELSE mempool[n][t]]]
    /\ balance' = [balance EXCEPT ![n] =
                      [a \in Addresses |-> balance[n][a] + Delta(b, a)]]
    /\ UNCHANGED <<stakes, fetched>>

\* The miner offers its block to its own chain; accepted, it is broadcast.
MineBlock(n, b) ==
    /\ b \in candidates[n]
    /\ AddBlock(n, b)
    /\ candidates' = [candidates EXCEPT ![n] = @ \ {b}]
    /\ network' = network \cup {b}

\* ... and is dropped when add_block refuses it (another block came first).
DropBlock(n, b) ==
    /\ b \in candidates[n]
    /\ ~ ValidateBlock(n, b)
    /\ candidates' = [candidates EXCEPT ![n] = @ \ {b}]
    /\ UNCHANGED <<chain, moneyVars, poolVars, spentVars, stakes, network, fetched>>

\* A block of a peer, by gossip, POST /block or ChainSync: whenever, any number of times.
ReceiveBlock(n, b) ==
    /\ b \in network
    /\ AddBlock(n, b)
    /\ UNCHANGED <<candidates, network>>

-----------------------------------------------------------------------------
(* Chain replacement *)

\* _sync_with_peers: GET /chain of peer m; the answer is used after an await.
FetchChain(n, m) ==
    /\ m # n
    /\ fetched' = [fetched EXCEPT ![n] = chain[m]]
    /\ UNCHANGED <<chain, moneyVars, poolVars, spentVars, stakes, candidates, network>>

\* validate_chain: links, bytes and difficulty; no proof or transaction is looked at.
ValidateChain(c) ==
    \A i \in 2..Len(c) :
        /\ c[i].prev = HashOf(c[i - 1])
        /\ TotalBytes(c[i].proofs) >= Difficulty

\* Mutant: only the chain is replaced.
ReplaceChainOnly(n) ==
    /\ Len(fetched[n]) > Len(chain[n])
    /\ ValidateChain(fetched[n])
    /\ chain' = [chain EXCEPT ![n] = fetched[n]]
    /\ fetched' = [fetched EXCEPT ![n] = <<>>]
    /\ UNCHANGED <<spentVars, moneyVars, poolVars, stakes, candidates, network>>

\* replace_chain: chain, spent sets and balance cache are rebuilt; mempool,
\* reservations, pending proofs and stakes stay as they are.
ReplaceChain(n) ==
    /\ Len(fetched[n]) > Len(chain[n])
    /\ ValidateChain(fetched[n])
    /\ chain' = [chain EXCEPT ![n] = fetched[n]]
    /\ spentReceipts' = [spentReceipts EXCEPT ![n] = ProofsIn(fetched[n])]
    /\ spentCompute' = [spentCompute EXCEPT ![n] = ComputeIn(fetched[n])]
    /\ spentStorage' = [spentStorage EXCEPT ![n] = StorageIn(fetched[n])]
    /\ balance' = [balance EXCEPT ![n] = Replay(fetched[n])]
    /\ fetched' = [fetched EXCEPT ![n] = <<>>]
    /\ UNCHANGED <<mempool, reserved, poolVars, stakes, candidates, network>>

\* ... and a chain that is not longer, or not valid, is dropped.
KeepChain(n) ==
    /\ fetched[n] # <<>>
    /\ Len(fetched[n]) <= Len(chain[n]) \/ ~ ValidateChain(fetched[n])
    /\ fetched' = [fetched EXCEPT ![n] = <<>>]
    /\ UNCHANGED <<chain, moneyVars, poolVars, spentVars, stakes, candidates, network>>

-----------------------------------------------------------------------------
(* Staking *)

Stake(n, a, amount, role) ==
    /\ amount >= StakeMinimums[role]
    /\ balance[n][a] - stakes[n][a] >= amount
    /\ stakes' = [stakes EXCEPT ![n][a] = @ + amount]
    /\ UNCHANGED <<chain, moneyVars, poolVars, spentVars, candidates, network, fetched>>

Unstake(n, a) ==
    /\ stakes[n][a] > 0
    /\ stakes' = [stakes EXCEPT ![n][a] = 0]
    /\ UNCHANGED <<chain, moneyVars, poolVars, spentVars, candidates, network, fetched>>

\* slash: the stake entry shrinks; the balance it was locked from does not.
Slash(n, a, amount) ==
    /\ stakes[n][a] > 0
    /\ stakes' = [stakes EXCEPT ![n][a] = IF amount < @ THEN @ - amount ELSE 0]
    /\ UNCHANGED <<chain, moneyVars, poolVars, spentVars, candidates, network, fetched>>

-----------------------------------------------------------------------------
Next ==
    \E n \in Nodes :
        \/ \E r \in Receipts : AddProof(n, r)
        \/ \E c \in ComputeIds : AddComputeProof(n, c)
        \/ \E s \in StorageIds : AddStorageProof(n, s)
        \/ \E t \in Txs : AddTransaction(n, t)
        \/ \E id \in BlockIds : CreateBlock(n, id)
        \/ \E b \in candidates[n] : MineBlock(n, b)
        \/ \E b \in candidates[n] : DropBlock(n, b)
        \/ \E b \in network : ReceiveBlock(n, b)
        \/ \E m \in Nodes : FetchChain(n, m)
        \/ ReplaceChain(n)
        \/ KeepChain(n)
        \/ \E a \in Addresses, amount \in StakeAmounts, role \in Roles :
               Stake(n, a, amount, role)
        \/ \E a \in Addresses : Unstake(n, a)
        \/ \E a \in Addresses, amount \in StakeAmounts : Slash(n, a, amount)

Spec == Init /\ [][Next]_vars

-----------------------------------------------------------------------------
(* Properties *)

\* Every variable holds what the dicts, lists and sets of BorderChain.__init__ may hold.
TypeOK ==
    /\ chain \in [Nodes -> Seq(Block) \ {<<>>}]
    /\ mempool \in [Nodes -> TxBag]
    /\ reserved \in [Nodes -> [Addresses -> Nat]]
    /\ pendingProofs \in [Nodes -> SUBSET Receipts]
    /\ pendingCompute \in [Nodes -> SUBSET ComputeIds]
    /\ pendingStorage \in [Nodes -> SUBSET StorageIds]
    /\ spentReceipts \in [Nodes -> SUBSET Receipts]
    /\ spentCompute \in [Nodes -> SUBSET ComputeIds]
    /\ spentStorage \in [Nodes -> SUBSET StorageIds]
    /\ balance \in [Nodes -> [Addresses -> Int]]
    /\ stakes \in [Nodes -> [Addresses -> Nat]]
    /\ candidates \in [Nodes -> SUBSET Block]
    /\ network \subseteq Block
    /\ fetched \in [Nodes -> Seq(Block)]

\* No bandwidth receipt is rewarded by two blocks of one chain, whatever the order
\* in which blocks are created, received and chains replaced (_validate_block checks
\* receipts, validate_chain does not).
ReceiptsSpentOnce ==
    \A n \in Nodes : \A i, j \in DOMAIN chain[n] :
        i # j => chain[n][i].proofs \cap chain[n][j].proofs = {}

\* Nor is a compute or a storage proof, although _validate_block never consults
\* _spent_compute_proofs and _spent_storage_proofs: the filter of create_block is the
\* only guard, and it ran on the miner's chain at an earlier time.
ServiceProofsSpentOnce ==
    \A n \in Nodes : \A i, j \in DOMAIN chain[n] :
        i # j => /\ chain[n][i].compute \cap chain[n][j].compute = {}
                 /\ chain[n][i].storage \cap chain[n][j].storage = {}

\* The spent sets, maintained incrementally by add_block and rebuilt by replace_chain,
\* are those of the chain the node holds.
SpentSetsMatchChain ==
    \A n \in Nodes :
        /\ spentReceipts[n] = ProofsIn(chain[n])
        /\ spentCompute[n] = ComputeIn(chain[n])
        /\ spentStorage[n] = StorageIn(chain[n])

\* Every bandwidth proof on a chain carries a valid signature, although add_proof
\* queues unsigned ones and replace_chain checks none.
ChainProofsSigned ==
    \A n \in Nodes : \A r \in ProofsIn(chain[n]) : ReceiptOf[r].signed

\* The incrementally maintained _balance_cache equals a replay of the chain.
CacheMatchesChain == \A n \in Nodes : balance[n] = Replay(chain[n])

\* No coin appears or vanishes: what all addresses hold is what coinbases paid less
\* the fees senders were charged.
Conservation ==
    \A n \in Nodes :
        SumFunction(balance[n])
        = TotalSupply(chain[n])
          - SumFunction([k \in DOMAIN chain[n] |-> Fees(chain[n][k].txs)])

\* The coinbases of a chain never exceed MAX_SUPPLY, though the cap is applied when a
\* block is created and add_block never looks at the coinbase amount.
SupplyCapped == \A n \in Nodes : TotalSupply(chain[n]) <= MaxSupply

\* Between create_block and add_block proofs, transactions and blocks arrive; a block
\* whose parent is still the tip is accepted, if the queued receipts are signed.
FreshBlockAccepted ==
    \A n \in Nodes : \A b \in candidates[n] :
        /\ b.prev = HashOf(LatestBlock(chain[n]))
        /\ \A r \in b.proofs : ReceiptOf[r].signed
        => ValidateBlock(n, b)

\* Double-spend protection of add_transaction: what the mempool would spend is covered
\* by the reservations, and these by the confirmed balance.
MempoolFunded ==
    \A n \in Nodes, a \in Addresses :
        /\ Outflow(mempool[n], a) <= reserved[n][a]
        /\ reserved[n][a] <= balance[n][a]

\* A node never gives up its chain for one that is not longer: not even when the chain
\* it fetched was longer at the time and its own has grown since (replace_chain).
OnlyLongerChains ==
    [][\A n \in Nodes : chain'[n] # chain[n] => Len(chain'[n]) > Len(chain[n])]_vars

\* border_whitepaper.md 8.2: "Mempool deduplication; tx_id in spent set after
\* confirmation", so a chain confirms a transaction at most once.
TxConfirmedOnce ==
    \A n \in Nodes, t \in Txs :
        SumFunction([k \in DOMAIN chain[n] |-> chain[n][k].txs[t]]) <= 1
=============================================================================
