---------------------------- MODULE ChainThreads ----------------------------
(***************************************************************************)
(* One BorderChain object under the threads that share it: the Flask and   *)
(* gossip handler threads and the relay's mining daemon.  Module           *)
(* BorderChain takes every method as one step; here the intake methods,    *)
(* create_block and add_block are cut between their accesses to the shared *)
(* state (a loop over one list is one step).  Only add_block takes         *)
(* self._lock, so its body excludes other add_blocks and nothing else.     *)
(*                                                                         *)
(* Data abstraction.  Nobody replaces the chain here, so the hash of a     *)
(* block is its position in the chain, and a previous_hash is the position *)
(* of the tip that was read.  Senders receive nothing, so a balance is     *)
(* what is left of Funds.  A bandwidth proof suffices for a block.  The    *)
(* order of a list of proofs has no effect, the number of copies has:      *)
(* lists of proofs are bags.                                               *)
(***************************************************************************)
EXTENDS Integers, Sequences, FiniteSets, Functions

CONSTANTS
    Threads,        \* threads that call into the chain
    Senders,        \* addresses that pay
    Txs,            \* transactions, each submitted at most once
    Sender,         \* Sender[t]: from_address
    Cost,           \* Cost[t]: amount + fee
    Funds,          \* Funds[a]: confirmed balance at the start
    Receipts,       \* bandwidth receipts submitted to this node
    PeerReceipts,   \* bandwidth receipts only a peer has
    StorageIds,     \* storage proofs, submitted to this node and to the peer
    MaxBlocks,      \* bound on the length of the chain
    NoThread        \* the lock is free

ASSUME ThreadsAssumption ==
    /\ IsFiniteSet(Txs)
    /\ Sender \in [Txs -> Senders]
    /\ Cost \in [Txs -> Nat \ {0}]
    /\ Funds \in [Senders -> Nat]
    /\ Receipts \cap PeerReceipts = {}
    /\ MaxBlocks \in Nat
    /\ NoThread \notin Threads

VARIABLES
    chain,      \* _chain without the genesis block: a sequence of blocks
    spent,      \* [proofs, storage]: _spent_receipts, _spent_storage_proofs
    pending,    \* [proofs, storage]: _pending_proofs, _pending_storage_proofs, as bags
    mempool,    \* _mempool
    reserved,   \* _mempool_reserved
    balance,    \* _balance_cache
    lock,       \* owner of _lock
    pc,         \* pc[th]: where thread th is
    local,      \* local[th]: its local variables
    accepted    \* transactions whose callers were told True; each is submitted until then

shared == <<chain, spent, pending, mempool, reserved, balance, lock>>
vars == <<shared, pc, local, accepted>>

AllReceipts == Receipts \cup PeerReceipts

Block == [index : Nat, prev : Nat, proofs : [AllReceipts -> Nat],
          storage : [StorageIds -> Nat], txs : SUBSET Txs]

\* Lists of proofs: one copy of each of xs, the ids in a list, a list without those of xs.
List(S, xs)   == [x \in S |-> IF x \in xs THEN 1 ELSE 0]
Ids(list)     == {x \in DOMAIN list : list[x] > 0}
Without(list, xs) == [x \in DOMAIN list |-> IF x \in xs THEN 0 ELSE list[x]]

NoLocal == [x \in {} |-> 0]

CostOf(txs, a) == SumFunction([t \in {u \in txs : Sender[u] = a} |-> Cost[t]])

Contents(c) == [proofs  |-> UNION {Ids(c[k].proofs)  : k \in DOMAIN c},
                storage |-> UNION {Ids(c[k].storage) : k \in DOMAIN c}]
Spendings(c, a) == SumFunction([k \in DOMAIN c |-> CostOf(c[k].txs, a)])

Init ==
    /\ chain = <<>>
    /\ spent = [proofs |-> {}, storage |-> {}]
    /\ pending = [proofs |-> List(AllReceipts, {}), storage |-> List(StorageIds, {})]
    /\ mempool = {}
    /\ reserved = [a \in Senders |-> 0]
    /\ balance = Funds
    /\ lock = NoThread
    /\ pc = [th \in Threads |-> "idle"]
    /\ local = [th \in Threads |-> NoLocal]
    /\ accepted = {}

\* Thread th goes from one point to another with these local variables.
Goto(th, from, to, loc) ==
    /\ pc[th] = from
    /\ pc' = [pc EXCEPT ![th] = to]
    /\ local' = [local EXCEPT ![th] = loc]

Busy(t) == \E th \in Threads : pc[th] \in {"txCheck", "txAppend", "txReserve"} /\ local[th].tx = t

-----------------------------------------------------------------------------
(* add_transaction: no lock *)

\* confirmed = self.get_balance(...)
TxReadBalance(th, t) ==
    /\ t \notin accepted /\ ~ Busy(t)
    /\ Goto(th, "idle", "txCheck", [tx |-> t, confirmed |-> balance[Sender[t]]])
    /\ UNCHANGED <<shared, accepted>>

\* pending_out = self._mempool_reserved.get(...); available < cost: return False
TxCheck(th) ==
    LET t == local[th].tx
        out == reserved[Sender[t]]
    IN  /\ IF local[th].confirmed - out >= Cost[t]
           THEN Goto(th, "txCheck", "txAppend", [tx |-> t, out |-> out])
           ELSE Goto(th, "txCheck", "idle", NoLocal)
        /\ UNCHANGED <<shared, accepted>>

TxAppend(th) ==
    /\ Goto(th, "txAppend", "txReserve", local[th])
    /\ mempool' = mempool \cup {local[th].tx}
    /\ UNCHANGED <<chain, spent, pending, reserved, balance, lock, accepted>>

\* self._mempool_reserved[...] = pending_out + cost; return True
TxReserve(th) ==
    LET t == local[th].tx IN
    /\ Goto(th, "txReserve", "idle", NoLocal)
    /\ reserved' = [reserved EXCEPT ![Sender[t]] = local[th].out + Cost[t]]
    /\ accepted' = accepted \cup {t}
    /\ UNCHANGED <<chain, spent, pending, mempool, balance, lock>>

-----------------------------------------------------------------------------
(* add_proof and add_storage_proof: no lock *)

\* neither spent nor pending
ProofCheck(th, r) ==
    /\ r \notin spent.proofs /\ pending.proofs[r] = 0
    /\ Goto(th, "idle", "proofAppend", [receipt |-> r])
    /\ UNCHANGED <<shared, accepted>>

ProofAppend(th) ==
    /\ Goto(th, "proofAppend", "idle", NoLocal)
    /\ pending' = [pending EXCEPT !.proofs[local[th].receipt] = @ + 1]
    /\ UNCHANGED <<chain, spent, mempool, reserved, balance, lock, accepted>>

StorageCheck(th, s) ==
    /\ s \notin spent.storage /\ pending.storage[s] = 0
    /\ Goto(th, "idle", "storageAppend", [proof |-> s])
    /\ UNCHANGED <<shared, accepted>>

StorageAppend(th) ==
    /\ Goto(th, "storageAppend", "idle", NoLocal)
    /\ pending' = [pending EXCEPT !.storage[local[th].proof] = @ + 1]
    /\ UNCHANGED <<chain, spent, mempool, reserved, balance, lock, accepted>>

-----------------------------------------------------------------------------
(* create_block: no lock *)

\* valid_proofs, and whether they suffice
MineProofs(th) ==
    LET rs == Without(pending.proofs, spent.proofs) IN
    /\ Ids(rs) # {} /\ Len(chain) < MaxBlocks
    /\ Goto(th, "idle", "mineService", [proofs |-> rs])
    /\ UNCHANGED <<shared, accepted>>

\* valid_storage and pending_txs
MineService(th) ==
    /\ Goto(th, "mineService", "mineIndex",
            [proofs |-> local[th].proofs, txs |-> mempool,
             storage |-> Without(pending.storage, spent.storage)])
    /\ UNCHANGED <<shared, accepted>>

\* index=len(self._chain)
MineIndex(th) ==
    /\ Goto(th, "mineIndex", "mineTip",
            [proofs |-> local[th].proofs, storage |-> local[th].storage,
             txs |-> local[th].txs, index |-> Len(chain)])
    /\ UNCHANGED <<shared, accepted>>

\* previous_hash=self.latest_block.block_hash; the block then goes to add_block
MineTip(th) ==
    /\ Goto(th, "mineTip", "add",
            [proofs |-> local[th].proofs, storage |-> local[th].storage,
             txs |-> local[th].txs, index |-> local[th].index, prev |-> Len(chain)])
    /\ UNCHANGED <<shared, accepted>>

\* A peer's block on the tip of this moment: receipts of its own, storage proofs that
\* its chain, the same as this one, has not rewarded.
PeerBlock(th, r, ss) ==
    /\ lock = NoThread /\ Len(chain) < MaxBlocks
    /\ r \notin Contents(chain).proofs /\ ss \cap Contents(chain).storage = {}
    /\ Goto(th, "idle", "add", [index |-> Len(chain), prev |-> Len(chain), txs |-> {},
                                proofs |-> List(AllReceipts, {r}),
                                storage |-> List(StorageIds, ss)])
    /\ UNCHANGED <<shared, accepted>>

-----------------------------------------------------------------------------
(* add_block: under the lock *)

Valid(b) ==
    /\ b.index = Len(chain) /\ b.prev = Len(chain)
    /\ Ids(b.proofs) # {} /\ Ids(b.proofs) \cap spent.proofs = {}

Acquire(th) ==
    /\ lock = NoThread
    /\ Valid(local[th])
    /\ lock' = th
    /\ Goto(th, "add", "append", local[th])
    /\ UNCHANGED <<chain, spent, pending, mempool, reserved, balance, accepted>>

\* Mutant: the early return leaves the lock taken.
RefuseHolding(th) ==
    /\ lock = NoThread
    /\ ~ Valid(local[th])
    /\ Goto(th, "add", "idle", NoLocal)
    /\ lock' = th
    /\ UNCHANGED <<chain, spent, pending, mempool, reserved, balance, accepted>>

\* not valid: the lock is taken and given back, nothing changes.
Refuse(th) ==
    /\ lock = NoThread
    /\ ~ Valid(local[th])
    /\ Goto(th, "add", "idle", NoLocal)
    /\ UNCHANGED <<shared, accepted>>

AppendBlock(th) ==
    /\ Goto(th, "append", "spend", local[th])
    /\ chain' = Append(chain, local[th])
    /\ UNCHANGED <<spent, pending, mempool, reserved, balance, lock, accepted>>

Spend(th) ==
    /\ Goto(th, "spend", "prune", local[th])
    /\ spent' = [proofs  |-> spent.proofs \cup Ids(local[th].proofs),
                 storage |-> spent.storage \cup Ids(local[th].storage)]
    /\ UNCHANGED <<chain, pending, mempool, reserved, balance, lock, accepted>>

\* The lists of pending proofs are filtered into new lists ...
PruneScan(th) ==
    LET b == local[th] IN
    /\ Goto(th, "prune", "pruneBind",
            [block |-> b, keep |-> [proofs  |-> Without(pending.proofs, Ids(b.proofs)),
                                    storage |-> Without(pending.storage, Ids(b.storage))]])
    /\ UNCHANGED <<shared, accepted>>

\* ... which replace the old ones.
PruneBind(th) ==
    /\ Goto(th, "pruneBind", "release", local[th].block)
    /\ pending' = local[th].keep
    /\ UNCHANGED <<chain, spent, mempool, reserved, balance, lock, accepted>>

Release(th) ==
    LET after(a) == reserved[a] - CostOf(local[th].txs, a) IN
    /\ Goto(th, "release", "confirm", local[th])
    /\ reserved' = [a \in Senders |-> IF after(a) > 0 THEN after(a) ELSE 0]
    /\ UNCHANGED <<chain, spent, pending, mempool, balance, lock, accepted>>

\* The same for the mempool.
ConfirmScan(th) ==
    LET b == local[th] IN
    /\ Goto(th, "confirm", "confirmBind", [block |-> b, keep |-> mempool \ b.txs])
    /\ UNCHANGED <<shared, accepted>>

ConfirmBind(th) ==
    /\ Goto(th, "confirmBind", "cache", local[th].block)
    /\ mempool' = local[th].keep
    /\ UNCHANGED <<chain, spent, pending, reserved, balance, lock, accepted>>

\* Mutant: the lock is released before the balance cache is brought up to date.
CacheLater(th) ==
    /\ pc[th] = "cache"
    /\ IF lock = th
       THEN lock' = NoThread /\ UNCHANGED <<balance, pc, local>>
       ELSE /\ Goto(th, "cache", "idle", NoLocal)
            /\ balance' = [a \in Senders |-> balance[a] - CostOf(local[th].txs, a)]
            /\ UNCHANGED lock
    /\ UNCHANGED <<chain, spent, pending, mempool, reserved, accepted>>

Cache(th) ==
    /\ Goto(th, "cache", "idle", NoLocal)
    /\ balance' = [a \in Senders |-> balance[a] - CostOf(local[th].txs, a)]
    /\ lock' = NoThread
    /\ UNCHANGED <<chain, spent, pending, mempool, reserved, accepted>>

-----------------------------------------------------------------------------
\* What a thread that has begun a call does next.
Continue(th) ==
    \/ pc[th] = "txCheck" /\ TxCheck(th)
    \/ TxAppend(th) \/ TxReserve(th) \/ ProofAppend(th) \/ StorageAppend(th)
    \/ MineService(th) \/ MineIndex(th) \/ MineTip(th)
    \/ pc[th] = "add" /\ Acquire(th)
    \/ pc[th] = "add" /\ Refuse(th)
    \/ AppendBlock(th) \/ Spend(th) \/ PruneScan(th) \/ PruneBind(th)
    \/ Release(th) \/ ConfirmScan(th) \/ ConfirmBind(th) \/ Cache(th)

Call(th) ==
    \/ \E t \in Txs : TxReadBalance(th, t)
    \/ \E r \in Receipts : ProofCheck(th, r)
    \/ \E s \in StorageIds : StorageCheck(th, s)
    \/ MineProofs(th)
    \/ \E r \in PeerReceipts, ss \in SUBSET StorageIds : PeerBlock(th, r, ss)

Next == \E th \in Threads : Call(th) \/ Continue(th)

Fairness == \A th \in Threads : WF_vars(Continue(th))

Spec == Init /\ [][Next]_vars /\ Fairness

-----------------------------------------------------------------------------
(* Properties *)

\* Whenever no add_block is running, spent sets and balances are those of the chain,
\* although readers and writers without the lock come and go during add_block.
QuiescentConsistent ==
    lock = NoThread =>
        /\ spent = Contents(chain)
        /\ \A a \in Senders : balance[a] = Funds[a] - Spendings(chain, a)

\* A thread that calls add_block, or any other method, returns from it: chain._lock is
\* never waited for for ever.
AddBlockReturns == \A th \in Threads : []<>(pc[th] = "idle")

\* SECURITY.md H2: the lock "wraps all public mutating methods (add_transaction, ...)",
\* against "races leading to balance corruption": what the mempool may spend is covered
\* by the confirmed balance whenever no call is running.
MempoolFunded ==
    (\A th \in Threads : pc[th] = "idle") =>
        \A a \in Senders : CostOf(mempool, a) <= balance[a]
=============================================================================
