----------------------------- MODULE NodeProofs -----------------------------
(***************************************************************************)
(* Theorems about a node and its network: the threads that share the chain *)
(* (ChainThreads), gossip (Gossip), the tables of peers (PeerTable) and    *)
(* the sync of chains (ChainSync), for any number of threads, nodes,       *)
(* blocks and messages.                                                    *)
(***************************************************************************)
EXTENDS ChainThreads, Gossip, PeerTable, ChainSync, SumTheorems

-----------------------------------------------------------------------------
(* The threads of the chain *)

\* Where a thread holds _lock, and the block that it holds it for.
Held == {"append", "spend", "prune", "pruneBind", "release", "confirm", "confirmBind", "cache"}
BlockOf(th) == IF pc[th] \in {"pruneBind", "confirmBind"} THEN local[th].block ELSE local[th]

Lists == [proofs : [AllReceipts -> Nat], storage : [StorageIds -> Nat]]

\* The local variables that the properties depend on.
LocalOK(th) ==
    /\ pc[th] \in {"txCheck", "txAppend", "txReserve"} => local[th].tx \in Txs
    /\ pc[th] = "mineService" => local[th].proofs \in [AllReceipts -> Nat]
    /\ pc[th] \in {"mineIndex", "mineTip"} =>
          /\ local[th].proofs \in [AllReceipts -> Nat] /\ local[th].storage \in [StorageIds -> Nat]
          /\ local[th].txs \subseteq Txs
    /\ pc[th] = "mineTip" => local[th].index \in Nat
    /\ pc[th] \in Held \cup {"add"} => BlockOf(th) \in Block
    /\ pc[th] = "confirmBind" => local[th].keep \subseteq Txs
    /\ pc[th] = "pruneBind" => local[th].keep \in Lists

ThreadTypes ==
    /\ chain \in Seq(Block) /\ mempool \subseteq Txs /\ pending \in Lists
    /\ balance \in [Senders -> Int]
    /\ DOMAIN pc = Threads /\ DOMAIN local = Threads
    /\ \A th \in Threads : LocalOK(th)

\* A thread is inside add_block exactly when it owns the lock, so one at most is.
Exclusion == lock \in Threads \cup {NoThread} /\ \A th \in Threads : pc[th] \in Held <=> lock = th

\* What was paid according to the chain
Settled(a) == Funds[a] - Spendings(chain, a)

\* How far the owner of the lock has come: the spent sets lag behind the chain by its
\* block until "prune", and the balances until it gives the lock back.
Progress ==
    /\ lock = NoThread \/ pc[lock] = "append" =>
          spent = Contents(chain) /\ \A a \in Senders : balance[a] = Settled(a)
    /\ lock # NoThread /\ pc[lock] # "append" =>
          LET b == BlockOf(lock) IN
          /\ IF pc[lock] = "spend"
             THEN [proofs |-> spent.proofs \cup Ids(b.proofs), storage |-> spent.storage \cup Ids(b.storage)]
                  = Contents(chain)
             ELSE spent = Contents(chain)
          /\ \A a \in Senders : balance[a] - CostOf(b.txs, a) = Settled(a)

ThreadsInv == ThreadTypes /\ Exclusion /\ Progress

LEMMA BlockParts ==
  ASSUME NEW b \in Block
  PROVE  /\ b.txs \subseteq Txs /\ b.proofs \in [AllReceipts -> Nat] /\ b.storage \in [StorageIds -> Nat]
         /\ b.index \in Nat
BY DEF Block

LEMMA CostNat ==
  ASSUME NEW txs \in SUBSET Txs, NEW a
  PROVE  CostOf(txs, a) \in Nat
<1> DEFINE T == {u \in txs : Sender[u] = a}
           f == [t \in T |-> Cost[t]]
<1>1. IsFiniteSet(T) /\ DOMAIN f = T
  BY ThreadsAssumption, FS_Subset
<1>2. \A x \in T : f[x] \in Nat
  BY ThreadsAssumption
<1> HIDE DEF T, f
<1>3. SumFunctionOnSet(f, T) \in Nat
  BY <1>1, <1>2, SumNat
<1>4. CostOf(txs, a) = SumFunction(f)
  BY DEF CostOf, T, f
<1> QED
  BY <1>1, <1>3, <1>4 DEF SumFunction

LEMMA SpendingsAppend ==
  ASSUME NEW c \in Seq(Block), NEW b \in Block, NEW a
  PROVE  /\ Spendings(Append(c, b), a) = Spendings(c, a) + CostOf(b.txs, a)
         /\ Spendings(c, a) \in Int
<1> DEFINE L == Len(c)
           f == [k \in DOMAIN c |-> CostOf(c[k].txs, a)]
           d == Append(c, b)
           g == [k \in DOMAIN d |-> CostOf(d[k].txs, a)]
<1>1. /\ L \in Nat /\ DOMAIN c = 1 .. L /\ DOMAIN d = 1 .. L + 1
      /\ \A k \in 1 .. L : d[k] = c[k] /\ c[k] \in Block
      /\ d[L + 1] = b
  OBVIOUS
<1>2. \A k \in 1 .. L : CostOf(c[k].txs, a) \in Nat
  BY <1>1, BlockParts, CostNat
<1>3. CostOf(b.txs, a) \in Nat
  BY BlockParts, CostNat
<1> HIDE DEF L, d
<1>4. f \in [1 .. L -> Int]
  BY <1>1, <1>2
<1>5. g \in [1 .. L + 1 -> Int]
  <2> SUFFICES ASSUME NEW k \in 1 .. L + 1 PROVE CostOf(d[k].txs, a) \in Int
    BY <1>1
  <2>1. k \in 1 .. L \/ k = L + 1
    BY <1>1
  <2> QED
    BY <1>1, <1>2, <1>3, <2>1
<1>6. (\A k \in 1 .. L : g[k] = f[k]) /\ g[L + 1] = CostOf(b.txs, a)
  BY <1>1
<1> HIDE DEF f, g
<1>7. SumFunction(g) = SumFunction(f) + g[L + 1]
  BY <1>1, <1>4, <1>5, <1>6, SumLast
<1>8. SumFunction(f) \in Int
  <2>1. IsFiniteSet(1 .. L) /\ DOMAIN f = 1 .. L /\ \A k \in 1 .. L : f[k] \in Int
    BY <1>1, <1>4, FS_Interval
  <2>2. SumFunctionOnSet(f, 1 .. L) \in Int
    BY <2>1, SumInt
  <2> QED
    BY <2>1, <2>2 DEF SumFunction
<1> QED
  BY <1>6, <1>7, <1>8 DEF Spendings, f, g, d

LEMMA ContentsAppend ==
  ASSUME NEW c \in Seq(Block), NEW b \in Block
  PROVE  Contents(Append(c, b)) = [proofs  |-> Contents(c).proofs \cup Ids(b.proofs),
                                   storage |-> Contents(c).storage \cup Ids(b.storage)]
<1> DEFINE L == Len(c)
           d == Append(c, b)
<1>1. /\ L \in Nat /\ DOMAIN c = 1 .. L /\ DOMAIN d = (1 .. L) \cup {L + 1}
      /\ \A k \in 1 .. L : d[k] = c[k]
      /\ d[L + 1] = b
  OBVIOUS
<1> HIDE DEF L, d
<1>2. UNION {Ids(d[k].proofs) : k \in DOMAIN d} = (UNION {Ids(c[k].proofs) : k \in DOMAIN c}) \cup Ids(b.proofs)
  BY <1>1
<1>3. UNION {Ids(d[k].storage) : k \in DOMAIN d} = (UNION {Ids(c[k].storage) : k \in DOMAIN c}) \cup Ids(b.storage)
  BY <1>1
<1> QED
  BY <1>2, <1>3 DEF Contents, d

LEMMA WithoutType ==
  ASSUME NEW S, NEW list \in [S -> Nat], NEW xs
  PROVE  Without(list, xs) \in [S -> Nat]
BY DEF Without

\* A step of a thread moves that thread only.
LEMMA GotoFacts ==
  ASSUME ThreadTypes, NEW th \in Threads, NEW from, NEW to, NEW loc, Goto(th, from, to, loc)
  PROVE  /\ pc[th] = from /\ pc'[th] = to /\ local'[th] = loc
         /\ DOMAIN pc' = Threads /\ DOMAIN local' = Threads
         /\ \A o \in Threads : o # th => pc'[o] = pc[o] /\ local'[o] = local[o]
BY DEF Goto, ThreadTypes

LEMMA OthersOK ==
  ASSUME ThreadsInv, NEW th \in Threads, NEW from, NEW to, NEW loc, Goto(th, from, to, loc),
         LocalOK(th)', chain' \in Seq(Block), mempool' \subseteq Txs, pending' \in Lists,
         balance' \in [Senders -> Int]
  PROVE  ThreadTypes' /\ \A o \in Threads : o # th => BlockOf(o)' = BlockOf(o)
<1>1. ThreadTypes
  BY DEF ThreadsInv
<1>2. \A o \in Threads : o # th => pc'[o] = pc[o] /\ local'[o] = local[o]
  BY <1>1, GotoFacts
<1>3. \A o \in Threads : o # th => LocalOK(o)' /\ BlockOf(o)' = BlockOf(o)
  BY <1>1, <1>2 DEF ThreadTypes, LocalOK, BlockOf
<1>4. DOMAIN pc' = Threads /\ DOMAIN local' = Threads
  BY <1>1, GotoFacts
<1> QED
  BY <1>3, <1>4 DEF ThreadTypes

\* A step outside add_block that leaves chain, spent sets, balances and lock alone.
LEMMA OutsideStep ==
  ASSUME ThreadsInv, NEW th \in Threads, NEW from, NEW to, NEW loc, Goto(th, from, to, loc),
         from \notin Held, to \notin Held, LocalOK(th)',
         mempool' \subseteq Txs, pending' \in Lists, UNCHANGED <<chain, spent, balance, lock>>
  PROVE  ThreadsInv'
<1>1. ThreadTypes' /\ \A o \in Threads : o # th => BlockOf(o)' = BlockOf(o)
  BY OthersOK DEF ThreadsInv, ThreadTypes
<1>2. pc[th] = from /\ pc'[th] = to /\ \A o \in Threads : o # th => pc'[o] = pc[o]
  BY GotoFacts DEF ThreadsInv
<1>3. Exclusion'
  BY <1>2 DEF ThreadsInv, Exclusion
<1>4. lock = NoThread \/ (lock \in Threads /\ lock # th /\ pc'[lock] = pc[lock] /\ BlockOf(lock)' = BlockOf(lock))
  BY <1>1, <1>2 DEF ThreadsInv, Exclusion
<1>5. \A a : Settled(a)' = Settled(a)
  BY DEF Settled
<1>6. Progress'
  BY <1>4, <1>5 DEF ThreadsInv, Progress
<1> QED
  BY <1>1, <1>3, <1>6 DEF ThreadsInv

\* A step of the owner of the lock after the spent sets and before the balances.
LEMMA InsideStep ==
  ASSUME ThreadsInv, NEW th \in Threads, NEW from, NEW to, NEW loc, Goto(th, from, to, loc),
         from \in Held \ {"append", "spend"}, to \in Held \ {"append", "spend"}, LocalOK(th)',
         BlockOf(th)' = BlockOf(th),
         mempool' \subseteq Txs, pending' \in Lists, UNCHANGED <<chain, spent, balance, lock>>
  PROVE  ThreadsInv'
<1>1. ThreadTypes' /\ \A o \in Threads : o # th => BlockOf(o)' = BlockOf(o)
  BY OthersOK DEF ThreadsInv, ThreadTypes
<1>2. pc[th] = from /\ pc'[th] = to /\ \A o \in Threads : o # th => pc'[o] = pc[o]
  BY GotoFacts DEF ThreadsInv
<1>3. Exclusion' /\ lock = th
  BY <1>2 DEF ThreadsInv, Exclusion
<1>4. lock # NoThread /\ BlockOf(lock)' = BlockOf(lock)
  BY <1>3, ThreadsAssumption
<1>5. \A a : Settled(a)' = Settled(a)
  BY DEF Settled
<1>6. Progress'
  BY <1>2, <1>3, <1>4, <1>5 DEF ThreadsInv, Progress
<1> QED
  BY <1>1, <1>3, <1>6 DEF ThreadsInv

LEMMA ThreadsStart == Init => ThreadsInv
<1> SUFFICES ASSUME Init PROVE ThreadsInv
  OBVIOUS
<1>1. ThreadTypes
  BY ThreadsAssumption DEF Init, ThreadTypes, LocalOK, Lists, List, Held
<1>2. Exclusion
  BY ThreadsAssumption DEF Init, Exclusion, Held
<1>3. Contents(chain) = spent
  <2>1. DOMAIN chain = {}
    BY DEF Init
  <2>2. (UNION {Ids(chain[k].proofs) : k \in DOMAIN chain}) = {}
    BY <2>1
  <2>3. (UNION {Ids(chain[k].storage) : k \in DOMAIN chain}) = {}
    BY <2>1
  <2> QED
    BY <2>2, <2>3 DEF Init, Contents
<1>4. ASSUME NEW a \in Senders PROVE balance[a] = Settled(a)
  <2> DEFINE f == [k \in DOMAIN chain |-> CostOf(chain[k].txs, a)]
  <2>1. DOMAIN f = {}
    BY DEF Init
  <2>2. SumFunction(f) = 0
    BY <2>1, SumEmpty DEF SumFunction
  <2>3. Spendings(chain, a) = 0
    BY <2>2 DEF Spendings
  <2> QED
    BY <2>3, ThreadsAssumption DEF Init, Settled
<1>5. Progress
  BY <1>3, <1>4 DEF Progress, Init
<1> QED
  BY <1>1, <1>2, <1>5 DEF ThreadsInv

LEMMA ListType == ASSUME NEW S, NEW xs PROVE List(S, xs) \in [S -> Nat]
BY DEF List

\* Threads outside add_block.
LEMMA CallStep ==
  ASSUME ThreadsInv, NEW th \in Threads, Call(th)
  PROVE  ThreadsInv'
<1> USE DEF shared
<1>0. /\ mempool \subseteq Txs /\ pending \in Lists /\ Len(chain) \in Nat
      /\ "idle" \notin Held /\ "txCheck" \notin Held /\ "proofAppend" \notin Held
      /\ "storageAppend" \notin Held /\ "mineService" \notin Held /\ "add" \notin Held
  BY DEF ThreadsInv, ThreadTypes, Held
<1>1. ASSUME NEW t \in Txs, TxReadBalance(th, t) PROVE ThreadsInv'
  <2> DEFINE loc == [tx |-> t, confirmed |-> balance[Sender[t]]]
  <2>1. Goto(th, "idle", "txCheck", loc) /\ UNCHANGED <<chain, spent, pending, mempool, balance, lock>>
    BY <1>1 DEF TxReadBalance
  <2>2. pc'[th] = "txCheck" /\ local'[th] = loc
    BY <2>1, GotoFacts DEF ThreadsInv
  <2>3. LocalOK(th)'
    BY <2>2 DEF LocalOK, Held
  <2> QED
    BY <1>0, <2>1, <2>3, OutsideStep
<1>2. ASSUME NEW r \in Receipts, ProofCheck(th, r) PROVE ThreadsInv'
  <2> DEFINE loc == [receipt |-> r]
  <2>1. Goto(th, "idle", "proofAppend", loc) /\ UNCHANGED <<chain, spent, pending, mempool, balance, lock>>
    BY <1>2 DEF ProofCheck
  <2>2. pc'[th] = "proofAppend" /\ local'[th] = loc
    BY <2>1, GotoFacts DEF ThreadsInv
  <2>3. LocalOK(th)'
    BY <2>2 DEF LocalOK, Held
  <2> QED
    BY <1>0, <2>1, <2>3, OutsideStep
<1>3. ASSUME NEW s \in StorageIds, StorageCheck(th, s) PROVE ThreadsInv'
  <2> DEFINE loc == [proof |-> s]
  <2>1. Goto(th, "idle", "storageAppend", loc) /\ UNCHANGED <<chain, spent, pending, mempool, balance, lock>>
    BY <1>3 DEF StorageCheck
  <2>2. pc'[th] = "storageAppend" /\ local'[th] = loc
    BY <2>1, GotoFacts DEF ThreadsInv
  <2>3. LocalOK(th)'
    BY <2>2 DEF LocalOK, Held
  <2> QED
    BY <1>0, <2>1, <2>3, OutsideStep
<1>4. ASSUME MineProofs(th) PROVE ThreadsInv'
  <2> DEFINE rs == Without(pending.proofs, spent.proofs)
             loc == [proofs |-> rs]
  <2>1. Goto(th, "idle", "mineService", loc) /\ UNCHANGED <<chain, spent, pending, mempool, balance, lock>>
    BY <1>4 DEF MineProofs
  <2>2. rs \in [AllReceipts -> Nat]
    BY <1>0, WithoutType DEF Lists
  <2>3. pc'[th] = "mineService" /\ local'[th] = loc
    BY <2>1, GotoFacts DEF ThreadsInv
  <2>4. LocalOK(th)'
    BY <2>2, <2>3 DEF LocalOK, Held
  <2> QED
    BY <1>0, <2>1, <2>4, OutsideStep
<1>5. ASSUME NEW r \in PeerReceipts, NEW ss \in SUBSET StorageIds, PeerBlock(th, r, ss) PROVE ThreadsInv'
  <2> DEFINE loc == [index |-> Len(chain), prev |-> Len(chain), txs |-> {},
                     proofs |-> List(AllReceipts, {r}), storage |-> List(StorageIds, ss)]
  <2>1. Goto(th, "idle", "add", loc) /\ UNCHANGED <<chain, spent, pending, mempool, balance, lock>>
    BY <1>5 DEF PeerBlock
  <2>2. loc \in Block
    BY <1>0, ListType DEF Block
  <2> HIDE DEF loc
  <2>3. pc'[th] = "add" /\ local'[th] = loc
    BY <2>1, GotoFacts DEF ThreadsInv
  <2>4. LocalOK(th)'
    BY <2>2, <2>3 DEF LocalOK, Held, BlockOf
  <2> QED
    BY <1>0, <2>1, <2>4, OutsideStep
<1> QED
  BY <1>1, <1>2, <1>3, <1>4, <1>5 DEF Call

LEMMA IntakeStep ==
  ASSUME ThreadsInv, NEW th \in Threads,
         \/ TxCheck(th) \/ TxAppend(th) \/ TxReserve(th) \/ ProofAppend(th) \/ StorageAppend(th)
         \/ MineService(th) \/ MineIndex(th) \/ MineTip(th) \/ Refuse(th)
  PROVE  ThreadsInv'
<1> USE DEF shared
<1>0. /\ mempool \subseteq Txs /\ pending \in Lists /\ Len(chain) \in Nat
      /\ \A p \in {"idle", "txCheck", "txAppend", "txReserve", "proofAppend", "storageAppend",
                   "mineService", "mineIndex", "mineTip", "add"} : p \notin Held
      /\ LocalOK(th)
  BY DEF ThreadsInv, ThreadTypes, Held
\* A call that returns.
<1>1. ASSUME NEW from \in {"txCheck", "txReserve", "proofAppend", "storageAppend", "add"},
             Goto(th, from, "idle", NoLocal), mempool' = mempool, pending' \in Lists,
             UNCHANGED <<chain, spent, balance, lock>>
      PROVE  ThreadsInv'
  <2>1. pc'[th] = "idle"
    BY <1>1, GotoFacts DEF ThreadsInv
  <2>2. LocalOK(th)'
    BY <2>1 DEF LocalOK, Held
  <2> QED
    BY <1>0, <1>1, <2>2, OutsideStep
<1>2. CASE TxCheck(th)
  <2> DEFINE t == local[th].tx
             loc == [tx |-> t, out |-> reserved[Sender[t]]]
  <2>1. CASE Goto(th, "txCheck", "txAppend", loc)
    <3>1. t \in Txs
      BY <1>0, <2>1 DEF Goto, LocalOK
    <3>2. pc'[th] = "txAppend" /\ local'[th] = loc
      BY <2>1, GotoFacts DEF ThreadsInv
    <3>3. LocalOK(th)'
      BY <3>1, <3>2 DEF LocalOK, Held
    <3>4. UNCHANGED <<chain, spent, pending, mempool, balance, lock>>
      BY <1>2 DEF TxCheck
    <3> QED
      BY <1>0, <2>1, <3>3, <3>4, OutsideStep
  <2>2. CASE Goto(th, "txCheck", "idle", NoLocal)
    BY <1>0, <1>1, <1>2, <2>2 DEF TxCheck
  <2> QED
    BY <1>2, <2>1, <2>2 DEF TxCheck
<1>3. CASE TxAppend(th)
  <2>1. /\ Goto(th, "txAppend", "txReserve", local[th]) /\ mempool' = mempool \cup {local[th].tx}
        /\ UNCHANGED <<chain, spent, pending, balance, lock>>
    BY <1>3 DEF TxAppend
  <2>2. pc[th] = "txAppend" /\ pc'[th] = "txReserve" /\ local'[th] = local[th]
    BY <2>1, GotoFacts DEF ThreadsInv
  <2>3. local[th].tx \in Txs
    BY <1>0, <2>2 DEF LocalOK
  <2>4. LocalOK(th)' /\ mempool' \subseteq Txs
    BY <1>0, <2>1, <2>2, <2>3 DEF LocalOK, Held
  <2> QED
    BY <1>0, <2>1, <2>4, OutsideStep
<1>4. CASE TxReserve(th)
  BY <1>0, <1>1, <1>4 DEF TxReserve
<1>5. CASE ProofAppend(th)
  <2>1. pending' \in Lists
    BY <1>0, <1>5 DEF ProofAppend, Lists
  <2> QED
    BY <1>1, <1>5, <2>1 DEF ProofAppend
<1>6. CASE StorageAppend(th)
  <2>1. pending' \in Lists
    BY <1>0, <1>6 DEF StorageAppend, Lists
  <2> QED
    BY <1>1, <1>6, <2>1 DEF StorageAppend
<1>7. CASE MineService(th)
  <2> DEFINE loc == [proofs |-> local[th].proofs, txs |-> mempool,
                     storage |-> Without(pending.storage, spent.storage)]
  <2>1. /\ Goto(th, "mineService", "mineIndex", loc)
        /\ UNCHANGED <<chain, spent, pending, mempool, balance, lock>>
    BY <1>7 DEF MineService
  <2>2. pc[th] = "mineService" /\ pc'[th] = "mineIndex" /\ local'[th] = loc
    BY <2>1, GotoFacts DEF ThreadsInv
  <2>3. loc.storage \in [StorageIds -> Nat] /\ loc.proofs \in [AllReceipts -> Nat] /\ loc.txs \subseteq Txs
    BY <1>0, <2>2, WithoutType DEF LocalOK, Lists
  <2> HIDE DEF loc
  <2>4. LocalOK(th)'
    BY <2>2, <2>3 DEF LocalOK, Held
  <2> QED
    BY <1>0, <2>1, <2>4, OutsideStep
<1>8. CASE MineIndex(th)
  <2> DEFINE loc == [proofs |-> local[th].proofs, storage |-> local[th].storage,
                     txs |-> local[th].txs, index |-> Len(chain)]
  <2>1. /\ Goto(th, "mineIndex", "mineTip", loc)
        /\ UNCHANGED <<chain, spent, pending, mempool, balance, lock>>
    BY <1>8 DEF MineIndex
  <2>2. pc[th] = "mineIndex" /\ pc'[th] = "mineTip" /\ local'[th] = loc
    BY <2>1, GotoFacts DEF ThreadsInv
  <2>3. LocalOK(th)'
    BY <1>0, <2>2 DEF LocalOK, Held
  <2> QED
    BY <1>0, <2>1, <2>3, OutsideStep
<1>9. CASE MineTip(th)
  <2> DEFINE loc == [proofs |-> local[th].proofs, storage |-> local[th].storage,
                     txs |-> local[th].txs, index |-> local[th].index, prev |-> Len(chain)]
  <2>1. /\ Goto(th, "mineTip", "add", loc)
        /\ UNCHANGED <<chain, spent, pending, mempool, balance, lock>>
    BY <1>9 DEF MineTip
  <2>2. pc[th] = "mineTip" /\ pc'[th] = "add" /\ local'[th] = loc
    BY <2>1, GotoFacts DEF ThreadsInv
  <2>3. loc \in Block
    BY <1>0, <2>2 DEF LocalOK, Block
  <2> HIDE DEF loc
  <2>4. LocalOK(th)'
    BY <2>2, <2>3 DEF LocalOK, Held, BlockOf
  <2> QED
    BY <1>0, <2>1, <2>4, OutsideStep
<1>10. CASE Refuse(th)
  BY <1>0, <1>1, <1>10 DEF Refuse
<1> QED
  BY <1>2, <1>3, <1>4, <1>5, <1>6, <1>7, <1>8, <1>9, <1>10

\* The owner of the lock.
LEMMA AddBlockStep ==
  ASSUME ThreadsInv, NEW th \in Threads,
         \/ Acquire(th) \/ AppendBlock(th) \/ Spend(th) \/ PruneScan(th) \/ PruneBind(th)
         \/ Release(th) \/ ConfirmScan(th) \/ ConfirmBind(th) \/ Cache(th)
  PROVE  ThreadsInv'
<1> USE DEF shared
<1>0. /\ chain \in Seq(Block) /\ mempool \subseteq Txs /\ pending \in Lists
      /\ balance \in [Senders -> Int] /\ LocalOK(th) /\ th # NoThread
      /\ pc[th] \in Held <=> lock = th
  BY ThreadsAssumption DEF ThreadsInv, ThreadTypes, Exclusion
<1>1. CASE Acquire(th)
  <2> DEFINE loc == local[th]
  <2>1. /\ Goto(th, "add", "append", loc) /\ lock = NoThread /\ lock' = th
        /\ UNCHANGED <<chain, spent, pending, mempool, balance>>
    BY <1>1 DEF Acquire
  <2>2. /\ pc[th] = "add" /\ pc'[th] = "append" /\ local'[th] = loc
        /\ \A o \in Threads : o # th => pc'[o] = pc[o]
    BY <2>1, GotoFacts DEF ThreadsInv
  <2>3. LocalOK(th)'
    BY <1>0, <2>2 DEF LocalOK, Held, BlockOf
  <2>4. ThreadTypes'
    BY <1>0, <2>1, <2>3, OthersOK
  <2>5. \A o \in Threads : o # th => pc[o] \notin Held
    BY <2>1, ThreadsAssumption DEF ThreadsInv, Exclusion
  <2>6. Exclusion'
    BY <2>1, <2>2, <2>5 DEF Exclusion, Held
  <2>7. Progress'
    BY <1>0, <2>1, <2>2 DEF ThreadsInv, Progress, Settled
  <2> QED
    BY <2>4, <2>6, <2>7 DEF ThreadsInv
<1>2. CASE AppendBlock(th)
  <2> DEFINE b == local[th]
  <2>1. /\ Goto(th, "append", "spend", b) /\ chain' = Append(chain, b)
        /\ UNCHANGED <<spent, pending, mempool, balance, lock>>
    BY <1>2 DEF AppendBlock
  <2>2. /\ pc[th] = "append" /\ pc'[th] = "spend" /\ local'[th] = b
        /\ \A o \in Threads : o # th => pc'[o] = pc[o]
    BY <2>1, GotoFacts DEF ThreadsInv
  <2>3. b \in Block /\ lock = th
    BY <1>0, <2>2 DEF LocalOK, Held, BlockOf
  <2>4. LocalOK(th)' /\ BlockOf(th)' = b
    BY <2>2, <2>3 DEF LocalOK, Held, BlockOf
  <2>5. chain' \in Seq(Block)
    BY <1>0, <2>1, <2>3
  <2>6. ThreadTypes'
    BY <1>0, <2>1, <2>4, <2>5, OthersOK
  <2>7. Exclusion'
    BY <2>1, <2>2, <2>3 DEF ThreadsInv, Exclusion, Held
  <2>8. spent = Contents(chain) /\ \A a \in Senders : balance[a] = Settled(a)
    BY <2>2, <2>3 DEF ThreadsInv, Progress
  <2>9. [proofs |-> spent.proofs \cup Ids(b.proofs), storage |-> spent.storage \cup Ids(b.storage)]
        = Contents(chain')
    BY <1>0, <2>1, <2>3, <2>8, ContentsAppend
  <2>10. ASSUME NEW a \in Senders PROVE balance[a] - CostOf(b.txs, a) = Settled(a)'
    <3>1. /\ Spendings(chain', a) = Spendings(chain, a) + CostOf(b.txs, a) /\ Spendings(chain, a) \in Int
          /\ CostOf(b.txs, a) \in Nat /\ Funds[a] \in Nat
      BY <1>0, <2>1, <2>3, SpendingsAppend, BlockParts, CostNat, ThreadsAssumption
    <3> QED
      BY <2>8, <3>1 DEF Settled
  <2>11. Progress'
    BY <1>0, <2>1, <2>2, <2>3, <2>4, <2>9, <2>10 DEF Progress
  <2> QED
    BY <2>6, <2>7, <2>11 DEF ThreadsInv
<1>3. CASE Spend(th)
  <2> DEFINE b == local[th]
  <2>1. /\ Goto(th, "spend", "prune", b)
        /\ spent' = [proofs |-> spent.proofs \cup Ids(b.proofs), storage |-> spent.storage \cup Ids(b.storage)]
        /\ UNCHANGED <<chain, pending, mempool, balance, lock>>
    BY <1>3 DEF Spend
  <2>2. /\ pc[th] = "spend" /\ pc'[th] = "prune" /\ local'[th] = b
        /\ \A o \in Threads : o # th => pc'[o] = pc[o]
    BY <2>1, GotoFacts DEF ThreadsInv
  <2>3. BlockOf(th) = b /\ lock = th /\ b \in Block
    BY <1>0, <2>2 DEF LocalOK, Held, BlockOf
  <2>4. LocalOK(th)' /\ BlockOf(th)' = b
    BY <2>2, <2>3 DEF LocalOK, Held, BlockOf
  <2>5. ThreadTypes'
    BY <1>0, <2>1, <2>4, OthersOK
  <2>6. Exclusion'
    BY <2>1, <2>2, <2>3 DEF ThreadsInv, Exclusion, Held
  <2>7. spent' = Contents(chain') /\ \A a \in Senders : balance[a] - CostOf(b.txs, a) = Settled(a)
    BY <1>0, <2>1, <2>2, <2>3 DEF ThreadsInv, Progress
  <2>8. Progress'
    BY <1>0, <2>1, <2>2, <2>3, <2>4, <2>7 DEF Progress, Settled
  <2> QED
    BY <2>5, <2>6, <2>8 DEF ThreadsInv
<1>4. CASE PruneScan(th)
  <2> DEFINE b == local[th]
             keep == [proofs  |-> Without(pending.proofs, Ids(b.proofs)),
                      storage |-> Without(pending.storage, Ids(b.storage))]
             loc == [block |-> b, keep |-> keep]
  <2>1. /\ Goto(th, "prune", "pruneBind", loc)
        /\ UNCHANGED <<chain, spent, pending, mempool, balance, lock>>
    BY <1>4 DEF PruneScan
  <2>2. keep \in Lists
    BY <1>0, WithoutType DEF Lists
  <2> HIDE DEF keep
  <2>3. pc[th] = "prune" /\ pc'[th] = "pruneBind" /\ local'[th] = loc
    BY <2>1, GotoFacts DEF ThreadsInv
  <2>4. b \in Block /\ BlockOf(th)' = BlockOf(th)
    BY <1>0, <2>3 DEF LocalOK, Held, BlockOf
  <2>5. LocalOK(th)'
    BY <1>0, <2>2, <2>3, <2>4 DEF LocalOK, Held, BlockOf
  <2> QED
    BY <1>0, <2>1, <2>4, <2>5, InsideStep DEF Held
<1>5. CASE PruneBind(th)
  <2> DEFINE loc == local[th].block
  <2>1. /\ Goto(th, "pruneBind", "release", loc) /\ pending' = local[th].keep
        /\ UNCHANGED <<chain, spent, mempool, balance, lock>>
    BY <1>5 DEF PruneBind
  <2>2. pc[th] = "pruneBind" /\ pc'[th] = "release" /\ local'[th] = loc
    BY <2>1, GotoFacts DEF ThreadsInv
  <2>3. LocalOK(th)' /\ BlockOf(th)' = BlockOf(th) /\ pending' \in Lists
    BY <1>0, <2>1, <2>2 DEF LocalOK, Held, BlockOf
  <2> QED
    BY <1>0, <2>1, <2>3, InsideStep DEF Held
<1>6. CASE Release(th)
  <2>1. /\ Goto(th, "release", "confirm", local[th])
        /\ UNCHANGED <<chain, spent, pending, mempool, balance, lock>>
    BY <1>6 DEF Release
  <2>2. pc[th] = "release" /\ pc'[th] = "confirm" /\ local'[th] = local[th]
    BY <2>1, GotoFacts DEF ThreadsInv
  <2>3. LocalOK(th)' /\ BlockOf(th)' = BlockOf(th)
    BY <1>0, <2>2 DEF LocalOK, Held, BlockOf
  <2> QED
    BY <1>0, <2>1, <2>3, InsideStep DEF Held
<1>7. CASE ConfirmScan(th)
  <2> DEFINE b == local[th]
             loc == [block |-> b, keep |-> mempool \ b.txs]
  <2>1. /\ Goto(th, "confirm", "confirmBind", loc)
        /\ UNCHANGED <<chain, spent, pending, mempool, balance, lock>>
    BY <1>7 DEF ConfirmScan
  <2>2. pc[th] = "confirm" /\ pc'[th] = "confirmBind" /\ local'[th] = loc
    BY <2>1, GotoFacts DEF ThreadsInv
  <2>3. b \in Block /\ BlockOf(th)' = BlockOf(th)
    BY <1>0, <2>2 DEF LocalOK, Held, BlockOf
  <2>4. LocalOK(th)'
    BY <1>0, <2>2, <2>3 DEF LocalOK, Held, BlockOf
  <2> QED
    BY <1>0, <2>1, <2>3, <2>4, InsideStep DEF Held
<1>8. CASE ConfirmBind(th)
  <2> DEFINE loc == local[th].block
  <2>1. /\ Goto(th, "confirmBind", "cache", loc) /\ mempool' = local[th].keep
        /\ UNCHANGED <<chain, spent, pending, balance, lock>>
    BY <1>8 DEF ConfirmBind
  <2>2. pc[th] = "confirmBind" /\ pc'[th] = "cache" /\ local'[th] = loc
    BY <2>1, GotoFacts DEF ThreadsInv
  <2>3. LocalOK(th)' /\ BlockOf(th)' = BlockOf(th) /\ mempool' \subseteq Txs
    BY <1>0, <2>1, <2>2 DEF LocalOK, Held, BlockOf
  <2> QED
    BY <1>0, <2>1, <2>3, InsideStep DEF Held
<1>9. CASE Cache(th)
  <2> DEFINE b == local[th]
  <2>1. /\ Goto(th, "cache", "idle", NoLocal) /\ lock' = NoThread
        /\ balance' = [a \in Senders |-> balance[a] - CostOf(b.txs, a)]
        /\ UNCHANGED <<chain, spent, pending, mempool>>
    BY <1>9 DEF Cache
  <2>2. /\ pc[th] = "cache" /\ pc'[th] = "idle" /\ \A o \in Threads : o # th => pc'[o] = pc[o]
    BY <2>1, GotoFacts DEF ThreadsInv
  <2>3. BlockOf(th) = b /\ lock = th /\ b \in Block
    BY <1>0, <2>2 DEF LocalOK, Held, BlockOf
  <2>4. LocalOK(th)'
    BY <2>2 DEF LocalOK, Held
  <2>5. \A a \in Senders : CostOf(b.txs, a) \in Nat
    BY <2>3, BlockParts, CostNat
  <2>6. balance' \in [Senders -> Int]
    BY <1>0, <2>1, <2>5
  <2>7. ThreadTypes'
    BY <1>0, <2>1, <2>4, <2>6, OthersOK
  <2>8. Exclusion'
    BY <1>0, <2>1, <2>2, <2>3, ThreadsAssumption DEF ThreadsInv, Exclusion, Held
  <2>9. spent = Contents(chain) /\ \A a \in Senders : balance[a] - CostOf(b.txs, a) = Settled(a)
    BY <1>0, <2>2, <2>3 DEF ThreadsInv, Progress
  <2>10. spent' = Contents(chain') /\ \A a \in Senders : balance'[a] = Settled(a)'
    BY <2>1, <2>9 DEF Settled
  <2>11. Progress'
    BY <2>1, <2>10 DEF Progress
  <2> QED
    BY <2>7, <2>8, <2>11 DEF ThreadsInv
<1> QED
  BY <1>1, <1>2, <1>3, <1>4, <1>5, <1>6, <1>7, <1>8, <1>9

LEMMA ThreadsStep == ThreadsInv /\ [Next]_vars => ThreadsInv'
<1> SUFFICES ASSUME ThreadsInv, [Next]_vars PROVE ThreadsInv'
  OBVIOUS
<1>1. CASE UNCHANGED vars
  BY <1>1 DEF vars, shared, ThreadsInv, ThreadTypes, LocalOK, BlockOf, Exclusion, Progress, Settled
<1>2. ASSUME NEW th \in Threads, Continue(th) PROVE ThreadsInv'
  BY <1>2, IntakeStep, AddBlockStep DEF Continue
<1> QED
  BY <1>1, <1>2, CallStep DEF Next

LEMMA ThreadsInvariant == Spec => []ThreadsInv
  BY ThreadsStart, ThreadsStep, PTL DEF Spec

\* Any number of threads, readers and writers without the lock among them: when no
\* add_block is running, spent sets and balances are those of the chain.
THEOREM QuiescentState == Spec => []QuiescentConsistent
<1>1. ThreadsInv => QuiescentConsistent
  BY DEF ThreadsInv, Progress, QuiescentConsistent, Settled
<1> QED
  BY <1>1, ThreadsInvariant, PTL

-----------------------------------------------------------------------------
(* Gossip *)

LargeCache == Cardinality(Messages) <= seenMax

\* Marking keeps the cache within its limit and without repetition; one that has room for
\* every message forgets none.
LEMMA Marked ==
  ASSUME seenMax \in Nat \ {0}, NEW s \in Seq(Messages), Len(s) <= seenMax, IsInjective(s), NEW m \in Messages
  PROVE  /\ MarkSeen(s, m) \in Seq(Messages) /\ Len(MarkSeen(s, m)) <= seenMax
         /\ IsInjective(MarkSeen(s, m))
         /\ m \in Range(MarkSeen(s, m))
         /\ LargeCache => Range(s) \subseteq Range(MarkSeen(s, m))
<1>1. CASE m \in Range(s)
  BY <1>1 DEF MarkSeen
<1>2. CASE m \notin Range(s)
  <2> DEFINE t == Append(s, m)
             L == Len(s)
  <2>1. /\ L \in Nat /\ t \in Seq(Messages) /\ Len(t) = L + 1 /\ DOMAIN s = 1 .. L
        /\ DOMAIN t = 1 .. L + 1 /\ t[L + 1] = m /\ \A k \in 1 .. L : t[k] = s[k]
    OBVIOUS
  <2>2. \A i, j \in 1 .. L + 1 : t[i] = t[j] => i = j
    <3> SUFFICES ASSUME NEW i \in 1 .. L + 1, NEW j \in 1 .. L + 1, t[i] = t[j] PROVE i = j
      OBVIOUS
    <3>1. \A k \in 1 .. L : s[k] # m
      BY <1>2, <2>1 DEF Range
    <3>2. (i \in 1 .. L \/ i = L + 1) /\ (j \in 1 .. L \/ j = L + 1)
      BY <2>1
    <3> QED
      BY <2>1, <3>1, <3>2 DEF IsInjective
  <2>3. CASE ~ (Len(t) > seenMax)
    <3>1. MarkSeen(s, m) = t
      BY <1>2, <2>3 DEF MarkSeen
    <3>2. Range(s) \subseteq Range(t) /\ m \in Range(t)
      BY <2>1 DEF Range
    <3> QED
      BY <2>1, <2>2, <2>3, <3>1, <3>2 DEF IsInjective
  <2>4. CASE Len(t) > seenMax
    <3>1. MarkSeen(s, m) = Tail(t)
      BY <1>2, <2>4 DEF MarkSeen
    <3> HIDE DEF t
    <3>2. /\ Tail(t) \in Seq(Messages) /\ Len(Tail(t)) = L /\ DOMAIN Tail(t) = 1 .. L
          /\ \A k \in 1 .. L : Tail(t)[k] = t[k + 1]
      BY <2>1
    <3>3. L >= 1 /\ Tail(t)[L] = m
      BY <2>1, <2>4, <3>2
    <3>4. m \in Range(Tail(t))
      BY <2>1, <3>2, <3>3 DEF Range
    <3>5. IsInjective(Tail(t))
      <4> SUFFICES ASSUME NEW i \in 1 .. L, NEW j \in 1 .. L, Tail(t)[i] = Tail(t)[j] PROVE i = j
        BY <3>2 DEF IsInjective
      <4>1. i + 1 \in 1 .. L + 1 /\ j + 1 \in 1 .. L + 1 /\ t[i + 1] = t[j + 1]
        BY <2>1, <3>2
      <4>2. i + 1 = j + 1
        BY <2>2, <4>1
      <4> QED
        BY <4>2
    <3>6. ~ LargeCache
      <4>1. s \in Injection(1 .. L, Messages \ {m})
        BY <1>2, <2>1 DEF Injection, IsInjective, Range
      <4>2. IsFiniteSet(Messages \ {m}) /\ Cardinality(Messages \ {m}) = Cardinality(Messages) - 1
            /\ Cardinality(Messages) \in Nat
        BY GossipAssumption, FS_RemoveElement, FS_CardinalityType
      <4>3. Cardinality(1 .. L) <= Cardinality(Messages \ {m})
        BY <4>1, <4>2, FS_Injection
      <4>4. Cardinality(1 .. L) = L
        <5>1. L >= 0 /\ L \in Int
          BY <2>1
        <5> HIDE DEF L
        <5> QED
          BY <5>1, FS_Interval
      <4> QED
        BY <2>1, <2>4, <4>2, <4>3, <4>4 DEF LargeCache
    <3> QED
      BY <2>1, <3>1, <3>2, <3>4, <3>5, <3>6
  <2> QED
    BY <2>3, <2>4
<1> QED
  BY <1>1, <1>2

LEMMA SentBag ==
  ASSUME NEW B, IsABag(B), NEW nodes, NEW id, NEW hops
  PROVE  /\ IsABag(GossipSend(B, nodes, id, hops))
         /\ DOMAIN GossipSend(B, nodes, id, hops) = DOMAIN B \cup [to : nodes, msg : {id}, ttl : {hops}]
<1> DEFINE S == [to : nodes, msg : {id}, ttl : {hops}]
<1>1. SetToBag(S) = [e \in S |-> 1]
  BY DEF SetToBag
<1> HIDE DEF S
<1>2. B (+) SetToBag(S) = [e \in DOMAIN B \cup S |-> (IF e \in DOMAIN B THEN B[e] ELSE 0)
                                                 + (IF e \in S THEN 1 ELSE 0)]
  BY <1>1 DEF (+)
<1>3. \A e \in DOMAIN B : B[e] \in Nat /\ B[e] > 0
  BY DEF IsABag
<1>4. /\ IsABag(B (+) SetToBag(S)) /\ DOMAIN (B (+) SetToBag(S)) = DOMAIN B \cup S
  BY <1>2, <1>3 DEF IsABag
<1> QED
  BY <1>4 DEF GossipSend, S

LEMMA BagSteps ==
  ASSUME NEW B, IsABag(B), NEW e
  PROVE  /\ IsABag(B (+) One(e)) /\ DOMAIN (B (+) One(e)) = DOMAIN B \cup {e}
         /\ IsABag(B (-) One(e)) /\ DOMAIN (B (-) One(e)) \subseteq DOMAIN B
<1>1. \A x \in DOMAIN B : B[x] \in Nat /\ B[x] > 0
  BY DEF IsABag
<1>2. One(e) = [x \in {e} |-> 1]
  BY DEF One, SetToBag
<1>3. B (+) One(e) = [x \in DOMAIN B \cup {e} |-> (IF x \in DOMAIN B THEN B[x] ELSE 0)
                                              + (IF x \in {e} THEN 1 ELSE 0)]
  BY <1>2 DEF (+)
<1>4. IsABag(B (+) One(e)) /\ DOMAIN (B (+) One(e)) = DOMAIN B \cup {e}
  BY <1>1, <1>3 DEF IsABag
<1> DEFINE D == [x \in DOMAIN B |-> IF x \in {e} THEN B[x] - 1 ELSE B[x]]
           E == {x \in DOMAIN B : D[x] > 0}
<1>5. B (-) One(e) = [x \in {d \in DOMAIN D : D[d] > 0} |-> D[x]]
  BY <1>2 DEF (-)
<1>6. \A x \in DOMAIN B : D[x] \in Int
  BY <1>1
<1>7. DOMAIN D = DOMAIN B
  OBVIOUS
<1> HIDE DEF D
<1>8. IsABag(B (-) One(e)) /\ DOMAIN (B (-) One(e)) \subseteq DOMAIN B
  BY <1>5, <1>6, <1>7 DEF IsABag
<1> QED
  BY <1>4, <1>8

\* Only what was broadcast travels and is handled, and while the cache is large enough the
\* origin never finds its own message new.
GossipInv ==
    /\ GossipTypeOK /\ SeenRemembers
    /\ seenMax \in Nat \ {0} /\ DOMAIN seen = GossipNodes
    /\ \A e \in DOMAIN flight \cup DOMAIN checked : e.msg \in sent
    /\ \A n \in GossipNodes : handled[n] \subseteq sent
    /\ LargeCache => \A e \in DOMAIN checked : e.to # Origin[e.msg]

LEMMA GossipStart == GossipInit => GossipInv
<1> SUFFICES ASSUME GossipInit PROVE GossipInv
  OBVIOUS
<1> USE DEF GossipInit
<1>1. DOMAIN flight = {} /\ DOMAIN checked = {} /\ IsABag(flight) /\ IsABag(checked)
  BY DEF EmptyBag, SetToBag, IsABag
<1>2. \A n \in GossipNodes : seen[n] = <<>> /\ handled[n] = {}
  OBVIOUS
<1>3. GossipTypeOK
  <2>1. <<>> \in Seq(Messages) /\ Len(<<>>) = 0 /\ IsInjective(<<>>)
    BY DEF IsInjective
  <2>2. seenMax \in Nat \ {0} /\ lost \in 0..GossipLoss
    BY GossipAssumption
  <2> QED
    BY <1>1, <1>2, <2>1, <2>2 DEF GossipTypeOK
<1>4. SeenRemembers
  BY <1>2 DEF SeenRemembers
<1> QED
  BY <1>1, <1>2, <1>3, <1>4, GossipAssumption DEF GossipInv

LEMMA GossipStep == GossipInv /\ [GossipNext]_gossipVars => GossipInv'
<1> SUFFICES ASSUME GossipInv, [GossipNext]_gossipVars PROVE GossipInv'
  OBVIOUS
<1> USE DEF GossipInv, GossipTypeOK
<1>1. ASSUME NEW m \in Messages, NEW T \in Targets(Origin[m]), Broadcast(m, T) PROVE GossipInv'
  <2> DEFINE o == Origin[m]
  <2>0. o \in GossipNodes /\ T \subseteq GossipNodes /\ MsgTTL \in 1 .. MsgTTL
    BY GossipAssumption DEF Targets
  <2>1. /\ m \notin sent /\ sent' = sent \cup {m}
        /\ UNCHANGED <<seenMax, checked, handled, lost>>
    BY <1>1 DEF Broadcast
  <2>2. /\ DOMAIN seen' = GossipNodes
        /\ seen'[o] = MarkSeen(seen[o], m)
        /\ \A n \in GossipNodes : n # o => seen'[n] = seen[n]
    BY <1>1, <2>0 DEF Broadcast
  <2>3. /\ IsABag(flight')
        /\ DOMAIN flight' = DOMAIN flight \cup [to : T, msg : {m}, ttl : {MsgTTL}]
    <3>1. IsABag(flight) /\ flight' = GossipSend(flight, T, m, MsgTTL)
      BY <1>1 DEF Broadcast
    <3> DEFINE F == GossipSend(flight, T, m, MsgTTL)
    <3>2. IsABag(F) /\ DOMAIN F = DOMAIN flight \cup [to : T, msg : {m}, ttl : {MsgTTL}]
      <4>1. IsABag(flight)
        BY ONLY <3>1
      <4>2. IsABag(F)
        BY ONLY <4>1, SentBag
      <4>3. DOMAIN F = DOMAIN flight \cup [to : T, msg : {m}, ttl : {MsgTTL}]
        <5>1. \A a, b, c : DOMAIN GossipSend(flight, a, b, c) = DOMAIN flight \cup [to : a, msg : {b}, ttl : {c}]
          BY ONLY <4>1, SentBag
        <5> QED
          BY ONLY <5>1
      <4> QED
        BY ONLY <4>2, <4>3
    <3> HIDE DEF F
    <3>3. flight' = F
      BY <3>1 DEF F
    <3> QED
      BY ONLY <3>2, <3>3
  <2>4. /\ seen'[o] \in Seq(Messages) /\ Len(seen'[o]) <= seenMax /\ IsInjective(seen'[o])
        /\ m \in Range(seen'[o])
        /\ LargeCache => Range(seen[o]) \subseteq Range(seen'[o])
    BY <2>0, <2>2, Marked
  <2>5. [to : T, msg : {m}, ttl : {MsgTTL}] \subseteq Envelope
    BY <2>0 DEF Envelope
  <2>6. GossipTypeOK'
    BY <2>1, <2>2, <2>3, <2>4, <2>5
  <2>7. SeenRemembers'
    <3> SUFFICES ASSUME LargeCache, NEW n \in GossipNodes, NEW x \in Messages
                 PROVE  /\ x \in handled[n] => x \in Range(seen'[n])
                        /\ x \in sent' => x \in Range(seen'[Origin[x]]) /\ x \notin handled[Origin[x]]
      BY <2>1 DEF SeenRemembers, LargeCache, AlreadySeen
    <3>1. ASSUME NEW k \in GossipNodes PROVE Range(seen[k]) \subseteq Range(seen'[k])
      <4>1. CASE k = o
        BY <2>4, <4>1
      <4>2. CASE k # o
        <5>1. seen'[k] = seen[k]
          BY <2>2, <4>2
        <5> QED
          BY ONLY <5>1
      <4> QED
        BY <4>1, <4>2
    <3>2. Origin[x] \in GossipNodes
      BY GossipAssumption
    <3>3. /\ x \in handled[n] => x \in Range(seen[n])
          /\ x \in sent => x \in Range(seen[Origin[x]]) /\ x \notin handled[Origin[x]]
      BY DEF SeenRemembers, LargeCache, AlreadySeen
    <3>4. CASE x = m
      BY <2>0, <2>1, <2>4, <3>1, <3>3, <3>4
    <3>5. CASE x # m
      BY <2>1, <3>1, <3>2, <3>3, <3>5
    <3> QED
      BY <3>4, <3>5
  <2>8. \A e \in DOMAIN flight' \cup DOMAIN checked' : e.msg \in sent'
    BY <2>1, <2>3
  <2> QED
    BY <2>1, <2>2, <2>6, <2>7, <2>8 DEF LargeCache
<1>2. ASSUME NEW e \in Envelope, GossipReceive(e) PROVE GossipInv'
  <2>1. /\ UNCHANGED <<seenMax, seen, sent, handled, lost>> /\ e \in DOMAIN flight
        /\ flight' = flight (-) One(e)
        /\ checked' = IF AlreadySeen(e.to, e.msg) THEN checked ELSE checked (+) One(e)
    BY <1>2 DEF GossipReceive, BagIn, BagToSet
  <2>2. /\ IsABag(flight') /\ DOMAIN flight' \subseteq DOMAIN flight
    BY <2>1, BagSteps
  <2>3. /\ IsABag(checked') /\ DOMAIN checked' \subseteq DOMAIN checked \cup {e}
        /\ e \in DOMAIN checked' => e \in DOMAIN checked \/ ~ AlreadySeen(e.to, e.msg)
    BY <2>1, BagSteps
  <2>4. GossipTypeOK'
    BY <2>1, <2>2, <2>3
  <2>5. SeenRemembers'
    BY <2>1 DEF SeenRemembers, AlreadySeen
  <2>6. \A x \in DOMAIN flight' \cup DOMAIN checked' : x.msg \in sent'
    BY <2>1, <2>2, <2>3
  <2>7. ASSUME LargeCache, NEW x \in DOMAIN checked' PROVE x.to # Origin[x.msg]
    <3>1. CASE x \in DOMAIN checked
      BY <2>7, <3>1
    <3>2. CASE x = e /\ ~ AlreadySeen(e.to, e.msg)
      <4>1. e.msg \in sent /\ e.msg \in Messages /\ e.to \in GossipNodes
        BY <2>1 DEF Envelope
      <4> QED
        BY <2>7, <3>2, <4>1 DEF SeenRemembers, LargeCache
    <3> QED
      BY <2>3, <3>1, <3>2
  <2> QED
    BY <2>1, <2>4, <2>5, <2>6, <2>7 DEF LargeCache
<1>3. ASSUME NEW e \in Envelope, Lose(e) PROVE GossipInv'
  <2>1. /\ UNCHANGED <<seenMax, seen, sent, handled, checked>>
        /\ lost < GossipLoss /\ lost' = lost + 1 /\ flight' = flight (-) One(e)
    BY <1>3 DEF Lose
  <2>2. /\ IsABag(flight') /\ DOMAIN flight' \subseteq DOMAIN flight
    BY <2>1, BagSteps
  <2>3. GossipTypeOK'
    BY <2>1, <2>2, GossipAssumption
  <2>4. SeenRemembers'
    BY <2>1 DEF SeenRemembers, AlreadySeen
  <2> QED
    BY <2>1, <2>2, <2>3, <2>4 DEF LargeCache
<1>4. ASSUME NEW e \in Envelope, NEW T \in Targets(e.to), Handle(e, T) PROVE GossipInv'
  <2> DEFINE n == e.to
             m == e.msg
  <2>0. n \in GossipNodes /\ m \in Messages /\ e.ttl \in 1 .. MsgTTL /\ T \subseteq GossipNodes
    BY GossipAssumption DEF Targets, Envelope
  <2>1. /\ UNCHANGED <<seenMax, sent, lost>> /\ e \in DOMAIN checked
        /\ checked' = checked (-) One(e) /\ flight' = Forward(e, T)
    BY <1>4 DEF Handle, BagIn, BagToSet
  <2>2. /\ DOMAIN seen' = GossipNodes
        /\ seen'[n] = MarkSeen(seen[n], m)
        /\ \A k \in GossipNodes : k # n => seen'[k] = seen[k]
    BY <1>4, <2>0 DEF Handle
  <2>3. /\ handled' \in [GossipNodes -> SUBSET Messages]
        /\ handled'[n] = handled[n] \cup {m}
        /\ \A k \in GossipNodes : k # n => handled'[k] = handled[k]
    BY <1>4, <2>0 DEF Handle
  <2>4. /\ IsABag(checked') /\ DOMAIN checked' \subseteq DOMAIN checked
    BY <2>1, BagSteps
  <2>5. /\ IsABag(flight')
        /\ \A x \in DOMAIN flight' : x \in DOMAIN flight \/ (x \in Envelope /\ x.msg = m)
    <3>1. CASE e.ttl > 1
      <4>1. /\ IsABag(flight')
            /\ DOMAIN flight' = DOMAIN flight \cup [to : T, msg : {m}, ttl : {e.ttl - 1}]
        <5>1. IsABag(flight) /\ flight' = GossipSend(flight, T, m, e.ttl - 1)
          BY <2>1, <3>1 DEF Forward
        <5> QED
          BY ONLY <5>1, SentBag
      <4>2. e.ttl - 1 \in 1 .. MsgTTL
        BY <2>0, <3>1, GossipAssumption
      <4>3. \A x \in [to : T, msg : {m}, ttl : {e.ttl - 1}] : x \in Envelope /\ x.msg = m
        BY <2>0, <4>2 DEF Envelope
      <4> QED
        BY <4>1, <4>3
    <3>2. CASE ~ (e.ttl > 1)
      BY <2>1, <3>2 DEF Forward
    <3> QED
      BY <3>1, <3>2
  <2>6. /\ seen'[n] \in Seq(Messages) /\ Len(seen'[n]) <= seenMax /\ IsInjective(seen'[n])
        /\ m \in Range(seen'[n])
        /\ LargeCache => Range(seen[n]) \subseteq Range(seen'[n])
    BY <2>0, <2>2, Marked
  <2>7. GossipTypeOK'
    BY <2>1, <2>2, <2>3, <2>4, <2>5, <2>6
  <2>8. m \in sent
    BY <2>1
  <2>9. SeenRemembers'
    <3> SUFFICES ASSUME LargeCache, NEW k \in GossipNodes, NEW x \in Messages
                 PROVE  /\ x \in handled'[k] => x \in Range(seen'[k])
                        /\ x \in sent => x \in Range(seen'[Origin[x]]) /\ x \notin handled'[Origin[x]]
      BY <2>1 DEF SeenRemembers, LargeCache, AlreadySeen
    <3>1. ASSUME NEW i \in GossipNodes PROVE Range(seen[i]) \subseteq Range(seen'[i])
      <4>1. CASE i = n
        BY <2>6, <4>1
      <4>2. CASE i # n
        <5>1. seen'[i] = seen[i]
          BY <2>2, <4>2
        <5> QED
          BY ONLY <5>1
      <4> QED
        BY <4>1, <4>2
    <3>2. Origin[x] \in GossipNodes /\ n # Origin[m]
      BY <2>1, GossipAssumption
    <3>3. /\ x \in handled[k] => x \in Range(seen[k])
          /\ x \in sent => x \in Range(seen[Origin[x]]) /\ x \notin handled[Origin[x]]
      BY DEF SeenRemembers, LargeCache, AlreadySeen
    <3>4. x \in handled'[k] => x \in Range(seen'[k])
      BY <2>3, <2>6, <3>1, <3>3
    <3>5. x \in sent => x \notin handled'[Origin[x]]
      BY <2>3, <3>2, <3>3
    <3> QED
      BY <3>1, <3>2, <3>3, <3>4, <3>5
  <2>10. /\ \A x \in DOMAIN flight' \cup DOMAIN checked' : x.msg \in sent'
         /\ \A k \in GossipNodes : handled'[k] \subseteq sent'
    BY <2>1, <2>3, <2>4, <2>5, <2>8
  <2> QED
    BY <2>1, <2>2, <2>4, <2>7, <2>9, <2>10 DEF LargeCache
<1>5. CASE UNCHANGED gossipVars
  BY <1>5 DEF gossipVars, SeenRemembers, AlreadySeen, LargeCache
<1> QED
  BY <1>1, <1>2, <1>3, <1>4, <1>5 DEF GossipNext

\* Whatever the network, the fanout and the size of the cache: nothing is handled that was
\* not sent, and while the cache has room a node remembers what it sent and handled.
THEOREM GossipIsConsistent == GossipSpec => []GossipConsistent
<1>1. GossipInv => GossipConsistent
  BY DEF GossipInv, GossipConsistent
<1> QED
  BY <1>1, GossipStart, GossipStep, PTL DEF GossipSpec

-----------------------------------------------------------------------------
(* The tables of peers *)

\* A record of a peer whose state is what its failures in a row say.
Earned(peer) ==
    /\ peer \in [state : PeerState, fails : 0..BanAfter]
    /\ peer.state = CASE peer.fails >= BanAfter -> "BANNED"
                      [] peer.fails \in 1..(BanAfter - 1) -> "DISCONNECTED"
                      [] OTHER -> IF peer.state = "UNKNOWN" THEN "UNKNOWN" ELSE "CONNECTED"

GoodTable(n, t) ==
    /\ DOMAIN t \subseteq Hosts \ {n} /\ Cardinality(DOMAIN t) <= MaxPeers[n]
    /\ \A m \in DOMAIN t : Earned(t[m])

\* A table that satisfies the properties keeps doing so, and a node that does not run
\* has no round of pings to finish: without it a new table could lack peers of the old round.
TableInv ==
    /\ up \subseteq Hosts /\ DOMAIN table = Hosts /\ DOMAIN todo = Hosts
    /\ \A n \in Hosts : /\ GoodTable(n, table[n])
                        /\ todo[n] \subseteq DOMAIN table[n]
                        /\ n \notin up => todo[n] = {}
    /\ disk \in [Hosts -> SUBSET Hosts]
    /\ faults \in 0..MaxFaults /\ stops \in 0..MaxStops

LEMMA EarnedRecords ==
  /\ Earned(NewPeer)
  /\ \A peer : Earned(peer) => Earned(Touch(peer))
  /\ \A peer : Earned(peer) /\ Reachable(peer) => Earned(MarkFailure(peer))
<1> USE PeerAssumption
<1>1. Earned(NewPeer)
  BY DEF Earned, NewPeer, PeerState
<1>2. ASSUME NEW peer, Earned(peer) PROVE Earned(Touch(peer))
  BY DEF Earned, Touch, PeerState
<1>3. ASSUME NEW peer, Earned(peer), Reachable(peer) PROVE Earned(MarkFailure(peer))
  <2> DEFINE k == peer.fails
  <2>1. k \in 0..BanAfter /\ peer.state # "BANNED"
    BY <1>3 DEF Earned, Reachable
  <2>2. k < BanAfter
    BY <1>3, <2>1 DEF Earned
  <2>3. k + 1 \in 0..BanAfter /\ k + 1 > 0
    BY <2>1, <2>2
  <2> HIDE DEF k
  <2>4. MarkFailure(peer) = [state |-> IF k + 1 >= BanAfter THEN "BANNED" ELSE "DISCONNECTED", fails |-> k + 1]
    BY DEF MarkFailure, k
  <2>5. CASE k + 1 >= BanAfter
    BY <2>3, <2>4, <2>5 DEF Earned, PeerState
  <2>6. CASE ~ (k + 1 >= BanAfter)
    <3>1. k + 1 \in 1..(BanAfter - 1)
      BY <2>1, <2>3, <2>6
    <3> QED
      BY <2>3, <2>4, <2>6, <3>1 DEF Earned, PeerState
  <2> QED
    BY <2>5, <2>6
<1> QED
  BY <1>1, <1>2, <1>3

\* _add_peer keeps what is in the table and its limit.
LEMMA AddedGood ==
  ASSUME NEW n \in Hosts, NEW t, GoodTable(n, t), NEW S, S \subseteq Hosts, NEW u \in Added(n, t, S)
  PROVE  GoodTable(n, u) /\ DOMAIN t \subseteq DOMAIN u /\ \A m \in DOMAIN t : u[m] = t[m]
<1> DEFINE new == (S \ DOMAIN t) \ {n}
           size == Cardinality(DOMAIN t)
           room == IF size < MaxPeers[n] THEN MaxPeers[n] - size ELSE 0
<1>1. CASE new = {}
  BY <1>1 DEF Added
<1>2. CASE new # {}
  <2>1. PICK T \in kSubset(Smaller(room, Cardinality(new)), new) : 
             u = [m \in DOMAIN t \cup T |-> IF m \in T THEN NewPeer ELSE t[m]]
    BY <1>2 DEF Added
  <2>2. IsFiniteSet(Hosts) /\ IsFiniteSet(DOMAIN t) /\ IsFiniteSet(new)
    BY PeerAssumption, FS_Subset DEF GoodTable
  <2>3. size \in Nat /\ Cardinality(new) \in Nat /\ MaxPeers[n] \in Nat /\ size <= MaxPeers[n]
    BY <2>2, FS_CardinalityType, PeerAssumption DEF GoodTable
  <2>4. T \subseteq new /\ Cardinality(T) = Smaller(room, Cardinality(new))
    BY <2>1 DEF kSubset
  <2>5. IsFiniteSet(T)
    BY <2>2, <2>4, FS_Subset
  <2>6. Cardinality(T) \in Nat /\ Cardinality(T) <= MaxPeers[n] - size
    <3> HIDE DEF new, size
    <3> QED
      BY <2>3, <2>4, <2>5, FS_CardinalityType DEF Smaller
  <2>7. DOMAIN u = DOMAIN t \cup T
    BY <2>1
  <2>8. (DOMAIN t) \cap T = {}
    BY <2>4
  <2>9. Cardinality(DOMAIN u) = size + Cardinality(T)
    <3>1. Cardinality(DOMAIN t \cup T) = size + Cardinality(T) - Cardinality((DOMAIN t) \cap T)
      BY <2>2, <2>5, FS_Union
    <3>2. Cardinality((DOMAIN t) \cap T) = 0
      BY <2>8, FS_EmptySet
    <3> HIDE DEF size
    <3> QED
      BY <2>3, <2>6, <2>7, <3>1, <3>2
  <2>10. \A m \in DOMAIN t : u[m] = t[m]
    BY <2>1, <2>8
  <2>11. \A m \in T : u[m] = NewPeer
    BY <2>1, <2>8
  <2>12. T \subseteq Hosts \ {n}
    BY <2>4
  <2>13. \A m \in DOMAIN u : Earned(u[m])
    BY <2>7, <2>10, <2>11, EarnedRecords DEF GoodTable
  <2>14. Cardinality(DOMAIN u) <= MaxPeers[n]
    <3> HIDE DEF size
    <3> QED
      BY <2>3, <2>6, <2>9
  <2> QED
    BY <2>7, <2>10, <2>12, <2>13, <2>14 DEF GoodTable
<1> QED
  BY <1>1, <1>2

LEMMA BootedGood ==
  ASSUME NEW n \in Hosts, NEW file, file \subseteq Hosts, NEW t \in Booted(n, file)
  PROVE  GoodTable(n, t)
<1>1. GoodTable(n, <<>>)
  <2>1. DOMAIN <<>> = {}
    OBVIOUS
  <2>2. Cardinality({}) = 0 /\ MaxPeers[n] \in Nat
    BY FS_EmptySet, PeerAssumption
  <2> QED
    BY <2>1, <2>2 DEF GoodTable
<1>2. PICK s \in Added(n, <<>>, Seeds[n]) : t \in Added(n, s, file)
  BY DEF Booted
<1>3. Seeds[n] \subseteq Hosts
  BY PeerAssumption
<1>4. GoodTable(n, s)
  BY <1>1, <1>2, <1>3, AddedGood
<1> QED
  BY <1>2, <1>4, AddedGood

LEMMA TableStart == TableInit => TableInv
<1> SUFFICES ASSUME TableInit PROVE TableInv
  OBVIOUS
<1>1. \A n \in Hosts : table[n] \in Booted(n, {}) /\ todo[n] = {}
  BY DEF TableInit
<1>2. \A n \in Hosts : GoodTable(n, table[n])
  BY <1>1, BootedGood
<1> QED
  BY <1>1, <1>2, PeerAssumption DEF TableInit, TableInv

\* The end of one turn of the ping loop (PingDone), whose table has not lost a peer.
LEMMA TurnEnds ==
  ASSUME TableInv, NEW n \in Hosts, NEW m \in todo[n], PingDone(n, m),
         DOMAIN table' = Hosts, \A k \in Hosts : GoodTable(k, table'[k]) /\ DOMAIN table[k] \subseteq DOMAIN table'[k],
         faults' \in 0..MaxFaults
  PROVE  TableInv'
<1>1. up' = up /\ stops' = stops
  BY DEF PingDone
<1>2. DOMAIN todo' = Hosts /\ \A k \in Hosts : todo'[k] \subseteq todo[k]
  BY DEF PingDone, TableInv
<1>3. disk' \in [Hosts -> SUBSET Hosts]
  <2>1. DOMAIN table[n] \subseteq Hosts
    BY DEF TableInv, GoodTable
  <2> QED
    BY <2>1 DEF PingDone, TableInv
<1>4. \A k \in Hosts : todo'[k] \subseteq DOMAIN table'[k] /\ (k \notin up => todo'[k] = {})
  BY <1>2 DEF TableInv
<1> QED
  BY <1>1, <1>2, <1>3, <1>4 DEF TableInv

LEMMA TableStep == TableInv /\ [TableNext]_tableVars => TableInv'
<1> SUFFICES ASSUME TableInv, [TableNext]_tableVars PROVE TableInv'
  OBVIOUS
<1>0. /\ DOMAIN table = Hosts /\ DOMAIN todo = Hosts /\ up \subseteq Hosts
      /\ \A k \in Hosts : /\ GoodTable(k, table[k]) /\ DOMAIN table[k] \subseteq Hosts \ {k}
                          /\ todo[k] \subseteq DOMAIN table[k]
                          /\ k \notin up => todo[k] = {}
      /\ disk \in [Hosts -> SUBSET Hosts] /\ faults \in 0..MaxFaults /\ stops \in 0..MaxStops
      /\ MaxFaults \in Nat /\ MaxStops \in Nat
  BY PeerAssumption DEF TableInv, GoodTable
\* One table gets more peers.
<1>1. ASSUME NEW n \in Hosts, NEW S, S \subseteq Hosts, NEW t \in Added(n, table[n], S),
             table' = [table EXCEPT ![n] = t], UNCHANGED <<up, todo, disk, faults, stops>>
      PROVE  TableInv'
  <2>1. GoodTable(n, t) /\ DOMAIN table[n] \subseteq DOMAIN t
    BY <1>0, <1>1, AddedGood
  <2>2. DOMAIN table' = Hosts /\ table'[n] = t /\ \A k \in Hosts : k # n => table'[k] = table[k]
    BY <1>0, <1>1
  <2>3. \A k \in Hosts : GoodTable(k, table'[k]) /\ todo[k] \subseteq DOMAIN table'[k]
    BY <1>0, <2>1, <2>2
  <2> QED
    BY <1>0, <1>1, <2>2, <2>3 DEF TableInv
\* A peer is marked, and a table may have got more peers.
<1>2. ASSUME NEW n \in Hosts, NEW m \in todo[n], PingDone(n, m), faults' \in 0..MaxFaults,
             NEW old, NEW peer, Earned(peer),
             DOMAIN old = Hosts, \A k \in Hosts : GoodTable(k, old[k]) /\ DOMAIN table[k] \subseteq DOMAIN old[k],
             table' = [old EXCEPT ![n][m] = peer]
      PROVE  TableInv'
  <2>1. m \in DOMAIN old[n]
    BY <1>0, <1>2
  <2>2. /\ DOMAIN table' = Hosts /\ DOMAIN table'[n] = DOMAIN old[n]
        /\ table'[n][m] = peer /\ \A q \in DOMAIN old[n] : q # m => table'[n][q] = old[n][q]
        /\ \A k \in Hosts : k # n => table'[k] = old[k]
    BY <1>2, <2>1
  <2>3. GoodTable(n, table'[n])
    BY <1>2, <2>2 DEF GoodTable
  <2>4. \A k \in Hosts : GoodTable(k, table'[k]) /\ DOMAIN table[k] \subseteq DOMAIN table'[k]
    BY <1>2, <2>2, <2>3
  <2> QED
    BY <1>2, <2>2, <2>4, TurnEnds
<1>3. ASSUME NEW n \in Hosts, PingRound(n) PROVE TableInv'
  <2>1. /\ UNCHANGED <<up, table, disk, faults, stops>> /\ n \in up
        /\ DOMAIN todo' = Hosts /\ todo'[n] = DOMAIN table[n]
        /\ \A k \in Hosts : k # n => todo'[k] = todo[k]
    BY <1>0, <1>3 DEF PingRound
  <2> QED
    BY <1>0, <2>1 DEF TableInv
<1>4. ASSUME NEW n \in Hosts, NEW m \in Hosts, PingAnswered(n, m) PROVE TableInv'
  <2>1. PICK t \in Added(m, table[m], {n}) : table' = [table EXCEPT ![m] = t, ![n][m] = Touch(@)]
    BY <1>4 DEF PingAnswered
  <2>2. m \in todo[n] /\ m # n /\ PingDone(n, m) /\ faults' = faults
    BY <1>0, <1>4 DEF PingAnswered
  <2>3. GoodTable(m, t) /\ DOMAIN table[m] \subseteq DOMAIN t
    BY <1>0, AddedGood
  <2> DEFINE old == [table EXCEPT ![m] = t]
  <2>4. DOMAIN old = Hosts /\ old[m] = t /\ \A k \in Hosts : k # m => old[k] = table[k]
    BY <1>0
  <2>5. table' = [old EXCEPT ![n][m] = Touch(table[n][m])]
    BY <1>0, <2>1, <2>2
  <2>6. Earned(Touch(table[n][m]))
    BY <1>0, <2>2, EarnedRecords DEF GoodTable
  <2> HIDE DEF old
  <2>7. \A k \in Hosts : GoodTable(k, old[k]) /\ DOMAIN table[k] \subseteq DOMAIN old[k]
    BY <1>0, <2>3, <2>4
  <2> QED
    BY <1>0, <1>2, <2>2, <2>4, <2>5, <2>6, <2>7
<1>5. ASSUME NEW n \in Hosts, NEW m \in Hosts, PingFailed(n, m) PROVE TableInv'
  <2>1. /\ m \in todo[n] /\ PingDone(n, m) /\ Reachable(table[n][m])
        /\ table' = [table EXCEPT ![n][m] = MarkFailure(table[n][m])]
        /\ faults' \in 0..MaxFaults
    BY <1>0, <1>5 DEF PingFailed
  <2>2. Earned(MarkFailure(table[n][m]))
    BY <1>0, <2>1, EarnedRecords DEF GoodTable
  <2> QED
    BY <1>0, <1>2, <2>1, <2>2
<1>6. ASSUME NEW n \in Hosts, NEW m \in Hosts, PingUnanswered(n, m) PROVE TableInv'
  <2>1. PICK t \in Added(m, table[m], {n}) : table' = [table EXCEPT ![m] = t, ![n][m] = MarkFailure(@)]
    BY <1>6 DEF PingUnanswered
  <2>2. m \in todo[n] /\ m # n /\ PingDone(n, m) /\ Reachable(table[n][m]) /\ faults' \in 0..MaxFaults
    BY <1>0, <1>6 DEF PingUnanswered
  <2>3. GoodTable(m, t) /\ DOMAIN table[m] \subseteq DOMAIN t
    BY <1>0, AddedGood
  <2> DEFINE old == [table EXCEPT ![m] = t]
  <2>4. DOMAIN old = Hosts /\ old[m] = t /\ \A k \in Hosts : k # m => old[k] = table[k]
    BY <1>0
  <2>5. table' = [old EXCEPT ![n][m] = MarkFailure(table[n][m])]
    BY <1>0, <2>1, <2>2
  <2>6. Earned(MarkFailure(table[n][m]))
    BY <1>0, <2>2, EarnedRecords DEF GoodTable
  <2> HIDE DEF old
  <2>7. \A k \in Hosts : GoodTable(k, old[k]) /\ DOMAIN table[k] \subseteq DOMAIN old[k]
    BY <1>0, <2>3, <2>4
  <2> QED
    BY <1>0, <1>2, <2>2, <2>4, <2>5, <2>6, <2>7
<1>7. ASSUME NEW n \in Hosts, NEW m \in Hosts, PingSkipped(n, m) PROVE TableInv'
  <2>1. m \in todo[n] /\ PingDone(n, m) /\ table' = table /\ faults' = faults
    BY <1>7 DEF PingSkipped
  <2> QED
    BY <1>0, <2>1, TurnEnds
<1>8. ASSUME NEW n \in Hosts, NEW m \in Hosts, ExchangePeers(n, m) PROVE TableInv'
  <2>1. PICK t \in Added(n, table[n], GetPeers(table[m])) : table' = [table EXCEPT ![n] = t]
    BY <1>8 DEF ExchangePeers
  <2>2. GetPeers(table[m]) \subseteq Hosts /\ UNCHANGED <<up, todo, disk, faults, stops>>
    BY <1>0, <1>8 DEF ExchangePeers, GetPeers
  <2> QED
    BY <1>1, <2>1, <2>2
<1>9. ASSUME NEW n \in Hosts, NEW m \in Hosts, Announce(n, m) PROVE TableInv'
  <2>1. PICK t \in Added(m, table[m], {n}) : table' = [table EXCEPT ![m] = t]
    BY <1>9 DEF Announce
  <2>2. {n} \subseteq Hosts /\ UNCHANGED <<up, todo, disk, faults, stops>>
    BY <1>9 DEF Announce
  <2> QED
    BY <1>1, <2>1, <2>2
<1>10. ASSUME NEW n \in Hosts, StopNode(n) PROVE TableInv'
  <2>1. /\ UNCHANGED <<table, disk, faults>> /\ up' = up \ {n} /\ stops < MaxStops /\ stops' = stops + 1
        /\ DOMAIN todo' = Hosts /\ todo'[n] = {} /\ \A k \in Hosts : k # n => todo'[k] = todo[k]
    BY <1>0, <1>10 DEF StopNode
  <2> QED
    BY <1>0, <2>1 DEF TableInv
<1>11. ASSUME NEW n \in Hosts, StartNode(n) PROVE TableInv'
  <2>1. PICK t \in Booted(n, disk[n]) : table' = [table EXCEPT ![n] = t]
    BY <1>11 DEF StartNode
  <2>2. GoodTable(n, t)
    BY <1>0, BootedGood
  <2>3. DOMAIN table' = Hosts /\ table'[n] = t /\ \A k \in Hosts : k # n => table'[k] = table[k]
    BY <1>0, <2>1
  <2>4. UNCHANGED <<todo, disk, faults, stops>> /\ n \notin up /\ up' = up \cup {n}
    BY <1>11 DEF StartNode
  <2>5. \A k \in Hosts : /\ GoodTable(k, table'[k]) /\ todo[k] \subseteq DOMAIN table'[k]
                         /\ k \notin up' => todo[k] = {}
    BY <1>0, <2>2, <2>3, <2>4
  <2> QED
    BY <1>0, <2>3, <2>4, <2>5 DEF TableInv
<1>12. CASE UNCHANGED tableVars
  BY <1>12 DEF tableVars, TableInv, GoodTable
<1> QED
  BY <1>3, <1>4, <1>5, <1>6, <1>7, <1>8, <1>9, <1>10, <1>11, <1>12 DEF TableNext, PingTurn

\* Whichever of the five ways an address comes in, and whenever nodes stop and start: a
\* table lists other hosts, within its limit, and bans those that earned it.
THEOREM TablesAreConsistent == TableSpec => []TableConsistent
<1>1. TableInv => TableConsistent
  <2> SUFFICES ASSUME TableInv PROVE TableConsistent
    OBVIOUS
  <2>1. TableTypeOK
    BY DEF TableInv, GoodTable, Earned, TableTypeOK
  <2>2. BanIsEarned
    BY DEF TableInv, GoodTable, Earned, BanIsEarned
  <2> QED
    BY <2>1, <2>2 DEF TableConsistent
<1> QED
  BY <1>1, TableStart, TableStep, PTL DEF TableSpec

-----------------------------------------------------------------------------
(* Chain sync *)

Chains == Seq(SyncNodes \X Nat)

\* Two chains have the same blocks up to index i.
Agree(c, d, i) == \A k \in 1..i : c[k] = d[k]

SyncThread ==
    [pc : {"idle", "tip", "search", "fetch", "apply"}, peer : SyncNodes \cup {NoPeer}, our : Nat,
     lo : Nat, hi : Nat, end : Nat, top : Nat, batch : Seq(Chains)]

\* What a thread of n that compares chains knows stays true of the part of the peer's
\* chain that is in the peer's store, which is as high as the chain it compares.
Compares(n, t) ==
    /\ t.peer \in SyncNodes \ {n}
    /\ t.our <= Len(tip[n]) /\ t.our <= Len(rows[t.peer]) /\ t.our <= heights[n][t.peer]

ThreadFits(n, t, faulty) ==
    /\ t.pc \in {"tip", "search"} => Compares(n, t)
    /\ t.pc = "search" =>
           /\ t.lo <= t.hi /\ t.hi <= t.our
           /\ Agree(tip[n], tip[t.peer], t.lo)
           /\ faulty = 0 /\ t.hi < t.our => ~ Agree(tip[n], tip[t.peer], t.hi + 1)
    /\ t.pc \in {"fetch", "apply"} => t.peer \in SyncNodes
    /\ t.pc = "fetch" => t.lo > 0
    /\ t.pc = "apply" => t.batch # <<>> /\ \A k \in 1..Len(t.batch) : t.batch[k] # <<>>

\* The table of blocks is the chain, or the chain without its last block.
Stored(n) ==
    /\ Len(rows[n]) = Len(tip[n]) \/ Len(rows[n]) = Len(tip[n]) - 1
    /\ \A k \in 1..Len(rows[n]) : rows[n][k] = BlockAt(tip[n], k)

SyncTypes ==
    /\ tip \in [SyncNodes -> Chains] /\ rows \in [SyncNodes -> Seq(Chains)]
    /\ heights \in [SyncNodes -> [SyncNodes -> Nat]] /\ mined \in [SyncNodes -> Nat]
    /\ news \subseteq Chains \ {<<>>} /\ thread \in [SyncNodes -> SyncThread]
    /\ failed \in Nat /\ restarts \in Nat /\ failed + restarts <= SyncFaults

\* A reported height is at most one above the peer's store.
SyncInv ==
    /\ SyncTypes /\ BroadcastIsStored
    /\ \A n \in SyncNodes :
           /\ Stored(n) /\ ThreadFits(n, thread[n], failed)
           /\ \A m \in SyncNodes : heights[n][m] <= Len(rows[m]) + 1

LEMMA SameBlock ==
  ASSUME NEW c \in Chains, NEW d \in Chains, NEW i \in Nat, i <= Len(c), i <= Len(d)
  PROVE  /\ BlockAt(c, i) \in Chains /\ Len(BlockAt(c, i)) = i
         /\ \A k \in 1..i : BlockAt(c, i)[k] = c[k]
         /\ (BlockAt(c, i) = BlockAt(d, i)) <=> Agree(c, d, i)
<1>1. /\ BlockAt(c, i) \in Chains /\ Len(BlockAt(c, i)) = i /\ \A k \in 1..i : BlockAt(c, i)[k] = c[k]
  BY DEF BlockAt, Chains
<1>2. /\ BlockAt(d, i) \in Chains /\ Len(BlockAt(d, i)) = i /\ \A k \in 1..i : BlockAt(d, i)[k] = d[k]
  BY DEF BlockAt, Chains
<1>3. ASSUME BlockAt(c, i) = BlockAt(d, i) PROVE Agree(c, d, i)
  BY <1>1, <1>2, <1>3 DEF Agree
<1>4. ASSUME Agree(c, d, i) PROVE BlockAt(c, i) = BlockAt(d, i)
  <2>1. \A k \in 1..i : BlockAt(c, i)[k] = BlockAt(d, i)[k]
    BY <1>1, <1>2, <1>4 DEF Agree
  <2> QED
    BY <1>1, <1>2, <2>1 DEF Chains
<1> QED
  BY <1>1, <1>3, <1>4

\* The height of two chains that agree up to index i and no further than j.
LEMMA CommonBetween ==
  ASSUME NEW c \in Chains, NEW d \in Chains, Len(c) <= Len(d)
  PROVE  /\ Common(c, d) \in 0..Len(c)
         /\ \A i \in 0..Len(c) : Agree(c, d, i) => i <= Common(c, d)
         /\ \A i \in 0..Len(c) : (i = Len(c) \/ ~ Agree(c, d, i + 1)) => Common(c, d) <= i
<1> DEFINE L == Len(c)
           P(i) == IsPrefix(BlockAt(c, i), d)
           Q(i) == P(i) /\ (i = L \/ ~ P(i + 1))
<1>1. L \in Nat /\ Len(d) \in Nat
  BY DEF Chains
<1>2. \A i \in 0..L : P(i) <=> Agree(c, d, i)
  <2> SUFFICES ASSUME NEW i \in 0..L PROVE P(i) <=> Agree(c, d, i)
    OBVIOUS
  <2>1. i \in Nat /\ i <= Len(c) /\ i <= Len(d)
    BY <1>1
  <2>2. BlockAt(c, i) \in Chains /\ Len(BlockAt(c, i)) = i /\ ((BlockAt(c, i) = BlockAt(d, i)) <=> Agree(c, d, i))
    BY <2>1, SameBlock
  <2>3. SubSeq(BlockAt(c, i), 1, i) = BlockAt(c, i)
    BY <2>1, <2>2 DEF Chains
  <2>4. SubSeq(d, 1, i) = BlockAt(d, i)
    BY DEF BlockAt
  <2> QED
    BY <2>1, <2>2, <2>3, <2>4 DEF IsPrefix
<1>3. ASSUME NEW i \in 0..L, NEW j \in 0..L, i <= j, Agree(c, d, j) PROVE Agree(c, d, i)
  BY <1>1, <1>3 DEF Agree
<1>4. \E x \in 0..L : Q(x)
  <2> DEFINE T == {i \in 0..L : ~ Agree(c, d, i)}
  <2>1. CASE T = {}
    <3>1. L \in 0..L
      BY <1>1
    <3> QED
      BY <1>2, <2>1, <3>1
  <2>2. CASE T # {}
    <3>1. T \subseteq Nat
      BY <1>1
    <3>2. PICK x \in T : \A y \in T : x <= y
      BY <2>2, <3>1, Least
    <3>3. x # 0
      BY <3>2 DEF Agree
    <3>4. x - 1 \in 0..L /\ x \in 0..L /\ x - 1 \notin T
      BY <1>1, <3>2, <3>3
    <3>5. Agree(c, d, x - 1) /\ ~ Agree(c, d, x) /\ (x - 1) + 1 = x
      BY <3>2, <3>4
    <3>6. P(x - 1) /\ ~ P(x)
      BY <1>2, <3>4, <3>5
    <3> HIDE DEF P
    <3>7. Q(x - 1)
      BY <3>5, <3>6
    <3> QED
      BY <3>4, <3>7
  <2> QED
    BY <2>1, <2>2
<1>5. Common(c, d) = CHOOSE x \in 0..L : Q(x)
  BY DEF Common
<1> HIDE DEF Q
<1>6. Common(c, d) \in 0..L /\ Q(Common(c, d))
  BY <1>4, <1>5
<1> DEFINE x == Common(c, d)
<1> HIDE DEF x
<1>7. x \in 0..L /\ Agree(c, d, x) /\ (x = L \/ ~ Agree(c, d, x + 1))
  <2>1. x \in 0..L /\ P(x) /\ (x = L \/ ~ P(x + 1))
    BY <1>6 DEF Q, x
  <2> HIDE DEF P
  <2>2. x = L \/ x + 1 \in 0..L
    BY <1>1, <2>1
  <2> QED
    BY <1>2, <2>1, <2>2
<1>8. ASSUME NEW i \in 0..L, Agree(c, d, i) PROVE i <= x
  <2> SUFFICES ASSUME x < i PROVE FALSE
    BY <1>1, <1>7
  <2>1. x # L /\ x + 1 \in 0..L /\ x + 1 <= i
    BY <1>1, <1>7
  <2> QED
    BY <1>3, <1>7, <1>8, <2>1
<1>9. ASSUME NEW i \in 0..L, i = L \/ ~ Agree(c, d, i + 1) PROVE x <= i
  <2> SUFFICES ASSUME i < x PROVE FALSE
    BY <1>1, <1>7
  <2>1. i # L /\ i + 1 \in 0..L /\ i + 1 <= x
    BY <1>1, <1>7
  <2> QED
    BY <1>3, <1>7, <1>9, <2>1
<1> QED
  BY <1>7, <1>8, <1>9 DEF x

\* What the search knows is not undone by others: a chain keeps the blocks that are in its
\* store, and the node's own chain only grows while its thread goes on.
LEMMA ThreadStays ==
  ASSUME SyncInv, NEW n \in SyncNodes, thread'[n] = thread[n], failed' = failed,
         Len(tip'[n]) >= Len(tip[n]), Agree(tip'[n], tip[n], Len(tip[n])),
         tip' \in [SyncNodes -> Chains], rows' \in [SyncNodes -> Seq(Chains)],
         heights' \in [SyncNodes -> [SyncNodes -> Nat]],
         \A m \in SyncNodes :
             /\ Len(rows'[m]) >= Len(rows[m])
             /\ Agree(tip'[m], tip[m], Len(rows[m]))
             /\ heights'[n][m] >= heights[n][m] \/ heights'[n][m] >= Len(rows[m])
  PROVE  ThreadFits(n, thread[n], failed)'
<1> DEFINE t == thread[n]
           m == t.peer
<1>1. /\ tip \in [SyncNodes -> Chains] /\ rows \in [SyncNodes -> Seq(Chains)]
      /\ heights \in [SyncNodes -> [SyncNodes -> Nat]] /\ t \in SyncThread
      /\ t.our \in Nat /\ t.lo \in Nat /\ t.hi \in Nat
  BY DEF SyncInv, SyncTypes, SyncThread
<1>2. ThreadFits(n, t, failed)
  BY DEF SyncInv
<1>3. /\ t.pc \in {"tip", "search"} =>
             m \in SyncNodes \ {n} /\ t.our <= Len(tip[n]) /\ t.our <= Len(rows[m]) /\ t.our <= heights[n][m]
      /\ t.pc = "search" =>
             /\ t.lo <= t.hi /\ t.hi <= t.our /\ Agree(tip[n], tip[m], t.lo)
             /\ failed = 0 /\ t.hi < t.our => ~ Agree(tip[n], tip[m], t.hi + 1)
      /\ t.pc \in {"fetch", "apply"} => m \in SyncNodes
      /\ t.pc = "fetch" => t.lo > 0
      /\ t.pc = "apply" => t.batch # <<>> /\ \A k \in 1..Len(t.batch) : t.batch[k] # <<>>
  BY <1>2 DEF ThreadFits, Compares
<1> HIDE DEF m
<1>4. ASSUME m \in SyncNodes, t.our <= Len(tip[n]), t.our <= Len(rows[m]), t.our <= heights[n][m]
      PROVE  /\ t.our <= Len(tip'[n]) /\ t.our <= Len(rows'[m]) /\ t.our <= heights'[n][m]
             /\ \A i \in 0..t.our : Agree(tip'[n], tip'[m], i) <=> Agree(tip[n], tip[m], i)
  <2> DEFINE a == Len(tip[n])
             b == Len(rows[m])
             our == t.our
  <2>1. tip[n] \in Chains /\ tip'[n] \in Chains /\ rows[m] \in Seq(Chains) /\ rows'[m] \in Seq(Chains)
    BY <1>1, <1>4
  <2>2. heights[n][m] \in Nat /\ heights'[n][m] \in Nat
    BY <1>1, <1>4
  <2>3. a \in Nat /\ Len(tip'[n]) \in Nat /\ b \in Nat /\ Len(rows'[m]) \in Nat /\ our \in Nat
    <3>1. a \in Nat /\ Len(tip'[n]) \in Nat
      BY <2>1 DEF Chains
    <3>2. b \in Nat /\ Len(rows'[m]) \in Nat
      BY <2>1
    <3> QED
      BY <1>1, <3>1, <3>2
  <2>4. /\ Len(rows'[m]) >= b /\ Agree(tip'[m], tip[m], b)
        /\ heights'[n][m] >= heights[n][m] \/ heights'[n][m] >= b
    BY <1>4
  <2>5. Len(tip'[n]) >= a /\ Agree(tip'[n], tip[n], a) /\ our <= a /\ our <= b /\ our <= heights[n][m]
    BY <1>4
  <2> HIDE DEF a, b, our
  <2>6. our <= Len(tip'[n]) /\ our <= Len(rows'[m]) /\ our <= heights'[n][m]
    <3>1. our <= Len(tip'[n]) /\ our <= Len(rows'[m])
      BY ONLY <2>3, <2>4, <2>5
    <3>2. our <= heights'[n][m]
      BY ONLY <2>2, <2>3, <2>4, <2>5
    <3> QED
      BY <3>1, <3>2
  <2>7. \A k \in 1..our : tip'[n][k] = tip[n][k] /\ tip'[m][k] = tip[m][k]
    BY <2>3, <2>4, <2>5 DEF Agree
  <2>8. \A i \in 0..our : Agree(tip'[n], tip'[m], i) <=> Agree(tip[n], tip[m], i)
    <3> SUFFICES ASSUME NEW i \in 0..our PROVE Agree(tip'[n], tip'[m], i) <=> Agree(tip[n], tip[m], i)
      OBVIOUS
    <3>1. \A k \in 1..i : tip'[n][k] = tip[n][k] /\ tip'[m][k] = tip[m][k]
      BY <2>3, <2>7
    <3> QED
      BY ONLY <3>1 DEF Agree
  <2> QED
    BY <2>6, <2>8 DEF our
<1>5. t.pc \in {"tip", "search"} =>
          m \in SyncNodes \ {n} /\ t.our <= Len(tip'[n]) /\ t.our <= Len(rows'[m]) /\ t.our <= heights'[n][m]
  BY <1>3, <1>4
<1>6. t.pc = "search" =>
          /\ t.lo <= t.hi /\ t.hi <= t.our /\ Agree(tip'[n], tip'[m], t.lo)
          /\ failed = 0 /\ t.hi < t.our => ~ Agree(tip'[n], tip'[m], t.hi + 1)
  <2> SUFFICES ASSUME t.pc = "search"
               PROVE  /\ t.lo <= t.hi /\ t.hi <= t.our /\ Agree(tip'[n], tip'[m], t.lo)
                      /\ failed = 0 /\ t.hi < t.our => ~ Agree(tip'[n], tip'[m], t.hi + 1)
    OBVIOUS
  <2>1. /\ t.lo <= t.hi /\ t.hi <= t.our /\ Agree(tip[n], tip[m], t.lo)
        /\ failed = 0 /\ t.hi < t.our => ~ Agree(tip[n], tip[m], t.hi + 1)
    BY <1>3
  <2>2. \A i \in 0..t.our : Agree(tip'[n], tip'[m], i) <=> Agree(tip[n], tip[m], i)
    BY <1>3, <1>4
  <2> DEFINE lo == t.lo
             hi == t.hi
             our == t.our
  <2>3. lo \in Nat /\ hi \in Nat /\ our \in Nat /\ lo <= hi /\ hi <= our
    BY <1>1, <2>1
  <2> HIDE DEF lo, hi, our
  <2>4. lo \in 0..our /\ (hi < our => hi + 1 \in 0..our)
    BY <2>3
  <2> QED
    BY <2>1, <2>2, <2>4 DEF lo, hi, our
<1> QED
  BY <1>3, <1>5, <1>6 DEF ThreadFits, Compares, m

LEMMA SyncStart == SyncInit => SyncInv
<1> SUFFICES ASSUME SyncInit PROVE SyncInv
  OBVIOUS
<1>1. <<>> \in Seq(SyncNodes \X Nat) /\ <<>> \in Seq(Chains) /\ Len(<<>>) = 0
  OBVIOUS
<1>2. Idle \in SyncThread
  BY <1>1 DEF Idle, SyncThread
<1>3. SyncTypes
  BY <1>1, <1>2, SyncAssumption DEF SyncInit, SyncTypes, Chains
<1>4. BroadcastIsStored
  BY DEF SyncInit, BroadcastIsStored
<1>5. ASSUME NEW n \in SyncNodes
      PROVE  /\ Stored(n) /\ ThreadFits(n, thread[n], failed)
             /\ \A m \in SyncNodes : heights[n][m] <= Len(rows[m]) + 1
  <2>1. thread[n] = Idle /\ tip[n] = <<>> /\ \A m \in SyncNodes : heights[n][m] = 0 /\ rows[m] = <<>>
    BY DEF SyncInit
  <2> QED
    BY <1>1, <2>1 DEF Stored, ThreadFits, Idle
<1> QED
  BY <1>3, <1>4, <1>5 DEF SyncInv

\* A block that is not the genesis block is its front and one more block.
LEMMA FrontBlock ==
  ASSUME NEW b \in Chains, b # <<>>
  PROVE  Len(b) = Len(Front(b)) + 1 /\ Agree(b, Front(b), Len(Front(b)))
<1>1. Len(b) \in Nat /\ Len(b) > 0
  BY DEF Chains
<1>2. Len(Front(b)) = Len(b) - 1 /\ \A k \in 1..(Len(b) - 1) : Front(b)[k] = b[k]
  <2>1. Front(b) = BlockAt(b, Len(b) - 1)
    BY DEF Front, BlockAt
  <2>2. Len(b) - 1 \in Nat /\ Len(b) - 1 <= Len(b)
    BY <1>1
  <2> QED
    BY <2>1, <2>2, SameBlock
<1> QED
  BY <1>1, <1>2 DEF Agree

\* A chain whose last block is in the store gets one more block.
LEMMA Grown ==
  ASSUME SyncInv, NEW n \in SyncNodes, NEW b \in Chains, Saved(n),
         Len(b) = Len(tip[n]) + 1, Agree(b, tip[n], Len(tip[n])),
         tip' = [tip EXCEPT ![n] = b], rows' = rows, heights' = heights, failed' = failed
  PROVE  /\ tip' \in [SyncNodes -> Chains]
         /\ \A m \in SyncNodes : /\ Stored(m)'
                                 /\ thread'[m] = thread[m] => ThreadFits(m, thread[m], failed)'
<1>1. /\ tip \in [SyncNodes -> Chains] /\ rows \in [SyncNodes -> Seq(Chains)]
      /\ heights \in [SyncNodes -> [SyncNodes -> Nat]]
      /\ \A m \in SyncNodes : Stored(m)
  BY DEF SyncInv, SyncTypes
<1>2. tip' \in [SyncNodes -> Chains] /\ tip'[n] = b /\ \A m \in SyncNodes : m # n => tip'[m] = tip[m]
  BY <1>1
<1>3. ASSUME NEW m \in SyncNodes
      PROVE  /\ Len(tip[m]) \in Nat /\ Len(tip'[m]) \in Nat /\ Len(rows[m]) \in Nat
             /\ Len(rows[m]) <= Len(tip[m]) /\ Len(tip[m]) <= Len(tip'[m])
             /\ Agree(tip'[m], tip[m], Len(tip[m])) /\ Agree(tip'[m], tip[m], Len(rows[m]))
  <2>1. Len(tip[m]) \in Nat /\ Len(tip'[m]) \in Nat
    BY <1>1, <1>2 DEF Chains
  <2>2. Len(rows[m]) \in Nat
    BY <1>1
  <2>3. Len(rows[m]) <= Len(tip[m])
    <3>1. Len(rows[m]) = Len(tip[m]) \/ Len(rows[m]) = Len(tip[m]) - 1
      BY <1>1 DEF Stored
    <3> QED
      BY <2>1, <2>2, <3>1
  <2>4. Len(tip[m]) <= Len(tip'[m]) /\ Agree(tip'[m], tip[m], Len(tip[m]))
    BY <1>2, <2>1 DEF Agree
  <2> QED
    BY <2>1, <2>2, <2>3, <2>4 DEF Agree
<1>4. ASSUME NEW m \in SyncNodes PROVE Stored(m)'
  <2>1. CASE m = n
    <3>1. Len(rows[n]) = Len(tip'[n]) - 1 /\ Len(rows[n]) = Len(tip[n])
      BY <1>2, <1>3 DEF Saved
    <3>2. ASSUME NEW k \in 1..Len(rows[n]) PROVE rows[n][k] = BlockAt(tip'[n], k)
      <4>1. k \in Nat /\ k <= Len(tip[n]) /\ k <= Len(tip'[n]) /\ k <= Len(rows[n])
        BY <1>3
      <4>2. Agree(tip'[n], tip[n], k)
        BY <1>3, <4>1 DEF Agree
      <4>3. BlockAt(tip'[n], k) = BlockAt(tip[n], k)
        BY <1>1, <1>2, <4>1, <4>2, SameBlock
      <4>4. rows[n][k] = BlockAt(tip[n], k)
        BY <1>1 DEF Stored
      <4> QED
        BY <4>3, <4>4
    <3> QED
      BY <2>1, <3>1, <3>2 DEF Stored
  <2>2. CASE m # n
    <3>1. Stored(m) /\ tip'[m] = tip[m] /\ rows'[m] = rows[m]
      BY <1>1, <1>2, <2>2
    <3> QED
      BY <3>1 DEF Stored
  <2> QED
    BY <2>1, <2>2
<1>5. ASSUME NEW m \in SyncNodes, thread'[m] = thread[m] PROVE ThreadFits(m, thread[m], failed)'
  <2>1. \A x \in SyncNodes : /\ Len(rows'[x]) >= Len(rows[x])
                             /\ Agree(tip'[x], tip[x], Len(rows[x]))
                             /\ heights'[m][x] >= heights[m][x] \/ heights'[m][x] >= Len(rows[x])
    BY <1>1, <1>3
  <2>2. Len(tip'[m]) >= Len(tip[m]) /\ Agree(tip'[m], tip[m], Len(tip[m]))
    BY <1>3
  <2>3. rows' \in [SyncNodes -> Seq(Chains)] /\ heights' \in [SyncNodes -> [SyncNodes -> Nat]]
    BY <1>1
  <2> QED
    BY <1>2, <1>5, <2>1, <2>2, <2>3, ThreadStays
<1> QED
  BY <1>2, <1>4, <1>5

\* A step of a thread that only looks.
LEMMA ThreadMoves ==
  ASSUME SyncInv, NEW n \in SyncNodes, NEW t \in SyncThread, ThreadBecomes(n, t),
         failed' \in Nat, failed' >= failed, failed' + restarts <= SyncFaults,
         ThreadFits(n, t, failed')
  PROVE  SyncInv'
<1>1. /\ UNCHANGED <<tip, rows, heights, news, mined, restarts>>
      /\ thread' = [thread EXCEPT ![n] = t]
  BY DEF ThreadBecomes
<1>2. SyncTypes /\ thread \in [SyncNodes -> SyncThread] /\ failed \in Nat
  BY DEF SyncInv, SyncTypes
<1>3. thread' \in [SyncNodes -> SyncThread] /\ thread'[n] = t
      /\ \A m \in SyncNodes : m # n => thread'[m] = thread[m]
  BY <1>1, <1>2
<1>4. SyncTypes'
  BY <1>1, <1>2, <1>3 DEF SyncTypes
<1>5. BroadcastIsStored'
  BY <1>1 DEF SyncInv, BroadcastIsStored
<1>6. ASSUME NEW m \in SyncNodes PROVE ThreadFits(m, thread[m], failed)'
  <2>1. failed' = 0 => failed = 0
    BY <1>2
  <2>2. ThreadFits(m, thread[m], failed)
    BY DEF SyncInv
  <2>3. CASE m = n
    BY <1>1, <1>3, <2>3 DEF ThreadFits, Compares
  <2>4. CASE m # n
    <3>1. thread'[m] = thread[m]
      BY <1>3, <2>4
    <3> QED
      BY <1>1, <2>1, <2>2, <3>1 DEF ThreadFits, Compares
  <2> QED
    BY <2>3, <2>4
<1>7. ASSUME NEW m \in SyncNodes PROVE Stored(m)' /\ \A x \in SyncNodes : heights'[m][x] <= Len(rows'[x]) + 1
  BY <1>1 DEF SyncInv, Stored
<1> QED
  BY <1>4, <1>5, <1>6, <1>7 DEF SyncInv

LEMMA Downloads ==
  ASSUME NEW n \in SyncNodes, NEW t \in SyncThread, t.peer \in SyncNodes, NEW fork \in Nat,
         heights \in [SyncNodes -> [SyncNodes -> Nat]]
  PROVE  Download(n, t, fork) \in SyncThread /\ \A f : ThreadFits(n, Download(n, t, fork), f)
<1> DEFINE top == heights[n][t.peer]
           u == [t EXCEPT !.pc = "fetch", !.lo = fork + 1, !.top = top]
<1>1. top \in Nat /\ fork + 1 \in Nat /\ fork + 1 > 0
  OBVIOUS
<1>2. u \in SyncThread /\ u.pc = "fetch" /\ u.lo = fork + 1 /\ u.peer = t.peer
  BY <1>1 DEF SyncThread
<1>3. Idle \in SyncThread /\ Idle.pc = "idle"
  <2>1. <<>> \in Seq(Chains)
    OBVIOUS
  <2> QED
    BY <2>1 DEF Idle, SyncThread
<1>4. Download(n, t, fork) = u \/ Download(n, t, fork) = Idle
  BY DEF Download
<1> HIDE DEF u
<1> QED
  BY <1>1, <1>2, <1>3, <1>4 DEF ThreadFits

\* What a peer sends are blocks, none of them the genesis block.
LEMMA RangeOfBlocks ==
  ASSUME NEW c \in Chains, NEW lo \in Nat, lo > 0, NEW end \in Nat
  PROVE  /\ BlocksRange(c, lo, end) \in Seq(Chains)
         /\ \A k \in 1..Len(BlocksRange(c, lo, end)) : BlocksRange(c, lo, end)[k] # <<>>
<1> DEFINE h == IF end < Len(c) THEN end ELSE Len(c)
           K == h - lo + 1
           r == BlocksRange(c, lo, end)
<1>1. Len(c) \in Nat /\ h \in Nat /\ h <= Len(c) /\ K \in Int /\ K = h - lo + 1
  <2>1. Len(c) \in Nat
    BY DEF Chains
  <2> QED
    BY <2>1
<1>2. r = [k \in 1..K |-> BlockAt(c, lo + k - 1)]
  BY DEF BlocksRange
<1> HIDE DEF h, K, r
<1>3. ASSUME NEW k \in 1..K PROVE BlockAt(c, lo + k - 1) \in Chains /\ BlockAt(c, lo + k - 1) # <<>>
  <2>1. lo + k - 1 \in Nat /\ lo + k - 1 > 0 /\ lo + k - 1 <= Len(c)
    BY <1>1
  <2>2. BlockAt(c, lo + k - 1) \in Chains /\ Len(BlockAt(c, lo + k - 1)) = lo + k - 1
    BY <2>1, SameBlock
  <2>3. Len(<<>>) = 0
    OBVIOUS
  <2> QED
    BY <2>1, <2>2, <2>3
<1>4. CASE K \in Nat
  <2>1. r \in [1..K -> Chains]
    BY <1>2, <1>3
  <2>2. r \in Seq(Chains) /\ Len(r) = K
    BY <1>4, <2>1
  <2> QED
    BY <1>2, <1>3, <2>2 DEF r
<1>5. CASE K \notin Nat
  <2>1. 1..K = {} /\ 1..0 = {}
    BY <1>1, <1>5
  <2>2. r \in [1..0 -> Chains]
    BY <1>2, <2>1
  <2>3. r \in Seq(Chains) /\ Len(r) = 0
    BY <2>2
  <2> QED
    BY <2>3 DEF r
<1> QED
  BY <1>4, <1>5

LEMMA SyncStepKeeps == SyncInv /\ [SyncNext]_syncVars => SyncInv'
<1> SUFFICES ASSUME SyncInv, [SyncNext]_syncVars PROVE SyncInv'
  OBVIOUS
<1>0. /\ tip \in [SyncNodes -> Chains] /\ rows \in [SyncNodes -> Seq(Chains)]
      /\ heights \in [SyncNodes -> [SyncNodes -> Nat]] /\ mined \in [SyncNodes -> Nat]
      /\ news \subseteq Chains \ {<<>>} /\ thread \in [SyncNodes -> SyncThread]
      /\ failed \in Nat /\ restarts \in Nat /\ failed + restarts <= SyncFaults /\ SyncFaults \in Nat
      /\ SyncTypes /\ BroadcastIsStored
      /\ \A n \in SyncNodes : /\ Stored(n) /\ ThreadFits(n, thread[n], failed)
                              /\ \A m \in SyncNodes : heights[n][m] <= Len(rows[m]) + 1
  BY SyncAssumption DEF SyncInv, SyncTypes
<1>h. ASSUME NEW m \in SyncNodes
      PROVE  /\ Len(tip[m]) \in Nat /\ Len(rows[m]) \in Nat
             /\ Len(rows[m]) <= Len(tip[m]) /\ Len(tip[m]) <= Len(rows[m]) + 1
  <2>1. Len(tip[m]) \in Nat
    BY <1>0 DEF Chains
  <2>2. Len(rows[m]) \in Nat
    BY <1>0
  <2>3. Len(rows[m]) = Len(tip[m]) \/ Len(rows[m]) = Len(tip[m]) - 1
    BY <1>0 DEF Stored
  <2> QED
    BY <2>1, <2>2, <2>3
<1>i. Idle \in SyncThread /\ \A n, f : ThreadFits(n, Idle, f)
  <2>1. <<>> \in Seq(Chains)
    OBVIOUS
  <2> QED
    BY <2>1 DEF Idle, SyncThread, ThreadFits
<1>1. ASSUME NEW n \in SyncNodes, Save(n) PROVE SyncInv'
  <2>1. /\ UNCHANGED <<tip, heights, news, mined, thread, failed, restarts>>
        /\ rows' = [rows EXCEPT ![n] = Append(rows[n], tip[n])] /\ Len(rows[n]) # Len(tip[n])
    BY <1>1 DEF Save, Saved
  <2> DEFINE L == Len(rows[n])
  <2>2. tip[n] \in Chains /\ rows[n] \in Seq(Chains) /\ L \in Nat /\ Len(tip[n]) = L + 1
    BY <1>0, <1>h, <2>1
  <2>3. /\ rows'[n] = Append(rows[n], tip[n]) /\ \A m \in SyncNodes : m # n => rows'[m] = rows[m]
    BY <1>0, <2>1
  <2>4. /\ rows'[n] \in Seq(Chains) /\ Len(rows'[n]) = L + 1 /\ rows'[n][L + 1] = tip[n]
        /\ \A k \in 1..L : rows'[n][k] = rows[n][k]
    BY <2>2, <2>3
  <2>5. rows' \in [SyncNodes -> Seq(Chains)]
    BY <1>0, <2>1, <2>4
  <2>6. SyncTypes'
    BY <1>0, <2>1, <2>5 DEF SyncTypes
  <2>7. \A m \in SyncNodes : Len(rows'[m]) \in Nat /\ Len(rows'[m]) >= Len(rows[m]) /\ Range(rows[m]) \subseteq Range(rows'[m])
    <3> SUFFICES ASSUME NEW m \in SyncNodes
                 PROVE  Len(rows'[m]) \in Nat /\ Len(rows'[m]) >= Len(rows[m]) /\ Range(rows[m]) \subseteq Range(rows'[m])
      OBVIOUS
    <3>1. CASE m = n
      <4>1. DOMAIN rows[n] = 1..L /\ DOMAIN rows'[n] = 1..(L + 1)
        BY <2>2, <2>4
      <4>2. Range(rows[n]) \subseteq Range(rows'[n])
        BY <2>2, <2>4, <4>1 DEF Range
      <4> QED
        BY <2>2, <2>4, <3>1, <4>2
    <3>2. CASE m # n
      <4>1. rows'[m] = rows[m]
        BY <2>3, <3>2
      <4> QED
        BY <1>h, <4>1
    <3> QED
      BY <3>1, <3>2
  <2>8. BroadcastIsStored'
    <3>1. ASSUME NEW b \in news PROVE Last(b)[1] \in SyncNodes
      <4>1. b \in Seq(SyncNodes \X Nat) /\ b # <<>>
        BY <1>0 DEF Chains
      <4>2. Len(b) \in 1..Len(b) /\ Last(b) = b[Len(b)]
        BY <4>1 DEF Last
      <4>3. Last(b) \in SyncNodes \X Nat
        BY <4>1, <4>2
      <4> QED
        BY <4>3
    <3> QED
      BY <1>0, <2>1, <2>7, <3>1 DEF BroadcastIsStored
  <2>9. ASSUME NEW m \in SyncNodes PROVE Stored(m)'
    <3>1. CASE m = n
      <4>1. BlockAt(tip[n], L + 1) = tip[n]
        <5>1. tip[n] \in Seq(SyncNodes \X Nat)
          BY <2>2 DEF Chains
        <5> QED
          BY <2>2, <5>1 DEF BlockAt
      <4>2. \A k \in 1..L : rows'[n][k] = BlockAt(tip[n], k)
        BY <1>0, <2>4 DEF Stored
      <4>3. \A k \in 1..(L + 1) : rows'[n][k] = BlockAt(tip[n], k)
        BY <2>2, <2>4, <4>1, <4>2
      <4> QED
        BY <2>1, <2>2, <2>4, <3>1, <4>3 DEF Stored
    <3>2. CASE m # n
      <4>1. rows'[m] = rows[m] /\ tip' = tip
        BY <2>1, <2>3, <3>2
      <4> QED
        BY <1>0, <4>1 DEF Stored
    <3> QED
      BY <3>1, <3>2
  <2>10. ASSUME NEW m \in SyncNodes PROVE ThreadFits(m, thread[m], failed)'
    <3>1. \A c, k : Agree(c, c, k)
      BY DEF Agree
    <3>2. Len(tip'[m]) >= Len(tip[m])
      BY <1>h, <2>1
    <3>3. \A x \in SyncNodes : heights'[m][x] >= heights[m][x]
      BY <1>0, <2>1
    <3> QED
      BY <1>0, <2>1, <2>5, <2>7, <3>1, <3>2, <3>3, ThreadStays
  <2>11. \A m, x \in SyncNodes : heights'[m][x] <= Len(rows'[x]) + 1
    <3> SUFFICES ASSUME NEW m \in SyncNodes, NEW x \in SyncNodes PROVE heights'[m][x] <= Len(rows'[x]) + 1
      OBVIOUS
    <3>1. heights[m][x] \in Nat /\ heights[m][x] <= Len(rows[x]) + 1 /\ heights'[m][x] = heights[m][x]
      BY <1>0, <2>1
    <3> QED
      BY <1>h, <2>7, <3>1
  <2> QED
    BY <2>6, <2>8, <2>9, <2>10, <2>11 DEF SyncInv
<1>2. ASSUME NEW n \in SyncNodes, Mine(n) PROVE SyncInv'
  <2> DEFINE b == Append(tip[n], <<n, mined[n] + 1>>)
  <2>1. /\ UNCHANGED <<rows, heights, news, thread, failed, restarts>> /\ Saved(n)
        /\ mined' = [mined EXCEPT ![n] = mined[n] + 1] /\ tip' = [tip EXCEPT ![n] = b]
    <3>1. mined'[n] = mined[n] + 1
      BY <1>0, <1>2 DEF Mine
    <3> QED
      BY <1>2, <3>1 DEF Mine
  <2>2. mined' \in [SyncNodes -> Nat] /\ <<n, mined[n] + 1>> \in SyncNodes \X Nat
    BY <1>0, <2>1
  <2>3. b \in Chains /\ Len(b) = Len(tip[n]) + 1 /\ Agree(b, tip[n], Len(tip[n]))
    <3>1. tip[n] \in Seq(SyncNodes \X Nat)
      BY <1>0 DEF Chains
    <3>2. b \in Seq(SyncNodes \X Nat) /\ Len(b) = Len(tip[n]) + 1 /\ \A k \in 1..Len(tip[n]) : b[k] = tip[n][k]
      BY <2>2, <3>1
    <3> QED
      BY <3>2 DEF Chains, Agree
  <2> HIDE DEF b
  <2>4. /\ tip' \in [SyncNodes -> Chains]
        /\ \A m \in SyncNodes : Stored(m)' /\ ThreadFits(m, thread[m], failed)'
    BY <2>1, <2>3, Grown
  <2>5. SyncTypes'
    BY <1>0, <2>1, <2>2, <2>4 DEF SyncTypes
  <2> QED
    BY <1>0, <2>1, <2>4, <2>5 DEF SyncInv, BroadcastIsStored
<1>3. ASSUME NEW n \in SyncNodes, BroadcastBlock(n) PROVE SyncInv'
  <2>1. /\ UNCHANGED <<tip, rows, heights, mined, thread, failed, restarts>> /\ Saved(n)
        /\ tip[n] # <<>> /\ Last(tip[n])[1] = n /\ news' = news \cup {tip[n]}
    BY <1>3 DEF BroadcastBlock
  <2>2. tip[n] \in Range(rows[n])
    <3> DEFINE L == Len(rows[n])
    <3>1. tip[n] \in Seq(SyncNodes \X Nat) /\ rows[n] \in Seq(Chains) /\ L \in Nat /\ Len(tip[n]) = L
      BY <1>0, <1>h, <2>1 DEF Saved, Chains
    <3>2. L \in 1..L
      BY <2>1, <3>1
    <3>3. rows[n][L] = BlockAt(tip[n], L)
      BY <1>0, <3>2 DEF Stored
    <3>4. BlockAt(tip[n], L) = tip[n]
      BY <3>1 DEF BlockAt
    <3>5. DOMAIN rows[n] = 1..L
      BY <3>1
    <3> QED
      BY <3>2, <3>3, <3>4, <3>5 DEF Range
  <2>3. SyncTypes'
    BY <1>0, <2>1 DEF SyncTypes
  <2>4. BroadcastIsStored'
    BY <1>0, <2>1, <2>2 DEF BroadcastIsStored
  <2>5. \A m \in SyncNodes : ThreadFits(m, thread[m], failed)' /\ Stored(m)'
    BY <1>0, <2>1 DEF ThreadFits, Compares, Stored
  <2> QED
    BY <1>0, <2>1, <2>3, <2>4, <2>5 DEF SyncInv
<1>4. ASSUME NEW n \in SyncNodes, NEW b \in news, GossipBlock(n, b) PROVE SyncInv'
  <2>1. /\ UNCHANGED <<rows, heights, news, mined, thread, failed, restarts>> /\ Saved(n)
        /\ Front(b) = tip[n] /\ tip' = [tip EXCEPT ![n] = b]
    BY <1>4 DEF GossipBlock, Fits
  <2>2. b \in Chains /\ b # <<>>
    BY <1>0
  <2>3. /\ tip' \in [SyncNodes -> Chains]
        /\ \A m \in SyncNodes : Stored(m)' /\ ThreadFits(m, thread[m], failed)'
    BY <2>1, <2>2, FrontBlock, Grown
  <2>4. SyncTypes'
    BY <1>0, <2>1, <2>3 DEF SyncTypes
  <2> QED
    BY <1>0, <2>1, <2>3, <2>4 DEF SyncInv, BroadcastIsStored
<1>5. ASSUME NEW n \in SyncNodes, NEW m \in SyncNodes, LearnHeight(n, m) PROVE SyncInv'
  <2>1. /\ UNCHANGED <<tip, rows, news, mined, thread, failed, restarts>>
        /\ heights' = [heights EXCEPT ![n][m] = Len(tip[m])]
    BY <1>5 DEF LearnHeight
  <2>2. /\ heights' \in [SyncNodes -> [SyncNodes -> Nat]] /\ heights'[n][m] = Len(tip[m])
        /\ \A x, y \in SyncNodes : x # n \/ y # m => heights'[x][y] = heights[x][y]
    BY <1>0, <1>h, <2>1
  <2>3. \A x, y \in SyncNodes : /\ heights'[x][y] >= heights[x][y] \/ heights'[x][y] >= Len(rows[y])
                                /\ heights'[x][y] <= Len(rows'[y]) + 1
    <3> SUFFICES ASSUME NEW x \in SyncNodes, NEW y \in SyncNodes
                 PROVE  /\ heights'[x][y] >= heights[x][y] \/ heights'[x][y] >= Len(rows[y])
                        /\ heights'[x][y] <= Len(rows'[y]) + 1
      OBVIOUS
    <3>1. CASE x = n /\ y = m
      BY <1>h, <2>1, <2>2, <3>1
    <3>2. CASE ~ (x = n /\ y = m)
      <4>1. heights'[x][y] = heights[x][y] /\ heights[x][y] \in Nat /\ heights[x][y] <= Len(rows[y]) + 1
        BY <1>0, <2>2, <3>2
      <4> QED
        BY <2>1, <4>1
    <3> QED
      BY <3>1, <3>2
  <2>4. ASSUME NEW x \in SyncNodes PROVE ThreadFits(x, thread[x], failed)'
    <3>1. \A c, k : Agree(c, c, k)
      BY DEF Agree
    <3>2. Len(tip'[x]) >= Len(tip[x]) /\ \A y \in SyncNodes : Len(rows'[y]) >= Len(rows[y])
      BY <1>h, <2>1
    <3> QED
      BY <1>0, <2>1, <2>2, <2>3, <3>1, <3>2, ThreadStays
  <2>5. SyncTypes' /\ BroadcastIsStored'
    BY <1>0, <2>1, <2>2 DEF SyncTypes, BroadcastIsStored
  <2>6. \A x \in SyncNodes : Stored(x)'
    BY <1>0, <2>1 DEF Stored
  <2> QED
    BY <2>3, <2>4, <2>5, <2>6 DEF SyncInv
<1>6. ASSUME NEW n \in SyncNodes, RestartNode(n) PROVE SyncInv'
  <2> DEFINE L == Len(rows[n])
             c == BlockAt(tip[n], L)
  <2>0. rows[n] \in Seq(Chains) /\ L \in Nat /\ tip[n] \in Chains /\ L <= Len(tip[n])
    BY <1>0, <1>h
  <2>1. c \in Chains /\ Len(c) = L /\ Agree(c, tip[n], L) /\ \A k \in 0..L : Agree(c, tip[n], k)
    <3>1. c \in Chains /\ Len(c) = L /\ \A k \in 1..L : c[k] = tip[n][k]
      BY <2>0, SameBlock
    <3> HIDE DEF c
    <3> QED
      BY <2>0, <3>1 DEF Agree
  <2>2. (IF rows[n] = <<>> THEN <<>> ELSE Last(rows[n])) = c
    <3>1. CASE rows[n] = <<>>
      <4>1. L = 0
        BY <3>1
      <4>2. tip[n] \in Seq(SyncNodes \X Nat)
        BY <2>0 DEF Chains
      <4> QED
        BY <3>1, <4>1, <4>2 DEF BlockAt
    <3>2. CASE rows[n] # <<>>
      <4>1. L \in 1..L
        BY <2>0, <3>2
      <4>2. rows[n][L] = c
        BY <1>0, <4>1 DEF Stored
      <4> QED
        BY <3>2, <4>2 DEF Last
    <3> QED
      BY <3>1, <3>2
  <2>3. /\ UNCHANGED <<rows, news, mined, failed>> /\ failed + restarts < SyncFaults /\ restarts' = restarts + 1
        /\ tip' = [tip EXCEPT ![n] = c] /\ heights' = [heights EXCEPT ![n] = [m \in SyncNodes |-> 0]]
        /\ thread' = [thread EXCEPT ![n] = Idle]
    BY <1>6, <2>2 DEF RestartNode
  <2> HIDE DEF c
  <2>4. /\ tip' \in [SyncNodes -> Chains] /\ tip'[n] = c
        /\ heights' \in [SyncNodes -> [SyncNodes -> Nat]] /\ \A y \in SyncNodes : heights'[n][y] = 0
        /\ thread' \in [SyncNodes -> SyncThread] /\ thread'[n] = Idle
        /\ \A x \in SyncNodes : x # n => tip'[x] = tip[x] /\ heights'[x] = heights[x] /\ thread'[x] = thread[x]
    BY <1>0, <1>i, <2>1, <2>3
  <2>5. SyncTypes' /\ BroadcastIsStored'
    BY <1>0, <2>3, <2>4 DEF SyncTypes, BroadcastIsStored
  <2>6. \A x, y \in SyncNodes : heights'[x][y] <= Len(rows'[y]) + 1
    <3> SUFFICES ASSUME NEW x \in SyncNodes, NEW y \in SyncNodes PROVE heights'[x][y] <= Len(rows'[y]) + 1
      OBVIOUS
    <3>1. Len(rows[y]) \in Nat /\ rows' = rows /\ heights[x][y] <= Len(rows[y]) + 1
      BY <1>0, <1>h, <2>3
    <3>2. heights'[x][y] = 0 \/ heights'[x][y] = heights[x][y]
      BY <2>4
    <3> QED
      BY <3>1, <3>2
  <2>7. ASSUME NEW x \in SyncNodes PROVE Stored(x)'
    <3>1. CASE x = n
      <4>1. ASSUME NEW k \in 1..L PROVE rows[n][k] = BlockAt(c, k)
        <5>1. k \in Nat /\ k \in 0..L /\ k <= Len(c) /\ k <= Len(tip[n])
          BY <1>h, <2>0, <2>1
        <5>2. BlockAt(c, k) = BlockAt(tip[n], k)
          BY <2>0, <2>1, <5>1, SameBlock
        <5> QED
          BY <1>0, <5>2 DEF Stored
      <4> QED
        BY <2>1, <2>3, <2>4, <3>1, <4>1 DEF Stored
    <3>2. CASE x # n
      <4>1. tip'[x] = tip[x] /\ rows'[x] = rows[x]
        BY <2>3, <2>4, <3>2
      <4> QED
        BY <1>0, <4>1 DEF Stored
    <3> QED
      BY <3>1, <3>2
  <2>8. ASSUME NEW x \in SyncNodes PROVE ThreadFits(x, thread[x], failed)'
    <3>1. CASE x = n
      BY <2>4, <3>1 DEF ThreadFits, Idle
    <3>2. CASE x # n
      <4>1. \A d, k : Agree(d, d, k)
        BY DEF Agree
      <4>2. Len(tip'[x]) >= Len(tip[x]) /\ Agree(tip'[x], tip[x], Len(tip[x]))
        BY <1>h, <2>4, <3>2, <4>1
      <4>3. ASSUME NEW y \in SyncNodes
            PROVE  /\ Len(rows'[y]) >= Len(rows[y]) /\ Agree(tip'[y], tip[y], Len(rows[y]))
                   /\ heights'[x][y] >= heights[x][y]
        <5>1. Len(rows'[y]) >= Len(rows[y])
          BY <1>h, <2>3
        <5>2. heights'[x][y] >= heights[x][y]
          BY <1>0, <2>4, <3>2
        <5>3. Agree(tip'[y], tip[y], Len(rows[y]))
          BY <2>1, <2>4, <4>1
        <5> QED
          BY <5>1, <5>2, <5>3
      <4>4. rows' \in [SyncNodes -> Seq(Chains)] /\ failed' = failed /\ thread'[x] = thread[x]
        BY <1>0, <2>3, <2>4, <3>2
      <4> QED
        BY <2>4, <4>2, <4>3, <4>4, ThreadStays
    <3> QED
      BY <3>1, <3>2
  <2> QED
    BY <2>5, <2>6, <2>7, <2>8 DEF SyncInv
<1>7. ASSUME NEW n \in SyncNodes, NEW m \in SyncNodes, SyncPass(n, m) PROVE SyncInv'
  <2> DEFINE our == Len(tip[n])
             t == [Idle EXCEPT !.pc = "tip", !.peer = m, !.our = our]
  <2>1. m # n /\ heights[n][m] > our /\ ThreadBecomes(n, t) /\ failed' = failed
    BY <1>7 DEF SyncPass
  <2>2. our \in Nat /\ heights[n][m] \in Nat /\ heights[n][m] <= Len(rows[m]) + 1 /\ Len(rows[m]) \in Nat
    BY <1>0, <1>h
  <2>3. our <= Len(rows[m]) /\ our <= heights[n][m]
    <3> HIDE DEF our
    <3> QED
      BY <2>1, <2>2
  <2>4. t \in SyncThread /\ t.pc = "tip" /\ t.peer = m /\ t.our = our
    BY <1>i, <2>2 DEF SyncThread, Idle
  <2> HIDE DEF t
  <2>5. ThreadFits(n, t, failed')
    BY <2>1, <2>2, <2>3, <2>4 DEF ThreadFits, Compares
  <2> QED
    BY <1>0, <2>1, <2>4, <2>5, ThreadMoves
<1>8. ASSUME NEW n \in SyncNodes, NEW ok \in BOOLEAN, CompareTips(n, ok) PROVE SyncInv'
  <2> DEFINE t == thread[n]
             peer == t.peer
             our == t.our
             high == IF our < heights[n][peer] THEN our ELSE heights[n][peer]
             s == [t EXCEPT !.pc = "search", !.lo = 0, !.hi = high]
  <2>1. /\ t.pc = "tip" /\ Request(ok)
        /\ ThreadBecomes(n, IF ok /\ SameAt(n, peer, our) THEN Download(n, t, our) ELSE s)
    BY <1>8 DEF CompareTips
  <2>2. /\ t \in SyncThread /\ our \in Nat /\ peer \in SyncNodes \ {n} /\ heights[n][peer] \in Nat
        /\ our <= Len(tip[n]) /\ our <= Len(rows[peer]) /\ our <= heights[n][peer]
    BY <1>0, <2>1 DEF ThreadFits, Compares, SyncThread
  <2>3. failed' \in Nat /\ failed' >= failed /\ failed' + restarts <= SyncFaults
    BY <1>0, <2>1 DEF Request
  <2>4. CASE ok /\ SameAt(n, peer, our)
    <3> HIDE DEF t, peer, our
    <3>1. ThreadBecomes(n, Download(n, t, our))
      BY <2>1, <2>4
    <3>2. t.peer \in SyncNodes
      BY <2>2 DEF peer
    <3> DEFINE d == Download(n, t, our)
    <3>3. d \in SyncThread /\ ThreadFits(n, d, failed')
      BY <1>0, <2>2, <3>2, Downloads
    <3>4. ThreadBecomes(n, d)
      BY <3>1
    <3> HIDE DEF d
    <3> QED
      BY <2>3, <3>3, <3>4, ThreadMoves
  <2>5. CASE ~ (ok /\ SameAt(n, peer, our))
    <3>1. high = our
      <4> HIDE DEF our, peer
      <4> QED
        BY <2>2
    <3> HIDE DEF high
    <3>2. s \in SyncThread /\ s.pc = "search" /\ s.lo = 0 /\ s.hi = our /\ s.our = our /\ s.peer = peer
      BY <2>2, <3>1 DEF SyncThread
    <3>3. ThreadBecomes(n, s)
      BY <2>1, <2>5 DEF high
    <3> HIDE DEF s, our, peer, t
    <3>4. ThreadFits(n, s, failed')
      BY <2>2, <3>2 DEF ThreadFits, Compares, Agree
    <3> QED
      BY <2>3, <3>2, <3>3, <3>4, ThreadMoves
  <2> QED
    BY <2>4, <2>5
<1>9. ASSUME NEW n \in SyncNodes, NEW ok \in BOOLEAN, SearchFork(n, ok) PROVE SyncInv'
  <2> DEFINE t == thread[n]
             peer == t.peer
             our == t.our
             lo == t.lo
             hi == t.hi
             mid == (lo + hi + 1) \div 2
             higher == [t EXCEPT !.lo = mid]
             lower == [t EXCEPT !.hi = mid - 1]
  <2>1. /\ t.pc = "search" /\ lo < hi /\ Request(ok)
        /\ ThreadBecomes(n, IF ok /\ SameAt(n, peer, mid) THEN higher ELSE lower)
    BY <1>9 DEF SearchFork
  <2>2. /\ t \in SyncThread /\ our \in Nat /\ lo \in Nat /\ hi \in Nat /\ peer \in SyncNodes \ {n}
        /\ our <= Len(tip[n]) /\ our <= Len(rows[peer]) /\ our <= heights[n][peer]
        /\ hi <= our /\ Agree(tip[n], tip[peer], lo)
        /\ failed = 0 /\ hi < our => ~ Agree(tip[n], tip[peer], hi + 1)
    BY <1>0, <2>1 DEF ThreadFits, Compares, SyncThread
  <2>3. failed' \in Nat /\ failed' >= failed /\ failed' + restarts <= SyncFaults
        /\ (failed' = 0 => ok /\ failed = 0)
    BY <1>0, <2>1 DEF Request
  <2>4. mid \in Nat /\ lo < mid /\ mid <= hi /\ mid - 1 \in Nat /\ mid <= our
    <3> HIDE DEF lo, hi, our
    <3> QED
      BY <2>1, <2>2
  <2>5. /\ higher \in SyncThread /\ higher.pc = "search" /\ higher.lo = mid /\ higher.hi = hi
        /\ higher.our = our /\ higher.peer = peer
        /\ lower \in SyncThread /\ lower.pc = "search" /\ lower.lo = lo /\ lower.hi = mid - 1
        /\ lower.our = our /\ lower.peer = peer
    <3> HIDE DEF mid
    <3> QED
      BY <2>1, <2>2, <2>4 DEF SyncThread
  <2> HIDE DEF t, lo, hi, our, peer, mid, higher, lower
  <2>6. /\ tip[n] \in Chains /\ tip[peer] \in Chains /\ Len(tip[peer]) \in Nat /\ Len(tip[n]) \in Nat
        /\ mid <= Len(tip[n]) /\ mid <= Len(tip[peer])
    BY <1>0, <1>h, <2>2, <2>4
  <2>7. SameAt(n, peer, mid) <=> Agree(tip[n], tip[peer], mid)
    BY <2>4, <2>6, SameBlock DEF SameAt
  <2>8. CASE ok /\ SameAt(n, peer, mid)
    <3>1. ThreadBecomes(n, higher) /\ Agree(tip[n], tip[peer], mid)
      BY <2>1, <2>7, <2>8
    <3>2. ThreadFits(n, higher, failed')
      BY <2>2, <2>3, <2>4, <2>5, <3>1 DEF ThreadFits, Compares
    <3> QED
      BY <2>3, <2>5, <3>1, <3>2, ThreadMoves
  <2>9. CASE ~ (ok /\ SameAt(n, peer, mid))
    <3>1. ThreadBecomes(n, lower)
      BY <2>1, <2>9
    <3>2. failed' = 0 => ~ Agree(tip[n], tip[peer], mid)
      BY <2>3, <2>7, <2>9
    <3>3. (mid - 1) + 1 = mid /\ lo <= mid - 1 /\ mid - 1 <= our
      BY <2>2, <2>4
    <3>4. ThreadFits(n, lower, failed')
      BY <2>2, <2>5, <3>2, <3>3 DEF ThreadFits, Compares
    <3> QED
      BY <2>3, <2>5, <3>1, <3>4, ThreadMoves
  <2> QED
    BY <2>8, <2>9
<1>10. ASSUME NEW n \in SyncNodes, ForkFound(n) PROVE SyncInv'
  <2> DEFINE t == thread[n]
  <2>1. t.pc = "search" /\ ThreadBecomes(n, Download(n, t, t.lo)) /\ failed' = failed
    BY <1>10 DEF ForkFound
  <2>2. t \in SyncThread /\ t.peer \in SyncNodes /\ t.lo \in Nat
    BY <1>0, <2>1 DEF ThreadFits, Compares, SyncThread
  <2> HIDE DEF t
  <2> DEFINE d == Download(n, t, t.lo)
  <2>3. d \in SyncThread /\ ThreadFits(n, d, failed')
    BY <1>0, <2>2, Downloads
  <2>4. ThreadBecomes(n, d)
    BY <2>1
  <2> HIDE DEF d
  <2> QED
    BY <1>0, <2>1, <2>3, <2>4, ThreadMoves
<1>11. ASSUME NEW n \in SyncNodes, RefuseBlock(n) PROVE SyncInv'
  <2>1. ThreadBecomes(n, Idle) /\ failed' = failed
    BY <1>11 DEF RefuseBlock
  <2> QED
    BY <1>0, <1>i, <2>1, ThreadMoves
<1>12. ASSUME NEW n \in SyncNodes, NEW ok \in BOOLEAN, FetchBlocks(n, ok) PROVE SyncInv'
  <2> DEFINE t == thread[n]
             peer == t.peer
             lo == t.lo
             end == IF lo + BatchSize - 1 < t.top THEN lo + BatchSize - 1 ELSE t.top
             blocks == BlocksRange(tip[peer], lo, end)
             s == [t EXCEPT !.pc = "apply", !.end = end, !.batch = blocks]
  <2>1. /\ t.pc = "fetch" /\ Request(ok)
        /\ ThreadBecomes(n, IF ok /\ blocks # <<>> THEN s ELSE Idle)
    BY <1>12 DEF FetchBlocks
  <2>2. t \in SyncThread /\ peer \in SyncNodes /\ lo \in Nat /\ lo > 0 /\ t.top \in Nat
    BY <1>0, <2>1 DEF ThreadFits, SyncThread
  <2>3. failed' \in Nat /\ failed' >= failed /\ failed' + restarts <= SyncFaults
    BY <1>0, <2>1 DEF Request
  <2>4. end \in Nat
    <3> DEFINE top == t.top
    <3>1. top \in Nat
      BY <2>2
    <3> HIDE DEF lo, top
    <3>2. (IF lo + BatchSize - 1 < top THEN lo + BatchSize - 1 ELSE top) \in Nat
      BY <2>2, <3>1, SyncAssumption
    <3> QED
      BY <3>2 DEF top
  <2> HIDE DEF lo, end, peer
  <2>5. blocks \in Seq(Chains) /\ \A k \in 1..Len(blocks) : blocks[k] # <<>>
    <3>1. tip[peer] \in Chains
      BY <1>0, <2>2
    <3> QED
      BY <2>2, <2>4, <3>1, RangeOfBlocks
  <2> HIDE DEF blocks
  <2>6. CASE ok /\ blocks # <<>>
    <3>1. s \in SyncThread /\ s.pc = "apply" /\ s.batch = blocks /\ s.peer = peer
      BY <2>2, <2>4, <2>5 DEF SyncThread, peer
    <3>2. ThreadBecomes(n, s)
      BY <2>1, <2>6
    <3> HIDE DEF s
    <3>3. ThreadFits(n, s, failed')
      BY <2>2, <2>5, <2>6, <3>1 DEF ThreadFits
    <3> QED
      BY <2>3, <3>1, <3>2, <3>3, ThreadMoves
  <2>7. CASE ~ (ok /\ blocks # <<>>)
    BY <1>i, <2>1, <2>3, <2>7, ThreadMoves
  <2> QED
    BY <2>6, <2>7
<1>13. ASSUME NEW n \in SyncNodes, ApplyBlock(n) PROVE SyncInv'
  <2> DEFINE t == thread[n]
             b == Head(t.batch)
             rest == Tail(t.batch)
             t1 == [t EXCEPT !.batch = rest]
             t2 == [t EXCEPT !.pc = "fetch", !.lo = t.end + 1, !.batch = <<>>]
             u == IF rest # <<>> THEN t1 ELSE IF t.end + 1 <= t.top THEN t2 ELSE Idle
  <2>1. /\ UNCHANGED <<rows, heights, news, mined, failed, restarts>> /\ t.pc = "apply"
        /\ Saved(n) /\ Front(b) = tip[n] /\ tip' = [tip EXCEPT ![n] = b]
        /\ thread' = [thread EXCEPT ![n] = u]
    BY <1>13 DEF ApplyBlock, Fits
  <2>2. /\ t \in SyncThread /\ t.batch \in Seq(Chains) /\ t.end \in Nat /\ t.peer \in SyncNodes
        /\ t.batch # <<>> /\ \A k \in 1..Len(t.batch) : t.batch[k] # <<>>
    BY <1>0, <2>1 DEF ThreadFits, SyncThread
  <2>3. /\ b \in Chains /\ b # <<>> /\ rest \in Seq(Chains)
        /\ \A k \in 1..Len(rest) : rest[k] # <<>>
    <3> DEFINE q == t.batch
    <3>1. q \in Seq(Chains) /\ q # <<>> /\ \A k \in 1..Len(q) : q[k] # <<>>
      BY <2>2
    <3> HIDE DEF q
    <3>2. Len(q) \in Nat /\ 1 \in 1..Len(q) /\ Head(q) = q[1] /\ q[1] \in Chains
      BY <3>1
    <3>3. Tail(q) \in Seq(Chains) /\ Len(Tail(q)) = Len(q) - 1
          /\ \A k \in 1..(Len(q) - 1) : Tail(q)[k] = q[k + 1] /\ k + 1 \in 1..Len(q)
      BY <3>1, <3>2
    <3>4. Head(q) \in Chains /\ Head(q) # <<>> /\ \A k \in 1..Len(Tail(q)) : Tail(q)[k] # <<>>
      BY <3>1, <3>2, <3>3
    <3> QED
      BY <3>3, <3>4 DEF q
  <2> HIDE DEF b, rest
  <2>4. /\ tip' \in [SyncNodes -> Chains]
        /\ \A m \in SyncNodes : /\ Stored(m)'
                                /\ thread'[m] = thread[m] => ThreadFits(m, thread[m], failed)'
    BY <2>1, <2>3, FrontBlock, Grown
  <2>5. t.end + 1 \in Nat /\ t.end + 1 > 0 /\ <<>> \in Seq(Chains)
    BY <2>2
  <2> HIDE DEF t
  <2>6. t1 \in SyncThread /\ t1.pc = "apply" /\ t1.peer = t.peer /\ t1.batch = rest
    BY <2>1, <2>2, <2>3 DEF SyncThread
  <2>7. t2 \in SyncThread /\ t2.pc = "fetch" /\ t2.lo = t.end + 1 /\ t2.peer = t.peer
    BY <2>2, <2>5 DEF SyncThread
  <2> HIDE DEF t1, t2
  <2>8. /\ u \in SyncThread /\ u.pc \notin {"tip", "search"}
        /\ u.pc \in {"fetch", "apply"} => u.peer \in SyncNodes
        /\ u.pc = "fetch" => u.lo > 0
        /\ u.pc = "apply" => u.batch # <<>> /\ \A k \in 1..Len(u.batch) : u.batch[k] # <<>>
    <3>1. CASE rest # <<>>
      BY <2>2, <2>3, <2>6, <3>1
    <3>2. CASE rest = <<>> /\ t.end + 1 <= t.top
      BY <2>2, <2>5, <2>7, <3>2
    <3>3. CASE rest = <<>> /\ ~ (t.end + 1 <= t.top)
      <4>1. u = Idle /\ Idle.pc = "idle"
        BY <3>3 DEF Idle
      <4> QED
        BY <1>i, <4>1
    <3> QED
      BY <3>1, <3>2, <3>3
  <2> HIDE DEF u
  <2>9. thread' \in [SyncNodes -> SyncThread] /\ thread'[n] = u
        /\ \A m \in SyncNodes : m # n => thread'[m] = thread[m]
    BY <1>0, <2>1, <2>8
  <2>10. ThreadFits(n, thread[n], failed)'
    BY <2>8, <2>9 DEF ThreadFits
  <2>11. \A m \in SyncNodes : Stored(m)' /\ ThreadFits(m, thread[m], failed)'
    BY <2>4, <2>9, <2>10
  <2>12. SyncTypes' /\ BroadcastIsStored'
    BY <1>0, <2>1, <2>4, <2>9 DEF SyncTypes, BroadcastIsStored
  <2> QED
    BY <1>0, <2>1, <2>11, <2>12 DEF SyncInv
<1>14. CASE UNCHANGED syncVars
  <2>1. UNCHANGED <<tip, rows, heights, news, mined, thread, failed, restarts>>
    BY <1>14 DEF syncVars
  <2>2. \A n \in SyncNodes : Stored(n)' /\ ThreadFits(n, thread[n], failed)'
    BY <1>0, <2>1 DEF Stored, ThreadFits, Compares
  <2> QED
    BY <1>0, <2>1, <2>2 DEF SyncInv, SyncTypes, BroadcastIsStored
<1>15. ASSUME NEW n \in SyncNodes, SyncStep(n) PROVE SyncInv'
  BY <1>7, <1>8, <1>9, <1>10, <1>11, <1>12, <1>13, <1>15 DEF SyncStep
<1> QED
  BY <1>1, <1>2, <1>3, <1>4, <1>5, <1>6, <1>14, <1>15 DEF SyncNext

\* What the store holds is the chain.
LEMMA StoredRows ==
  ASSUME NEW n \in SyncNodes, tip[n] \in Chains, rows[n] \in Seq(Chains), Stored(n)
  PROVE  rows[n] \in {BlocksRange(tip[n], 1, Len(tip[n])), BlocksRange(tip[n], 1, Len(tip[n]) - 1)}
<1> DEFINE c == tip[n]
           L == Len(c)
           r == rows[n]
<1>1. L \in Nat /\ Len(r) \in Nat
  BY DEF Chains
<1>2. (Len(r) = L \/ Len(r) = L - 1) /\ \A k \in 1..Len(r) : r[k] = BlockAt(c, k)
  BY DEF Stored
<1>3. r \in [1..Len(r) -> Chains]
  OBVIOUS
<1> HIDE DEF c, L, r
<1>4. BlocksRange(c, 1, Len(r)) = [k \in 1..Len(r) |-> BlockAt(c, 1 + k - 1)]
  <2>1. (IF Len(r) < Len(c) THEN Len(r) ELSE Len(c)) - 1 + 1 = Len(r)
    BY <1>1, <1>2 DEF L
  <2> QED
    BY <2>1 DEF BlocksRange
<1>5. \A k \in 1..Len(r) : 1 + k - 1 = k
  OBVIOUS
<1>6. BlocksRange(c, 1, Len(r)) = [k \in 1..Len(r) |-> BlockAt(c, k)]
  BY <1>4, <1>5
<1>7. r = BlocksRange(c, 1, Len(r))
  BY <1>2, <1>3, <1>6
<1>8. r = BlocksRange(c, 1, L) \/ r = BlocksRange(c, 1, L - 1)
  BY <1>2, <1>7
<1> QED
  BY <1>8 DEF c, L, r

\* Any number of nodes, whichever requests fail and whenever they start again: a store
\* holds the chain, the search ends at the fork, and what was broadcast is stored.
THEOREM SyncIsConsistent == SyncSpec => []SyncConsistent
<1>1. SyncInv => SyncConsistent
  <2> SUFFICES ASSUME SyncInv PROVE SyncConsistent
    OBVIOUS
  <2>0. SyncTypes
    BY DEF SyncInv
  <2>1. SyncTypeOK
    <3> SUFFICES ASSUME NEW n \in SyncNodes
                 PROVE  /\ tip[n] \in Seq(SyncNodes \X Nat) /\ Range(heights[n]) \subseteq Nat
                        /\ rows[n] \in {BlocksRange(tip[n], 1, Len(tip[n])),
                                        BlocksRange(tip[n], 1, Len(tip[n]) - 1)}
                        /\ failed \in 0..SyncFaults /\ restarts \in 0..SyncFaults
      BY DEF SyncTypeOK
    <3>1. tip[n] \in Seq(SyncNodes \X Nat) /\ tip[n] \in Chains /\ rows[n] \in Seq(Chains)
      BY <2>0 DEF SyncTypes, Chains
    <3>2. Range(heights[n]) \subseteq Nat
      BY <2>0 DEF SyncTypes, Range
    <3>3. failed \in 0..SyncFaults /\ restarts \in 0..SyncFaults
      BY <2>0, SyncAssumption DEF SyncTypes
    <3> QED
      BY <3>1, <3>2, <3>3, StoredRows DEF SyncInv
  <2>2. SearchFindsFork
    <3> SUFFICES ASSUME NEW n \in SyncNodes, thread[n].pc = "search", thread[n].lo >= thread[n].hi
                 PROVE  /\ thread[n].lo <= Common(BlockAt(tip[n], thread[n].our), tip[thread[n].peer])
                        /\ failed = 0 =>
                               thread[n].lo = Common(BlockAt(tip[n], thread[n].our), tip[thread[n].peer])
      BY DEF SearchFindsFork
    <3> DEFINE t == thread[n]
               peer == t.peer
               our == t.our
               lo == t.lo
               hi == t.hi
               c == BlockAt(tip[n], our)
               d == tip[peer]
    <3>1. /\ our \in Nat /\ lo \in Nat /\ hi \in Nat /\ lo >= hi /\ peer \in SyncNodes
          /\ our <= Len(tip[n]) /\ our <= Len(rows[peer]) /\ lo <= hi /\ hi <= our
          /\ Agree(tip[n], d, lo) /\ (failed = 0 /\ hi < our => ~ Agree(tip[n], d, hi + 1))
      BY <2>0 DEF SyncInv, ThreadFits, Compares, SyncTypes, SyncThread
    <3>2. tip[n] \in Chains /\ d \in Chains /\ rows[peer] \in Seq(Chains)
      BY <2>0, <3>1 DEF SyncTypes
    <3>3. Len(d) \in Nat /\ Len(rows[peer]) \in Nat
      BY <3>2 DEF Chains
    <3>4. Len(rows[peer]) = Len(d) \/ Len(rows[peer]) = Len(d) - 1
      BY <3>1 DEF SyncInv, Stored
    <3> HIDE DEF t, peer, our, lo, hi, d
    <3>5. c \in Chains /\ Len(c) = our /\ \A k \in 1..our : c[k] = tip[n][k]
      BY <3>1, <3>2, SameBlock
    <3>6. Len(c) <= Len(d)
      BY <3>1, <3>3, <3>4, <3>5
    <3> HIDE DEF c
    <3>7. \A i \in 0..our : Agree(c, d, i) <=> Agree(tip[n], d, i)
      BY <3>1, <3>5 DEF Agree
    <3>8. lo = hi /\ lo \in 0..our /\ (lo < our => lo + 1 \in 0..our)
      BY <3>1
    <3>9. Agree(c, d, lo) /\ (failed = 0 => lo = our \/ ~ Agree(c, d, lo + 1))
      BY <3>1, <3>7, <3>8
    <3>10. Common(c, d) \in 0..our /\ lo <= Common(c, d) /\ (failed = 0 => Common(c, d) <= lo)
      BY <3>2, <3>5, <3>6, <3>8, <3>9, CommonBetween
    <3>11. lo <= Common(c, d) /\ (failed = 0 => lo = Common(c, d))
      BY <3>1, <3>10
    <3> QED
      BY <3>11 DEF lo, c, d, our, peer, t
  <2> QED
    BY <2>1, <2>2 DEF SyncConsistent, SyncInv
<1> QED
  BY <1>1, SyncStart, SyncStepKeeps, PTL DEF SyncSpec
=============================================================================
