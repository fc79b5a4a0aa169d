------------------------- MODULE BorderChainProofs -------------------------
(***************************************************************************)
(* Theorems about BorderChain, for every number of nodes, receipts,        *)
(* transactions and blocks.                                                *)
(*                                                                         *)
(* First the types.  Then the safety of the chain: no proof is rewarded    *)
(* twice on a chain, the spent sets are those of the chain, only signed    *)
(* proofs are rewarded, and a block made on the current tip is accepted.   *)
(* None of these is inductive.  _validate_block looks at the spent         *)
(* receipts of one node, validate_chain at none, and the compute and       *)
(* storage proofs of a block are checked by create_block only, on another  *)
(* node and at another time.  What makes them safe is that a block commits *)
(* by its previous_hash to the whole chain it was made on: its contents    *)
(* are fresh with respect to that chain (Fresh), and it can only ever sit  *)
(* on top of that chain (Linked, UniqueIds).                               *)
(*                                                                         *)
(* Then the coins: the balance cache is a replay of the chain, no coin     *)
(* appears or vanishes, the coinbases stay within the cap, and on a single *)
(* node no transaction in the mempool is unfunded.                         *)
(***************************************************************************)
EXTENDS BorderChain, SumTheorems, SequenceTheorems

-----------------------------------------------------------------------------
(* The types of the operators *)

LEMMA SumFunctionNat ==
  ASSUME NEW S, IsFiniteSet(S), NEW f \in [S -> Nat]
  PROVE  SumFunction(f) \in Nat
<1>1. DOMAIN f = S /\ \A x \in S : f[x] \in Nat
  OBVIOUS
<1> QED
  BY <1>1, SumNat DEF SumFunction

LEMMA SumFunctionInt ==
  ASSUME NEW S, IsFiniteSet(S), NEW f \in [S -> Int]
  PROVE  SumFunction(f) \in Int
<1>1. DOMAIN f = S /\ \A x \in S : f[x] \in Int
  OBVIOUS
<1> QED
  BY <1>1, SumInt DEF SumFunction

LEMMA ProductNat == \A x, y \in Nat : x * y \in Nat
  OBVIOUS

LEMMA TxType ==
  ASSUME NEW t \in Txs
  PROVE  /\ TxOf[t].amount \in Nat /\ TxOf[t].fee \in Nat /\ Cost(t) \in Nat
         /\ TxOf[t].from \in Addresses /\ TxOf[t].to \in Addresses
  BY TablesAssumption DEF Cost

LEMMA FlowType ==
  ASSUME NEW bag \in TxBag, NEW a \in Addresses
  PROVE  Outflow(bag, a) \in Nat /\ Inflow(bag, a) \in Nat
<1>1. IsFiniteSet({u \in Txs : TxOf[u].from = a}) /\ IsFiniteSet({u \in Txs : TxOf[u].to = a})
  BY FiniteAssumption, FS_Subset
<1>2. [t \in {u \in Txs : TxOf[u].from = a} |-> bag[t] * Cost(t)]
        \in [{u \in Txs : TxOf[u].from = a} -> Nat]
  BY TxType, ProductNat DEF TxBag
<1>3. [t \in {u \in Txs : TxOf[u].to = a} |-> bag[t] * TxOf[t].amount]
        \in [{u \in Txs : TxOf[u].to = a} -> Nat]
  BY TxType, ProductNat DEF TxBag
<1> QED
  BY <1>1, <1>2, <1>3, SumFunctionNat DEF Outflow, Inflow

LEMMA FeesType == ASSUME NEW bag \in TxBag PROVE Fees(bag) \in Nat
<1>1. [t \in Txs |-> bag[t] * TxOf[t].fee] \in [Txs -> Nat]
  BY TxType, ProductNat DEF TxBag
<1> QED
  BY <1>1, FiniteAssumption, SumFunctionNat DEF Fees

LEMMA BlockType ==
  ASSUME NEW b \in Block
  PROVE  /\ b.id \in BlockIds \cup {GenesisId} /\ b.index \in Nat
         /\ b.prev \in Seq(BlockIds \cup {GenesisId}) /\ b.miner \in Addresses
         /\ b.proofs \in SUBSET Receipts /\ b.compute \in SUBSET ComputeIds
         /\ b.storage \in SUBSET StorageIds /\ b.txs \in TxBag /\ b.reward \in Nat
  BY DEF Block

LEMMA DeltaType ==
  ASSUME NEW b \in Block, NEW a \in Addresses
  PROVE  Delta(b, a) \in Int
  BY BlockType, FlowType DEF Delta

LEMMA ReplayType ==
  ASSUME NEW c \in Seq(Block)
  PROVE  Replay(c) \in [Addresses -> Int] /\ TotalSupply(c) \in Nat
<1>1. IsFiniteSet(DOMAIN c) /\ \A k \in DOMAIN c : c[k] \in Block
  <2>1. DOMAIN c = 1 .. Len(c) /\ Len(c) \in Nat
    OBVIOUS
  <2> QED
    BY <2>1, FS_Interval
<1>2. \A a \in Addresses : [k \in DOMAIN c |-> Delta(c[k], a)] \in [DOMAIN c -> Int]
  BY <1>1, DeltaType
<1>3. [k \in DOMAIN c |-> c[k].reward] \in [DOMAIN c -> Nat]
  BY <1>1, BlockType
<1>4. \A a \in Addresses : SumFunction([k \in DOMAIN c |-> Delta(c[k], a)]) \in Int
  BY <1>1, <1>2, SumFunctionInt
<1>5. SumFunction([k \in DOMAIN c |-> c[k].reward]) \in Nat
  BY <1>1, <1>3, SumFunctionNat
<1> QED
  BY <1>4, <1>5 DEF Replay, TotalSupply

LEMMA RewardType ==
  ASSUME NEW supply \in Nat, NEW rs \in SUBSET Receipts, NEW cs \in SUBSET ComputeIds,
         NEW ss \in SUBSET StorageIds, NEW bag \in TxBag
  PROVE  CoinbaseReward(supply, rs, cs, ss, bag) \in Nat
<1>1. IsFiniteSet(rs) /\ IsFiniteSet(cs) /\ IsFiniteSet(ss)
  BY FiniteAssumption, FS_Subset
<1>2. [r \in rs |-> ReceiptOf[r].value] \in [rs -> Nat]
  BY TablesAssumption
<1>3. [c \in cs |-> ComputeOf[c].value] \in [cs -> Nat]
  BY TablesAssumption
<1>4. [s \in ss |-> StorageOf[s].value] \in [ss -> Nat]
  BY TablesAssumption
<1>5. /\ SumFunction([r \in rs |-> ReceiptOf[r].value]) \in Nat
      /\ SumFunction([c \in cs |-> ComputeOf[c].value]) \in Nat
      /\ SumFunction([s \in ss |-> StorageOf[s].value]) \in Nat
  BY <1>1, <1>2, <1>3, <1>4, SumFunctionNat
<1>6. Headroom(supply) \in Nat
  BY SizesAssumption DEF Headroom
<1> QED
  BY <1>5, <1>6, FeesType, SizesAssumption DEF CoinbaseReward

LEMMA HashType == ASSUME NEW b \in Block PROVE HashOf(b) \in Seq(BlockIds \cup {GenesisId})
  BY BlockType DEF HashOf

LEMMA GenesisType == ASSUME NEW n \in Nodes PROVE Genesis \in Block
<1>1. (CHOOSE a \in Addresses : TRUE) \in Addresses
  BY TablesAssumption
<1>2. NoTxs \in TxBag
  BY DEF NoTxs, TxBag
<1> QED
  BY <1>1, <1>2 DEF Genesis, Block

LEMMA LatestType ==
  ASSUME NEW c \in Seq(Block) \ {<<>>}
  PROVE  LatestBlock(c) \in Block /\ Len(c) \in Nat \ {0} /\ Len(c) \in DOMAIN c
  BY DEF LatestBlock

LEMMA NewBlockType ==
  ASSUME TypeOK, NEW n \in Nodes, NEW id \in BlockIds
  PROVE  NewBlock(n, id) \in Block
<1>1. TotalSupply(chain[n]) \in Nat
  BY ReplayType DEF TypeOK
<1>2. [t \in Txs |-> IF ValidTx(t) THEN mempool[n][t] ELSE 0] \in TxBag
  BY DEF TypeOK, TxBag
<1>3. /\ LatestBlock(chain[n]) \in Block
      /\ HashOf(LatestBlock(chain[n])) \in Seq(BlockIds \cup {GenesisId})
      /\ Len(chain[n]) \in Nat
  BY LatestType, HashType DEF TypeOK
<1>4. /\ pendingProofs[n] \ spentReceipts[n] \in SUBSET Receipts
      /\ pendingCompute[n] \ spentCompute[n] \in SUBSET ComputeIds
      /\ pendingStorage[n] \ spentStorage[n] \in SUBSET StorageIds
  BY DEF TypeOK
<1>5. Wallet[n] \in Addresses
  BY TablesAssumption
<1> QED
  BY <1>1, <1>2, <1>3, <1>4, <1>5, RewardType DEF NewBlock, Block

-----------------------------------------------------------------------------
(* Type correctness *)

LEMMA AddBlockType ==
  ASSUME TypeOK, NEW n \in Nodes, NEW b \in Block, AddBlock(n, b),
         candidates' \in [Nodes -> SUBSET Block], network' \subseteq Block
  PROVE  TypeOK'
<1> USE DEF AddBlock
<1>1. chain' \in [Nodes -> Seq(Block) \ {<<>>}]
  <2>1. chain[n] \in Seq(Block)
    BY DEF TypeOK
  <2>2. Append(chain[n], b) \in Seq(Block) /\ Append(chain[n], b) # <<>>
    BY <2>1, AppendProperties
  <2> QED
    BY <2>2 DEF TypeOK
<1>2. reserved' \in [Nodes -> [Addresses -> Nat]]
  <2>1. \A a \in Addresses : reserved[n][a] \in Nat /\ Outflow(b.txs, a) \in Nat
    BY BlockType, FlowType DEF TypeOK
  <2>2. Released(n, b) \in [Addresses -> Nat]
    BY <2>1 DEF Released
  <2> QED
    BY <2>2 DEF TypeOK
<1>3. mempool' \in [Nodes -> TxBag]
  <2>1. [t \in Txs |-> IF b.txs[t] > 0 THEN 0 ELSE mempool[n][t]] \in TxBag
    BY DEF TypeOK, TxBag
  <2> QED
    BY <2>1 DEF TypeOK
<1>4. balance' \in [Nodes -> [Addresses -> Int]]
  <2>1. \A a \in Addresses : balance[n][a] \in Int /\ Delta(b, a) \in Int
    BY DeltaType DEF TypeOK
  <2>2. [a \in Addresses |-> balance[n][a] + Delta(b, a)] \in [Addresses -> Int]
    BY <2>1
  <2> QED
    BY <2>2 DEF TypeOK
<1>5. /\ pendingProofs' \in [Nodes -> SUBSET Receipts]
      /\ pendingCompute' \in [Nodes -> SUBSET ComputeIds]
      /\ pendingStorage' \in [Nodes -> SUBSET StorageIds]
  BY DEF TypeOK
<1>6. /\ spentReceipts' \in [Nodes -> SUBSET Receipts]
      /\ spentCompute' \in [Nodes -> SUBSET ComputeIds]
      /\ spentStorage' \in [Nodes -> SUBSET StorageIds]
  BY BlockType DEF TypeOK
<1>7. stakes' \in [Nodes -> [Addresses -> Nat]] /\ fetched' \in [Nodes -> Seq(Block)]
  BY DEF TypeOK
<1> QED
  BY <1>1, <1>2, <1>3, <1>4, <1>5, <1>6, <1>7 DEF TypeOK

LEMMA ContentsType ==
  ASSUME NEW c \in Seq(Block)
  PROVE  /\ ProofsIn(c) \in SUBSET Receipts
         /\ ComputeIn(c) \in SUBSET ComputeIds
         /\ StorageIn(c) \in SUBSET StorageIds
<1>1. \A k \in DOMAIN c : c[k] \in Block
  OBVIOUS
<1> QED
  BY <1>1, BlockType DEF ProofsIn, ComputeIn, StorageIn

LEMMA TypeStep == TypeOK /\ [Next]_vars => TypeOK'
<1> SUFFICES ASSUME TypeOK, [Next]_vars PROVE TypeOK'
  OBVIOUS
<1>1. CASE UNCHANGED vars
  BY <1>1 DEF TypeOK, vars, moneyVars, poolVars, spentVars
<1>2. CASE Next
  <2>1. PICK n \in Nodes :
          \/ \E r \in Receipts : AddProof(n, r)
          \/ \E c \in ComputeIds : AddComputeProof(n, c)
          \/ \E s \in StorageIds : AddStorageProof(n, s)
          \/ \E t \in Txs : AddTransaction(n, t)
          \/ \E id \in BlockIds : CreateBlock(n, id)
          \/ \E b \in candidates[n] : MineBlock(n, b)
          \/ \E b \in candidates[n] : DropBlock(n, b)
          \/ \E b \in network : ReceiveBlock(n, b)
          \/ \E m \in Nodes : FetchChain(n, m)
          \/ ReplaceChain(n)
          \/ KeepChain(n)
          \/ \E a \in Addresses, amount \in StakeAmounts, role \in Roles :
                 Stake(n, a, amount, role)
          \/ \E a \in Addresses : Unstake(n, a)
          \/ \E a \in Addresses, amount \in StakeAmounts : Slash(n, a, amount)
    BY <1>2 DEF Next
  <2>2. ASSUME NEW r \in Receipts, AddProof(n, r) PROVE TypeOK'
    BY <2>2 DEF AddProof, TypeOK, moneyVars, spentVars
  <2>3. ASSUME NEW c \in ComputeIds, AddComputeProof(n, c) PROVE TypeOK'
    BY <2>3 DEF AddComputeProof, TypeOK, moneyVars, spentVars
  <2>4. ASSUME NEW s \in StorageIds, AddStorageProof(n, s) PROVE TypeOK'
    BY <2>4 DEF AddStorageProof, TypeOK, moneyVars, spentVars
  <2>5. ASSUME NEW t \in Txs, AddTransaction(n, t) PROVE TypeOK'
    <3>1. mempool' \in [Nodes -> TxBag]
      BY <2>5 DEF AddTransaction, TypeOK, TxBag
    <3>2. reserved' \in [Nodes -> [Addresses -> Nat]]
      BY <2>5, TxType DEF AddTransaction, TypeOK
    <3> QED
      BY <2>5, <3>1, <3>2 DEF AddTransaction, TypeOK, poolVars, spentVars
  <2>6. ASSUME NEW id \in BlockIds, CreateBlock(n, id) PROVE TypeOK'
    <3>1. candidates' \in [Nodes -> SUBSET Block]
      BY <2>6, NewBlockType DEF CreateBlock, TypeOK
    <3> QED
      BY <2>6, <3>1 DEF CreateBlock, TypeOK, moneyVars, poolVars, spentVars
  <2>7. ASSUME NEW b \in candidates[n], MineBlock(n, b) PROVE TypeOK'
    <3>1. b \in Block /\ AddBlock(n, b)
      BY <2>7 DEF TypeOK, MineBlock
    <3>2. candidates' \in [Nodes -> SUBSET Block] /\ network' \subseteq Block
      BY <2>7, <3>1 DEF TypeOK, MineBlock
    <3> QED
      BY <3>1, <3>2, AddBlockType
  <2>8. ASSUME NEW b \in candidates[n], DropBlock(n, b) PROVE TypeOK'
    BY <2>8 DEF DropBlock, TypeOK, moneyVars, poolVars, spentVars
  <2>9. ASSUME NEW b \in network, ReceiveBlock(n, b) PROVE TypeOK'
    <3>1. b \in Block /\ AddBlock(n, b)
      BY <2>9 DEF TypeOK, ReceiveBlock
    <3>2. candidates' \in [Nodes -> SUBSET Block] /\ network' \subseteq Block
      BY <2>9 DEF TypeOK, ReceiveBlock
    <3> QED
      BY <3>1, <3>2, AddBlockType
  <2>10. ASSUME NEW m \in Nodes, FetchChain(n, m) PROVE TypeOK'
    BY <2>10 DEF FetchChain, TypeOK, moneyVars, poolVars, spentVars
  <2>11. CASE ReplaceChain(n)
    <3>1. fetched[n] \in Seq(Block) \ {<<>>}
      BY <2>11, EmptySeq DEF ReplaceChain, TypeOK
    <3>2. /\ chain' \in [Nodes -> Seq(Block) \ {<<>>}]
          /\ fetched' \in [Nodes -> Seq(Block)]
      BY <2>11, <3>1 DEF ReplaceChain, TypeOK
    <3>3. /\ spentReceipts' \in [Nodes -> SUBSET Receipts]
          /\ spentCompute' \in [Nodes -> SUBSET ComputeIds]
          /\ spentStorage' \in [Nodes -> SUBSET StorageIds]
      BY <2>11, <3>1, ContentsType DEF ReplaceChain, TypeOK
    <3>4. balance' \in [Nodes -> [Addresses -> Int]]
      BY <2>11, <3>1, ReplayType DEF ReplaceChain, TypeOK
    <3> QED
      BY <2>11, <3>2, <3>3, <3>4 DEF ReplaceChain, TypeOK, poolVars
  <2>12. CASE KeepChain(n)
    BY <2>12 DEF KeepChain, TypeOK, moneyVars, poolVars, spentVars
  <2>13. ASSUME NEW a \in Addresses, NEW amount \in StakeAmounts, NEW role \in Roles,
                Stake(n, a, amount, role)
         PROVE TypeOK'
    <3>1. amount \in Nat
      BY SizesAssumption
    <3>2. stakes' \in [Nodes -> [Addresses -> Nat]]
      BY <2>13, <3>1 DEF Stake, TypeOK
    <3> QED
      BY <2>13, <3>2 DEF Stake, TypeOK, moneyVars, poolVars, spentVars
  <2>14. ASSUME NEW a \in Addresses, Unstake(n, a) PROVE TypeOK'
    BY <2>14 DEF Unstake, TypeOK, moneyVars, poolVars, spentVars
  <2>15. ASSUME NEW a \in Addresses, NEW amount \in StakeAmounts, Slash(n, a, amount)
         PROVE TypeOK'
    <3>1. amount \in Nat
      BY SizesAssumption
    <3>2. stakes' \in [Nodes -> [Addresses -> Nat]]
      BY <2>15, <3>1 DEF Slash, TypeOK
    <3> QED
      BY <2>15, <3>2 DEF Slash, TypeOK, moneyVars, poolVars, spentVars
  <2> QED
    BY <2>1, <2>2, <2>3, <2>4, <2>5, <2>6, <2>7, <2>8, <2>9, <2>10, <2>11, <2>12,
       <2>13, <2>14, <2>15
<1> QED
  BY <1>1, <1>2

LEMMA TypeInit == Init => TypeOK
<1> SUFFICES ASSUME Init PROVE TypeOK
  OBVIOUS
<1>1. \A n \in Nodes : <<Genesis>> \in Seq(Block) \ {<<>>}
  BY GenesisType
<1>2. NoTxs \in TxBag
  BY DEF NoTxs, TxBag
<1> QED
  BY <1>1, <1>2 DEF Init, TypeOK

\* Every reachable state is well typed: in particular reservations and stakes never go
\* below zero, although add_block releases reservations of transactions this node may
\* never have pooled, and slash may be asked for more than the stake.
THEOREM TypeCorrect == Spec => []TypeOK
<1>1. Init => TypeOK
  BY TypeInit
<1>2. TypeOK /\ [Next]_vars => TypeOK'
  BY TypeStep
<1> QED
  BY <1>1, <1>2, PTL DEF Spec

-----------------------------------------------------------------------------
(* The safety of the chain *)

Published  == network \cup {Genesis}
Everything == AllBlocks \cup {Genesis}

\* The blocks of c are in P, and each commits to the ids of those before it.
LinkedIn(P, c) ==
    \A k \in DOMAIN c :
        /\ c[k] \in P
        /\ Len(c[k].prev) = k - 1
        /\ \A j \in 1 .. k - 1 : c[k].prev[j] = c[j].id

Linked == \A n \in Nodes : LinkedIn(Published, chain[n]) /\ LinkedIn(Published, fetched[n])

\* A block id stands for one block.
UniqueIds ==
    /\ \A b \in AllBlocks : b.id # GenesisId
    /\ \A a, b \in AllBlocks : a.id = b.id => a = b

\* What a block commits to has been published.
AncestorsPublished ==
    \A b \in Everything : \A j \in DOMAIN b.prev : \E a \in Published : a.id = b.prev[j]

Disjoint(a, b) ==
    /\ a.proofs \cap b.proofs = {}
    /\ a.compute \cap b.compute = {}
    /\ a.storage \cap b.storage = {}

\* A block rewards nothing that a block it commits to has rewarded.
Fresh ==
    \A b \in Everything : \A j \in DOMAIN b.prev : \A a \in Published :
        a.id = b.prev[j] => Disjoint(a, b)

\* Checks that create_block made and that do not depend on the chain.
WellMade ==
    /\ \A b \in AllBlocks :
          /\ b.index = Len(b.prev)
          /\ TotalBytes(b.proofs) >= Difficulty
          /\ \A s \in b.storage : StorageOf[s].signed
          /\ \A t \in Txs : b.txs[t] > 0 => TxOf[t].signed
    /\ \A n \in Nodes : \A s \in pendingStorage[n] : StorageOf[s].signed

\* A published block went through the _validate_block of its miner.
PublishedSigned == \A b \in network : \A r \in b.proofs : ReceiptOf[r].signed

ChainInv ==
    /\ TypeOK
    /\ Linked
    /\ UniqueIds
    /\ AncestorsPublished
    /\ Fresh
    /\ WellMade
    /\ PublishedSigned
    /\ SpentSetsMatchChain

-----------------------------------------------------------------------------
(* Linked chains *)

LEMMA LinkedMonotone ==
  ASSUME NEW P, NEW Q, P \subseteq Q, NEW c, LinkedIn(P, c)
  PROVE  LinkedIn(Q, c)
  BY DEF LinkedIn

\* A block whose previous_hash is that of the tip commits to exactly this chain.
LEMMA OnTip ==
  ASSUME NEW P, NEW c \in Seq(Block) \ {<<>>}, LinkedIn(P, c), NEW b \in Block,
         b.prev = HashOf(LatestBlock(c))
  PROVE  Len(b.prev) = Len(c) /\ \A j \in 1 .. Len(c) : b.prev[j] = c[j].id
<1> DEFINE L == Len(c)
           tip == LatestBlock(c)
<1>1. L \in DOMAIN c /\ L \in Nat /\ tip \in Block /\ tip = c[L]
  BY LatestType DEF LatestBlock
<1>2. tip.prev \in Seq(BlockIds \cup {GenesisId}) /\ tip.id \in BlockIds \cup {GenesisId}
  BY <1>1, BlockType
<1>3. Len(tip.prev) = L - 1 /\ \A j \in 1 .. L - 1 : tip.prev[j] = c[j].id
  BY <1>1 DEF LinkedIn
<1> HIDE DEF L, tip
<1>4. /\ b.prev = Append(tip.prev, tip.id)
      /\ Len(b.prev) = L
      /\ b.prev[L] = tip.id
      /\ \A j \in 1 .. L - 1 : b.prev[j] = tip.prev[j]
  <2>1. b.prev = Append(tip.prev, tip.id)
    BY DEF HashOf, tip
  <2> QED
    BY <1>1, <1>2, <1>3, <2>1, AppendProperties
<1>5. ASSUME NEW j \in 1 .. L PROVE b.prev[j] = c[j].id
  <2>1. CASE j = L
    BY <1>1, <1>4, <2>1
  <2>2. CASE j \in 1 .. L - 1
    BY <1>3, <1>4, <2>2
  <2> QED
    BY <1>1, <2>1, <2>2
<1> QED
  BY <1>4, <1>5 DEF L

LEMMA LinkedAppend ==
  ASSUME NEW P, NEW c \in Seq(Block) \ {<<>>}, LinkedIn(P, c), NEW b \in Block, b \in P,
         b.prev = HashOf(LatestBlock(c))
  PROVE  LinkedIn(P, Append(c, b))
<1> DEFINE d == Append(c, b)
<1>1. Len(b.prev) = Len(c) /\ \A j \in 1 .. Len(c) : b.prev[j] = c[j].id
  BY OnTip
<1>2. /\ Len(c) \in Nat
      /\ DOMAIN d = 1 .. Len(c) + 1
      /\ \A i \in 1 .. Len(c) : d[i] = c[i]
      /\ d[Len(c) + 1] = b
  BY AppendProperties
<1>3. DOMAIN c = 1 .. Len(c)
  OBVIOUS
<1> HIDE DEF d
<1>4. ASSUME NEW k \in DOMAIN d
      PROVE  d[k] \in P /\ Len(d[k].prev) = k - 1 /\ \A j \in 1 .. k - 1 : d[k].prev[j] = d[j].id
  <2>1. CASE k = Len(c) + 1
    BY <1>1, <1>2, <2>1
  <2>2. CASE k \in 1 .. Len(c)
    <3>1. /\ c[k] \in P /\ Len(c[k].prev) = k - 1
          /\ \A j \in 1 .. k - 1 : c[k].prev[j] = c[j].id
      BY <1>3, <2>2 DEF LinkedIn
    <3>2. \A j \in 1 .. k - 1 : d[j] = c[j]
      BY <1>2, <2>2
    <3> QED
      BY <1>2, <2>2, <3>1, <3>2
  <2> QED
    BY <1>2, <2>1, <2>2
<1> QED
  BY <1>4 DEF LinkedIn, d

\* What the chain with one more block has rewarded.
LEMMA ContentsAppend ==
  ASSUME NEW c \in Seq(Block), NEW b \in Block
  PROVE  /\ ProofsIn(Append(c, b)) = ProofsIn(c) \cup b.proofs
         /\ ComputeIn(Append(c, b)) = ComputeIn(c) \cup b.compute
         /\ StorageIn(Append(c, b)) = StorageIn(c) \cup b.storage
<1> DEFINE d == Append(c, b)
<1>1. /\ Len(c) \in Nat
      /\ DOMAIN d = 1 .. Len(c) + 1
      /\ DOMAIN c = 1 .. Len(c)
      /\ \A i \in 1 .. Len(c) : d[i] = c[i]
      /\ d[Len(c) + 1] = b
  BY AppendProperties
<1> HIDE DEF d
<1>2. DOMAIN d = DOMAIN c \cup {Len(c) + 1}
  BY <1>1
<1>3. \A k \in DOMAIN c : d[k] = c[k]
  BY <1>1
<1>4. ProofsIn(d) = ProofsIn(c) \cup b.proofs
  BY <1>1, <1>2, <1>3 DEF ProofsIn
<1>5. ComputeIn(d) = ComputeIn(c) \cup b.compute
  BY <1>1, <1>2, <1>3 DEF ComputeIn
<1>6. StorageIn(d) = StorageIn(c) \cup b.storage
  BY <1>1, <1>2, <1>3 DEF StorageIn
<1> QED
  BY <1>4, <1>5, <1>6 DEF d

LEMMA EverythingType ==
  ASSUME TypeOK, NEW n \in Nodes
  PROVE  Everything \subseteq Block /\ AllBlocks \subseteq Block
  BY GenesisType DEF Everything, AllBlocks, TypeOK

LEMMA UniqueEverywhere ==
  ASSUME UniqueIds, NEW a \in Everything, NEW b \in Everything, a.id = b.id
  PROVE  a = b
<1>1. Genesis.id = GenesisId
  BY DEF Genesis
<1> QED
  BY <1>1 DEF UniqueIds, Everything

\* A block on the tip rewards nothing that the chain has rewarded.
LEMMA FreshOnTip ==
  ASSUME ChainInv, NEW n \in Nodes, NEW b \in Everything,
         b.prev = HashOf(LatestBlock(chain[n]))
  PROVE  /\ b.proofs \cap spentReceipts[n] = {}
         /\ b.compute \cap spentCompute[n] = {}
         /\ b.storage \cap spentStorage[n] = {}
<1>1. chain[n] \in Seq(Block) \ {<<>>} /\ b \in Block
  BY EverythingType DEF ChainInv, TypeOK
<1>2. LinkedIn(Published, chain[n])
  BY DEF ChainInv, Linked
<1>3. Len(b.prev) = Len(chain[n]) /\ \A j \in 1 .. Len(chain[n]) : b.prev[j] = chain[n][j].id
  BY <1>1, <1>2, OnTip
<1>4. ASSUME NEW k \in DOMAIN chain[n] PROVE Disjoint(chain[n][k], b)
  <2>1. chain[n][k] \in Published
    BY <1>2 DEF LinkedIn
  <2>2. b.prev \in Seq(BlockIds \cup {GenesisId})
    BY <1>1, BlockType
  <2>3. k \in DOMAIN b.prev /\ b.prev[k] = chain[n][k].id
    BY <1>1, <1>3, <2>2
  <2> QED
    BY <2>1, <2>3 DEF ChainInv, Fresh
<1> QED
  BY <1>4 DEF ChainInv, SpentSetsMatchChain, Disjoint, ProofsIn, ComputeIn, StorageIn

-----------------------------------------------------------------------------
(* The steps *)

\* Steps that leave blocks, chains and spent sets alone.
LEMMA FrameStep ==
  ASSUME ChainInv, TypeOK', UNCHANGED <<chain, fetched, candidates, network, spentVars>>,
         \A n \in Nodes : \A s \in pendingStorage'[n] : StorageOf[s].signed
  PROVE  ChainInv'
<1>1. Published' = Published /\ AllBlocks' = AllBlocks /\ Everything' = Everything
  BY DEF Published, AllBlocks, Everything
<1>2. Linked'
  BY <1>1 DEF ChainInv, Linked
<1>3. UniqueIds' /\ AncestorsPublished' /\ Fresh'
  BY <1>1 DEF ChainInv, UniqueIds, AncestorsPublished, Fresh
<1>4. WellMade'
  BY <1>1 DEF ChainInv, WellMade
<1>5. PublishedSigned' /\ SpentSetsMatchChain'
  BY DEF ChainInv, PublishedSigned, SpentSetsMatchChain, spentVars
<1> QED
  BY <1>2, <1>3, <1>4, <1>5 DEF ChainInv

\* _sync_with_peers reads a chain and drops it: only fetched changes.
LEMMA FetchStep ==
  ASSUME ChainInv, TypeOK', UNCHANGED <<chain, candidates, network, spentVars, pendingStorage>>,
         \A n \in Nodes : LinkedIn(Published, fetched'[n])
  PROVE  ChainInv'
<1>1. Published' = Published /\ AllBlocks' = AllBlocks /\ Everything' = Everything
  BY DEF Published, AllBlocks, Everything
<1>2. Linked'
  BY <1>1 DEF ChainInv, Linked
<1>3. UniqueIds' /\ AncestorsPublished' /\ Fresh'
  BY <1>1 DEF ChainInv, UniqueIds, AncestorsPublished, Fresh
<1>4. WellMade'
  BY <1>1 DEF ChainInv, WellMade
<1>5. PublishedSigned' /\ SpentSetsMatchChain'
  BY DEF ChainInv, PublishedSigned, SpentSetsMatchChain, spentVars
<1> QED
  BY <1>2, <1>3, <1>4, <1>5 DEF ChainInv

\* replace_chain installs a linked chain and rebuilds the spent sets from it.
LEMMA ReplaceStep ==
  ASSUME ChainInv, TypeOK', NEW n \in Nodes, ReplaceChain(n)
  PROVE  ChainInv'
<1> USE DEF ReplaceChain
<1>1. Published' = Published /\ AllBlocks' = AllBlocks /\ Everything' = Everything
  BY DEF Published, AllBlocks, Everything
<1>2. Linked'
  <2>1. ASSUME NEW m \in Nodes
        PROVE  LinkedIn(Published, chain'[m]) /\ LinkedIn(Published, fetched'[m])
    <3>1. LinkedIn(Published, <<>>)
      BY DEF LinkedIn
    <3>2. chain'[m] = IF m = n THEN fetched[n] ELSE chain[m]
      BY DEF ChainInv, TypeOK
    <3>3. fetched'[m] = IF m = n THEN <<>> ELSE fetched[m]
      BY DEF ChainInv, TypeOK
    <3> QED
      BY <3>1, <3>2, <3>3 DEF ChainInv, Linked
  <2> QED
    BY <1>1, <2>1 DEF Linked
<1>3. UniqueIds' /\ AncestorsPublished' /\ Fresh'
  BY <1>1 DEF ChainInv, UniqueIds, AncestorsPublished, Fresh
<1>4. WellMade' /\ PublishedSigned'
  BY <1>1 DEF ChainInv, WellMade, PublishedSigned, poolVars
<1>5. SpentSetsMatchChain'
  BY DEF ChainInv, TypeOK, SpentSetsMatchChain
<1> QED
  BY <1>2, <1>3, <1>4, <1>5 DEF ChainInv

\* A refused block disappears with its id.
LEMMA DropStep ==
  ASSUME ChainInv, TypeOK', NEW n \in Nodes, NEW b \in candidates[n], DropBlock(n, b)
  PROVE  ChainInv'
<1> USE DEF DropBlock
<1>1. Published' = Published
  BY DEF Published
<1>2. AllBlocks' \subseteq AllBlocks /\ Everything' \subseteq Everything
  BY DEF AllBlocks, Everything, ChainInv, TypeOK
<1>3. Linked'
  BY <1>1 DEF ChainInv, Linked
<1>4. UniqueIds' /\ AncestorsPublished' /\ Fresh'
  BY <1>1, <1>2 DEF ChainInv, UniqueIds, AncestorsPublished, Fresh
<1>5. WellMade' /\ PublishedSigned'
  BY <1>1, <1>2 DEF ChainInv, WellMade, PublishedSigned, poolVars
<1>6. SpentSetsMatchChain'
  BY DEF ChainInv, SpentSetsMatchChain, spentVars
<1> QED
  BY <1>3, <1>4, <1>5, <1>6 DEF ChainInv

\* create_block: a new block, on the tip, of contents the chain has not rewarded.
LEMMA CreateStep ==
  ASSUME ChainInv, TypeOK', NEW n \in Nodes, NEW id \in BlockIds, CreateBlock(n, id)
  PROVE  ChainInv'
<1> DEFINE b == NewBlock(n, id)
           c == chain[n]
<1>1. /\ b \in Block /\ b.id = id /\ b.index = Len(c) /\ b.prev = HashOf(LatestBlock(c))
      /\ b.proofs = pendingProofs[n] \ spentReceipts[n]
      /\ b.compute = pendingCompute[n] \ spentCompute[n]
      /\ b.storage = pendingStorage[n] \ spentStorage[n]
      /\ b.txs = [t \in Txs |-> IF ValidTx(t) THEN mempool[n][t] ELSE 0]
  BY NewBlockType DEF NewBlock, ChainInv
<1> HIDE DEF b
<1>2. Published' = Published
  BY DEF CreateBlock, Published
<1>3. AllBlocks' = AllBlocks \cup {b} /\ Everything' = Everything \cup {b}
  <2>1. candidates' = [candidates EXCEPT ![n] = @ \cup {b}] /\ network' = network
    BY DEF CreateBlock, b
  <2>2. \A m \in Nodes : candidates'[m] = IF m = n THEN candidates[n] \cup {b} ELSE candidates[m]
    BY <2>1 DEF ChainInv, TypeOK
  <2>3. \A x : (\E m \in Nodes : x \in candidates'[m])
               <=> (\E m \in Nodes : x \in candidates[m]) \/ x = b
    BY <2>2, Zenon
  <2>4. AllBlocks' = AllBlocks \cup {b}
    BY <2>1, <2>3 DEF AllBlocks
  <2> QED
    BY <2>4 DEF Everything
<1>4. c \in Seq(Block) \ {<<>>} /\ LinkedIn(Published, c)
  BY DEF ChainInv, TypeOK, Linked
<1>5. /\ Len(b.prev) = Len(c) /\ DOMAIN b.prev = DOMAIN c
      /\ \A j \in DOMAIN c : b.prev[j] = c[j].id
  <2>1. Len(b.prev) = Len(c) /\ \A j \in 1 .. Len(c) : b.prev[j] = c[j].id
    BY <1>1, <1>4, OnTip
  <2>2. b.prev \in Seq(BlockIds \cup {GenesisId})
    BY <1>1, BlockType
  <2> QED
    BY <1>4, <2>1, <2>2
<1>6. Linked'
  BY <1>2 DEF CreateBlock, ChainInv, Linked
<1>7. UniqueIds'
  <2>1. id # GenesisId /\ \A a \in AllBlocks : a.id # id
    BY GenesisAssumption DEF CreateBlock
  <2> QED
    BY <1>1, <1>3, <2>1 DEF ChainInv, UniqueIds
<1>8. AncestorsPublished'
  <2>1. \A j \in DOMAIN b.prev : \E a \in Published : a.id = b.prev[j]
    BY <1>4, <1>5 DEF LinkedIn
  <2> QED
    BY <1>2, <1>3, <2>1 DEF ChainInv, AncestorsPublished
<1>9. Fresh'
  <2>1. ASSUME NEW j \in DOMAIN b.prev, NEW a \in Published, a.id = b.prev[j]
        PROVE  Disjoint(a, b)
    <3>1. j \in DOMAIN c /\ c[j] \in Published /\ a.id = c[j].id
      BY <1>4, <1>5, <2>1 DEF LinkedIn
    <3>2. a = c[j]
      BY <3>1, UniqueEverywhere DEF ChainInv, Published, Everything, AllBlocks
    <3>3. /\ a.proofs \subseteq spentReceipts[n] /\ a.compute \subseteq spentCompute[n]
          /\ a.storage \subseteq spentStorage[n]
      BY <3>1, <3>2 DEF ChainInv, SpentSetsMatchChain, ProofsIn, ComputeIn, StorageIn
    <3> QED
      BY <1>1, <3>3 DEF Disjoint
  <2> QED
    BY <1>2, <1>3, <2>1 DEF ChainInv, Fresh
<1>10. WellMade'
  <2>1. b.index = Len(b.prev)
    BY <1>1, <1>5
  <2>2. TotalBytes(b.proofs) >= Difficulty
    BY <1>1 DEF CreateBlock
  <2>3. \A s \in b.storage : StorageOf[s].signed
    BY <1>1 DEF ChainInv, WellMade
  <2>4. \A t \in Txs : b.txs[t] > 0 => TxOf[t].signed
    BY <1>1 DEF ValidTx
  <2>5. pendingStorage' = pendingStorage
    BY DEF CreateBlock, poolVars
  <2> QED
    BY <1>3, <2>1, <2>2, <2>3, <2>4, <2>5 DEF ChainInv, WellMade
<1>11. PublishedSigned' /\ SpentSetsMatchChain'
  BY DEF CreateBlock, ChainInv, PublishedSigned, SpentSetsMatchChain, spentVars
<1> QED
  BY <1>6, <1>7, <1>8, <1>9, <1>10, <1>11 DEF ChainInv

\* add_block, of a block of this node (MineBlock) or of a peer (ReceiveBlock).
LEMMA AddBlockStep ==
  ASSUME ChainInv, TypeOK', NEW n \in Nodes, NEW b \in AllBlocks, AddBlock(n, b),
         network' = network \cup {b},
         AllBlocks' \subseteq AllBlocks
  PROVE  ChainInv'
<1> DEFINE c == chain[n]
<1>1. /\ b \in Block /\ ValidateBlock(n, b) /\ b.prev = HashOf(LatestBlock(c))
      /\ c \in Seq(Block) \ {<<>>}
  BY EverythingType DEF AddBlock, ValidateBlock, ChainInv, TypeOK
<1>2. Published' = Published \cup {b} /\ Everything' \subseteq Everything
  BY DEF Published, Everything
<1>3. Linked'
  <2>1. ASSUME NEW m \in Nodes
        PROVE  LinkedIn(Published', chain'[m]) /\ LinkedIn(Published', fetched'[m])
    <3>1. LinkedIn(Published', chain[m]) /\ LinkedIn(Published', fetched[m])
      BY <1>2, LinkedMonotone DEF ChainInv, Linked
    <3>2. LinkedIn(Published', c)
      BY <1>2, LinkedMonotone DEF ChainInv, Linked
    <3>3. LinkedIn(Published', Append(c, b))
      BY <1>1, <1>2, <3>2, LinkedAppend
    <3>4. chain'[m] = IF m = n THEN Append(c, b) ELSE chain[m]
      BY DEF AddBlock, ChainInv, TypeOK
    <3>5. fetched' = fetched
      BY DEF AddBlock
    <3> QED
      BY <3>1, <3>3, <3>4, <3>5
  <2> QED
    BY <2>1 DEF Linked
<1>4. UniqueIds' /\ AncestorsPublished'
  BY <1>2 DEF ChainInv, UniqueIds, AncestorsPublished
<1>5. Fresh'
  <2> SUFFICES ASSUME NEW d \in Everything, NEW j \in DOMAIN d.prev, NEW a \in Published',
                      a.id = d.prev[j]
               PROVE  Disjoint(a, d)
    BY <1>2 DEF Fresh
  <2>1. PICK e \in Published : e.id = d.prev[j]
    BY DEF ChainInv, AncestorsPublished
  <2>2. e \in Everything /\ a \in Everything
    BY <1>2 DEF Published, Everything, AllBlocks
  <2>3. a = e
    BY <2>1, <2>2, UniqueEverywhere DEF ChainInv
  <2> QED
    BY <2>1, <2>3 DEF ChainInv, Fresh
<1>6. WellMade'
  <2>1. \A m \in Nodes : pendingStorage'[m] \subseteq pendingStorage[m]
    BY DEF AddBlock, ChainInv, TypeOK
  <2> QED
    BY <2>1 DEF ChainInv, WellMade
<1>7. PublishedSigned'
  BY <1>1 DEF ChainInv, PublishedSigned, ValidateBlock
<1>8. SpentSetsMatchChain'
  <2> SUFFICES ASSUME NEW m \in Nodes
               PROVE  /\ spentReceipts'[m] = ProofsIn(chain'[m])
                      /\ spentCompute'[m] = ComputeIn(chain'[m])
                      /\ spentStorage'[m] = StorageIn(chain'[m])
    BY DEF SpentSetsMatchChain
  <2>1. /\ spentReceipts[m] = ProofsIn(chain[m])
        /\ spentCompute[m] = ComputeIn(chain[m])
        /\ spentStorage[m] = StorageIn(chain[m])
    BY DEF ChainInv, SpentSetsMatchChain
  <2>2. CASE m = n
    <3>1. chain'[m] = Append(c, b)
      BY <2>2 DEF AddBlock, ChainInv, TypeOK
    <3>2. /\ spentReceipts'[m] = spentReceipts[m] \cup b.proofs
          /\ spentCompute'[m] = spentCompute[m] \cup b.compute
          /\ spentStorage'[m] = spentStorage[m] \cup b.storage
      BY <2>2 DEF AddBlock, ChainInv, TypeOK
    <3>3. c \in Seq(Block)
      BY <1>1
    <3> HIDE DEF c
    <3>4. /\ ProofsIn(chain'[m]) = ProofsIn(c) \cup b.proofs
          /\ ComputeIn(chain'[m]) = ComputeIn(c) \cup b.compute
          /\ StorageIn(chain'[m]) = StorageIn(c) \cup b.storage
      BY <1>1, <3>1, <3>3, ContentsAppend
    <3> QED
      BY <2>1, <2>2, <3>2, <3>4 DEF c
  <2>3. CASE m # n
    <3>1. /\ chain'[m] = chain[m] /\ spentReceipts'[m] = spentReceipts[m]
          /\ spentCompute'[m] = spentCompute[m] /\ spentStorage'[m] = spentStorage[m]
      BY <2>3 DEF AddBlock, ChainInv, TypeOK
    <3> QED
      BY <2>1, <3>1
  <2> QED
    BY <2>2, <2>3
<1> QED
  BY <1>3, <1>4, <1>5, <1>6, <1>7, <1>8 DEF ChainInv

LEMMA ChainInvStep == ChainInv /\ [Next]_vars => ChainInv'
<1> SUFFICES ASSUME ChainInv, [Next]_vars PROVE ChainInv'
  OBVIOUS
<1>0. TypeOK'
  BY TypeStep DEF ChainInv
<1>1. CASE UNCHANGED vars
  <2>1. /\ UNCHANGED <<chain, fetched, candidates, network, spentVars>>
        /\ pendingStorage' = pendingStorage
    BY <1>1 DEF vars, poolVars, spentVars
  <2> QED
    BY <1>0, <2>1, FrameStep DEF ChainInv, WellMade
<1>2. CASE Next
  <2>0. \A n \in Nodes : \A s \in pendingStorage[n] : StorageOf[s].signed
    BY DEF ChainInv, WellMade
  <2>1. PICK n \in Nodes :
          \/ \E r \in Receipts : AddProof(n, r)
          \/ \E c \in ComputeIds : AddComputeProof(n, c)
          \/ \E s \in StorageIds : AddStorageProof(n, s)
          \/ \E t \in Txs : AddTransaction(n, t)
          \/ \E id \in BlockIds : CreateBlock(n, id)
          \/ \E b \in candidates[n] : MineBlock(n, b)
          \/ \E b \in candidates[n] : DropBlock(n, b)
          \/ \E b \in network : ReceiveBlock(n, b)
          \/ \E m \in Nodes : FetchChain(n, m)
          \/ ReplaceChain(n)
          \/ KeepChain(n)
          \/ \E a \in Addresses, amount \in StakeAmounts, role \in Roles :
                 Stake(n, a, amount, role)
          \/ \E a \in Addresses : Unstake(n, a)
          \/ \E a \in Addresses, amount \in StakeAmounts : Slash(n, a, amount)
    BY <1>2 DEF Next
  <2>2. ASSUME NEW r \in Receipts, AddProof(n, r) PROVE ChainInv'
    BY <1>0, <2>0, <2>2, FrameStep DEF AddProof
  <2>3. ASSUME NEW c \in ComputeIds, AddComputeProof(n, c) PROVE ChainInv'
    BY <1>0, <2>0, <2>3, FrameStep DEF AddComputeProof
  <2>4. ASSUME NEW s \in StorageIds, AddStorageProof(n, s) PROVE ChainInv'
    <3>1. \A m \in Nodes : \A u \in pendingStorage'[m] : StorageOf[u].signed
      BY <2>0, <2>4 DEF AddStorageProof, ChainInv, TypeOK
    <3> QED
      BY <1>0, <2>4, <3>1, FrameStep DEF AddStorageProof
  <2>5. ASSUME NEW t \in Txs, AddTransaction(n, t) PROVE ChainInv'
    BY <1>0, <2>0, <2>5, FrameStep DEF AddTransaction, poolVars
  <2>6. ASSUME NEW id \in BlockIds, CreateBlock(n, id) PROVE ChainInv'
    BY <1>0, <2>6, CreateStep
  <2>7. ASSUME NEW b \in candidates[n], MineBlock(n, b) PROVE ChainInv'
    <3>1. AddBlock(n, b) /\ network' = network \cup {b}
      BY <2>7 DEF MineBlock
    <3>2. b \in AllBlocks
      BY DEF AllBlocks
    <3>3. \A m \in Nodes : candidates'[m] \subseteq candidates[m]
      BY <2>7 DEF MineBlock, ChainInv, TypeOK
    <3>4. AllBlocks' \subseteq AllBlocks
      BY <3>1, <3>2, <3>3 DEF AllBlocks
    <3> QED
      BY <1>0, <3>1, <3>2, <3>4, AddBlockStep
  <2>8. ASSUME NEW b \in candidates[n], DropBlock(n, b) PROVE ChainInv'
    BY <1>0, <2>8, DropStep
  <2>9. ASSUME NEW b \in network, ReceiveBlock(n, b) PROVE ChainInv'
    <3>1. /\ AddBlock(n, b) /\ network' = network \cup {b}
          /\ b \in AllBlocks /\ AllBlocks' \subseteq AllBlocks
      BY <2>9 DEF ReceiveBlock, AllBlocks
    <3> QED
      BY <1>0, <3>1, AddBlockStep
  <2>10. ASSUME NEW m \in Nodes, FetchChain(n, m) PROVE ChainInv'
    <3>1. \A k \in Nodes : LinkedIn(Published, fetched'[k])
      BY <2>10 DEF FetchChain, ChainInv, TypeOK, Linked
    <3> QED
      BY <1>0, <2>10, <3>1, FetchStep DEF FetchChain, poolVars
  <2>11. CASE ReplaceChain(n)
    BY <1>0, <2>11, ReplaceStep
  <2>12. CASE KeepChain(n)
    <3>1. \A k \in Nodes : fetched'[k] = IF k = n THEN <<>> ELSE fetched[k]
      BY <2>12 DEF KeepChain, ChainInv, TypeOK
    <3>2. LinkedIn(Published, <<>>)
      BY DEF LinkedIn
    <3>3. \A k \in Nodes : LinkedIn(Published, fetched'[k])
      BY <3>1, <3>2 DEF ChainInv, Linked
    <3> QED
      BY <1>0, <2>12, <3>3, FetchStep DEF KeepChain, poolVars
  <2>13. ASSUME NEW a \in Addresses, NEW amount \in StakeAmounts, NEW role \in Roles,
                Stake(n, a, amount, role)
         PROVE ChainInv'
    BY <1>0, <2>0, <2>13, FrameStep DEF Stake, poolVars
  <2>14. ASSUME NEW a \in Addresses, Unstake(n, a) PROVE ChainInv'
    BY <1>0, <2>0, <2>14, FrameStep DEF Unstake, poolVars
  <2>15. ASSUME NEW a \in Addresses, NEW amount \in StakeAmounts, Slash(n, a, amount)
         PROVE ChainInv'
    BY <1>0, <2>0, <2>15, FrameStep DEF Slash, poolVars
  <2> QED
    BY <2>1, <2>2, <2>3, <2>4, <2>5, <2>6, <2>7, <2>8, <2>9, <2>10, <2>11, <2>12,
       <2>13, <2>14, <2>15
<1> QED
  BY <1>1, <1>2

LEMMA ChainInvInit == Init => ChainInv
<1> SUFFICES ASSUME Init PROVE ChainInv
  OBVIOUS
<1>0. TypeOK
  BY TypeInit
<1>1. AllBlocks = {} /\ Published = {Genesis} /\ Everything = {Genesis}
  BY DEF Init, AllBlocks, Published, Everything
<1>2. Genesis.prev = <<>> /\ Genesis.proofs = {} /\ Genesis.compute = {} /\ Genesis.storage = {}
  BY DEF Genesis
<1>3. LinkedIn(Published, <<>>) /\ LinkedIn(Published, <<Genesis>>)
  BY <1>1, <1>2 DEF LinkedIn
<1>4. Linked
  BY <1>3 DEF Init, Linked
<1>5. UniqueIds /\ AncestorsPublished /\ Fresh
  BY <1>1, <1>2 DEF UniqueIds, AncestorsPublished, Fresh
<1>6. WellMade /\ PublishedSigned
  BY <1>1 DEF Init, WellMade, PublishedSigned
<1>7. SpentSetsMatchChain
  <2>1. ProofsIn(<<Genesis>>) = {} /\ ComputeIn(<<Genesis>>) = {} /\ StorageIn(<<Genesis>>) = {}
    BY <1>2 DEF ProofsIn, ComputeIn, StorageIn
  <2> QED
    BY <2>1 DEF Init, SpentSetsMatchChain
<1> QED
  BY <1>0, <1>4, <1>5, <1>6, <1>7 DEF ChainInv

LEMMA ChainInvariant == Spec => []ChainInv
  BY ChainInvInit, ChainInvStep, PTL DEF Spec

-----------------------------------------------------------------------------
(* What follows *)

\* Two blocks of one chain reward different proofs: the later commits to the earlier.
LEMMA ChainDisjoint ==
  ASSUME ChainInv, NEW n \in Nodes, NEW i \in DOMAIN chain[n], NEW j \in DOMAIN chain[n], i # j
  PROVE  Disjoint(chain[n][i], chain[n][j])
<1> DEFINE c == chain[n]
<1>1. c \in Seq(Block) /\ LinkedIn(Published, c) /\ Published \subseteq Everything
  BY DEF ChainInv, TypeOK, Linked, Published, Everything, AllBlocks
<1>2. ASSUME NEW k \in DOMAIN c, NEW m \in DOMAIN c, k < m PROVE Disjoint(c[k], c[m])
  <2>1. c[k] \in Published /\ c[m] \in Everything /\ c[m] \in Block
    BY <1>1 DEF LinkedIn
  <2>2. k \in 1 .. m - 1 /\ m \in Nat
    BY <1>1, <1>2
  <2>3. Len(c[m].prev) = m - 1 /\ c[m].prev[k] = c[k].id
    BY <1>1, <2>2 DEF LinkedIn
  <2>4. c[m].prev \in Seq(BlockIds \cup {GenesisId})
    BY <2>1, BlockType
  <2>5. k \in DOMAIN c[m].prev
    BY <2>2, <2>3, <2>4
  <2> QED
    BY <2>1, <2>3, <2>5 DEF ChainInv, Fresh
<1>3. i < j \/ j < i
  BY <1>1
<1> QED
  BY <1>2, <1>3 DEF Disjoint

\* No bandwidth receipt is rewarded twice on a chain, for any number of nodes, blocks
\* and chain replacements.
THEOREM ReceiptsSafe == Spec => []ReceiptsSpentOnce
<1>1. ChainInv => ReceiptsSpentOnce
  BY ChainDisjoint DEF ReceiptsSpentOnce, Disjoint
<1> QED
  BY <1>1, ChainInvariant, PTL

\* Neither is a compute or storage proof, which only create_block looks at.
THEOREM ServiceProofsSafe == Spec => []ServiceProofsSpentOnce
<1>1. ChainInv => ServiceProofsSpentOnce
  BY ChainDisjoint DEF ServiceProofsSpentOnce, Disjoint
<1> QED
  BY <1>1, ChainInvariant, PTL

\* The spent sets of a node are those of its chain, after any add_block and replace_chain.
THEOREM SpentSetsExact == Spec => []SpentSetsMatchChain
<1>1. ChainInv => SpentSetsMatchChain
  BY DEF ChainInv
<1> QED
  BY <1>1, ChainInvariant, PTL

\* Every bandwidth proof on a chain is signed, although add_proof and replace_chain
\* check no signature.
THEOREM RewardedProofsSigned == Spec => []ChainProofsSigned
<1>1. ASSUME ChainInv PROVE ChainProofsSigned
  <2> SUFFICES ASSUME NEW n \in Nodes, NEW k \in DOMAIN chain[n], NEW r \in chain[n][k].proofs
               PROVE  ReceiptOf[r].signed
    BY DEF ChainProofsSigned, ProofsIn
  <2>1. chain[n][k] \in network \cup {Genesis}
    BY <1>1 DEF ChainInv, Linked, LinkedIn, Published
  <2>2. Genesis.proofs = {}
    BY DEF Genesis
  <2> QED
    BY <1>1, <2>1, <2>2 DEF ChainInv, PublishedSigned
<1> QED
  BY <1>1, ChainInvariant, PTL

\* A block made on what is still the tip is accepted, if the receipts it took from the
\* pool are signed: nothing that happens between create_block and add_block can hurt it.
THEOREM FreshBlocksAccepted == Spec => []FreshBlockAccepted
<1>1. ASSUME ChainInv PROVE FreshBlockAccepted
  <2> SUFFICES ASSUME NEW n \in Nodes, NEW b \in candidates[n],
                      b.prev = HashOf(LatestBlock(chain[n])),
                      \A r \in b.proofs : ReceiptOf[r].signed
               PROVE  ValidateBlock(n, b)
    BY DEF FreshBlockAccepted
  <2>1. b \in AllBlocks /\ b \in Everything
    BY DEF AllBlocks, Everything
  <2>2. b.proofs \cap spentReceipts[n] = {}
    BY <1>1, <2>1, FreshOnTip
  <2>3. b \in Block /\ chain[n] \in Seq(Block) \ {<<>>} /\ LinkedIn(Published, chain[n])
    BY <1>1 DEF ChainInv, TypeOK, Linked
  <2>4. b.index = Len(chain[n])
    BY <1>1, <2>1, <2>3, OnTip DEF ChainInv, WellMade
  <2> QED
    BY <1>1, <2>1, <2>2, <2>4 DEF ChainInv, WellMade, ValidateBlock
<1> QED
  BY <1>1, ChainInvariant, PTL

\* A node changes its chain for a longer one only.
THEOREM ChainsGrow == Spec => OnlyLongerChains
<1>1. ASSUME TypeOK, [Next]_vars, NEW n \in Nodes, chain'[n] # chain[n]
      PROVE  Len(chain'[n]) > Len(chain[n])
  <2>1. ASSUME NEW m \in Nodes, NEW b \in Block, AddBlock(m, b)
        PROVE  Len(chain'[n]) > Len(chain[n])
    <3>1. m = n /\ chain'[n] = Append(chain[n], b)
      BY <1>1, <2>1 DEF AddBlock, TypeOK
    <3>2. chain[n] \in Seq(Block)
      BY <1>1 DEF TypeOK
    <3> QED
      BY <3>1, <3>2, AppendProperties
  <2>2. ASSUME NEW m \in Nodes, ReplaceChain(m) PROVE Len(chain'[n]) > Len(chain[n])
    BY <1>1, <2>2 DEF ReplaceChain, TypeOK
  <2>3. Next
    BY <1>1 DEF vars
  <2> QED
    BY <1>1, <2>1, <2>2, <2>3
    DEF Next, TypeOK, AddProof, AddComputeProof, AddStorageProof, AddTransaction, CreateBlock,
        MineBlock, DropBlock, ReceiveBlock, FetchChain, KeepChain, Stake, Unstake, Slash
<1>2. TypeOK /\ [Next]_vars =>
        [\A n \in Nodes : chain'[n] # chain[n] => Len(chain'[n]) > Len(chain[n])]_vars
  BY <1>1
<1> QED
  BY <1>2, TypeCorrect, PTL DEF Spec, OnlyLongerChains

-----------------------------------------------------------------------------
(* One block more *)

\* What add_block adds to the cache is what a replay of the longer chain adds.
LEMMA ReplayAppend ==
  ASSUME NEW c \in Seq(Block), NEW b \in Block
  PROVE  /\ Replay(Append(c, b)) = [a \in Addresses |-> Replay(c)[a] + Delta(b, a)]
         /\ TotalSupply(Append(c, b)) = TotalSupply(c) + b.reward
<1> DEFINE d == Append(c, b)
<1>1. /\ Len(c) \in Nat /\ d \in Seq(Block)
      /\ DOMAIN c = 1 .. Len(c) /\ DOMAIN d = 1 .. Len(c) + 1
      /\ \A k \in 1 .. Len(c) : d[k] = c[k]
      /\ d[Len(c) + 1] = b
  BY AppendProperties
<1>2. (\A k \in DOMAIN c : c[k] \in Block) /\ (\A k \in DOMAIN d : d[k] \in Block)
  BY <1>1
<1> HIDE DEF d
<1>3. ASSUME NEW a \in Addresses PROVE Replay(d)[a] = Replay(c)[a] + Delta(b, a)
  <2> DEFINE f == [k \in DOMAIN c |-> Delta(c[k], a)]
             g == [k \in DOMAIN d |-> Delta(d[k], a)]
  <2>1. f \in [1 .. Len(c) -> Int] /\ g \in [1 .. Len(c) + 1 -> Int]
    BY <1>1, <1>2, DeltaType
  <2>2. (\A k \in 1 .. Len(c) : g[k] = f[k]) /\ g[Len(c) + 1] = Delta(b, a)
    BY <1>1
  <2>3. Replay(d)[a] = SumFunction(g) /\ Replay(c)[a] = SumFunction(f)
    BY DEF Replay
  <2> HIDE DEF f, g
  <2>4. SumFunction(g) = SumFunction(f) + g[Len(c) + 1]
    BY <1>1, <2>1, <2>2, SumLast
  <2> QED
    BY <2>2, <2>3, <2>4
<1>4. TotalSupply(d) = TotalSupply(c) + b.reward
  <2> DEFINE f == [k \in DOMAIN c |-> c[k].reward]
             g == [k \in DOMAIN d |-> d[k].reward]
  <2>1. f \in [1 .. Len(c) -> Int] /\ g \in [1 .. Len(c) + 1 -> Int]
    BY <1>1, <1>2, BlockType
  <2>2. (\A k \in 1 .. Len(c) : g[k] = f[k]) /\ g[Len(c) + 1] = b.reward
    BY <1>1
  <2>3. TotalSupply(d) = SumFunction(g) /\ TotalSupply(c) = SumFunction(f)
    BY DEF TotalSupply
  <2> HIDE DEF f, g
  <2>4. SumFunction(g) = SumFunction(f) + g[Len(c) + 1]
    BY <1>1, <2>1, <2>2, SumLast
  <2> QED
    BY <2>2, <2>3, <2>4
<1>5. Replay(d) = [a \in Addresses |-> Replay(d)[a]]
  BY DEF Replay
<1> QED
  BY <1>3, <1>4, <1>5 DEF d

-----------------------------------------------------------------------------
(* The balance cache *)

CacheInv == TypeOK /\ CacheMatchesChain

LEMMA CacheAddBlock ==
  ASSUME CacheInv, NEW n \in Nodes, NEW b \in Block, AddBlock(n, b)
  PROVE  CacheMatchesChain'
<1> SUFFICES ASSUME NEW m \in Nodes PROVE balance'[m] = Replay(chain'[m])
  BY DEF CacheMatchesChain
<1>1. CASE m = n
  <2>1. chain[n] \in Seq(Block) /\ balance[n] = Replay(chain[n])
    BY DEF CacheInv, TypeOK, CacheMatchesChain
  <2>2. /\ chain'[n] = Append(chain[n], b)
        /\ balance'[n] = [a \in Addresses |-> balance[n][a] + Delta(b, a)]
    BY DEF AddBlock, CacheInv, TypeOK
  <2> QED
    BY <1>1, <2>1, <2>2, ReplayAppend
<1>2. CASE m # n
  <2>1. chain'[m] = chain[m] /\ balance'[m] = balance[m]
    BY <1>2 DEF AddBlock, CacheInv, TypeOK
  <2> QED
    BY <2>1 DEF CacheInv, CacheMatchesChain
<1> QED
  BY <1>1, <1>2

\* The cache that add_block maintains block by block and replace_chain rebuilds is at
\* all times the replay of the chain the node holds.
THEOREM CacheIsReplay == Spec => []CacheMatchesChain
<1>1. Init => CacheInv
  <2> SUFFICES ASSUME Init PROVE CacheMatchesChain
    BY TypeInit DEF CacheInv
  <2> SUFFICES ASSUME NEW n \in Nodes PROVE balance[n] = Replay(chain[n])
    BY DEF CacheMatchesChain
  <2>1. chain[n] = <<Genesis>> /\ balance[n] = [a \in Addresses |-> 0]
    BY DEF Init
  <2>2. ASSUME NEW a \in Addresses PROVE Replay(<<Genesis>>)[a] = 0
    <3> DEFINE g == [k \in DOMAIN <<Genesis>> |-> Delta(<<Genesis>>[k], a)]
    <3>1. DOMAIN <<Genesis>> = {1} /\ <<Genesis>>[1] = Genesis
      OBVIOUS
    <3>2. Inflow(NoTxs, a) = 0 /\ Outflow(NoTxs, a) = 0
      <4>1. IsFiniteSet({u \in Txs : TxOf[u].from = a}) /\ IsFiniteSet({u \in Txs : TxOf[u].to = a})
        BY FiniteAssumption, FS_Subset
      <4>2. \A t \in Txs : NoTxs[t] * Cost(t) = 0 /\ NoTxs[t] * TxOf[t].amount = 0
        BY TxType DEF NoTxs
      <4> DEFINE o == [t \in {u \in Txs : TxOf[u].from = a} |-> NoTxs[t] * Cost(t)]
                 i == [t \in {u \in Txs : TxOf[u].to = a} |-> NoTxs[t] * TxOf[t].amount]
      <4>3. (\A t \in DOMAIN o : o[t] = 0) /\ (\A t \in DOMAIN i : i[t] = 0)
        BY <4>2
      <4>4. IsFiniteSet(DOMAIN o) /\ IsFiniteSet(DOMAIN i)
        BY <4>1
      <4>5. Outflow(NoTxs, a) = SumFunctionOnSet(o, DOMAIN o)
            /\ Inflow(NoTxs, a) = SumFunctionOnSet(i, DOMAIN i)
        BY DEF Outflow, Inflow, SumFunction
      <4> HIDE DEF o, i
      <4> QED
        BY <4>3, <4>4, <4>5, SumZero
    <3>3. Delta(Genesis, a) = 0
      BY <3>2 DEF Delta, Genesis
    <3>4. \A k \in {1} : g[k] = 0
      BY <3>1, <3>3
    <3>5. DOMAIN g = {1} /\ IsFiniteSet({1})
      BY <3>1, FS_Singleton
    <3>6. Replay(<<Genesis>>)[a] = SumFunctionOnSet(g, DOMAIN g)
      BY DEF Replay, SumFunction
    <3> HIDE DEF g
    <3> QED
      BY <3>4, <3>5, <3>6, SumZero
  <2>3. Replay(<<Genesis>>) = [a \in Addresses |-> Replay(<<Genesis>>)[a]]
    BY DEF Replay
  <2> QED
    BY <2>1, <2>2, <2>3
<1>2. CacheInv /\ [Next]_vars => CacheInv'
  <2> SUFFICES ASSUME CacheInv, [Next]_vars PROVE CacheMatchesChain'
    BY TypeStep DEF CacheInv
  <2>1. CASE UNCHANGED <<chain, balance>>
    BY <2>1 DEF CacheInv, CacheMatchesChain
  <2>2. ASSUME NEW n \in Nodes, NEW b \in candidates[n], MineBlock(n, b)
        PROVE  CacheMatchesChain'
    BY <2>2, CacheAddBlock DEF MineBlock, CacheInv, TypeOK
  <2>3. ASSUME NEW n \in Nodes, NEW b \in network, ReceiveBlock(n, b)
        PROVE  CacheMatchesChain'
    BY <2>3, CacheAddBlock DEF ReceiveBlock, CacheInv, TypeOK
  <2>4. ASSUME NEW n \in Nodes, ReplaceChain(n) PROVE CacheMatchesChain'
    BY <2>4 DEF ReplaceChain, CacheInv, TypeOK, CacheMatchesChain
  <2> QED
    BY <2>1, <2>2, <2>3, <2>4
    DEF Next, vars, moneyVars, AddProof, AddComputeProof, AddStorageProof, AddTransaction,
        CreateBlock, DropBlock, FetchChain, KeepChain, Stake, Unstake, Slash
<1>3. CacheInv => CacheMatchesChain
  BY DEF CacheInv
<1> QED
  BY <1>1, <1>2, <1>3, PTL DEF Spec

-----------------------------------------------------------------------------
(* The supply cap: each block was capped for the chain it commits to. *)

\* The blocks that b commits to, looked up among the published ones.
AncestorsOf(b) == [j \in DOMAIN b.prev |-> CHOOSE a \in Published : a.id = b.prev[j]]

\* The coinbase of a block fits above those of its ancestors, wherever the block is.
AncestorsCapped ==
    \A b \in Everything : TotalSupply(AncestorsOf(b)) + b.reward <= MaxSupply

CapInv == ChainInv /\ AncestorsCapped

LEMMA PublishedIn == Published \subseteq Everything
  BY DEF Published, Everything, AllBlocks

LEMMA AncestorIs ==
  ASSUME ChainInv, NEW b, NEW j \in DOMAIN b.prev, NEW a \in Published, a.id = b.prev[j]
  PROVE  AncestorsOf(b)[j] = a
<1>1. \A d \in Published : d.id = b.prev[j] => d = a
  BY PublishedIn, UniqueEverywhere DEF ChainInv
<1> QED
  BY <1>1 DEF AncestorsOf

\* A block on the tip has the chain as its ancestors.
LEMMA AncestorsOnTip ==
  ASSUME ChainInv, NEW n \in Nodes, NEW b \in Block, b.prev = HashOf(LatestBlock(chain[n]))
  PROVE  AncestorsOf(b) = chain[n]
<1> DEFINE c == chain[n]
<1>1. c \in Seq(Block) \ {<<>>} /\ LinkedIn(Published, c)
  BY DEF ChainInv, TypeOK, Linked
<1>2. Len(b.prev) = Len(c) /\ \A j \in 1 .. Len(c) : b.prev[j] = c[j].id
  BY <1>1, OnTip
<1>3. b.prev \in Seq(BlockIds \cup {GenesisId})
  BY BlockType
<1>4. DOMAIN b.prev = DOMAIN c /\ DOMAIN c = 1 .. Len(c)
  BY <1>1, <1>2, <1>3
<1>5. \A j \in DOMAIN c : c[j] \in Published /\ c[j].id = b.prev[j]
  BY <1>1, <1>2, <1>4 DEF LinkedIn
<1>6. \A j \in DOMAIN c : AncestorsOf(b)[j] = c[j]
  BY <1>4, <1>5, AncestorIs
<1>7. AncestorsOf(b) = [j \in DOMAIN c |-> AncestorsOf(b)[j]]
  BY <1>4 DEF AncestorsOf
<1>8. c = [j \in DOMAIN c |-> c[j]]
  BY <1>1
<1> QED
  BY <1>6, <1>7, <1>8

\* The supply of a chain is that of its last block's ancestors, and that block's coinbase.
LEMMA SupplyOfTip ==
  ASSUME ChainInv, NEW n \in Nodes
  PROVE  /\ LatestBlock(chain[n]) \in Everything
         /\ TotalSupply(chain[n])
              = TotalSupply(AncestorsOf(LatestBlock(chain[n]))) + LatestBlock(chain[n]).reward
<1> DEFINE c == chain[n]
           L == Len(c)
           tip == LatestBlock(c)
           f == [k \in DOMAIN AncestorsOf(tip) |-> AncestorsOf(tip)[k].reward]
           g == [k \in DOMAIN c |-> c[k].reward]
<1>1. c \in Seq(Block) \ {<<>>} /\ LinkedIn(Published, c)
  BY DEF ChainInv, TypeOK, Linked
<1>2. /\ L \in Nat \ {0} /\ DOMAIN c = 1 .. L /\ tip = c[L] /\ tip \in Block /\ L - 1 \in Nat
      /\ \A k \in DOMAIN c : c[k] \in Block
  BY <1>1, LatestType DEF LatestBlock
<1>3. tip \in Published /\ Len(tip.prev) = L - 1 /\ \A j \in 1 .. L - 1 : tip.prev[j] = c[j].id
  BY <1>1, <1>2 DEF LinkedIn
<1>4. tip.prev \in Seq(BlockIds \cup {GenesisId})
  BY <1>2, BlockType
<1>5. DOMAIN tip.prev = 1 .. L - 1
  BY <1>3, <1>4
<1> HIDE DEF L, tip, c
<1>6. \A j \in 1 .. L - 1 : AncestorsOf(tip)[j] = c[j]
  <2> TAKE j \in 1 .. L - 1
  <2>1. j \in DOMAIN c /\ tip.prev[j] = c[j].id
    BY <1>2, <1>3
  <2>2. c[j] \in Published
    BY <1>1, <2>1 DEF LinkedIn
  <2> QED
    BY <1>5, <2>1, <2>2, AncestorIs
<1>7. DOMAIN AncestorsOf(tip) = 1 .. L - 1
  BY <1>5 DEF AncestorsOf
<1>8. f \in [1 .. L - 1 -> Int]
  BY <1>2, <1>6, <1>7, BlockType
<1>9. g \in [1 .. L -> Int] /\ L - 1 + 1 = L
  BY <1>2, BlockType
<1>10. (\A k \in 1 .. L - 1 : g[k] = f[k]) /\ g[L] = tip.reward
  BY <1>2, <1>6, <1>7
<1>11. TotalSupply(c) = SumFunction(g) /\ TotalSupply(AncestorsOf(tip)) = SumFunction(f)
  BY DEF TotalSupply
<1> HIDE DEF f, g
<1>12. SumFunction(g) = SumFunction(f) + g[L - 1 + 1]
  BY <1>2, <1>8, <1>9, <1>10, SumLast
<1> QED
  BY <1>3, <1>9, <1>10, <1>11, <1>12, PublishedIn DEF c, tip

LEMMA CapInvCapped == CapInv => SupplyCapped
  BY SupplyOfTip DEF CapInv, AncestorsCapped, SupplyCapped

\* Publishing more blocks changes nobody's ancestors.
LEMMA AncestorsStay ==
  ASSUME ChainInv, ChainInv', Published \subseteq Published', NEW b \in Everything
  PROVE  AncestorsOf(b)' = AncestorsOf(b)
<1>1. ASSUME NEW j \in DOMAIN b.prev
      PROVE  (CHOOSE a \in Published' : a.id = b.prev[j])
             = (CHOOSE a \in Published : a.id = b.prev[j])
  <2>1. PICK a \in Published : a.id = b.prev[j]
    BY DEF ChainInv, AncestorsPublished
  <2>2. \A d \in Published : d.id = b.prev[j] => d = a
    BY <2>1, PublishedIn, UniqueEverywhere DEF ChainInv
  <2>3. \A d \in Published' : d.id = b.prev[j] => d = a
    <3>1. UniqueIds' /\ Genesis.id = GenesisId
      BY DEF ChainInv, Genesis
    <3>2. \A d, e \in Published' : d.id = e.id => d = e
      BY <3>1 DEF UniqueIds, Published, AllBlocks
    <3> QED
      BY <2>1, <3>2
  <2> QED
    BY <2>1, <2>2, <2>3
<1> QED
  BY <1>1 DEF AncestorsOf

\* Blocks are published and dropped; only create_block makes one.
LEMMA BlocksStep ==
  ASSUME TypeOK, [Next]_vars
  PROVE  /\ Published \subseteq Published'
         /\ \/ Everything' \subseteq Everything
            \/ \E n \in Nodes, id \in BlockIds :
                  CreateBlock(n, id) /\ Everything' = Everything \cup {NewBlock(n, id)}
<1>1. CASE UNCHANGED <<candidates, network>>
  BY <1>1 DEF Published, Everything, AllBlocks
<1>2. ASSUME NEW n \in Nodes, NEW b \in candidates[n], MineBlock(n, b)
      PROVE  Published \subseteq Published' /\ Everything' \subseteq Everything
  <2>1. candidates' = [candidates EXCEPT ![n] = @ \ {b}] /\ network' = network \cup {b}
    BY <1>2 DEF MineBlock
  <2>2. \A m \in Nodes : candidates'[m] \subseteq candidates[m]
    BY <2>1 DEF TypeOK
  <2> QED
    BY <2>1, <2>2 DEF Published, Everything, AllBlocks
<1>3. ASSUME NEW n \in Nodes, NEW b \in candidates[n], DropBlock(n, b)
      PROVE  Published \subseteq Published' /\ Everything' \subseteq Everything
  <2>1. candidates' = [candidates EXCEPT ![n] = @ \ {b}] /\ network' = network
    BY <1>3 DEF DropBlock
  <2>2. \A m \in Nodes : candidates'[m] \subseteq candidates[m]
    BY <2>1 DEF TypeOK
  <2> QED
    BY <2>1, <2>2 DEF Published, Everything, AllBlocks
<1>4. ASSUME NEW n \in Nodes, NEW id \in BlockIds, CreateBlock(n, id)
      PROVE  Published \subseteq Published' /\ Everything' = Everything \cup {NewBlock(n, id)}
  <2> DEFINE b == NewBlock(n, id)
  <2>1. candidates' = [candidates EXCEPT ![n] = @ \cup {b}] /\ network' = network
    BY <1>4 DEF CreateBlock
  <2> HIDE DEF b
  <2>2. \A m \in Nodes : candidates'[m] = IF m = n THEN candidates[n] \cup {b} ELSE candidates[m]
    BY <2>1 DEF TypeOK
  <2>3. \A x : (\E m \in Nodes : x \in candidates'[m])
               <=> (\E m \in Nodes : x \in candidates[m]) \/ x = b
    BY <2>2, Zenon
  <2>4. Everything' = Everything \cup {b}
    BY <2>1, <2>3 DEF Everything, AllBlocks
  <2> QED
    BY <2>1, <2>4 DEF Published, b
<1>5. ASSUME NEW n \in Nodes, NEW b \in network, ReceiveBlock(n, b)
      PROVE  UNCHANGED <<candidates, network>>
  BY <1>5 DEF ReceiveBlock
<1>6. CASE ~ UNCHANGED <<candidates, network>>
  <2>1. Next
    BY <1>6 DEF vars
  <2> QED
    BY <1>2, <1>3, <1>4, <1>5, <1>6, <2>1
    DEF Next, AddProof, AddComputeProof, AddStorageProof, AddTransaction, FetchChain,
        ReplaceChain, KeepChain, Stake, Unstake, Slash
<1> QED
  BY <1>1, <1>6

LEMMA CapStep ==
  ASSUME CapInv, ChainInv', [Next]_vars
  PROVE  AncestorsCapped'
<1>1. Published \subseteq Published'
  BY BlocksStep DEF CapInv, ChainInv
<1>2. ASSUME NEW b \in Everything
      PROVE  (TotalSupply(AncestorsOf(b)) + b.reward <= MaxSupply)'
  <2>1. AncestorsOf(b)' = AncestorsOf(b)
    BY <1>1, AncestorsStay DEF CapInv
  <2>2. TotalSupply(AncestorsOf(b)) + b.reward <= MaxSupply
    BY DEF CapInv, AncestorsCapped
  <2>3. TotalSupply(AncestorsOf(b))' = TotalSupply(AncestorsOf(b)')
    BY DEF TotalSupply
  <2> QED
    BY <2>1, <2>2, <2>3
<1>3. CASE Everything' \subseteq Everything
  BY <1>2, <1>3 DEF AncestorsCapped
<1>4. ASSUME NEW n \in Nodes, NEW id \in BlockIds, CreateBlock(n, id),
             Everything' = Everything \cup {NewBlock(n, id)}
      PROVE  AncestorsCapped'
  <2> DEFINE b == NewBlock(n, id)
             supply == TotalSupply(chain[n])
  <2>1. b \in Block /\ b.prev = HashOf(LatestBlock(chain[n]))
        /\ b.reward = CoinbaseReward(supply, b.proofs, b.compute, b.storage, b.txs)
    BY NewBlockType DEF NewBlock, CapInv, ChainInv
  <2>2. b.reward <= Headroom(supply)
    <3>1. CoinbaseReward(supply, b.proofs, b.compute, b.storage, b.txs) \in Nat /\ supply \in Nat
      BY <2>1, BlockType, ReplayType DEF CapInv, ChainInv, TypeOK
    <3>2. Headroom(supply) \in Nat
      BY <3>1, SizesAssumption DEF Headroom
    <3> HIDE DEF b, supply
    <3> QED
      BY <2>1, <3>1, <3>2 DEF CoinbaseReward
  <2>3. supply <= MaxSupply /\ supply \in Nat
    BY CapInvCapped, ReplayType DEF SupplyCapped, CapInv, ChainInv, TypeOK
  <2>4. supply + b.reward <= MaxSupply
    <3>1. b.reward \in Nat
      BY <2>1, BlockType
    <3> HIDE DEF b, supply
    <3> QED
      BY <2>2, <2>3, <3>1, SizesAssumption DEF Headroom
  <2>5. AncestorsOf(b) = chain[n]
    BY <2>1, AncestorsOnTip DEF CapInv
  <2>6. Published' = Published
    BY <1>4 DEF CreateBlock, Published
  <2>7. (TotalSupply(AncestorsOf(b)) + b.reward <= MaxSupply)
    BY <2>4, <2>5
  <2> SUFFICES ASSUME NEW d \in Everything \cup {b}
               PROVE  (TotalSupply(AncestorsOf(d)) + d.reward <= MaxSupply)'
    BY <1>4 DEF AncestorsCapped
  <2>8. AncestorsOf(d)' = AncestorsOf(d)
    BY <2>6 DEF AncestorsOf
  <2>9. TotalSupply(AncestorsOf(d))' = TotalSupply(AncestorsOf(d)')
    BY DEF TotalSupply
  <2> QED
    BY <2>7, <2>8, <2>9 DEF CapInv, AncestorsCapped
<1> QED
  BY <1>3, <1>4, BlocksStep DEF CapInv, ChainInv

\* The coinbases of any chain any node holds stay within MAX_SUPPLY.  The cap is applied
\* once, by create_block, to the chain of the miner at that time; add_block and
\* validate_chain never look at the amount.  It holds because the block commits to the
\* chain it was capped for.
THEOREM SupplyStaysCapped == Spec => []SupplyCapped
<1>1. Init => AncestorsCapped
  <2> SUFFICES ASSUME Init PROVE AncestorsCapped
    OBVIOUS
  <2>1. Everything = {Genesis}
    BY DEF Init, Everything, AllBlocks
  <2>2. Genesis.prev = <<>> /\ Genesis.reward = 0
    BY DEF Genesis
  <2>3. DOMAIN AncestorsOf(Genesis) = {}
    BY <2>2 DEF AncestorsOf
  <2>4. TotalSupply(AncestorsOf(Genesis)) = 0
    BY <2>3, SumEmpty DEF TotalSupply, SumFunction
  <2> QED
    BY <2>1, <2>2, <2>4, SizesAssumption DEF AncestorsCapped
<1>2. Init => CapInv
  BY <1>1, ChainInvInit DEF CapInv
<1>3. CapInv /\ [Next]_vars => CapInv'
  BY CapStep, ChainInvStep DEF CapInv
<1> QED
  BY <1>2, <1>3, CapInvCapped, PTL DEF Spec

-----------------------------------------------------------------------------
(* Conservation: what one block changes, over all addresses. *)

LEMMA Distribute == \A x, y, z \in Nat : x * (y + z) = x * y + x * z
  OBVIOUS

\* Every transaction pays one address and charges one.
LEMMA FlowSums ==
  ASSUME NEW bag \in TxBag
  PROVE  SumFunctionOnSet([a \in Addresses |-> Outflow(bag, a)], Addresses)
         = SumFunctionOnSet([a \in Addresses |-> Inflow(bag, a)], Addresses) + Fees(bag)
<1> DEFINE out == [t \in Txs |-> bag[t] * Cost(t)]
           paid == [t \in Txs |-> bag[t] * TxOf[t].amount]
           fee == [t \in Txs |-> bag[t] * TxOf[t].fee]
           From == [t \in Txs |-> TxOf[t].from]
           To == [t \in Txs |-> TxOf[t].to]
           outs == [a \in Addresses |-> SumFunctionOnSet(out, {t \in Txs : From[t] = a})]
           ins == [a \in Addresses |-> SumFunctionOnSet(paid, {t \in Txs : To[t] = a})]
<1>1. IsFiniteSet(Txs) /\ IsFiniteSet(Addresses)
  BY FiniteAssumption
<1>2. \A t \in Txs : out[t] \in Int /\ paid[t] \in Int /\ fee[t] \in Int
                     /\ out[t] = paid[t] + fee[t]
  <2> TAKE t \in Txs
  <2>1. bag[t] \in Nat /\ TxOf[t].amount \in Nat /\ TxOf[t].fee \in Nat
    BY TxType DEF TxBag
  <2> QED
    BY <2>1, Distribute, ProductNat DEF Cost
<1>3. \A t \in Txs : From[t] \in Addresses /\ To[t] \in Addresses
  BY TxType
<1>4. SumFunctionOnSet(outs, Addresses) = SumFunctionOnSet(out, Txs)
  <2> HIDE DEF out, From
  <2> QED
    BY <1>1, <1>2, <1>3, SumFibers
<1>5. SumFunctionOnSet(ins, Addresses) = SumFunctionOnSet(paid, Txs)
  <2> HIDE DEF paid, To
  <2> QED
    BY <1>1, <1>2, <1>3, SumFibers
<1>6. SumFunctionOnSet(out, Txs) = SumFunctionOnSet(paid, Txs) + SumFunctionOnSet(fee, Txs)
  <2> HIDE DEF out, paid, fee
  <2> QED
    BY <1>1, <1>2, SumAdd
<1>7. Fees(bag) = SumFunctionOnSet(fee, Txs)
  BY DEF Fees, SumFunction
<1>8. ASSUME NEW a \in Addresses PROVE Outflow(bag, a) = outs[a]
  <2> DEFINE D == {u \in Txs : TxOf[u].from = a}
             o == [t \in D |-> bag[t] * Cost(t)]
  <2>1. IsFiniteSet(D) /\ {t \in Txs : From[t] = a} = D
    BY <1>1, FS_Subset
  <2>2. \A t \in D : o[t] = out[t]
    OBVIOUS
  <2>3. DOMAIN o = D /\ Outflow(bag, a) = SumFunctionOnSet(o, DOMAIN o)
    BY DEF Outflow, SumFunction
  <2>4. outs[a] = SumFunctionOnSet(out, D)
    BY <2>1
  <2> HIDE DEF o, D, out, outs
  <2>5. SumFunctionOnSet(o, D) = SumFunctionOnSet(out, D)
    BY <2>1, <2>2, SumCong
  <2> QED
    BY <2>3, <2>4, <2>5
<1>9. ASSUME NEW a \in Addresses PROVE Inflow(bag, a) = ins[a]
  <2> DEFINE D == {u \in Txs : TxOf[u].to = a}
             o == [t \in D |-> bag[t] * TxOf[t].amount]
  <2>1. IsFiniteSet(D) /\ {t \in Txs : To[t] = a} = D
    BY <1>1, FS_Subset
  <2>2. \A t \in D : o[t] = paid[t]
    OBVIOUS
  <2>3. DOMAIN o = D /\ Inflow(bag, a) = SumFunctionOnSet(o, DOMAIN o)
    BY DEF Inflow, SumFunction
  <2>4. ins[a] = SumFunctionOnSet(paid, D)
    BY <2>1
  <2> HIDE DEF o, D, paid, ins
  <2>5. SumFunctionOnSet(o, D) = SumFunctionOnSet(paid, D)
    BY <2>1, <2>2, SumCong
  <2> QED
    BY <2>3, <2>4, <2>5
<1>10. outs = [a \in Addresses |-> Outflow(bag, a)] /\ ins = [a \in Addresses |-> Inflow(bag, a)]
  BY <1>8, <1>9
<1> HIDE DEF outs, ins, out, paid, fee
<1> QED
  BY <1>4, <1>5, <1>6, <1>7, <1>10

\* A block changes what all addresses hold by its coinbase less the fees it charges.
LEMMA DeltaSum ==
  ASSUME NEW b \in Block
  PROVE  SumFunctionOnSet([a \in Addresses |-> Delta(b, a)], Addresses)
         = b.reward - Fees(b.txs)
<1> DEFINE coin == [a \in Addresses |-> IF b.miner = a THEN b.reward ELSE 0]
           in == [a \in Addresses |-> Inflow(b.txs, a)]
           out == [a \in Addresses |-> Outflow(b.txs, a)]
           net == [a \in Addresses |-> Delta(b, a)]
           got == [a \in Addresses |-> coin[a] + in[a]]
           T(f) == SumFunctionOnSet(f, Addresses)
<1>1. IsFiniteSet(Addresses)
  BY FiniteAssumption
<1>2. b.txs \in TxBag /\ b.miner \in Addresses /\ b.reward \in Nat
  BY BlockType
<1>3. \A a \in Addresses : /\ coin[a] \in Int /\ in[a] \in Int /\ out[a] \in Int
                            /\ net[a] \in Int /\ got[a] \in Int
                            /\ got[a] = net[a] + out[a]
  BY <1>2, FlowType DEF Delta
<1>4. \A a \in Addresses : got[a] = coin[a] + in[a]
  OBVIOUS
<1>5. T(coin) = b.reward
  <2>1. coin[b.miner] = b.reward /\ \A a \in Addresses \ {b.miner} : coin[a] = 0
    BY <1>2
  <2>2. IsFiniteSet(Addresses \ {b.miner})
    BY <1>1, FS_Subset
  <2> HIDE DEF coin
  <2>3. SumFunctionOnSet(coin, Addresses \ {b.miner}) = 0
    BY <2>1, <2>2, SumZero
  <2>4. T(coin) = coin[b.miner] + SumFunctionOnSet(coin, Addresses \ {b.miner})
    BY <1>1, <1>2, <1>3, SumRemove
  <2> QED
    BY <1>2, <2>1, <2>3, <2>4
<1>6. T(out) = T(in) + Fees(b.txs)
  BY <1>2, FlowSums
<1> HIDE DEF coin, in, out, net, got
<1>7. T(got) = T(coin) + T(in)
  BY <1>1, <1>3, <1>4, SumAdd
<1>8. T(got) = T(net) + T(out)
  BY <1>1, <1>3, SumAdd
<1>9. T(net) \in Int /\ T(in) \in Int /\ Fees(b.txs) \in Nat
  BY <1>1, <1>2, <1>3, SumInt, FeesType
<1>10. T(net) = b.reward - Fees(b.txs)
  BY <1>2, <1>5, <1>6, <1>7, <1>8, <1>9
<1> QED
  BY <1>10 DEF net

\* ... and so does a chain of them.
LEMMA ReplayConserves ==
  ASSUME NEW c \in Seq(Block)
  PROVE  SumFunction(Replay(c))
         = TotalSupply(c) - SumFunction([k \in DOMAIN c |-> Fees(c[k].txs)])
<1> DEFINE K == DOMAIN c
           f == [a \in Addresses |-> [k \in K |-> Delta(c[k], a)]]
           rows == [a \in Addresses |-> SumFunctionOnSet(f[a], K)]
           cols == [k \in K |-> SumFunctionOnSet([a \in Addresses |-> f[a][k]], Addresses)]
           rewards == [k \in K |-> c[k].reward]
           fees == [k \in K |-> Fees(c[k].txs)]
<1>1. IsFiniteSet(K) /\ IsFiniteSet(Addresses) /\ \A k \in K : c[k] \in Block
  <2>1. K = 1 .. Len(c) /\ Len(c) \in Nat
    OBVIOUS
  <2> QED
    BY <2>1, FS_Interval, FiniteAssumption
<1>2. \A a \in Addresses : \A k \in K : f[a][k] \in Int
  BY <1>1, DeltaType
<1>3. Replay(c) = rows
  <2>1. \A a \in Addresses : f[a] = [k \in K |-> Delta(c[k], a)] /\ DOMAIN f[a] = K
    OBVIOUS
  <2>2. \A a \in Addresses : SumFunction(f[a]) = SumFunctionOnSet(f[a], K)
    BY <2>1 DEF SumFunction
  <2>3. Replay(c) = [a \in Addresses |-> SumFunction(f[a])]
    BY <2>1 DEF Replay
  <2> QED
    BY <2>2, <2>3
<1>4. SumFunction(Replay(c)) = SumFunctionOnSet(rows, Addresses)
  <2>1. DOMAIN rows = Addresses
    OBVIOUS
  <2> QED
    BY <1>3, <2>1 DEF SumFunction
<1>5. \A k \in K : cols[k] = rewards[k] - fees[k] /\ rewards[k] \in Int /\ fees[k] \in Int
  <2> TAKE k \in K
  <2>1. c[k] \in Block /\ c[k].reward \in Nat /\ c[k].txs \in TxBag
    BY <1>1, BlockType
  <2>2. [a \in Addresses |-> f[a][k]] = [a \in Addresses |-> Delta(c[k], a)]
    OBVIOUS
  <2>3. cols[k] = c[k].reward - Fees(c[k].txs)
    BY <2>1, <2>2, DeltaSum
  <2>4. Fees(c[k].txs) \in Nat
    BY <2>1, FeesType
  <2> QED
    BY <2>1, <2>3, <2>4
<1>6. TotalSupply(c) = SumFunctionOnSet(rewards, K) /\ SumFunction(fees) = SumFunctionOnSet(fees, K)
  <2>1. DOMAIN rewards = K /\ DOMAIN fees = K
    OBVIOUS
  <2> QED
    BY <2>1 DEF TotalSupply, SumFunction
<1>7. SumFunctionOnSet(rows, Addresses) = SumFunctionOnSet(cols, K)
  <2> HIDE DEF f, K
  <2> QED
    BY <1>1, <1>2, SumSwap
<1> HIDE DEF rows, cols, rewards, fees, K
<1>8. \A k \in K : cols[k] \in Int /\ rewards[k] = cols[k] + fees[k]
  BY <1>5
<1>9. SumFunctionOnSet(rewards, K) = SumFunctionOnSet(cols, K) + SumFunctionOnSet(fees, K)
  BY <1>1, <1>5, <1>8, SumAdd
<1>10. SumFunctionOnSet(cols, K) \in Int /\ SumFunctionOnSet(fees, K) \in Int
  BY <1>1, <1>5, <1>8, SumInt
<1>11. SumFunction(Replay(c)) = TotalSupply(c) - SumFunction(fees)
  BY <1>4, <1>6, <1>7, <1>9, <1>10
<1> QED
  BY <1>11 DEF fees, K

\* No coin appears or vanishes: on every node the balances add up to the coinbases of
\* its chain less the fees charged, through blocks of any node and chain replacements.
THEOREM CoinsConserved == Spec => []Conservation
<1>1. TypeOK /\ CacheMatchesChain => Conservation
  BY ReplayConserves DEF TypeOK, CacheMatchesChain, Conservation
<1> QED
  BY <1>1, TypeCorrect, CacheIsReplay, PTL

-----------------------------------------------------------------------------
(* The mempool of a single node.  With several, replace_chain may lower the *)
(* balances below what the mempool has reserved.                            *)

LEMMA OutflowPlus ==
  ASSUME NEW x \in TxBag, NEW y \in TxBag, NEW z \in TxBag, \A t \in Txs : z[t] = x[t] + y[t],
         NEW a \in Addresses
  PROVE  Outflow(z, a) = Outflow(x, a) + Outflow(y, a)
<1> DEFINE D == {u \in Txs : TxOf[u].from = a}
           f(w) == [t \in D |-> w[t] * Cost(t)]
<1>1. IsFiniteSet(D)
  BY FiniteAssumption, FS_Subset
<1>2. \A t \in D : f(x)[t] \in Int /\ f(y)[t] \in Int /\ f(z)[t] = f(x)[t] + f(y)[t]
  <2> TAKE t \in D
  <2>1. x[t] \in Nat /\ y[t] \in Nat /\ Cost(t) \in Nat /\ z[t] = x[t] + y[t]
    BY TxType DEF TxBag
  <2>2. (x[t] + y[t]) * Cost(t) = x[t] * Cost(t) + y[t] * Cost(t)
    BY <2>1, Distribute
  <2> QED
    BY <2>1, <2>2, ProductNat
<1>3. \A w : Outflow(w, a) = SumFunctionOnSet(f(w), D)
  <2> TAKE w
  <2>1. DOMAIN f(w) = D
    OBVIOUS
  <2> QED
    BY <2>1 DEF Outflow, SumFunction
<1> HIDE DEF f, D
<1>4. SumFunctionOnSet(f(z), D) = SumFunctionOnSet(f(x), D) + SumFunctionOnSet(f(y), D)
  BY <1>1, <1>2, SumAdd
<1> QED
  BY <1>3, <1>4

\* What a transaction adds to the outflow of its bag.
LEMMA OutflowOfOne ==
  ASSUME NEW bag \in TxBag, NEW t \in Txs, NEW a \in Addresses
  PROVE  Outflow([bag EXCEPT ![t] = @ + 1], a)
         = Outflow(bag, a) + (IF TxOf[t].from = a THEN Cost(t) ELSE 0)
<1> DEFINE one == [u \in Txs |-> IF u = t THEN 1 ELSE 0]
           D == {u \in Txs : TxOf[u].from = a}
           f == [u \in D |-> one[u] * Cost(u)]
<1>1. one \in TxBag /\ [bag EXCEPT ![t] = @ + 1] \in TxBag
  BY DEF TxBag
<1>2. \A u \in Txs : [bag EXCEPT ![t] = @ + 1][u] = bag[u] + one[u]
  BY DEF TxBag
<1>3. Outflow([bag EXCEPT ![t] = @ + 1], a) = Outflow(bag, a) + Outflow(one, a)
  <2> HIDE DEF one
  <2> QED
    BY <1>1, <1>2, OutflowPlus
<1>4. IsFiniteSet(D) /\ IsFiniteSet(D \ {t}) /\ DOMAIN f = D
  BY FiniteAssumption, FS_Subset
<1>5. Outflow(one, a) = SumFunctionOnSet(f, D)
  BY <1>4 DEF Outflow, SumFunction
<1>6. \A u \in D : f[u] = IF u = t THEN Cost(t) ELSE 0
  BY TxType
<1>7. Cost(t) \in Nat
  BY TxType
<1> HIDE DEF f
<1>8. CASE t \in D
  <2>1. SumFunctionOnSet(f, D) = f[t] + SumFunctionOnSet(f, D \ {t})
    BY <1>4, <1>6, <1>7, <1>8, SumRemove
  <2>2. SumFunctionOnSet(f, D \ {t}) = 0
    BY <1>4, <1>6, SumZero
  <2> QED
    BY <1>3, <1>5, <1>6, <1>7, <1>8, <2>1, <2>2
<1>9. CASE t \notin D
  <2>1. SumFunctionOnSet(f, D) = 0
    BY <1>4, <1>6, <1>9, SumZero
  <2> QED
    BY <1>3, <1>5, <1>9, <2>1
<1> QED
  BY <1>8, <1>9

LEMMA OutflowSplit ==
  ASSUME NEW x \in TxBag, NEW y \in TxBag, NEW z \in TxBag, \A t \in Txs : x[t] + y[t] <= z[t],
         NEW a \in Addresses
  PROVE  Outflow(x, a) + Outflow(y, a) <= Outflow(z, a)
<1> DEFINE w == [t \in Txs |-> x[t] + y[t]]
           r == [t \in Txs |-> z[t] - w[t]]
<1>1. w \in TxBag /\ r \in TxBag
  BY DEF TxBag
<1>2. (\A t \in Txs : w[t] = x[t] + y[t]) /\ (\A t \in Txs : z[t] = w[t] + r[t])
  BY DEF TxBag
<1> HIDE DEF w, r
<1>3. Outflow(w, a) = Outflow(x, a) + Outflow(y, a)
  BY <1>1, <1>2, OutflowPlus
<1>4. Outflow(z, a) = Outflow(w, a) + Outflow(r, a)
  BY <1>1, <1>2, OutflowPlus
<1> QED
  BY <1>1, <1>3, <1>4, FlowType

\* A candidate on the tip spends what the mempool still holds, and what is published is
\* below the tip.
TipFunded(n) ==
    /\ fetched[n] = <<>>
    /\ \A b \in network : b.index < Len(chain[n])
    /\ \A b \in candidates[n] : b.prev = HashOf(LatestBlock(chain[n]))
          => \A t \in Txs : b.txs[t] <= mempool[n][t]

FundedInv(n) == ChainInv /\ TipFunded(n) /\ MempoolFunded

LEMMA FundedInit == ASSUME NEW n \in Nodes, Nodes = {n}, Init PROVE FundedInv(n)
<1>1. ChainInv
  BY ChainInvInit
<1>2. TipFunded(n)
  BY DEF Init, TipFunded
<1>3. MempoolFunded
  <2> SUFFICES ASSUME NEW a \in Addresses
               PROVE  Outflow(mempool[n], a) <= reserved[n][a] /\ reserved[n][a] <= balance[n][a]
    BY DEF MempoolFunded
  <2> DEFINE D == {u \in Txs : TxOf[u].from = a}
             f == [u \in D |-> NoTxs[u] * Cost(u)]
  <2>1. IsFiniteSet(D) /\ DOMAIN f = D
    BY FiniteAssumption, FS_Subset
  <2>2. \A u \in D : f[u] = 0
    BY TxType DEF NoTxs
  <2>3. Outflow(NoTxs, a) = SumFunctionOnSet(f, D)
    BY <2>1 DEF Outflow, SumFunction
  <2> HIDE DEF f
  <2>4. Outflow(NoTxs, a) = 0
    BY <2>1, <2>2, <2>3, SumZero
  <2> QED
    BY <2>4 DEF Init
<1> QED
  BY <1>1, <1>2, <1>3 DEF FundedInv

\* A block on the tip that add_block accepts is one of the node's own candidates: it takes
\* out of the mempool, the reservations and the balance what it spends.
LEMMA FundedAddBlock ==
  ASSUME NEW n \in Nodes, Nodes = {n}, FundedInv(n), ChainInv',
         NEW b \in AllBlocks, AddBlock(n, b),
         network' \subseteq network \cup {b}, candidates'[n] \subseteq candidates[n] \ {b}
  PROVE  FundedInv(n)'
<1> DEFINE c == chain[n]
<1>1. TypeOK /\ b \in Block /\ c \in Seq(Block) \ {<<>>} /\ Len(c) \in Nat
  BY EverythingType DEF FundedInv, ChainInv, TypeOK
<1>2. b.prev = HashOf(LatestBlock(c)) /\ b.index = Len(c)
  BY DEF AddBlock, ValidateBlock
<1>3. b \notin network /\ b \in candidates[n]
  <2>1. b \notin network
    BY <1>1, <1>2 DEF FundedInv, TipFunded
  <2> QED
    BY <2>1 DEF AllBlocks
<1>4. \A t \in Txs : b.txs[t] <= mempool[n][t]
  BY <1>2, <1>3 DEF FundedInv, TipFunded
<1>5. chain'[n] = Append(c, b) /\ fetched' = fetched
  BY <1>1 DEF AddBlock, TypeOK
<1>6. Len(chain'[n]) = Len(c) + 1 /\ LatestBlock(chain'[n]) = b
  BY <1>1, <1>5, AppendProperties DEF LatestBlock
<1>7. \A d \in candidates'[n] : d.prev # HashOf(b)
  <2> SUFFICES ASSUME NEW d \in candidates[n], d.prev = HashOf(b) PROVE FALSE
    OBVIOUS
  <2>1. d \in Everything /\ b \in Everything
    BY DEF Everything, AllBlocks
  <2>2. Len(b.prev) \in Nat /\ Len(b.prev) + 1 \in DOMAIN d.prev
        /\ d.prev[Len(b.prev) + 1] = b.id
    <3>1. b.prev \in Seq(BlockIds \cup {GenesisId}) /\ b.id \in BlockIds \cup {GenesisId}
      BY <1>1, BlockType
    <3> QED
      BY <3>1, AppendProperties DEF HashOf
  <2>3. PICK e \in Published : e.id = b.id
    BY <2>1, <2>2 DEF FundedInv, ChainInv, AncestorsPublished
  <2>4. e = b
    BY <2>1, <2>3, PublishedIn, UniqueEverywhere DEF FundedInv, ChainInv
  <2>5. b.id # GenesisId /\ Genesis.id = GenesisId
    BY DEF FundedInv, ChainInv, UniqueIds, Genesis
  <2> QED
    BY <1>3, <2>3, <2>4, <2>5 DEF Published
<1>8. TipFunded(n)'
  <2>1. \A d \in network' : d.index < Len(chain'[n])
    <3> SUFFICES ASSUME NEW d \in network' PROVE d.index < Len(chain'[n])
      OBVIOUS
    <3>1. CASE d = b
      BY <1>1, <1>2, <1>6, <3>1
    <3>2. CASE d \in network
      <4>1. d \in Block /\ d.index < Len(c)
        BY <1>1, <3>2 DEF FundedInv, TipFunded, TypeOK
      <4> QED
        BY <1>1, <1>6, <4>1, BlockType
    <3> QED
      BY <3>1, <3>2
  <2> QED
    BY <1>5, <1>6, <1>7, <2>1 DEF FundedInv, TipFunded
<1>9. MempoolFunded'
  <2> SUFFICES ASSUME NEW a \in Addresses
               PROVE  Outflow(mempool'[n], a) <= reserved'[n][a] /\ reserved'[n][a] <= balance'[n][a]
    BY DEF MempoolFunded, Outflow, Cost
  <2> DEFINE left == [t \in Txs |-> IF b.txs[t] > 0 THEN 0 ELSE mempool[n][t]]
  <2>1. /\ mempool'[n] = left
        /\ reserved'[n][a] = IF reserved[n][a] > Outflow(b.txs, a)
                              THEN reserved[n][a] - Outflow(b.txs, a) ELSE 0
        /\ balance'[n][a] = balance[n][a] + Delta(b, a)
    BY <1>1 DEF AddBlock, Released, TypeOK
  <2>2. b.txs \in TxBag /\ mempool[n] \in TxBag /\ left \in TxBag /\ b.reward \in Nat
    BY <1>1, BlockType DEF TypeOK, TxBag
  <2>3. \A t \in Txs : left[t] + b.txs[t] <= mempool[n][t]
    BY <1>4, <2>2 DEF TxBag
  <2> HIDE DEF left
  <2>4. Outflow(left, a) + Outflow(b.txs, a) <= Outflow(mempool[n], a)
    BY <2>2, <2>3, OutflowSplit
  <2>5. Outflow(mempool[n], a) <= reserved[n][a] /\ reserved[n][a] <= balance[n][a]
    BY DEF FundedInv, MempoolFunded
  <2>6. /\ Outflow(left, a) \in Nat /\ Outflow(b.txs, a) \in Nat /\ Inflow(b.txs, a) \in Nat
        /\ Outflow(mempool[n], a) \in Nat /\ reserved[n][a] \in Nat /\ balance[n][a] \in Int
    BY <1>1, <2>2, FlowType DEF TypeOK
  <2>7. Delta(b, a) >= 0 - Outflow(b.txs, a) /\ Delta(b, a) \in Int
    BY <2>2, <2>6 DEF Delta
  <2> QED
    BY <2>1, <2>4, <2>5, <2>6, <2>7
<1> QED
  BY <1>8, <1>9 DEF FundedInv

LEMMA FundedStep ==
  ASSUME NEW n \in Nodes, Nodes = {n}, FundedInv(n), [Next]_vars
  PROVE  FundedInv(n)'
<1>0. TypeOK /\ ChainInv'
  BY ChainInvStep DEF FundedInv, ChainInv
<1>1. CASE UNCHANGED <<chain, mempool, reserved, balance, candidates, network, fetched>>
  BY <1>0, <1>1 DEF FundedInv, TipFunded, MempoolFunded
<1>2. ASSUME NEW t \in Txs, AddTransaction(n, t) PROVE FundedInv(n)'
  <2>1. UNCHANGED <<chain, balance, candidates, network, fetched>>
    BY <1>2 DEF AddTransaction
  <2>2. mempool[n] \in TxBag /\ mempool'[n] = [mempool[n] EXCEPT ![t] = @ + 1]
    BY <1>0, <1>2 DEF AddTransaction, TypeOK
  <2>3. \A u \in Txs : mempool[n][u] <= mempool'[n][u]
    BY <2>2 DEF TxBag
  <2>4. TipFunded(n)'
    <3> SUFFICES ASSUME NEW b \in candidates[n], b.prev = HashOf(LatestBlock(chain[n])), NEW u \in Txs
                 PROVE  b.txs[u] <= mempool'[n][u]
      BY <2>1 DEF FundedInv, TipFunded
    <3>1. b.txs[u] <= mempool[n][u]
      BY DEF FundedInv, TipFunded
    <3>2. b.txs[u] \in Nat /\ mempool[n][u] \in Nat /\ mempool'[n][u] \in Nat
      <4>1. b \in Block
        BY <1>0 DEF TypeOK
      <4>2. b.txs \in TxBag
        BY <4>1, BlockType
      <4> QED
        BY <2>2, <4>2 DEF TxBag
    <3> QED
      BY <2>3, <3>1, <3>2
  <2>5. MempoolFunded'
    <3> SUFFICES ASSUME NEW a \in Addresses
                 PROVE  Outflow(mempool'[n], a) <= reserved'[n][a]
                        /\ reserved'[n][a] <= balance'[n][a]
      BY DEF MempoolFunded, Outflow, Cost
    <3>1. Outflow(mempool'[n], a) = Outflow(mempool[n], a)
                                    + (IF TxOf[t].from = a THEN Cost(t) ELSE 0)
      BY <2>2, OutflowOfOne
    <3>2. reserved'[n][a] = reserved[n][a] + (IF TxOf[t].from = a THEN Cost(t) ELSE 0)
      BY <1>0, <1>2, TxType DEF AddTransaction, TypeOK
    <3>3. Outflow(mempool[n], a) <= reserved[n][a] /\ reserved[n][a] <= balance[n][a]
      BY DEF FundedInv, MempoolFunded
    <3>4. Outflow(mempool[n], a) \in Nat /\ reserved[n][a] \in Nat /\ balance[n][a] \in Int
          /\ Cost(t) \in Nat
      BY <1>0, <2>2, FlowType, TxType DEF TypeOK
    <3>5. TxOf[t].from = a => balance[n][a] - reserved[n][a] >= Cost(t)
      BY <1>2 DEF AddTransaction
    <3> QED
      BY <2>1, <3>1, <3>2, <3>3, <3>4, <3>5
  <2> QED
    BY <1>0, <2>4, <2>5 DEF FundedInv
<1>3. ASSUME NEW id \in BlockIds, CreateBlock(n, id) PROVE FundedInv(n)'
  <2>1. UNCHANGED <<chain, mempool, reserved, balance, network, fetched>>
        /\ candidates'[n] = candidates[n] \cup {NewBlock(n, id)}
    BY <1>0, <1>3 DEF CreateBlock, TypeOK, moneyVars
  <2>2. \A t \in Txs : NewBlock(n, id).txs[t] <= mempool[n][t]
    BY <1>0 DEF NewBlock, TypeOK, TxBag
  <2>3. TipFunded(n)'
    BY <2>1, <2>2 DEF FundedInv, TipFunded
  <2>4. MempoolFunded'
    BY <2>1 DEF FundedInv, MempoolFunded
  <2> QED
    BY <1>0, <2>3, <2>4 DEF FundedInv
<1>4. ASSUME NEW b \in candidates[n], MineBlock(n, b) PROVE FundedInv(n)'
  <2>1. /\ b \in AllBlocks /\ AddBlock(n, b) /\ network' = network \cup {b}
        /\ candidates'[n] = candidates[n] \ {b}
    BY <1>0, <1>4 DEF MineBlock, AllBlocks, TypeOK
  <2> QED
    BY <1>0, <2>1, FundedAddBlock
<1>5. ASSUME NEW b \in candidates[n], DropBlock(n, b) PROVE FundedInv(n)'
  <2>1. UNCHANGED <<chain, mempool, reserved, balance, network, fetched>>
        /\ candidates'[n] = candidates[n] \ {b}
    BY <1>0, <1>5 DEF DropBlock, TypeOK, moneyVars
  <2>2. TipFunded(n)' /\ MempoolFunded'
    BY <2>1 DEF FundedInv, TipFunded, MempoolFunded
  <2> QED
    BY <1>0, <2>2 DEF FundedInv
<1>6. ASSUME NEW b \in network, ReceiveBlock(n, b) PROVE FundedInv(n)'
  <2>1. b.index < Len(chain[n]) /\ b.index = Len(chain[n]) /\ Len(chain[n]) \in Nat
    BY <1>0, <1>6 DEF ReceiveBlock, AddBlock, ValidateBlock, FundedInv, TipFunded, TypeOK
  <2> QED
    BY <2>1
<1>7. ~ ReplaceChain(n) /\ ~ KeepChain(n) /\ \A m \in Nodes : ~ FetchChain(n, m)
  <2>1. fetched[n] = <<>> /\ Len(chain[n]) \in Nat
    BY <1>0 DEF FundedInv, TipFunded, TypeOK
  <2> QED
    BY <2>1 DEF ReplaceChain, KeepChain, FetchChain
<1>8. CASE Next
  BY <1>1, <1>2, <1>3, <1>4, <1>5, <1>6, <1>7, <1>8
  DEF Next, moneyVars, AddProof, AddComputeProof, AddStorageProof, Stake, Unstake, Slash
<1>9. CASE UNCHANGED vars
  BY <1>1, <1>9 DEF vars, moneyVars
<1> QED
  BY <1>8, <1>9

\* Double-spend protection of add_transaction on a node that replaces no chain: whatever
\* is submitted, mined, dropped or delivered again in any order, what the mempool would
\* spend is reserved, and what is reserved is there.
THEOREM SingleNodeFunded ==
  ASSUME NEW n \in Nodes, Nodes = {n}
  PROVE  Spec => []MempoolFunded
<1>1. Init => FundedInv(n)
  BY FundedInit
<1>2. FundedInv(n) /\ [Next]_vars => FundedInv(n)'
  BY FundedStep
<1>3. FundedInv(n) => MempoolFunded
  BY DEF FundedInv
<1> QED
  BY <1>1, <1>2, <1>3, PTL DEF Spec
=============================================================================
