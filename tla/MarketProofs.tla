---------------------------- MODULE MarketProofs ----------------------------
(***************************************************************************)
(* Theorems about the payment channel and the markets: PaymentChannel, for *)
(* all deposits, increments and numbers of receipts, GpuMarkets, for all   *)
(* jobs, workers, daemons, models and prices, HomeDir, the files from      *)
(* which a user pays, for all terminals, wallets and deposits, and         *)
(* ComputeMarket, for all jobs, workers, wallets, stakes, cards and        *)
(* prices.                                                                 *)
(***************************************************************************)
EXTENDS PaymentChannel, GpuMarkets, ComputeMarket, HomeDir, SumTheorems

-----------------------------------------------------------------------------
(* The payment channel *)

\* Before open_channel there is nothing; the counters bound the nonces that exist.
Bounded ==
    /\ state = "none" => signed = {} /\ paid = 0
    /\ \A r \in signed : r.nonce <= nonce /\ r.amount <= deposited
    /\ paid <= deposited
    /\ \A k \in Nonces : k > recvNonce => acks[k] = 0

ChannelInv == ChannelTypeOK /\ Bounded /\ OneReceiptPerNonce /\ NoReplay

LEMMA ChannelStart == ChannelInit => ChannelInv
<1> SUFFICES ASSUME ChannelInit PROVE ChannelInv
  OBVIOUS
<1>1. 0 \in 0 .. MaxNonce
  BY PaymentAssumption
<1> QED
  BY <1>1 DEF ChannelInit, ChannelInv, ChannelTypeOK, Bounded, OneReceiptPerNonce, NoReplay

LEMMA ChannelStep == ChannelInv /\ [ChannelNext]_channelVars => ChannelInv'
<1> SUFFICES ASSUME ChannelInv, [ChannelNext]_channelVars PROVE ChannelInv'
  OBVIOUS
<1> USE DEF ChannelInv
<1>1. CASE UNCHANGED channelVars
  BY <1>1 DEF channelVars, ChannelTypeOK, Bounded, OneReceiptPerNonce, NoReplay
<1>2. ASSUME NEW d \in Deposits, NEW withTtl \in BOOLEAN, OpenChannel(d, withTtl)
      PROVE ChannelInv'
  <2>1. d \in Nat /\ signed = {} /\ paid = 0
    BY <1>2, PaymentAssumption DEF OpenChannel, Bounded
  <2> QED
    BY <1>2, <2>1 DEF OpenChannel, ChannelTypeOK, Bounded, OneReceiptPerNonce, NoReplay
<1>3. CASE Expire
  BY <1>3 DEF Expire, ChannelTypeOK, Bounded, OneReceiptPerNonce, NoReplay
<1>4. ASSUME NEW inc \in Increments, Send(inc) PROVE ChannelInv'
  <2> DEFINE r == [nonce |-> nonce + 1, amount |-> paid + inc]
  <2>1. inc \in Nat /\ nonce + 1 \in Nonces /\ nonce + 1 \in 0 .. MaxNonce /\ paid + inc \in Nat
        /\ paid + inc <= deposited
    BY <1>4, PaymentAssumption DEF Send, ChannelTypeOK, Nonces
  <2>2. r \in [nonce : Nonces, amount : Nat]
    BY <2>1
  <2>3. signed' = signed \cup {r} /\ nonce' = nonce + 1
    BY <1>4 DEF Send
  <2>4. ChannelTypeOK'
    BY <1>4, <2>1, <2>2 DEF Send, ChannelTypeOK
  <2>5. \A q \in signed : q.nonce \in Nat /\ q.nonce <= nonce /\ nonce \in Nat
    BY DEF ChannelTypeOK, Bounded, Nonces
  <2>6. OneReceiptPerNonce'
    BY <2>3, <2>5 DEF OneReceiptPerNonce
  <2>7. \A q \in signed' : q.nonce <= nonce' /\ q.amount <= deposited
    BY <2>1, <2>3, <2>5 DEF Bounded
  <2>8. Bounded'
    BY <1>4, <2>1, <2>7 DEF Send, Bounded, IsActive
  <2> QED
    BY <1>4, <2>4, <2>6, <2>8 DEF Send, NoReplay
<1>5. ASSUME NEW r \in signed, Receive(r) PROVE ChannelInv'
  <2>1. r.nonce \in Nonces /\ r.amount \in Nat /\ r.nonce <= nonce /\ r.amount <= deposited
    BY DEF ChannelTypeOK, Bounded
  <2>2. nonce' = nonce /\ signed' = signed /\ recvNonce' = r.nonce /\ deposited' = deposited
    BY <1>5, <2>1 DEF Receive, ChannelTypeOK, Nonces
  <2>3. acks[r.nonce] = 0
    BY <1>5, <2>1 DEF Receive, Bounded
  <2>4. acks' = [acks EXCEPT ![r.nonce] = 1]
    BY <1>5, <2>3 DEF Receive, ChannelTypeOK
  <2>5. ChannelTypeOK'
    BY <1>5, <2>1, <2>2, <2>4 DEF Receive, ChannelTypeOK, Nonces
  <2>6. NoReplay'
    BY <2>1, <2>4 DEF ChannelTypeOK, NoReplay
  <2>7. \A k \in Nonces : k > r.nonce => acks'[k] = 0
    BY <1>5, <2>1, <2>4, PaymentAssumption DEF Receive, ChannelTypeOK, Bounded, Nonces
  <2>8. Bounded'
    BY <1>5, <2>1, <2>2, <2>7 DEF Receive, Bounded
  <2> QED
    BY <2>2, <2>5, <2>6, <2>8 DEF OneReceiptPerNonce
<1>6. CASE Close
  BY <1>6 DEF Close, ChannelTypeOK, Bounded, OneReceiptPerNonce, NoReplay
<1>7. CASE Settle
  <2>1. BalanceReceiver \in Nat
    BY DEF ChannelTypeOK, BalanceReceiver
  <2> QED
    BY <1>7, <2>1 DEF Settle, ChannelTypeOK, Bounded, OneReceiptPerNonce, NoReplay
<1>8. ASSUME NEW r \in signed, ReceiveStateless(r) PROVE ChannelInv'
  <2>1. r.nonce \in Nonces
    BY DEF ChannelTypeOK
  <2>2. elsewhere' \in [Nonces -> Nat]
    BY <1>8, <2>1 DEF ReceiveStateless, ChannelTypeOK
  <2> QED
    BY <1>8, <2>2 DEF ReceiveStateless, ChannelTypeOK, Bounded, OneReceiptPerNonce, NoReplay
<1> QED
  BY <1>1, <1>2, <1>3, <1>4, <1>5, <1>6, <1>7, <1>8 DEF ChannelNext

LEMMA ChannelInvariant == ChannelSpec => []ChannelInv
  BY ChannelStart, ChannelStep, PTL DEF ChannelSpec

\* Every counter stays a number and every nonce within its bound, whatever deposits and
\* increments the parties use.
THEOREM ChannelTypes == ChannelSpec => []ChannelTypeOK
<1>1. ChannelInv => ChannelTypeOK
  BY DEF ChannelInv
<1> QED
  BY <1>1, ChannelInvariant, PTL

\* The sender signs one receipt per nonce, however late the receiver's calls come.
THEOREM NoncesUnique == ChannelSpec => []OneReceiptPerNonce
<1>1. ChannelInv => OneReceiptPerNonce
  BY DEF ChannelInv
<1> QED
  BY <1>1, ChannelInvariant, PTL

\* The manager that knows the channel countersigns no receipt twice, however often it is
\* delivered there and to managers that do not know the channel.
THEOREM ReplaysRefused == ChannelSpec => []NoReplay
<1>1. ChannelInv => NoReplay
  BY DEF ChannelInv
<1> QED
  BY <1>1, ChannelInvariant, PTL

\* Receipts and shares stay within the deposit.
THEOREM DepositCovers == ChannelSpec => []WithinDeposit
<1>1. ASSUME ChannelInv PROVE WithinDeposit
  <2>1. paid \in Nat /\ deposited \in Nat /\ paid <= deposited
    BY <1>1 DEF ChannelInv, ChannelTypeOK, Bounded
  <2>2. BalanceReceiver + BalanceSender = deposited
    BY <2>1 DEF BalanceReceiver, BalanceSender
  <2> QED
    BY <1>1, <2>1, <2>2 DEF ChannelInv, Bounded, WithinDeposit
<1> QED
  BY <1>1, ChannelInvariant, PTL

\* At the manager of the channel a receipt counts once and never for more than the deposit,
\* in whatever order and however often receipts arrive: what the run checks, for every deposit and increment.
THEOREM ChannelSafe == ChannelSpec => []ReceiptsCountOnce
  BY ChannelTypes, NoncesUnique, ReplaysRefused, DepositCovers, PTL DEF ReceiptsCountOnce

-----------------------------------------------------------------------------
(* The inference and rendering markets *)

LEMMA MaxTwo ==
  ASSUME NEW a \in Nat, NEW b \in Nat
  PROVE  Max({a, b}) \in Nat /\ Max({a, b}) >= a
<1>1. \E x \in {a, b} : \A y \in {a, b} : x >= y
  <2>1. CASE a >= b
    BY <2>1
  <2>2. CASE b >= a
    BY <2>2
  <2> QED
    BY <2>1, <2>2
<1> QED
  BY <1>1 DEF Max

LEMMA MinTwo ==
  ASSUME NEW a \in Nat, NEW b \in Nat
  PROVE  Min({a, b}) \in Nat
<1>1. \E x \in {a, b} : \A y \in {a, b} : x <= y
  <2>1. CASE a <= b
    BY <2>1
  <2>2. CASE b <= a
    BY <2>2
  <2> QED
    BY <2>1, <2>2
<1> QED
  BY <1>1 DEF Min

\* Whatever the request says, a reward is a number.
LEMMA RewardNat == ASSUME NEW j \in GpuJobs PROVE GpuReward(j) \in Nat
<1>1. InferReward(InferAsk[j]) \in Nat
  <2> DEFINE ask == InferAsk[j]
             cost == 2 * ask.input + 8 * (IF ask.embedding THEN 0 ELSE ask.output)
  <2>1. ask.max \in Nat /\ cost \in Nat
    BY GpuAssumption
  <2>2. Min({ask.max, cost}) \in Nat
    BY <2>1, MinTwo
  <2>3. Max({cost, Min({ask.max, cost})}) \in Nat
    BY <2>1, <2>2, MaxTwo
  <2> QED
    BY <2>3 DEF InferReward
<1>2. RenderReward(RenderAsk[j]) \in Nat
  <2> DEFINE ask == RenderAsk[j]
             unit == CASE ask.type = "VIDEO" -> 3 * ask.frames
                       [] ask.type = "MODEL3D" -> 10 * ask.frames
                       [] OTHER -> IF ask.pixels >= 1024 * 1024 THEN 20 ELSE 5
  <2>1. /\ ask.type \in {"IMAGE", "VIDEO", "MODEL3D", "UPSCALE", "INPAINT"}
        /\ ask.max \in Nat /\ ask.frames \in Nat
    BY GpuAssumption DEF RenderType
  <2>2. unit \in Nat
    BY <2>1
  <2>3. ExpectedCost(ask) \in Nat
    BY <2>1 DEF ExpectedCost
  <2>4. Min({ask.max, ExpectedCost(ask)}) \in Nat
    BY <2>1, <2>3, MinTwo
  <2> HIDE DEF unit, ask
  <2>5. Max({unit, Min({ask.max, ExpectedCost(ask)})}) \in Nat
    BY <2>2, <2>4, MaxTwo
  <2> QED
    BY <2>5 DEF RenderReward, unit, ask
<1> QED
  BY <1>1, <1>2 DEF GpuReward

\* _best_worker answers with a registered worker that can serve, or with nobody.
LEMMA BestServes ==
  ASSUME NEW j, GpuBest(j) # NoOne, gpuRecords \in Seq(GpuWorkers)
  PROVE  GpuBest(j) \in Range(gpuRecords) /\ CanServe(GpuBest(j), j)
<1> DEFINE can == {i \in DOMAIN gpuRecords : CanServe(gpuRecords[i], j)}
           best == {i \in can : \A k \in can : GpuScore(gpuRecords[i]) >= GpuScore(gpuRecords[k])}
<1>1. best # {} /\ GpuBest(j) = gpuRecords[Min(best)]
  BY DEF GpuBest
<1>2. best \subseteq Nat
  OBVIOUS
<1>3. \E x \in best : \A y \in best : x <= y
  BY <1>1, <1>2, Least
<1>4. Min(best) \in best
  BY <1>3 DEF Min
<1> QED
  BY <1>1, <1>4 DEF Range

\* A record that is alone of its wallet is the one that _worker_by_address finds.
LEMMA RecordFound ==
  ASSUME gpuRecords \in Seq(GpuWorkers), NEW w \in Range(gpuRecords),
         \A v \in GpuWorkers : GpuWallet[v] = GpuWallet[w] => v = w
  PROVE  w \in GpuRecordOf(GpuWallet[w])
<1> DEFINE own == {i \in DOMAIN gpuRecords : GpuWallet[gpuRecords[i]] = GpuWallet[w]}
<1>1. own \subseteq Nat /\ own # {}
  BY DEF Range
<1>2. PICK k \in own : \A m \in own : k <= m
  BY <1>1, Least
<1>3. gpuRecords[k] = w
  BY <1>2
<1> QED
  BY <1>2, <1>3 DEF GpuRecordOf

Submitted(j) == gpuJobs[j].status # "none"

\* An id leads to one job of _jobs; jobs that share one, and those that were replaced, are
\* outside.
IdsInv ==
    /\ \A j \in gpuStored : Submitted(j)
    /\ \A j \in GpuJobs : Submitted(j) =>
          /\ j \in gpuStored \cup gpuOutside
          /\ \E k \in gpuStored : gpuJobs[k].id = gpuJobs[j].id
    /\ \A i, j \in GpuJobs :
          Submitted(i) /\ Submitted(j) /\ gpuJobs[i].id = gpuJobs[j].id /\ i # j => i \in gpuOutside

\* A chosen worker is registered and, inside, its job still waits.
PicksInv ==
    \A j \in GpuJobs : gpuPick[j] # NoOne =>
        /\ Submitted(j) /\ gpuPick[j] \in Range(gpuRecords)
        /\ j \notin gpuOutside => gpuJobs[j].status = "PENDING"

\* A daemon executes, inside, a job of its own that no other daemon has.
Executes(w) ==
    /\ gpuJobs[gpuBusy[w]].status = "RUNNING" /\ gpuJobs[gpuBusy[w]].worker = GpuWallet[w]
    /\ \A v \in GpuWorkers : gpuBusy[v] = gpuBusy[w] => v = w

ExecutionsInv ==
    \A w \in GpuWorkers : gpuBusy[w] # NoOne =>
        Submitted(gpuBusy[w]) /\ (gpuBusy[w] \notin gpuOutside => Executes(w))

GpuSafe == GpuTypeOK /\ gpuRecords \in Seq(GpuWorkers) /\ IdsInv /\ PicksInv /\ ExecutionsInv

\* What a call of submit_result has read leaves room for the reward it is about to add.
TotalInv ==
    /\ TotalWithinResults
    /\ \A call \in gpuAdding : call.read + call.reward <= gpuDue

LEMMA GpuStart == GpuInit => GpuSafe /\ TotalInv
<1> SUFFICES ASSUME GpuInit PROVE GpuSafe /\ TotalInv
  OBVIOUS
<1>1. GpuTypeOK /\ gpuRecords \in Seq(GpuWorkers)
  BY GpuAssumption DEF GpuInit, GpuTypeOK, Range
<1>2. IdsInv /\ PicksInv /\ ExecutionsInv
  BY DEF GpuInit, IdsInv, PicksInv, ExecutionsInv, Submitted
<1>3. TotalInv
  BY DEF GpuInit, TotalInv, TotalWithinResults
<1> QED
  BY <1>1, <1>2, <1>3 DEF GpuSafe

\* The result of a daemon goes to the job it executes, when that is inside.
LEMMA OwnJob ==
  ASSUME GpuSafe, NEW w \in GpuWorkers, gpuBusy[w] # NoOne, NEW k \in gpuStored, k \notin gpuOutside,
         gpuJobs[k].id = gpuJobs[gpuBusy[w]].id
  PROVE  /\ k = gpuBusy[w] /\ gpuJobs[k].status = "RUNNING" /\ gpuJobs[k].worker = GpuWallet[w]
         /\ gpuPick[k] = NoOne
         /\ \A v \in GpuWorkers : gpuBusy[v] = k => v = w
<1>1. gpuBusy[w] \in GpuJobs /\ k \in GpuJobs /\ Submitted(k) /\ Submitted(gpuBusy[w])
  BY DEF GpuSafe, GpuTypeOK, IdsInv, ExecutionsInv
<1>2. k = gpuBusy[w]
  BY <1>1 DEF GpuSafe, IdsInv
<1>3. Executes(w)
  BY <1>2 DEF GpuSafe, ExecutionsInv
<1> QED
  BY <1>1, <1>2, <1>3 DEF Executes, GpuSafe, PicksInv

LEMMA IdsKept ==
  ASSUME IdsInv, gpuStored' = gpuStored, gpuStored \subseteq GpuJobs, gpuOutside \subseteq gpuOutside',
         \A i \in GpuJobs : gpuJobs'[i].id = gpuJobs[i].id /\ (Submitted(i)' <=> Submitted(i))
  PROVE  IdsInv'
BY DEF IdsInv

\* A step that changes one job that is submitted, which stays or goes outside unless the step
\* is right for it.
LEMMA OneJobMoves ==
  ASSUME GpuSafe, NEW j \in GpuJobs, Submitted(j), GpuTypeOK', gpuRecords' = gpuRecords, gpuStored' = gpuStored,
         gpuOutside \subseteq gpuOutside',
         \A i \in GpuJobs : gpuJobs'[i].id = gpuJobs[i].id /\ (i # j => gpuJobs'[i] = gpuJobs[i]),
         gpuJobs'[j].status # "none",
         \A i \in GpuJobs : gpuPick'[i] # NoOne => gpuPick'[i] = gpuPick[i],
         j \notin gpuOutside' => gpuPick'[j] = NoOne,
         \A w \in GpuWorkers : gpuBusy'[w] # NoOne => gpuBusy'[w] = gpuBusy[w] \/ gpuBusy'[w] = j,
         j \notin gpuOutside' =>
             \A w \in GpuWorkers : gpuBusy'[w] = j =>
                 /\ gpuJobs'[j].status = "RUNNING" /\ gpuJobs'[j].worker = GpuWallet[w]
                 /\ \A v \in GpuWorkers : gpuBusy'[v] = j => v = w
  PROVE  GpuSafe'
<1>0. NoOne \notin GpuJobs
  BY GpuAssumption
<1>1. \A i \in GpuJobs : Submitted(i)' <=> Submitted(i)
  BY DEF Submitted
<1>2. IdsInv'
  <2>1. IdsInv /\ gpuStored \subseteq GpuJobs
    BY DEF GpuSafe, GpuTypeOK
  <2> QED
    BY <1>1, <2>1, IdsKept
<1>3. PicksInv'
  <2> SUFFICES ASSUME NEW i \in GpuJobs, gpuPick'[i] # NoOne
               PROVE  /\ Submitted(i)' /\ gpuPick'[i] \in Range(gpuRecords')
                      /\ i \notin gpuOutside' => gpuJobs'[i].status = "PENDING"
    BY DEF PicksInv
  <2>1. gpuPick'[i] = gpuPick[i] /\ (i \notin gpuOutside' => i # j /\ i \notin gpuOutside)
    OBVIOUS
  <2> QED
    BY <1>1, <2>1 DEF GpuSafe, PicksInv
<1>4. ExecutionsInv'
  <2> SUFFICES ASSUME NEW w \in GpuWorkers, gpuBusy'[w] # NoOne
               PROVE  Submitted(gpuBusy[w])' /\ (gpuBusy'[w] \notin gpuOutside' => Executes(w)')
    BY DEF ExecutionsInv
  <2>1. gpuBusy'[w] \in GpuJobs
    BY DEF GpuTypeOK
  <2>2. CASE gpuBusy'[w] = j
    <3>1. gpuJobs'[gpuBusy'[w]].status # "none"
      BY <2>2
    <3>2. ASSUME j \notin gpuOutside' PROVE Executes(w)'
      BY <2>2, <3>2 DEF Executes
    <3> QED
      BY <2>2, <3>1, <3>2 DEF Submitted
  <2>3. CASE gpuBusy'[w] # j
    <3>1. gpuBusy'[w] = gpuBusy[w] /\ Submitted(gpuBusy[w]) /\ (gpuBusy[w] \notin gpuOutside => Executes(w))
      BY <2>3 DEF GpuSafe, ExecutionsInv
    <3>2. gpuJobs'[gpuBusy'[w]] = gpuJobs[gpuBusy[w]]
      BY <2>1, <2>3, <3>1
    <3>3. ASSUME gpuBusy'[w] \notin gpuOutside' PROVE Executes(w)'
      <4>1. Executes(w)
        BY <3>1, <3>3
      <4>2. ASSUME NEW v \in GpuWorkers, gpuBusy'[v] = gpuBusy'[w] PROVE v = w
        <5>1. gpuBusy[v] = gpuBusy[w]
          BY <2>3, <3>1, <4>2
        <5> QED
          BY <4>1, <5>1 DEF Executes
      <4> QED
        BY <3>1, <3>2, <4>1, <4>2 DEF Executes
    <3> QED
      BY <3>1, <3>2, <3>3 DEF Submitted
  <2> QED
    BY <2>2, <2>3
<1> QED
  BY <1>2, <1>3, <1>4 DEF GpuSafe

GpuRecord == [id : GpuJobs, status : {"none"} \cup GpuStatus, worker : GpuWallets \cup {NoOne}]

LEMMA StatusTyped ==
  ASSUME gpuJobs \in [GpuJobs -> GpuRecord], NEW j \in GpuJobs, NEW s \in GpuStatus
  PROVE  [gpuJobs EXCEPT ![j].status = s] \in [GpuJobs -> GpuRecord]
BY DEF GpuRecord

\* submit_result, whoever sends the result.
LEMMA CompleteSafe ==
  ASSUME GpuSafe, NEW j \in gpuStored, NEW reward \in Nat, NEW free, free \subseteq Range(gpuRecords),
         Complete(j, reward, free), gpuOutside' \subseteq GpuJobs, gpuOutside \subseteq gpuOutside',
         gpuPosted' \in Nat, gpuBusy' \in [GpuWorkers -> GpuJobs \cup {NoOne}],
         \A w \in GpuWorkers : gpuBusy'[w] # NoOne => gpuBusy'[w] = gpuBusy[w],
         j \notin gpuOutside' => /\ gpuJobs[j].worker # NoOne /\ gpuPick[j] = NoOne
                                 /\ \A w \in GpuWorkers : gpuBusy'[w] # j
  PROVE  GpuSafe'
<1> USE DEF Complete
<1>1. j \in GpuJobs /\ Submitted(j) /\ gpuTotal \in Nat /\ gpuDue \in Nat /\ gpuPaid[j] \in Nat
  BY DEF GpuSafe, GpuTypeOK, IdsInv
<1>2. /\ \A i \in GpuJobs : gpuJobs'[i].id = gpuJobs[i].id /\ (i # j => gpuJobs'[i] = gpuJobs[i])
      /\ gpuJobs'[j].status = "COMPLETED" /\ gpuJobs'[j].worker = gpuJobs[j].worker
  BY <1>1 DEF GpuSafe, GpuTypeOK
<1>3. GpuTypeOK'
  <2>0. gpuJobs' \in [GpuJobs -> GpuRecord]
    BY <1>1, StatusTyped DEF GpuSafe, GpuTypeOK, GpuStatus, GpuRecord
  <2>1. gpuPaid' \in [GpuJobs -> Nat] /\ gpuDue' \in Nat
    BY <1>1 DEF GpuSafe, GpuTypeOK
  <2>2. gpuAdding' \subseteq [job : GpuJobs, nth : Nat, read : Nat, reward : Nat]
    BY <1>1 DEF GpuSafe, GpuTypeOK
  <2>3. \A i \in GpuJobs \ gpuOutside' : gpuJobs'[i].worker = NoOne <=> gpuJobs'[i].status \in {"none", "PENDING"}
    BY <1>2 DEF GpuSafe, GpuTypeOK
  <2>4. /\ gpuKind' = gpuKind /\ gpuRecords' = gpuRecords /\ gpuStored' = gpuStored /\ gpuPick' = gpuPick
        /\ gpuTotal' = gpuTotal /\ gpuFree' \subseteq Range(gpuRecords)
    OBVIOUS
  <2> QED
    BY <2>0, <2>1, <2>2, <2>3, <2>4 DEF GpuSafe, GpuTypeOK, GpuRecord
<1>4. gpuRecords' = gpuRecords /\ gpuStored' = gpuStored /\ gpuPick' = gpuPick
  OBVIOUS
<1> HIDE DEF Complete
<1> QED
  BY <1>1, <1>2, <1>3, <1>4, OneJobMoves

\* A step that changes the status of one job alone.
LEMMA DropSafe ==
  ASSUME GpuSafe, NEW w \in GpuWorkers, DaemonFails(w) PROVE GpuSafe'
<1> DEFINE j == gpuBusy[w]
<1>1. /\ j # NoOne /\ gpuJobs' = [gpuJobs EXCEPT ![j].status = "FAILED"]
      /\ gpuBusy' = [gpuBusy EXCEPT ![w] = NoOne]
      /\ UNCHANGED <<gpuKind, gpuStored, gpuRecords, gpuFree, gpuPick, gpuPaid, gpuAdding, gpuTotal,
                     gpuDue, gpuPosted, gpuOutside>>
  BY DEF DaemonFails, Drop
<1>2. j \in GpuJobs /\ Submitted(j) /\ (j \notin gpuOutside => Executes(w))
  BY <1>1 DEF GpuSafe, GpuTypeOK, ExecutionsInv
<1>3. j \notin gpuOutside => /\ gpuJobs[j].status = "RUNNING" /\ gpuPick[j] = NoOne
                             /\ \A v \in GpuWorkers : gpuBusy[v] = j => v = w
  BY <1>2 DEF Executes, GpuSafe, PicksInv
<1>4. gpuBusy'[w] = NoOne /\ \A v \in GpuWorkers : v # w => gpuBusy'[v] = gpuBusy[v]
  BY <1>1 DEF GpuSafe, GpuTypeOK
<1>5. j \notin gpuOutside => \A v \in GpuWorkers : gpuBusy'[v] # j
  BY <1>1, <1>3, <1>4
<1> HIDE DEF j
<1>6. /\ \A i \in GpuJobs : gpuJobs'[i].id = gpuJobs[i].id /\ (i # j => gpuJobs'[i] = gpuJobs[i])
      /\ gpuJobs'[j].status = "FAILED" /\ gpuJobs'[j].worker = gpuJobs[j].worker
  BY <1>1, <1>2 DEF GpuSafe, GpuTypeOK
<1>7. GpuTypeOK'
  <2>1. gpuJobs' \in [GpuJobs -> GpuRecord]
    BY <1>1, <1>2, StatusTyped DEF GpuSafe, GpuTypeOK, GpuStatus, GpuRecord
  <2>2. \A i \in GpuJobs \ gpuOutside' : gpuJobs'[i].worker = NoOne <=> gpuJobs'[i].status \in {"none", "PENDING"}
    BY <1>1, <1>3, <1>6 DEF GpuSafe, GpuTypeOK
  <2>3. gpuBusy' \in [GpuWorkers -> GpuJobs \cup {NoOne}]
    BY <1>1 DEF GpuSafe, GpuTypeOK
  <2> QED
    BY <1>1, <2>1, <2>2, <2>3 DEF GpuSafe, GpuTypeOK, GpuRecord
<1> QED
  BY <1>1, <1>2, <1>3, <1>4, <1>5, <1>6, <1>7, OneJobMoves

LEMMA TakeSafe ==
  ASSUME GpuSafe, NEW w \in GpuWorkers, NEW j \in GpuJobs, DaemonTake(w, j) PROVE GpuSafe'
<1>1. /\ gpuBusy[w] = NoOne /\ gpuJobs[j].status = "ASSIGNED" /\ gpuJobs[j].worker = GpuWallet[w]
      /\ gpuJobs' = [gpuJobs EXCEPT ![j].status = "RUNNING"]
      /\ gpuBusy' = [gpuBusy EXCEPT ![w] = j]
      /\ UNCHANGED <<gpuKind, gpuStored, gpuRecords, gpuFree, gpuPick, gpuPaid, gpuAdding, gpuTotal,
                     gpuDue, gpuPosted, gpuOutside>>
  BY DEF DaemonTake, Meets, StartJob
<1>2. /\ \A i \in GpuJobs : gpuJobs'[i].id = gpuJobs[i].id /\ (i # j => gpuJobs'[i] = gpuJobs[i])
      /\ gpuJobs'[j].status = "RUNNING" /\ gpuJobs'[j].worker = gpuJobs[j].worker
      /\ gpuBusy'[w] = j /\ \A v \in GpuWorkers : v # w => gpuBusy'[v] = gpuBusy[v]
  BY <1>1 DEF GpuSafe, GpuTypeOK
<1>3. GpuTypeOK'
  <2>1. gpuJobs' \in [GpuJobs -> GpuRecord]
    BY <1>1, StatusTyped DEF GpuSafe, GpuTypeOK, GpuStatus, GpuRecord
  <2>2. \A i \in GpuJobs \ gpuOutside' : gpuJobs'[i].worker = NoOne <=> gpuJobs'[i].status \in {"none", "PENDING"}
    BY <1>1, <1>2 DEF GpuSafe, GpuTypeOK
  <2>3. gpuBusy' \in [GpuWorkers -> GpuJobs \cup {NoOne}]
    BY <1>1 DEF GpuSafe, GpuTypeOK
  <2> QED
    BY <1>1, <2>1, <2>2, <2>3 DEF GpuSafe, GpuTypeOK, GpuRecord
<1>4. j \notin gpuOutside => gpuPick[j] = NoOne /\ \A v \in GpuWorkers : gpuBusy[v] # j
  <2>1. NoOne # j
    BY GpuAssumption
  <2> QED
    BY <1>1, <2>1 DEF GpuSafe, PicksInv, ExecutionsInv, Executes
<1>5. Submitted(j)
  BY <1>1 DEF Submitted
<1>6. j \notin gpuOutside' =>
         \A v \in GpuWorkers : gpuBusy'[v] = j =>
             /\ gpuJobs'[j].status = "RUNNING" /\ gpuJobs'[j].worker = GpuWallet[v]
             /\ \A u \in GpuWorkers : gpuBusy'[u] = j => u = v
  BY <1>1, <1>2, <1>4
<1>7. \A v \in GpuWorkers : gpuBusy'[v] # NoOne => gpuBusy'[v] = gpuBusy[v] \/ gpuBusy'[v] = j
  BY <1>2
<1> QED
  BY <1>1, <1>2, <1>3, <1>4, <1>5, <1>6, <1>7, OneJobMoves

LEMMA GiveSafe ==
  ASSUME GpuSafe, NEW w \in Range(gpuRecords), NEW j \in GpuJobs, Give(j, w), Submitted(j),
         j \notin gpuOutside => gpuJobs[j].status = "PENDING"
  PROVE  GpuSafe'
<1>1. /\ gpuJobs' = [gpuJobs EXCEPT ![j].status = "ASSIGNED", ![j].worker = GpuWallet[w]]
      /\ gpuFree' = gpuFree \ {w}
      /\ gpuPick' = [gpuPick EXCEPT ![j] = NoOne]
      /\ UNCHANGED <<gpuKind, gpuStored, gpuRecords, gpuBusy, gpuPaid, gpuAdding, gpuTotal,
                     gpuDue, gpuPosted, gpuOutside>>
  BY DEF Give
<1>2. w \in GpuWorkers /\ GpuWallet[w] \in GpuWallets /\ GpuWallet[w] # NoOne
  BY GpuAssumption DEF GpuSafe, GpuTypeOK, GpuWallets
<1>3. /\ \A i \in GpuJobs : gpuJobs'[i].id = gpuJobs[i].id /\ (i # j => gpuJobs'[i] = gpuJobs[i])
      /\ gpuJobs'[j].status = "ASSIGNED" /\ gpuJobs'[j].worker = GpuWallet[w]
      /\ gpuPick'[j] = NoOne /\ \A i \in GpuJobs : i # j => gpuPick'[i] = gpuPick[i]
  BY <1>1 DEF GpuSafe, GpuTypeOK
<1>4. GpuTypeOK'
  <2>1. gpuJobs' \in [GpuJobs -> GpuRecord]
    BY <1>1, <1>2 DEF GpuSafe, GpuTypeOK, GpuStatus, GpuRecord
  <2>2. \A i \in GpuJobs \ gpuOutside' : gpuJobs'[i].worker = NoOne <=> gpuJobs'[i].status \in {"none", "PENDING"}
    BY <1>1, <1>2, <1>3 DEF GpuSafe, GpuTypeOK
  <2>3. gpuPick' \in [GpuJobs -> GpuWorkers \cup {NoOne}]
    BY <1>1 DEF GpuSafe, GpuTypeOK
  <2> QED
    BY <1>1, <2>1, <2>2, <2>3 DEF GpuSafe, GpuTypeOK, GpuRecord
<1>5. j \notin gpuOutside => \A v \in GpuWorkers : gpuBusy[v] # j
  <2>1. NoOne # j
    BY GpuAssumption
  <2> QED
    BY <2>1 DEF GpuSafe, ExecutionsInv, Executes
<1> QED
  BY <1>1, <1>3, <1>4, <1>5, OneJobMoves

LEMMA ChooseSafe ==
  ASSUME GpuSafe, NEW j \in GpuJobs, NEW id \in GpuJobs, NEW body \in PostedBodies, SubmitChoose(j, id, body)
  PROVE  GpuSafe'
<1> DEFINE replaced == {i \in gpuStored : gpuJobs[i].id = id}
<1>1. /\ gpuJobs[j].status = "none" /\ (id # j => replaced # {})
      /\ gpuJobs' = [gpuJobs EXCEPT ![j] = [id |-> id, status |-> body.status, worker |-> body.worker]]
      /\ gpuStored' = (gpuStored \ replaced) \cup {j}
      /\ gpuPick' = [gpuPick EXCEPT ![j] = GpuBest(j)]
      /\ gpuOutside' = gpuOutside \cup replaced \cup (IF replaced = {} /\ body = Created THEN {} ELSE {j})
      /\ UNCHANGED <<gpuKind, gpuRecords, gpuFree, gpuBusy, gpuPaid, gpuAdding, gpuTotal, gpuDue, gpuPosted>>
  BY DEF SubmitChoose
<1>2. body.status \in GpuStatus /\ body.worker \in GpuWallets \cup {NoOne}
  BY GpuAssumption
<1>3. /\ \A i \in GpuJobs : i # j => gpuJobs'[i] = gpuJobs[i] /\ gpuPick'[i] = gpuPick[i]
      /\ gpuJobs'[j] = [id |-> id, status |-> body.status, worker |-> body.worker] /\ gpuPick'[j] = GpuBest(j)
  BY <1>1 DEF GpuSafe, GpuTypeOK
<1>4. GpuBest(j) # NoOne => GpuBest(j) \in Range(gpuRecords)
  BY BestServes DEF GpuSafe
<1>5. j \notin gpuOutside' => body = Created /\ replaced = {}
  BY <1>1
<1>6. j \notin gpuOutside' => gpuJobs'[j].status = "PENDING" /\ gpuJobs'[j].worker = NoOne
  BY <1>3, <1>5 DEF Created
<1>7. gpuJobs'[j].status # "none" /\ gpuJobs'[j].id = id
  BY <1>2, <1>3 DEF GpuStatus
<1>8. \A i \in GpuJobs : Submitted(i)' <=> (Submitted(i) \/ i = j)
  BY <1>3, <1>7 DEF Submitted
<1>9. gpuStored \subseteq GpuJobs /\ j \notin gpuStored
  BY <1>1 DEF GpuSafe, GpuTypeOK, IdsInv, Submitted
<1>10. GpuTypeOK'
  <2>1. gpuJobs' \in [GpuJobs -> [id : GpuJobs, status : {"none"} \cup GpuStatus, worker : GpuWallets \cup {NoOne}]]
    BY <1>1, <1>2 DEF GpuSafe, GpuTypeOK
  <2>2. gpuPick' \in [GpuJobs -> GpuWorkers \cup {NoOne}]
    BY <1>1, <1>4 DEF GpuSafe, GpuTypeOK
  <2>3. gpuStored' \subseteq GpuJobs /\ gpuOutside' \subseteq GpuJobs /\ gpuOutside \subseteq gpuOutside'
    BY <1>1 DEF GpuSafe, GpuTypeOK
  <2>4. \A i \in GpuJobs \ gpuOutside' : gpuJobs'[i].worker = NoOne <=> gpuJobs'[i].status \in {"none", "PENDING"}
    BY <1>3, <1>6, <2>3 DEF GpuSafe, GpuTypeOK
  <2> HIDE DEF replaced
  <2> QED
    BY <1>1, <2>1, <2>2, <2>3, <2>4 DEF GpuSafe, GpuTypeOK
<1>11. IdsInv'
  <2>0. /\ \A i \in gpuStored : Submitted(i)
        /\ \A i \in GpuJobs : Submitted(i) => /\ i \in gpuStored \cup gpuOutside
                                              /\ \E k \in gpuStored : gpuJobs[k].id = gpuJobs[i].id
        /\ \A i, k \in GpuJobs :
              Submitted(i) /\ Submitted(k) /\ gpuJobs[i].id = gpuJobs[k].id /\ i # k => i \in gpuOutside
    BY DEF GpuSafe, IdsInv
  <2>1. \A i \in GpuJobs : Submitted(i) => i # j /\ gpuJobs'[i] = gpuJobs[i]
    BY <1>1, <1>3 DEF Submitted
  <2>2. \A i \in gpuStored' : Submitted(i)'
    BY <1>1, <1>8, <1>9, <2>0
  <2>3. ASSUME NEW i \in GpuJobs, Submitted(i)'
        PROVE  /\ i \in gpuStored' \cup gpuOutside'
               /\ \E k \in gpuStored' : gpuJobs'[k].id = gpuJobs'[i].id
    <3>1. CASE i = j
      BY <1>1, <3>1
    <3>2. CASE i # j
      <4>1. Submitted(i) /\ gpuJobs'[i] = gpuJobs[i]
        BY <1>3, <1>8, <2>3, <3>2
      <4>2. PICK k \in gpuStored : gpuJobs[k].id = gpuJobs[i].id
        BY <2>0, <4>1
      <4>3. gpuJobs'[k] = gpuJobs[k]
        BY <1>9, <2>0, <2>1
      <4>4. CASE k \in replaced
        <5>1. gpuJobs'[j].id = gpuJobs'[i].id /\ j \in gpuStored'
          BY <1>1, <1>7, <4>1, <4>2, <4>4
        <5> QED
          BY <1>1, <2>0, <4>1, <5>1
      <4>5. CASE k \notin replaced
        BY <1>1, <2>0, <4>1, <4>2, <4>3, <4>5
      <4> QED
        BY <4>4, <4>5
    <3> QED
      BY <3>1, <3>2
  <2>4. ASSUME NEW i \in GpuJobs, Submitted(i), gpuJobs[i].id = id PROVE i \in gpuOutside' /\ j \in gpuOutside'
    <3>1. PICK k \in gpuStored : gpuJobs[k].id = gpuJobs[i].id
      BY <2>0, <2>4
    <3>2. k \in replaced
      BY <2>4, <3>1
    <3>3. i \in replaced \cup gpuOutside
      BY <2>0, <2>4
    <3> QED
      BY <1>1, <3>2, <3>3
  <2>5. ASSUME NEW i \in GpuJobs, NEW k \in GpuJobs, Submitted(i)', Submitted(k)',
               gpuJobs'[i].id = gpuJobs'[k].id, i # k
        PROVE  i \in gpuOutside'
    <3>1. CASE i = j
      BY <1>3, <1>7, <1>8, <2>4, <2>5, <3>1
    <3>2. CASE i # j /\ k = j
      BY <1>3, <1>7, <1>8, <2>4, <2>5, <3>2
    <3>3. CASE i # j /\ k # j
      <4>1. i \in gpuOutside
        BY <1>3, <1>8, <2>0, <2>5, <3>3
      <4> QED
        BY <1>1, <4>1
    <3> QED
      BY <3>1, <3>2, <3>3
  <2> QED
    BY <2>2, <2>3, <2>5 DEF IdsInv
<1>12. PicksInv'
  <2> SUFFICES ASSUME NEW i \in GpuJobs, gpuPick'[i] # NoOne
               PROVE  /\ Submitted(i)' /\ gpuPick'[i] \in Range(gpuRecords')
                      /\ i \notin gpuOutside' => gpuJobs'[i].status = "PENDING"
    BY DEF PicksInv
  <2>1. gpuRecords' = gpuRecords /\ gpuOutside \subseteq gpuOutside'
    BY <1>1
  <2>2. CASE i = j
    BY <1>3, <1>4, <1>6, <1>8, <2>1, <2>2
  <2>3. CASE i # j
    BY <1>3, <1>8, <2>1, <2>3 DEF GpuSafe, PicksInv
  <2> QED
    BY <2>2, <2>3
<1>13. ExecutionsInv'
  <2> SUFFICES ASSUME NEW w \in GpuWorkers, gpuBusy[w] # NoOne
               PROVE  Submitted(gpuBusy[w])' /\ (gpuBusy[w] \notin gpuOutside' => Executes(w)')
    BY <1>1 DEF ExecutionsInv
  <2>1. gpuBusy[w] \in GpuJobs /\ Submitted(gpuBusy[w]) /\ (gpuBusy[w] \notin gpuOutside => Executes(w))
    BY DEF GpuSafe, GpuTypeOK, ExecutionsInv
  <2>2. gpuBusy[w] # j /\ gpuJobs'[gpuBusy[w]] = gpuJobs[gpuBusy[w]] /\ gpuBusy' = gpuBusy
    BY <1>1, <1>3, <2>1 DEF Submitted
  <2>3. gpuBusy[w] \notin gpuOutside' => gpuBusy[w] \notin gpuOutside
    BY <1>1
  <2> QED
    BY <2>1, <2>2, <2>3 DEF Submitted, Executes
<1>14. gpuRecords' \in Seq(GpuWorkers)
  BY <1>1 DEF GpuSafe
<1> QED
  BY <1>10, <1>11, <1>12, <1>13, <1>14 DEF GpuSafe

\* Nothing but registrations, availability and the total changes.
LEMMA OtherSafe ==
  ASSUME GpuSafe, GpuTypeOK', gpuRecords' \in Seq(GpuWorkers), Range(gpuRecords) \subseteq Range(gpuRecords'),
         UNCHANGED <<gpuJobs, gpuStored, gpuPick, gpuBusy, gpuOutside>>
  PROVE  GpuSafe'
<1>1. \A j : Submitted(j)' <=> Submitted(j)
  BY DEF Submitted
<1>2. IdsInv' /\ ExecutionsInv'
  BY DEF GpuSafe, IdsInv, ExecutionsInv, Executes, Submitted
<1>3. PicksInv'
  BY <1>1 DEF GpuSafe, PicksInv
<1> QED
  BY <1>2, <1>3 DEF GpuSafe

LEMMA GpuSafeStep == GpuSafe /\ [GpuNext]_gpuVars => GpuSafe'
<1> SUFFICES ASSUME GpuSafe, [GpuNext]_gpuVars PROVE GpuSafe'
  OBVIOUS
<1>1. CASE UNCHANGED gpuVars
  <2>1. GpuTypeOK'
    BY <1>1 DEF gpuVars, GpuSafe, GpuTypeOK
  <2> QED
    BY <1>1, <2>1, OtherSafe DEF gpuVars, GpuSafe
<1>2. ASSUME NEW w \in GpuWorkers, RegisterWorker(w) PROVE GpuSafe'
  <2>1. gpuRecords' \in Seq(GpuWorkers) /\ Range(gpuRecords') = Range(gpuRecords) \cup {w}
    BY <1>2, AppendRange DEF RegisterWorker, GpuSafe
  <2>2. GpuTypeOK'
    BY <1>2, <2>1 DEF RegisterWorker, GpuSafe, GpuTypeOK
  <2> QED
    BY <1>2, <2>1, <2>2, OtherSafe DEF RegisterWorker
<1>3. ASSUME NEW w \in GpuWorkers, GpuHeartbeat(w) PROVE GpuSafe'
  <2>1. GpuTypeOK'
    BY <1>3 DEF GpuHeartbeat, GpuSafe, GpuTypeOK
  <2> QED
    BY <1>3, <2>1, OtherSafe DEF GpuHeartbeat, GpuSafe
<1>4. ASSUME NEW call \in gpuAdding, AddReward(call) PROVE GpuSafe'
  <2>1. call \in [job : GpuJobs, nth : Nat, read : Nat, reward : Nat]
    BY DEF GpuSafe, GpuTypeOK
  <2>2. call.read + call.reward \in Nat
    BY <2>1
  <2>3. GpuTypeOK'
    BY <1>4, <2>2 DEF AddReward, GpuSafe, GpuTypeOK
  <2> QED
    BY <1>4, <2>3, OtherSafe DEF AddReward, GpuSafe
<1>5. ASSUME NEW sender \in GpuWallets, NEW j \in GpuJobs, NEW reward \in PostedRewards,
             PostResult(sender, j, reward)
      PROVE  GpuSafe'
  <2>1. reward \in Nat /\ gpuPosted' \in Nat
    BY <1>5, GpuAssumption DEF PostResult, GpuSafe, GpuTypeOK
  <2>2. /\ j \in gpuStored /\ Complete(j, reward, gpuFree \cup GpuRecordOf(sender)) /\ gpuBusy' = gpuBusy
        /\ gpuOutside' = IF Expected(j, sender) THEN gpuOutside ELSE gpuOutside \cup {j}
    BY <1>5 DEF PostResult, AcceptResult
  <2>3. gpuFree \cup GpuRecordOf(sender) \subseteq Range(gpuRecords)
    BY DEF GpuRecordOf, GpuSafe, GpuTypeOK, Range
  <2>4. ASSUME j \notin gpuOutside'
        PROVE  gpuJobs[j].worker # NoOne /\ gpuPick[j] = NoOne /\ \A w \in GpuWorkers : gpuBusy'[w] # j
    <3>1. j \notin gpuOutside /\ gpuJobs[j].status = "ASSIGNED"
      BY <2>2, <2>4 DEF Expected
    <3>2. NoOne # j
      BY GpuAssumption
    <3> QED
      BY <2>2, <3>1, <3>2 DEF GpuSafe, GpuTypeOK, PicksInv, ExecutionsInv, Executes
  <2>5. gpuOutside' \subseteq GpuJobs /\ gpuOutside \subseteq gpuOutside'
    BY <2>2 DEF GpuSafe, GpuTypeOK
  <2>6. gpuBusy' \in [GpuWorkers -> GpuJobs \cup {NoOne}]
    BY <2>2 DEF GpuSafe, GpuTypeOK
  <2> QED
    BY <2>1, <2>2, <2>3, <2>4, <2>5, <2>6, CompleteSafe
<1>6. ASSUME NEW w \in GpuWorkers, DaemonResult(w) PROVE GpuSafe'
  <2>1. /\ gpuBusy[w] # NoOne /\ gpuBusy' = [gpuBusy EXCEPT ![w] = NoOne]
        /\ UNCHANGED <<gpuPosted, gpuOutside>>
    BY <1>6 DEF DaemonResult
  <2>2. gpuBusy[w] \in GpuJobs
    BY <2>1 DEF GpuSafe, GpuTypeOK
  <2>3. GpuReward(gpuBusy[w]) \in Nat
    BY <2>2, RewardNat
  <2>4. PICK j \in gpuStored : /\ gpuJobs[j].id = gpuJobs[gpuBusy[w]].id
                               /\ Complete(j, GpuReward(gpuBusy[w]), gpuFree \cup GpuRecordOf(GpuWallet[w]))
    BY <1>6 DEF DaemonResult, AcceptResult
  <2>5. gpuFree \cup GpuRecordOf(GpuWallet[w]) \subseteq Range(gpuRecords)
    BY DEF GpuRecordOf, GpuSafe, GpuTypeOK, Range
  <2>6. gpuBusy'[w] = NoOne /\ \A v \in GpuWorkers : v # w => gpuBusy'[v] = gpuBusy[v]
    BY <2>1 DEF GpuSafe, GpuTypeOK
  <2>7. ASSUME j \notin gpuOutside'
        PROVE  gpuJobs[j].worker # NoOne /\ gpuPick[j] = NoOne /\ \A v \in GpuWorkers : gpuBusy'[v] # j
    <3>1. j \notin gpuOutside /\ j \in GpuJobs
      BY <2>1, <2>7 DEF GpuSafe, GpuTypeOK
    <3>2. /\ j = gpuBusy[w] /\ gpuJobs[j].status = "RUNNING" /\ gpuPick[j] = NoOne
          /\ \A v \in GpuWorkers : gpuBusy[v] = j => v = w
      BY <2>1, <2>4, <3>1, OwnJob
    <3>3. gpuJobs[j].worker # NoOne
      BY <3>1, <3>2 DEF GpuSafe, GpuTypeOK
    <3> QED
      BY <2>1, <2>6, <3>2, <3>3
  <2>8. /\ gpuOutside' \subseteq GpuJobs /\ gpuOutside \subseteq gpuOutside' /\ gpuPosted' \in Nat
        /\ gpuBusy' \in [GpuWorkers -> GpuJobs \cup {NoOne}]
    BY <2>1 DEF GpuSafe, GpuTypeOK
  <2>9. \A v \in GpuWorkers : gpuBusy'[v] # NoOne => gpuBusy'[v] = gpuBusy[v]
    BY <2>6
  <2> QED
    BY <2>3, <2>4, <2>5, <2>7, <2>8, <2>9, CompleteSafe
<1>7. ASSUME NEW w \in GpuWorkers, DaemonFails(w) PROVE GpuSafe'
  BY <1>7, DropSafe
<1>8. ASSUME NEW w \in GpuWorkers, NEW j \in GpuJobs, DaemonTake(w, j) PROVE GpuSafe'
  BY <1>8, TakeSafe
<1>9. ASSUME NEW j \in GpuJobs, NEW id \in GpuJobs, NEW body \in PostedBodies, SubmitChoose(j, id, body)
      PROVE  GpuSafe'
  BY <1>9, ChooseSafe
<1>10. ASSUME NEW j \in GpuJobs, SubmitTake(j) PROVE GpuSafe'
  BY <1>10, GiveSafe DEF SubmitTake, GpuSafe, PicksInv
<1>11. ASSUME NEW j \in GpuJobs, RetryJob(j) PROVE GpuSafe'
  <2>1. GpuBest(j) \in Range(gpuRecords) /\ Submitted(j)
    BY <1>11, BestServes DEF RetryJob, GpuSafe, Submitted
  <2> QED
    BY <1>11, <2>1, GiveSafe DEF RetryJob
<1> QED
  BY <1>1, <1>2, <1>3, <1>4, <1>5, <1>6, <1>7, <1>8, <1>9, <1>10, <1>11 DEF GpuNext

LEMMA TotalComplete ==
  ASSUME GpuSafe, TotalInv, NEW j, NEW free, NEW reward \in Nat, Complete(j, reward, free)
  PROVE  TotalInv'
<1>1. gpuTotal \in Nat /\ gpuDue \in Nat /\ gpuTotal <= gpuDue
  BY DEF GpuSafe, GpuTypeOK, TotalInv, TotalWithinResults
<1>2. gpuTotal' = gpuTotal /\ gpuDue' = gpuDue + reward
  BY DEF Complete
<1>3. ASSUME NEW call \in gpuAdding' PROVE call.read + call.reward <= gpuDue'
  <2>1. CASE call \in gpuAdding
    <3>1. call.read \in Nat /\ call.reward \in Nat /\ call.read + call.reward <= gpuDue
      BY <2>1 DEF GpuSafe, GpuTypeOK, TotalInv
    <3> QED
      BY <1>1, <1>2, <3>1
  <2>2. CASE call \notin gpuAdding
    <3>1. call.read = gpuTotal /\ call.reward = reward
      BY <2>2 DEF Complete
    <3> QED
      BY <1>1, <1>2, <3>1
  <2> QED
    BY <2>1, <2>2
<1>4. gpuTotal' <= gpuDue'
  BY <1>1, <1>2
<1> QED
  BY <1>3, <1>4 DEF TotalInv, TotalWithinResults

LEMMA TotalStep == GpuSafe /\ TotalInv /\ [GpuNext]_gpuVars => TotalInv'
<1> SUFFICES ASSUME GpuSafe, TotalInv, [GpuNext]_gpuVars PROVE TotalInv'
  OBVIOUS
<1>1. CASE UNCHANGED <<gpuAdding, gpuTotal, gpuDue>>
  BY <1>1 DEF TotalInv, TotalWithinResults
<1>2. ASSUME NEW sender, NEW j, NEW reward \in PostedRewards, PostResult(sender, j, reward) PROVE TotalInv'
  BY <1>2, TotalComplete, GpuAssumption DEF PostResult, AcceptResult
<1>3. ASSUME NEW w \in GpuWorkers, DaemonResult(w) PROVE TotalInv'
  <2>1. gpuBusy[w] \in GpuJobs
    BY <1>3 DEF DaemonResult, GpuSafe, GpuTypeOK
  <2>2. GpuReward(gpuBusy[w]) \in Nat
    BY <2>1, RewardNat
  <2> QED
    BY <1>3, <2>2, TotalComplete DEF DaemonResult, AcceptResult
<1>4. ASSUME NEW call \in gpuAdding, AddReward(call) PROVE TotalInv'
  BY <1>4 DEF AddReward, TotalInv, TotalWithinResults
<1> QED
  BY <1>1, <1>2, <1>3, <1>4
  DEF GpuNext, gpuVars, RegisterWorker, GpuHeartbeat, DaemonFails, Drop, DaemonTake, StartJob, SubmitChoose,
      SubmitTake, RetryJob, Give

LEMMA GpuInvariant == GpuSpec => [](GpuSafe /\ TotalInv)
<1>1. GpuSafe /\ TotalInv /\ [GpuNext]_gpuVars => GpuSafe' /\ TotalInv'
  BY GpuSafeStep, TotalStep
<1> QED
  BY <1>1, GpuStart, PTL DEF GpuSpec

\* The types of both markets, and that a job inside has a worker exactly when it was assigned.
THEOREM GpuTypes == GpuSpec => []GpuTypeOK
<1>1. GpuSafe => GpuTypeOK
  BY DEF GpuSafe
<1> QED
  BY <1>1, GpuInvariant, PTL

\* The lost update of _total_bc_paid only ever loses: threads that add their rewards in any
\* order never make the total more than the rewards of the results, whoever sent them.
THEOREM TotalNeverExceeds == GpuSpec => []TotalWithinResults
<1>1. TotalInv => TotalWithinResults
  BY DEF TotalInv
<1> QED
  BY <1>1, GpuInvariant, PTL

\* Wallets of registered workers differ: the premise under which _worker_by_address finds
\* the worker that did the job.
OneRecordPerWallet == \A v, w \in GpuWorkers : GpuWallet[v] = GpuWallet[w] => v = w

\* The job that keeps w from more work: it is past its submission, so nobody takes it again.
Keeps(w, j) ==
    /\ gpuJobs[j].worker = GpuWallet[w] /\ (gpuJobs[j].status # "COMPLETED" \/ j \in gpuOutside)
    /\ gpuPick[j] = NoOne /\ gpuJobs[j].status \notin {"none", "PENDING"}
BusyInv == \A w \in Range(gpuRecords) \ gpuFree : \E j \in GpuJobs : Keeps(w, j)

\* submit_result: it frees the worker of the job, or the job is outside.
LEMMA BusyComplete ==
  ASSUME OneRecordPerWallet, GpuSafe, BusyInv, NEW sender, NEW j \in GpuJobs, NEW reward,
         Complete(j, reward, gpuFree \cup GpuRecordOf(sender)), gpuOutside \subseteq gpuOutside',
         j \in gpuOutside' \/ gpuJobs[j].worker = sender
  PROVE  BusyInv'
<1>1. Range(gpuRecords) \subseteq GpuWorkers
  BY DEF GpuSafe, GpuTypeOK
<1>2. gpuRecords' = gpuRecords /\ gpuFree' = gpuFree \cup GpuRecordOf(sender) /\ gpuPick' = gpuPick
  BY DEF Complete
<1>3. \A i \in GpuJobs : /\ gpuJobs'[i].worker = gpuJobs[i].worker
                         /\ i # j => gpuJobs'[i].status = gpuJobs[i].status
                         /\ i = j => gpuJobs'[i].status = "COMPLETED"
  BY DEF Complete, GpuSafe, GpuTypeOK
<1> SUFFICES ASSUME NEW v \in Range(gpuRecords) \ gpuFree' PROVE \E i \in GpuJobs : Keeps(v, i)'
  BY <1>2 DEF BusyInv
<1>4. PICK i \in GpuJobs : Keeps(v, i)
  BY <1>2 DEF BusyInv
<1>5. CASE i = j /\ j \notin gpuOutside'
  <2>1. GpuWallet[v] = sender
    BY <1>4, <1>5 DEF Keeps
  <2>2. v \in GpuRecordOf(GpuWallet[v])
    BY <1>1, RecordFound DEF OneRecordPerWallet, GpuSafe
  <2> QED
    BY <1>2, <2>1, <2>2
<1>6. CASE i # j \/ j \in gpuOutside'
  BY <1>2, <1>3, <1>4, <1>6 DEF Keeps
<1> QED
  BY <1>5, <1>6

LEMMA BusyStep ==
  ASSUME OneRecordPerWallet
  PROVE  GpuSafe /\ BusyInv /\ [GpuNext]_gpuVars => BusyInv'
<1> SUFFICES ASSUME GpuSafe, BusyInv, [GpuNext]_gpuVars PROVE BusyInv'
  OBVIOUS
<1>0. Range(gpuRecords) \subseteq GpuWorkers /\ \A w \in GpuWorkers : GpuWallet[w] # NoOne
  BY GpuAssumption DEF GpuSafe, GpuTypeOK, GpuWallets
<1>1. CASE UNCHANGED <<gpuJobs, gpuRecords, gpuFree, gpuPick, gpuOutside>>
  BY <1>1 DEF BusyInv, Keeps
<1>2. ASSUME NEW w \in GpuWorkers, RegisterWorker(w) PROVE BusyInv'
  <2>1. Range(gpuRecords') = Range(gpuRecords) \cup {w}
    BY <1>2, AppendRange DEF RegisterWorker, GpuSafe
  <2> QED
    BY <1>2, <2>1 DEF RegisterWorker, BusyInv, Keeps
<1>3. ASSUME NEW w \in GpuWorkers, GpuHeartbeat(w) PROVE BusyInv'
  BY <1>3 DEF GpuHeartbeat, BusyInv, Keeps
<1>4. ASSUME NEW sender \in GpuWallets, NEW j \in GpuJobs, NEW reward, PostResult(sender, j, reward) PROVE BusyInv'
  <2>1. gpuOutside \subseteq gpuOutside' /\ (j \in gpuOutside' \/ gpuJobs[j].worker = sender)
    BY <1>4 DEF PostResult, Expected
  <2> QED
    BY <1>4, <2>1, BusyComplete DEF PostResult, AcceptResult
<1>5. ASSUME NEW w \in GpuWorkers, DaemonResult(w) PROVE BusyInv'
  <2>1. gpuBusy[w] # NoOne /\ gpuOutside' = gpuOutside
    BY <1>5 DEF DaemonResult
  <2>2. PICK j \in gpuStored : /\ gpuJobs[j].id = gpuJobs[gpuBusy[w]].id
                               /\ Complete(j, GpuReward(gpuBusy[w]), gpuFree \cup GpuRecordOf(GpuWallet[w]))
    BY <1>5 DEF DaemonResult, AcceptResult
  <2>3. j \in gpuOutside' \/ gpuJobs[j].worker = GpuWallet[w]
    BY <2>1, <2>2, OwnJob
  <2>4. j \in GpuJobs
    BY DEF GpuSafe, GpuTypeOK
  <2> QED
    BY <2>1, <2>2, <2>3, <2>4, BusyComplete
\* Only the status of one job changes, and not to COMPLETED.
<1>6. ASSUME NEW j \in GpuJobs, NEW s \in {"RUNNING", "FAILED"}, gpuJobs' = [gpuJobs EXCEPT ![j].status = s],
             UNCHANGED <<gpuRecords, gpuFree, gpuPick, gpuOutside>>
      PROVE  BusyInv'
  <2>1. \A i \in GpuJobs : /\ gpuJobs'[i].worker = gpuJobs[i].worker
                           /\ gpuJobs'[i].status = gpuJobs[i].status \/ gpuJobs'[i].status = s
    BY <1>6 DEF GpuSafe, GpuTypeOK
  <2> QED
    BY <1>6, <2>1 DEF BusyInv, Keeps
<1>7. ASSUME NEW w \in GpuWorkers, DaemonFails(w) PROVE BusyInv'
  <2>1. gpuBusy[w] \in GpuJobs
    BY <1>7 DEF DaemonFails, Drop, GpuSafe, GpuTypeOK
  <2> QED
    BY <1>6, <1>7, <2>1 DEF DaemonFails, Drop
<1>8. ASSUME NEW w \in GpuWorkers, NEW j \in GpuJobs, DaemonTake(w, j) PROVE BusyInv'
  BY <1>6, <1>8 DEF DaemonTake, StartJob
<1>9. ASSUME NEW j \in GpuJobs, NEW id, NEW body, SubmitChoose(j, id, body) PROVE BusyInv'
  <2>1. gpuJobs[j].status = "none" /\ gpuOutside \subseteq gpuOutside' /\ UNCHANGED <<gpuRecords, gpuFree>>
    BY <1>9 DEF SubmitChoose
  <2>2. \A i \in GpuJobs : i # j => gpuJobs'[i] = gpuJobs[i] /\ gpuPick'[i] = gpuPick[i]
    BY <1>9 DEF SubmitChoose, GpuSafe, GpuTypeOK
  <2>3. \A w \in GpuWorkers, i \in GpuJobs : Keeps(w, i) => Keeps(w, i)'
    BY <2>1, <2>2 DEF Keeps
  <2> QED
    BY <1>0, <2>1, <2>3 DEF BusyInv
\* One worker is taken for a job that keeps nobody.
<1>10. ASSUME NEW j \in GpuJobs, NEW w \in GpuWorkers, Give(j, w), \A v \in GpuWorkers : ~Keeps(v, j)
       PROVE  BusyInv'
  <2>1. /\ gpuJobs'[j].worker = GpuWallet[w] /\ gpuJobs'[j].status = "ASSIGNED" /\ gpuPick'[j] = NoOne
        /\ \A i \in GpuJobs : i # j => gpuJobs'[i] = gpuJobs[i] /\ gpuPick'[i] = gpuPick[i]
        /\ UNCHANGED <<gpuRecords, gpuOutside>> /\ gpuFree' = gpuFree \ {w}
    BY <1>10 DEF Give, GpuSafe, GpuTypeOK
  <2> SUFFICES ASSUME NEW v \in Range(gpuRecords) \ gpuFree' PROVE \E i \in GpuJobs : Keeps(v, i)'
    BY <2>1 DEF BusyInv
  <2>2. CASE v = w
    BY <2>1, <2>2 DEF Keeps
  <2>3. CASE v # w
    <3>1. PICK i \in GpuJobs : Keeps(v, i)
      BY <2>1, <2>3 DEF BusyInv
    <3>2. i # j
      BY <1>0, <1>10, <3>1
    <3> QED
      BY <2>1, <3>1, <3>2 DEF Keeps
  <2> QED
    BY <2>2, <2>3
<1>11. ASSUME NEW j \in GpuJobs, SubmitTake(j) PROVE BusyInv'
  <2>1. gpuPick[j] \in GpuWorkers /\ \A v \in GpuWorkers : ~Keeps(v, j)
    BY <1>0, <1>11 DEF SubmitTake, GpuSafe, PicksInv, Keeps
  <2> QED
    BY <1>10, <1>11, <2>1 DEF SubmitTake
<1>12. ASSUME NEW j \in GpuJobs, RetryJob(j) PROVE BusyInv'
  <2>1. GpuBest(j) \in GpuWorkers /\ \A v \in GpuWorkers : ~Keeps(v, j)
    BY <1>0, <1>12, BestServes DEF RetryJob, GpuSafe, Keeps
  <2> QED
    BY <1>10, <1>12, <2>1 DEF RetryJob
<1>13. ASSUME NEW call, AddReward(call) PROVE BusyInv'
  BY <1>1, <1>13 DEF AddReward
<1> QED
  BY <1>1, <1>2, <1>3, <1>4, <1>5, <1>7, <1>8, <1>9, <1>11, <1>12, <1>13 DEF GpuNext, gpuVars

\* When every worker has a wallet of its own, one that is not available has a job of its
\* wallet that is not completed or went outside: completion frees, and booking twice takes
\* nothing away.
THEOREM BusyWorkersHaveJobs == ASSUME OneRecordPerWallet PROVE GpuSpec => []BusyHasJob
<1>1. GpuInit => BusyInv
  BY DEF GpuInit, BusyInv, Range
<1>2. GpuSafe /\ BusyInv /\ [GpuNext]_gpuVars => BusyInv'
  BY BusyStep
<1>3. BusyInv => BusyHasJob
  BY DEF BusyInv, BusyHasJob, Keeps
<1> QED
  BY <1>1, <1>2, <1>3, GpuInvariant, PTL DEF GpuSpec

\* What the run checks of the workers, jobs and the total, for every instance with one
\* worker per wallet, whatever jobs and results are posted.
THEOREM GpuMarketConsistent == ASSUME OneRecordPerWallet PROVE GpuSpec => []GpuConsistent
  BY GpuTypes, TotalNeverExceeds, BusyWorkersHaveJobs, PTL DEF GpuConsistent

\* The status that JobLife sees.
Stage == [j \in GpuJobs |-> IF gpuJobs[j].status = "RUNNING" THEN "ASSIGNED" ELSE gpuJobs[j].status]
StagedStep(j) ==
    \/ Stage'[j] = Stage[j] /\ gpuPaid'[j] = gpuPaid[j]
    \/ <<Stage[j], Stage'[j]>> \in GpuLife!Moves /\ gpuPaid'[j] = gpuPaid[j]
    \/ Stage[j] = "ASSIGNED" /\ Stage'[j] = "COMPLETED" /\ gpuPaid'[j] = gpuPaid[j] + 1

\* A step that moves at most one job, in a way that JobLife knows, and counts no result.
LEMMA MovesOne ==
  ASSUME NEW j \in GpuJobs, gpuPaid' = gpuPaid,
         \A i \in GpuJobs : i # j => gpuJobs'[i].status = gpuJobs[i].status,
         \/ j \in gpuOutside'
         \/ Stage'[j] = Stage[j]
         \/ <<Stage[j], Stage'[j]>> \in GpuLife!Moves
  PROVE  \A i \in GpuJobs \ gpuOutside' : StagedStep(i)
<1>1. \A i \in GpuJobs : i # j => Stage'[i] = Stage[i]
  BY DEF Stage
<1> QED
  BY <1>1 DEF StagedStep

\* A result completes an assigned job and is counted for it, or the job is outside.
LEMMA MovesDone ==
  ASSUME GpuSafe, NEW j \in GpuJobs, NEW reward, NEW free, Complete(j, reward, free),
         j \in gpuOutside' \/ gpuJobs[j].status \in {"ASSIGNED", "RUNNING"}
  PROVE  \A i \in GpuJobs \ gpuOutside' : StagedStep(i)
<1>1. \A i \in GpuJobs : i # j => gpuJobs'[i].status = gpuJobs[i].status /\ gpuPaid'[i] = gpuPaid[i]
  BY DEF Complete, GpuSafe, GpuTypeOK
<1>2. gpuJobs'[j].status = "COMPLETED" /\ gpuPaid'[j] = gpuPaid[j] + 1
  BY DEF Complete, GpuSafe, GpuTypeOK
<1>3. j \notin gpuOutside' => Stage[j] = "ASSIGNED" /\ Stage'[j] = "COMPLETED"
  BY <1>2 DEF Stage
<1>4. \A i \in GpuJobs : i # j => Stage'[i] = Stage[i]
  BY <1>1 DEF Stage
<1> QED
  BY <1>1, <1>2, <1>3, <1>4 DEF StagedStep

LEMMA GpuLifeStep ==
  GpuSafe /\ [GpuNext]_gpuVars => \A i \in GpuJobs \ gpuOutside' : StagedStep(i)
<1> SUFFICES ASSUME GpuSafe, [GpuNext]_gpuVars PROVE \A i \in GpuJobs \ gpuOutside' : StagedStep(i)
  OBVIOUS
<1>1. CASE UNCHANGED <<gpuJobs, gpuPaid>>
  BY <1>1 DEF Stage, StagedStep
<1>2. ASSUME NEW sender, NEW j \in GpuJobs, NEW reward, PostResult(sender, j, reward)
      PROVE  \A i \in GpuJobs \ gpuOutside' : StagedStep(i)
  BY <1>2, MovesDone DEF PostResult, AcceptResult, Expected
<1>3. ASSUME NEW w \in GpuWorkers, DaemonResult(w) PROVE \A i \in GpuJobs \ gpuOutside' : StagedStep(i)
  <2>1. gpuBusy[w] # NoOne /\ gpuOutside' = gpuOutside
    BY <1>3 DEF DaemonResult
  <2>2. PICK j \in gpuStored : /\ gpuJobs[j].id = gpuJobs[gpuBusy[w]].id
                               /\ Complete(j, GpuReward(gpuBusy[w]), gpuFree \cup GpuRecordOf(GpuWallet[w]))
    BY <1>3 DEF DaemonResult, AcceptResult
  <2>3. j \in gpuOutside' \/ gpuJobs[j].status = "RUNNING"
    BY <2>1, <2>2, OwnJob
  <2>4. j \in GpuJobs
    BY DEF GpuSafe, GpuTypeOK
  <2> QED
    BY <2>2, <2>3, <2>4, MovesDone
<1>4. ASSUME NEW w \in GpuWorkers, DaemonFails(w) PROVE \A i \in GpuJobs \ gpuOutside' : StagedStep(i)
  <2> DEFINE j == gpuBusy[w]
  <2>1. /\ j \in GpuJobs /\ gpuJobs' = [gpuJobs EXCEPT ![j].status = "FAILED"]
        /\ UNCHANGED <<gpuPaid, gpuOutside>> /\ (j \notin gpuOutside => gpuJobs[j].status = "RUNNING")
    BY <1>4 DEF DaemonFails, Drop, GpuSafe, GpuTypeOK, ExecutionsInv, Executes
  <2> HIDE DEF j
  <2>2. gpuJobs'[j].status = "FAILED" /\ \A i \in GpuJobs : i # j => gpuJobs'[i] = gpuJobs[i]
    BY <2>1 DEF GpuSafe, GpuTypeOK
  <2>3. j \notin gpuOutside' => Stage[j] = "ASSIGNED" /\ Stage'[j] = "FAILED"
    BY <2>1, <2>2 DEF Stage
  <2>4. j \in gpuOutside' \/ <<Stage[j], Stage'[j]>> \in GpuLife!Moves
    BY <2>3 DEF GpuLife!Moves
  <2> QED
    BY <2>1, <2>2, <2>4, MovesOne
<1>5. ASSUME NEW w \in GpuWorkers, NEW j \in GpuJobs, DaemonTake(w, j)
      PROVE  \A i \in GpuJobs \ gpuOutside' : StagedStep(i)
  <2>1. /\ gpuJobs[j].status = "ASSIGNED" /\ gpuJobs' = [gpuJobs EXCEPT ![j].status = "RUNNING"]
        /\ gpuPaid' = gpuPaid
    BY <1>5 DEF DaemonTake, StartJob
  <2>2. gpuJobs'[j].status = "RUNNING" /\ \A i \in GpuJobs : i # j => gpuJobs'[i] = gpuJobs[i]
    BY <2>1 DEF GpuSafe, GpuTypeOK
  <2>3. Stage'[j] = Stage[j]
    BY <2>1, <2>2 DEF Stage
  <2> QED
    BY <2>1, <2>2, <2>3, MovesOne
<1>6. ASSUME NEW j \in GpuJobs, NEW id, NEW body, SubmitChoose(j, id, body)
      PROVE  \A i \in GpuJobs \ gpuOutside' : StagedStep(i)
  <2>1. /\ gpuJobs[j].status = "none" /\ gpuPaid' = gpuPaid
        /\ gpuJobs' = [gpuJobs EXCEPT ![j] = [id |-> id, status |-> body.status, worker |-> body.worker]]
        /\ j \notin gpuOutside' => body = Created
    BY <1>6 DEF SubmitChoose
  <2>2. gpuJobs'[j].status = body.status /\ \A i \in GpuJobs : i # j => gpuJobs'[i] = gpuJobs[i]
    BY <2>1 DEF GpuSafe, GpuTypeOK
  <2>3. j \notin gpuOutside' => Stage[j] = "none" /\ Stage'[j] = "PENDING"
    BY <2>1, <2>2 DEF Stage, Created
  <2>4. j \in gpuOutside' \/ <<Stage[j], Stage'[j]>> \in GpuLife!Moves
    BY <2>3 DEF GpuLife!Moves, GpuLife!Arrivals
  <2> QED
    BY <2>1, <2>2, <2>4, MovesOne
<1>7. ASSUME NEW j \in GpuJobs, NEW w, Give(j, w), j \in gpuOutside \/ gpuJobs[j].status = "PENDING"
      PROVE  \A i \in GpuJobs \ gpuOutside' : StagedStep(i)
  <2>1. /\ gpuJobs' = [gpuJobs EXCEPT ![j].status = "ASSIGNED", ![j].worker = GpuWallet[w]]
        /\ gpuPaid' = gpuPaid /\ gpuOutside' = gpuOutside
    BY <1>7 DEF Give
  <2>2. gpuJobs'[j].status = "ASSIGNED" /\ \A i \in GpuJobs : i # j => gpuJobs'[i] = gpuJobs[i]
    BY <2>1 DEF GpuSafe, GpuTypeOK
  <2>3. j \notin gpuOutside' => Stage[j] = "PENDING" /\ Stage'[j] = "ASSIGNED"
    BY <1>7, <2>1, <2>2 DEF Stage
  <2>4. j \in gpuOutside' \/ <<Stage[j], Stage'[j]>> \in GpuLife!Moves
    BY <2>3 DEF GpuLife!Moves
  <2> QED
    BY <2>1, <2>2, <2>4, MovesOne
<1>8. ASSUME NEW j \in GpuJobs, SubmitTake(j) PROVE \A i \in GpuJobs \ gpuOutside' : StagedStep(i)
  <2>1. j \in gpuOutside \/ gpuJobs[j].status = "PENDING"
    BY <1>8 DEF SubmitTake, GpuSafe, PicksInv
  <2> QED
    BY <1>7, <1>8, <2>1 DEF SubmitTake
<1>9. ASSUME NEW j \in GpuJobs, RetryJob(j) PROVE \A i \in GpuJobs \ gpuOutside' : StagedStep(i)
  BY <1>7, <1>9 DEF RetryJob
<1> QED
  BY <1>1, <1>2, <1>3, <1>4, <1>5, <1>6, <1>8, <1>9
  DEF GpuNext, gpuVars, RegisterWorker, GpuHeartbeat, AddReward

\* Both markets lead every job that stays inside through the life of a job, for any number of
\* jobs, workers and daemons and whatever is posted: it ends once, with one result counted
\* when it completed.
THEOREM GpuJobsEndOnce == GpuSpec => ImplementsGpuLife
<1>1. GpuInit => GpuLife!Init
  BY DEF GpuInit, GpuLife!Init
<1>2. GpuSafe /\ [GpuNext]_gpuVars => [\A j \in GpuJobs \ gpuOutside' : GpuLife!Step(j)]_gpuVars
  BY GpuLifeStep DEF Stage, StagedStep, GpuLife!Step
<1> QED
  BY <1>1, <1>2, GpuInvariant, PTL DEF GpuSpec, ImplementsGpuLife

-----------------------------------------------------------------------------
(* The files of a user *)

WalletFiles == {NoFile} \cup [there : {"torn"}, by : {"user", "node"}]
                  \cup [there : {"yes"}, key : Keys, lock : {Plain, Password}, by : {"user", "node"}]
WholeChannel == [there : {"yes"}, sender : Keys, nonce : Nat, paid : 0..Deposit, state : {"open", "closed"}]
Promise == [nonce : Nat, amount : 1..Deposit]
Commands == {Resting} \cup [at : {"close"}, ch : WholeChannel]
               \cup [at : {"send", "receipt"}, ch : WholeChannel, receipt : Promise]
Idle(t) == cli[t].at = "idle"

WalletTypes ==
    /\ wallet \in WalletFiles
    /\ drawn \subseteq Seeds
    /\ \A p \in phrases : /\ p.phrase \in drawn /\ p.passphrase \in Passphrases
                          /\ p.key = MnemonicKey(p.phrase, p.passphrase)

PaymentTypes ==
    /\ channel \in {NoFile, Torn} \cup WholeChannel
    /\ receipts \subseteq Promise
    /\ cli \in [Terminals -> Commands]
    /\ overlap \in BOOLEAN

\* Before there is a channel nobody pays.
NothingBefore == channel.there = "no" => receipts = {} /\ \A t \in Terminals : Idle(t)

\* As long as payment commands did not overlap, one is in progress at most, and it is one
\* step ahead of the file it read.
OneAtATime ==
    /\ \A t, u \in Terminals : ~ Idle(t) /\ ~ Idle(u) => t = u
    /\ \A t \in Terminals : ~ Idle(t) => channel.there = "yes"
    /\ \A t \in Terminals : cli[t].at = "send" =>
          /\ cli[t].ch.nonce = channel.nonce + 1 /\ cli[t].ch.paid > channel.paid
          /\ cli[t].receipt.nonce = cli[t].ch.nonce /\ cli[t].receipt.amount = cli[t].ch.paid
    /\ \A t \in Terminals : cli[t].at = "close" =>
          cli[t].ch.nonce = channel.nonce /\ cli[t].ch.paid = channel.paid
    /\ \A t \in Terminals : cli[t].at = "receipt" =>
          /\ cli[t].receipt.nonce = channel.nonce /\ cli[t].receipt.amount = channel.paid
          /\ \A r \in receipts : r.nonce < channel.nonce /\ r.amount < channel.paid

\* The receipts that were written, by their nonces, and the channel ahead of them.
Ascending ==
    /\ \A r1, r2 \in receipts : r1.nonce = r2.nonce => r1 = r2
    /\ \A r1, r2 \in receipts : r1.nonce < r2.nonce => r1.amount < r2.amount
    /\ channel.there = "yes" => \A r \in receipts : r.nonce <= channel.nonce /\ r.amount <= channel.paid

PaymentInv ==
    /\ PaymentTypes /\ NothingBefore
    /\ ~ overlap => OneAtATime /\ Ascending

HomeInv == WalletTypes /\ PaymentInv

LEMMA ChannelKinds ==
  ASSUME PaymentTypes
  PROVE  /\ channel.there \in {"no", "torn", "yes"}
         /\ channel.there = "yes" => channel \in WholeChannel
  BY DEF PaymentTypes, WholeChannel, NoFile, Torn

LEMMA CommandKinds ==
  ASSUME PaymentTypes, NEW t \in Terminals
  PROVE  /\ cli[t].at \in {"idle", "send", "receipt", "close"}
         /\ cli[t].at \in {"send", "receipt", "close"} => cli[t].ch \in WholeChannel
         /\ cli[t].at \in {"send", "receipt"} =>
               /\ cli[t].receipt \in Promise
               /\ cli[t] \in [at : {"send", "receipt"}, ch : WholeChannel, receipt : Promise]
<1>1. cli[t] \in Commands
  BY DEF PaymentTypes
<1> QED
  BY <1>1 DEF Commands, Resting

LEMMA HomeStart == HomeInit => HomeInv
<1> SUFFICES ASSUME HomeInit PROVE HomeInv
  OBVIOUS
<1>1. NoFile.there = "no" /\ Resting.at = "idle" /\ NoFile \in WalletFiles
  BY DEF NoFile, Resting, WalletFiles
<1>2. WalletTypes
  BY <1>1 DEF HomeInit, WalletTypes
<1>3. PaymentTypes
  BY <1>1 DEF HomeInit, PaymentTypes, Commands
<1>4. \A t \in Terminals : Idle(t)
  BY <1>1 DEF HomeInit, Idle
<1>5. OneAtATime
  BY <1>4 DEF OneAtATime, Idle
<1>6. NothingBefore /\ Ascending
  BY <1>1, <1>4 DEF HomeInit, NothingBefore, Ascending
<1> QED
  BY <1>2, <1>3, <1>5, <1>6 DEF HomeInv, PaymentInv

\* The wallet commands and the node's start keep the wallet and its phrases typed.
LEMMA WalletTyped == WalletTypes /\ WalletStep => WalletTypes'
<1> SUFFICES ASSUME WalletTypes, WalletStep PROVE WalletTypes'
  OBVIOUS
<1>1. \A key \in Keys, l \in {Plain, Password}, by \in {"user", "node"} : Save(key, l, by) \subseteq WalletFiles
  BY DEF Save, WalletFile, WalletFiles
<1>2. \A s \in Seeds, pp \in Passphrases \cup {"none"} :
         <<s, pp>> \in Keys /\ MnemonicKey(s, pp) \in Keys
  BY DEF Keys, MnemonicKey
<1>3. \A p \in phrases : p.phrase \in Seeds
  BY DEF WalletTypes
<1>4. ASSUME NEW s \in Seeds, NEW l \in {Plain, Password}, NEW f \in BOOLEAN, WalletNew(s, l, f)
      PROVE  WalletTypes'
  BY <1>1, <1>2, <1>4 DEF WalletNew, WalletTypes
<1>5. ASSUME NEW s \in Seeds, NEW pp \in Passphrases, NEW l \in {Plain, Password}, NEW f \in BOOLEAN,
             WalletNewMnemonic(s, pp, l, f)
      PROVE  WalletTypes'
  <2> DEFINE p == [phrase |-> s, passphrase |-> pp, key |-> MnemonicKey(s, pp)]
  <2>1. phrases' \subseteq phrases \cup {p} /\ drawn' = drawn \cup {s}
    BY <1>5 DEF WalletNewMnemonic
  <2>2. wallet' \in WalletFiles
    BY <1>1, <1>2, <1>5 DEF WalletNewMnemonic
  <2>3. p.phrase = s /\ p.passphrase = pp /\ p.key = MnemonicKey(s, pp)
    OBVIOUS
  <2> HIDE DEF p
  <2> QED
    BY <2>1, <2>2, <2>3 DEF WalletTypes
<1>6. ASSUME NEW p \in phrases, NEW pp \in Passphrases, NEW l \in {Plain, Password}, NEW f \in BOOLEAN,
             WalletRecover(p, pp, l, f)
      PROVE  WalletTypes'
  BY <1>1, <1>2, <1>3, <1>6 DEF WalletRecover, WalletTypes
<1>7. ASSUME NEW s \in Seeds, NodeStart(s) PROVE WalletTypes'
  BY <1>1, <1>2, <1>7 DEF NodeStart, NodeLoadWallet, WalletTypes
<1> QED
  BY <1>4, <1>5, <1>6, <1>7 DEF WalletStep

LEMMA PaymentOpens ==
  ASSUME HomeInv, NEW t \in Terminals, PaymentOpen(t)
  PROVE  PaymentInv'
<1>1. PICK key \in OwnKey : channel' \in {NewChannel(key), Torn}
  BY DEF PaymentOpen
<1>2. key \in Keys
  BY <1>1 DEF OwnKey, Loads, HomeInv, WalletTypes, WalletFiles, NoFile
<1>3. channel' \in {Torn} \cup WholeChannel /\ channel'.there # "no"
  <2>1. NewChannel(key) \in WholeChannel /\ NewChannel(key).there = "yes" /\ Torn.there = "torn"
    BY <1>2, HomeAssumption DEF NewChannel, WholeChannel, Torn
  <2> QED
    BY <1>1, <2>1
<1>4. UNCHANGED <<cli, receipts, overlap>> /\ receipts = {} /\ \A u \in Terminals : Idle(u)
  BY DEF PaymentOpen, HomeInv, PaymentInv, NothingBefore
<1>5. PaymentTypes'
  BY <1>3, <1>4 DEF HomeInv, PaymentInv, PaymentTypes
<1>6. OneAtATime' /\ Ascending'
  BY <1>4 DEF OneAtATime, Ascending, Idle
<1> QED
  BY <1>3, <1>5, <1>6 DEF PaymentInv, NothingBefore

\* A command begins: unless that overlaps, it is the only one.
LEMMA CommandBegins ==
  ASSUME HomeInv, NEW t \in Terminals, NEW work \in Commands, work.at # "idle",
         channel.there = "yes", Begin(t, work), UNCHANGED <<channel, receipts>>,
         work.at = "send" =>
            /\ work.ch.nonce = channel.nonce + 1 /\ work.ch.paid > channel.paid
            /\ work.receipt.nonce = work.ch.nonce /\ work.receipt.amount = work.ch.paid,
         work.at = "close" => work.ch.nonce = channel.nonce /\ work.ch.paid = channel.paid,
         work.at # "receipt"
  PROVE  PaymentInv'
<1>1. /\ cli[t].at = "idle" /\ cli' = [cli EXCEPT ![t] = work]
      /\ overlap' = (overlap \/ \E u \in Terminals : cli[u].at # "idle")
  BY DEF Begin
<1>2. cli \in [Terminals -> Commands]
  BY DEF HomeInv, PaymentInv, PaymentTypes
<1>3. cli' \in [Terminals -> Commands] /\ cli'[t] = work /\ \A u \in Terminals \ {t} : cli'[u] = cli[u]
  BY <1>1, <1>2
<1>4. PaymentTypes'
  BY <1>1, <1>3 DEF HomeInv, PaymentInv, PaymentTypes
<1>5. ASSUME ~ overlap' PROVE OneAtATime' /\ Ascending'
  <2>1. ~ overlap /\ \A u \in Terminals : cli[u].at = "idle"
    BY <1>1, <1>5
  <2>2. \A u \in Terminals \ {t} : cli'[u].at = "idle"
    BY <1>3, <2>1
  <2>3. Ascending'
    BY <2>1 DEF HomeInv, PaymentInv, Ascending
  <2>4. OneAtATime'
    BY <1>3, <2>2 DEF OneAtATime, Idle
  <2> QED
    BY <2>3, <2>4
<1>6. NothingBefore'
  BY DEF NothingBefore
<1> QED
  BY <1>4, <1>5, <1>6 DEF PaymentInv

LEMMA ReceiptSigned ==
  ASSUME HomeInv, NEW t \in Terminals, NEW inc \in 1..Deposit, SignReceipt(t, inc)
  PROVE  PaymentInv'
<1> DEFINE ch == [channel EXCEPT !.nonce = @ + 1, !.paid = @ + inc]
           rc == [nonce |-> ch.nonce, amount |-> channel.paid + inc]
           work == [at |-> "send", ch |-> ch, receipt |-> rc]
<1>1. /\ channel.there = "yes" /\ channel.paid + inc <= Deposit
      /\ Begin(t, work) /\ UNCHANGED <<channel, receipts>>
  BY DEF SignReceipt, Signed
<1>2. channel \in WholeChannel
  BY <1>1, ChannelKinds DEF HomeInv, PaymentInv
<1>3. channel.nonce \in Nat /\ channel.paid \in 0..Deposit /\ Deposit \in Nat /\ inc \in Nat \ {0}
  BY <1>2, HomeAssumption DEF WholeChannel
<1>4. /\ ch.nonce = channel.nonce + 1 /\ ch.paid = channel.paid + inc
      /\ ch \in WholeChannel
  <2>1. channel.nonce + 1 \in Nat /\ channel.paid + inc \in 0..Deposit
    BY <1>1, <1>3
  <2>2. \A k \in Nat, p \in 0..Deposit :
          LET c == [channel EXCEPT !.nonce = k, !.paid = p]
          IN  c \in WholeChannel /\ c.nonce = k /\ c.paid = p
    BY <1>2 DEF WholeChannel
  <2> QED
    BY <2>1, <2>2
<1>5. rc.nonce = ch.nonce /\ rc.amount = ch.paid /\ rc \in Promise
  <2> HIDE DEF ch
  <2> QED
    BY <1>1, <1>3, <1>4 DEF Promise
<1>6. work.at = "send" /\ work.ch = ch /\ work.receipt = rc /\ work \in Commands
  <2> HIDE DEF ch, rc
  <2> QED
    BY <1>4, <1>5 DEF Commands
<1>7. ch.paid > channel.paid
  BY <1>3, <1>4
<1> HIDE DEF work, ch, rc
<1> QED
  BY <1>1, <1>4, <1>5, <1>6, <1>7, CommandBegins

LEMMA ChannelCloses ==
  ASSUME HomeInv, NEW t \in Terminals, CloseChannel(t)
  PROVE  PaymentInv'
<1> DEFINE ch == [channel EXCEPT !.state = "closed"]
           work == [at |-> "close", ch |-> ch]
<1>1. channel.there = "yes" /\ Begin(t, work) /\ UNCHANGED <<channel, receipts>>
  BY DEF CloseChannel
<1>2. channel \in WholeChannel
  BY <1>1, ChannelKinds DEF HomeInv, PaymentInv
<1>3. ch \in WholeChannel /\ ch.nonce = channel.nonce /\ ch.paid = channel.paid
  BY <1>2 DEF WholeChannel
<1>4. work.at = "close" /\ work.ch = ch /\ work \in Commands
  <2> HIDE DEF ch
  <2> QED
    BY <1>3 DEF Commands
<1> HIDE DEF work, ch
<1> QED
  BY <1>1, <1>3, <1>4, CommandBegins

LEMMA ChannelSaved ==
  ASSUME HomeInv, NEW t \in Terminals, SaveChannel(t)
  PROVE  PaymentInv'
<1>0. PaymentTypes /\ NothingBefore /\ (~ overlap => OneAtATime /\ Ascending)
  BY DEF HomeInv, PaymentInv
<1>1. /\ cli[t].at \in {"send", "close"} /\ channel' = cli[t].ch
      /\ cli' = IF cli[t].at = "send" THEN [cli EXCEPT ![t].at = "receipt"] ELSE [cli EXCEPT ![t] = Resting]
      /\ UNCHANGED <<receipts, overlap>>
  BY DEF SaveChannel
<1>2. channel' \in WholeChannel /\ channel'.there = "yes"
  BY <1>0, <1>1, CommandKinds DEF WholeChannel
<1>3. cli \in [Terminals -> Commands]
  BY <1>0 DEF PaymentTypes
<1>4. /\ cli' \in [Terminals -> Commands]
      /\ \A u \in Terminals \ {t} : cli'[u] = cli[u]
      /\ cli[t].at = "send" => cli'[t].at = "receipt" /\ cli'[t].receipt = cli[t].receipt
      /\ cli[t].at = "close" => cli'[t].at = "idle"
  <2>1. CASE cli[t].at = "send"
    <3> DEFINE done == [cli[t] EXCEPT !.at = "receipt"]
    <3>1. cli[t] \in [at : {"send", "receipt"}, ch : WholeChannel, receipt : Promise]
      BY <1>0, <2>1, CommandKinds
    <3>2. done \in Commands /\ done.at = "receipt" /\ done.receipt = cli[t].receipt
      BY <3>1 DEF Commands
    <3>3. cli' = [cli EXCEPT ![t] = done]
      BY <1>1, <1>3, <2>1
    <3> HIDE DEF done
    <3> QED
      BY <1>3, <2>1, <3>2, <3>3
  <2>2. CASE cli[t].at = "close"
    <3>1. Resting \in Commands /\ Resting.at = "idle"
      BY DEF Commands, Resting
    <3> QED
      BY <1>1, <1>3, <2>2, <3>1
  <2> QED
    BY <1>1, <2>1, <2>2
<1>5. PaymentTypes'
  BY <1>0, <1>1, <1>2, <1>4 DEF PaymentTypes
<1>6. ASSUME ~ overlap' PROVE OneAtATime' /\ Ascending'
  <2>1. OneAtATime /\ Ascending
    BY <1>0, <1>1, <1>6
  <2>2. ~ Idle(t) /\ channel.there = "yes" /\ channel \in WholeChannel
    BY <1>0, <1>1, <2>1, ChannelKinds DEF OneAtATime, Idle
  <2>3. \A u \in Terminals \ {t} : cli[u].at = "idle" /\ cli'[u].at = "idle"
    BY <1>4, <2>1, <2>2 DEF OneAtATime, Idle
  <2>4. /\ channel.nonce \in Nat /\ channel.paid \in Nat /\ channel'.nonce \in Nat /\ channel'.paid \in Nat
        /\ \A r \in receipts : r.nonce \in Nat /\ r.amount \in Nat
    BY <1>0, <1>2, <2>2, HomeAssumption DEF WholeChannel, PaymentTypes, Promise
  <2>5. \A r \in receipts : r.nonce <= channel.nonce /\ r.amount <= channel.paid
    BY <2>1, <2>2 DEF Ascending
  <2>6. CASE cli[t].at = "send"
    <3>1. /\ channel'.nonce = channel.nonce + 1 /\ channel'.paid > channel.paid
          /\ cli[t].receipt.nonce = channel'.nonce /\ cli[t].receipt.amount = channel'.paid
      BY <1>1, <2>1, <2>6 DEF OneAtATime
    <3>2. \A r \in receipts : r.nonce < channel'.nonce /\ r.amount < channel'.paid
      BY <2>4, <2>5, <3>1
    <3>3. cli'[t].at = "receipt" /\ cli'[t].receipt.nonce = channel'.nonce /\ cli'[t].receipt.amount = channel'.paid
      BY <1>4, <2>6, <3>1
    <3>4. OneAtATime'
      BY <1>1, <1>2, <2>3, <3>2, <3>3 DEF OneAtATime, Idle
    <3>5. Ascending'
      BY <1>1, <2>1, <2>4, <3>2 DEF Ascending
    <3> QED
      BY <3>4, <3>5
  <2>7. CASE cli[t].at = "close"
    <3>1. channel'.nonce = channel.nonce /\ channel'.paid = channel.paid
      BY <1>1, <2>1, <2>7 DEF OneAtATime
    <3>2. \A u \in Terminals : cli'[u].at = "idle"
      BY <1>4, <2>3, <2>7
    <3>3. OneAtATime'
      BY <3>2 DEF OneAtATime, Idle
    <3>4. Ascending'
      BY <1>1, <2>1, <2>5, <3>1 DEF Ascending
    <3> QED
      BY <3>3, <3>4
  <2> QED
    BY <1>1, <2>6, <2>7
<1>7. NothingBefore'
  BY <1>2 DEF NothingBefore
<1> QED
  BY <1>5, <1>6, <1>7 DEF PaymentInv

LEMMA ReceiptSaved ==
  ASSUME HomeInv, NEW t \in Terminals, SaveReceipt(t)
  PROVE  PaymentInv'
<1>0. PaymentTypes /\ NothingBefore /\ (~ overlap => OneAtATime /\ Ascending)
  BY DEF HomeInv, PaymentInv
<1> DEFINE rc == cli[t].receipt
<1>1. /\ cli[t].at = "receipt" /\ receipts' = receipts \union {rc}
      /\ cli' = [cli EXCEPT ![t] = Resting]
      /\ UNCHANGED <<channel, overlap>>
  BY DEF SaveReceipt
<1>2. rc \in Promise
  BY <1>0, <1>1, CommandKinds
<1>3. /\ cli' \in [Terminals -> Commands] /\ cli'[t].at = "idle"
      /\ \A u \in Terminals \ {t} : cli'[u] = cli[u]
  <2>1. Resting \in Commands /\ Resting.at = "idle"
    BY DEF Commands, Resting
  <2> QED
    BY <1>0, <1>1, <2>1 DEF PaymentTypes
<1> HIDE DEF rc
<1>4. PaymentTypes'
  BY <1>0, <1>1, <1>2, <1>3 DEF PaymentTypes
<1>5. ASSUME ~ overlap' PROVE OneAtATime' /\ Ascending'
  <2>1. OneAtATime /\ Ascending
    BY <1>0, <1>1, <1>5
  <2>2. ~ Idle(t) /\ channel.there = "yes" /\ channel \in WholeChannel
    BY <1>0, <1>1, <2>1, ChannelKinds DEF OneAtATime, Idle
  <2>3. \A u \in Terminals : cli'[u].at = "idle"
    BY <1>3, <2>1, <2>2 DEF OneAtATime, Idle
  <2>4. /\ rc.nonce = channel.nonce /\ rc.amount = channel.paid
        /\ \A r \in receipts : r.nonce < rc.nonce /\ r.amount < rc.amount
    BY <1>1, <2>1 DEF OneAtATime, rc
  <2>5. /\ channel.nonce \in Nat /\ channel.paid \in Nat /\ rc.nonce \in Nat /\ rc.amount \in Nat
        /\ \A r \in receipts : r.nonce \in Nat /\ r.amount \in Nat
    BY <1>0, <1>2, <2>2, HomeAssumption DEF WholeChannel, PaymentTypes, Promise
  <2>6. OneAtATime'
    BY <2>3 DEF OneAtATime, Idle
  <2>7. Ascending'
    <3>1. \A r1, r2 \in receipts' : r1.nonce = r2.nonce => r1 = r2
      BY <1>1, <2>1, <2>4, <2>5 DEF Ascending
    <3>2. \A r1, r2 \in receipts' : r1.nonce < r2.nonce => r1.amount < r2.amount
      BY <1>1, <2>1, <2>4, <2>5 DEF Ascending
    <3>3. \A r \in receipts' : r.nonce <= channel.nonce /\ r.amount <= channel.paid
      BY <1>1, <2>4, <2>5
    <3> QED
      BY <1>1, <3>1, <3>2, <3>3 DEF Ascending
  <2> QED
    BY <2>6, <2>7
<1>6. NothingBefore'
  BY <1>0, <1>1 DEF NothingBefore, Idle
<1> QED
  BY <1>4, <1>5, <1>6 DEF PaymentInv

LEMMA CommandKilled ==
  ASSUME HomeInv, NEW t \in Terminals, Killed(t)
  PROVE  PaymentInv'
<1>0. PaymentTypes /\ NothingBefore /\ (~ overlap => OneAtATime /\ Ascending)
  BY DEF HomeInv, PaymentInv
<1>1. /\ cli[t].at # "idle" /\ channel' \in {channel, Torn}
      /\ cli' = [cli EXCEPT ![t] = Resting]
      /\ UNCHANGED <<receipts, overlap>>
  BY DEF Killed
<1>2. /\ cli' \in [Terminals -> Commands] /\ cli'[t].at = "idle"
      /\ \A u \in Terminals \ {t} : cli'[u] = cli[u]
  <2>1. Resting \in Commands /\ Resting.at = "idle"
    BY DEF Commands, Resting
  <2> QED
    BY <1>0, <1>1, <2>1 DEF PaymentTypes
<1>3. Torn.there = "torn"
  BY DEF Torn
<1>4. PaymentTypes'
  BY <1>0, <1>1, <1>2 DEF PaymentTypes
<1>5. ASSUME ~ overlap' PROVE OneAtATime' /\ Ascending'
  <2>1. OneAtATime /\ Ascending
    BY <1>0, <1>1, <1>5
  <2>2. \A u \in Terminals : cli'[u].at = "idle"
    BY <1>1, <1>2, <2>1 DEF OneAtATime, Idle
  <2>3. OneAtATime'
    BY <2>2 DEF OneAtATime, Idle
  <2>4. Ascending'
    BY <1>1, <1>3, <2>1 DEF Ascending
  <2> QED
    BY <2>3, <2>4
<1>6. NothingBefore'
  <2>1. channel.there # "no"
    BY <1>0, <1>1 DEF NothingBefore, Idle
  <2> QED
    BY <1>1, <1>3, <2>1 DEF NothingBefore
<1> QED
  BY <1>4, <1>5, <1>6 DEF PaymentInv

LEMMA HomeStep == HomeInv /\ [HomeNext]_homeVars => HomeInv'
<1> SUFFICES ASSUME HomeInv, [HomeNext]_homeVars PROVE HomeInv'
  OBVIOUS
<1>1. ASSUME UNCHANGED walletVars PROVE WalletTypes'
  BY <1>1 DEF walletVars, HomeInv, WalletTypes
<1>2. ASSUME UNCHANGED paymentVars PROVE PaymentInv'
  BY <1>2 DEF paymentVars, HomeInv, PaymentInv, PaymentTypes, NothingBefore, OneAtATime, Ascending, Idle
<1>3. CASE UNCHANGED homeVars
  BY <1>1, <1>2, <1>3 DEF homeVars, walletVars, paymentVars, HomeInv
<1>4. CASE WalletStep /\ UNCHANGED paymentVars
  BY <1>2, <1>4, WalletTyped DEF HomeInv
<1>5. CASE PaymentStep /\ UNCHANGED walletVars
  <2>1. PaymentInv'
    BY <1>5, PaymentOpens, ReceiptSigned, ChannelCloses, ChannelSaved, ReceiptSaved, CommandKilled
       DEF PaymentStep
  <2> QED
    BY <1>1, <1>5, <2>1 DEF HomeInv
<1> QED
  BY <1>3, <1>4, <1>5 DEF HomeNext

\* For any terminals, seeds and passphrases, wherever commands are killed: a phrase is the
\* wallet it was written down for, and, as long as payment commands do not overlap, no
\* nonce is signed twice and later receipts are worth more.
THEOREM HomeIsConsistent == HomeSpec => []HomeConsistent
<1>1. HomeInv => HomeConsistent
  <2> SUFFICES ASSUME HomeInv PROVE HomeConsistent
    OBVIOUS
  <2>1. WalletTypes /\ PaymentTypes /\ (~ overlap => Ascending)
    BY DEF HomeInv, PaymentInv
  <2>2. \A p \in phrases : p.phrase \in drawn /\ p.key = <<p.phrase, p.passphrase>> /\ p.key \in Keys
    BY <2>1 DEF WalletTypes, MnemonicKey, Keys
  <2>3. wallet = NoFile \/ wallet.by \in {"user", "node"}
    BY <2>1 DEF WalletTypes, WalletFiles
  <2>4. wallet.there = "yes" => wallet.key \in Keys /\ wallet.lock \in {Plain, Password}
    BY <2>1 DEF WalletTypes, WalletFiles, NoFile
  <2>5. channel.there = "yes" => channel.paid \in 0..Deposit
    BY <2>1, ChannelKinds DEF WholeChannel
  <2>6. HomeTypeOK
    BY <2>1, <2>2, <2>3, <2>4, <2>5, CommandKinds DEF HomeTypeOK, WalletTypes, PaymentTypes
  <2>7. PhraseIsTheWallet
    BY <2>2 DEF PhraseIsTheWallet, MnemonicKey
  <2>8. NonceSignedOnce /\ ReceiptsGrow
    BY <2>1 DEF NonceSignedOnce, ReceiptsGrow, Ascending, PaymentTypes, Promise
  <2> QED
    BY <2>6, <2>7, <2>8 DEF HomeConsistent
<1> QED
  BY <1>1, HomeStart, HomeStep, PTL DEF HomeSpec

-----------------------------------------------------------------------------
(* The compute market *)

JobRecord == [status : JobStatus \cup {"none"}, worker : Wallets \cup {NoWallet},
              price : Prices \cup {0}, need : Needs \cup {0}, late : BOOLEAN]
WorkerRecord == [available : BOOLEAN, online : BOOLEAN, completed : Nat, failed : Nat, earned : Nat]
Markets == [jobs : [JobIds -> JobRecord], workers : [Workers -> WorkerRecord], registry : Seq(Workers)]

\* The jobs that are assigned to a wallet, and the records of it that are taken.
Booked(js, v) == {j \in JobIds : js[j].status = "ASSIGNED" /\ js[j].worker = v}
Taken(ws, reg, v) == {w \in {u \in Range(reg) : WalletOf[u] = v} : ~ ws[w].available}
Fits(V, js, ws, reg) == \A v \in V : Cardinality(Booked(js, v)) <= Cardinality(Taken(ws, reg, v))

\* The wallets that no posted job claims
Clear == Wallets \ claimed

\* What trying to assign jobs does to a market: jobs that wait become assigned, and the
\* workers keep what they earned.
Moved(m, n) ==
    /\ n.registry = m.registry
    /\ \A w \in Workers : n.workers[w].earned = m.workers[w].earned
    /\ \A j \in JobIds : \/ n.jobs[j].status = m.jobs[j].status
                         \/ m.jobs[j].status = "PENDING" /\ n.jobs[j].status = "ASSIGNED"

LEMMA BookFinite ==
  ASSUME NEW js, NEW ws, NEW reg \in Seq(Workers), NEW v
  PROVE  /\ IsFiniteSet(Booked(js, v)) /\ IsFiniteSet(Taken(ws, reg, v))
         /\ Cardinality(Booked(js, v)) \in Nat /\ Cardinality(Taken(ws, reg, v)) \in Nat
<1>1. Booked(js, v) \subseteq JobIds /\ Taken(ws, reg, v) \subseteq Range(reg)
  BY DEF Booked, Taken
<1>2. IsFiniteSet(JobIds) /\ IsFiniteSet(Range(reg))
  BY ComputeAssumption, RangeFinite
<1> QED
  BY <1>1, <1>2, FS_Subset, FS_CardinalityType

\* A worker that is given a job was available: the job and the record are counted together.
LEMMA AssignFits ==
  ASSUME NEW V \in SUBSET Wallets, NEW m \in Markets, Fits(V, m.jobs, m.workers, m.registry),
         NEW j \in JobIds, m.jobs[j].status = "PENDING",
         NEW w \in Range(m.registry), m.workers[w].available
  PROVE  LET n == Assign(m, j, w)
         IN  n \in Markets /\ Fits(V, n.jobs, n.workers, n.registry) /\ Moved(m, n)
<1> DEFINE n == Assign(m, j, w)
<1>1. w \in Workers /\ WalletOf[w] \in Wallets
  BY RangeFinite DEF Markets, Wallets
<1> DEFINE job == [m.jobs[j] EXCEPT !.status = "ASSIGNED", !.worker = WalletOf[w]]
           worker == [m.workers[w] EXCEPT !.available = FALSE]
<1>a. /\ m.jobs \in [JobIds -> JobRecord] /\ m.workers \in [Workers -> WorkerRecord]
      /\ m.registry \in Seq(Workers)
      /\ m = [jobs |-> m.jobs, workers |-> m.workers, registry |-> m.registry]
  BY DEF Markets
<1>b. n = [jobs |-> [m.jobs EXCEPT ![j] = job], workers |-> [m.workers EXCEPT ![w] = worker],
           registry |-> m.registry]
  <2>1. [m.jobs EXCEPT ![j].status = "ASSIGNED", ![j].worker = WalletOf[w]] = [m.jobs EXCEPT ![j] = job]
    BY <1>a
  <2>2. [m.workers EXCEPT ![w].available = FALSE] = [m.workers EXCEPT ![w] = worker]
    BY <1>a
  <2> HIDE DEF job, worker
  <2> QED
    BY <2>1, <2>2 DEF Assign
<1>2. /\ n.registry = m.registry
      /\ n.jobs = [m.jobs EXCEPT ![j] = job]
      /\ n.workers = [m.workers EXCEPT ![w] = worker]
      /\ n = [jobs |-> n.jobs, workers |-> n.workers, registry |-> n.registry]
  <2> HIDE DEF n
  <2> QED
    BY <1>b
<1> HIDE DEF n
<1>3. n.jobs \in [JobIds -> JobRecord]
  <2>1. job \in JobRecord
    BY <1>1, <1>a DEF JobRecord, JobStatus
  <2> HIDE DEF job
  <2> QED
    BY <1>2, <1>a, <2>1
<1>4. n.workers \in [Workers -> WorkerRecord]
  <2>1. worker \in WorkerRecord
    BY <1>1, <1>a DEF WorkerRecord
  <2> HIDE DEF worker
  <2> QED
    BY <1>2, <1>a, <2>1
<1>5. n \in Markets
  BY <1>2, <1>3, <1>4 DEF Markets
<1>6. Moved(m, n)
  BY <1>1, <1>2 DEF Moved, Markets, JobRecord, WorkerRecord
<1>7. ASSUME NEW v \in V
      PROVE  Cardinality(Booked(n.jobs, v)) <= Cardinality(Taken(n.workers, n.registry, v))
  <2>1. Cardinality(Booked(m.jobs, v)) <= Cardinality(Taken(m.workers, m.registry, v))
    BY DEF Fits
  <2>2. m.registry \in Seq(Workers)
    BY DEF Markets
  <2>3. /\ IsFiniteSet(Booked(m.jobs, v)) /\ IsFiniteSet(Taken(m.workers, m.registry, v))
        /\ Cardinality(Booked(m.jobs, v)) \in Nat /\ Cardinality(Taken(m.workers, m.registry, v)) \in Nat
    BY <2>2, BookFinite
  <2>4. CASE v = WalletOf[w]
    <3>1. Booked(n.jobs, v) = Booked(m.jobs, v) \cup {j} /\ j \notin Booked(m.jobs, v)
      BY <1>2, <2>4 DEF Booked, Markets, JobRecord
    <3>2. Taken(n.workers, n.registry, v) = Taken(m.workers, m.registry, v) \cup {w}
      BY <1>1, <1>2, <2>4 DEF Taken, Markets, WorkerRecord
    <3>3. w \notin Taken(m.workers, m.registry, v)
      BY DEF Taken
    <3>4. Cardinality(Booked(n.jobs, v)) = Cardinality(Booked(m.jobs, v)) + 1
      BY <2>3, <3>1, FS_AddElement
    <3>5. Cardinality(Taken(n.workers, n.registry, v)) = Cardinality(Taken(m.workers, m.registry, v)) + 1
      BY <2>3, <3>2, <3>3, FS_AddElement
    <3> QED
      BY <2>1, <2>3, <3>4, <3>5
  <2>5. CASE v # WalletOf[w]
    <3>1. Booked(n.jobs, v) = Booked(m.jobs, v)
      BY <1>2, <2>5 DEF Booked, Markets, JobRecord
    <3>2. Taken(n.workers, n.registry, v) = Taken(m.workers, m.registry, v)
      BY <1>1, <1>2, <2>5 DEF Taken, Markets, WorkerRecord
    <3> QED
      BY <2>1, <3>1, <3>2
  <2> QED
    BY <2>4, <2>5
<1>8. Fits(V, n.jobs, n.workers, n.registry)
  BY <1>7 DEF Fits
<1> QED
  BY <1>5, <1>6, <1>8 DEF n

\* best_worker_for answers with a registered worker that is available, or with nobody.
LEMMA BestAvailable ==
  ASSUME NEW m \in Markets, NEW need, NEW w \in BestWorker(m, need)
  PROVE  w \in Range(m.registry) /\ m.workers[w].available
<1> DEFINE can == {i \in DOMAIN m.registry : CanHandle(m.registry[i], m.workers[m.registry[i]], need)}
           best == {i \in can : \A k \in can : Score(m.registry[i], m.workers[m.registry[i]], need)
                                                 >= Score(m.registry[k], m.workers[m.registry[k]], need)}
<1>1. best # {} /\ w = m.registry[Min(best)]
  BY DEF BestWorker
<1>2. best \subseteq Nat
  BY DEF Markets
<1>3. \E x \in best : \A y \in best : x <= y
  BY <1>1, <1>2, Least
<1>4. Min(best) \in best
  BY <1>3 DEF Min
<1>5. Min(best) \in DOMAIN m.registry /\ CanHandle(m.registry[Min(best)], m.workers[m.registry[Min(best)]], need)
  BY <1>4
<1> HIDE DEF best
<1> QED
  BY <1>1, <1>5 DEF Range, CanHandle

LEMMA TryAssignFits ==
  ASSUME NEW V \in SUBSET Wallets, NEW m \in Markets, Fits(V, m.jobs, m.workers, m.registry), NEW j \in JobIds
  PROVE  LET n == TryAssign(m, j)
         IN  n \in Markets /\ Fits(V, n.jobs, n.workers, n.registry) /\ Moved(m, n)
<1> DEFINE best == BestWorker(m, m.jobs[j].need)
<1>1. CASE m.jobs[j].status = "PENDING" /\ best # {}
  <2>1. (CHOOSE w \in best : TRUE) \in best
    BY <1>1
  <2> QED
    BY <1>1, <2>1, BestAvailable, AssignFits DEF TryAssign
<1>2. CASE ~ (m.jobs[j].status = "PENDING" /\ best # {})
  BY <1>2 DEF TryAssign, Moved
<1> QED
  BY <1>1, <1>2

\* The markets that trying to assign can lead to.
Later(V, m) == {n \in Markets : Fits(V, n.jobs, n.workers, n.registry) /\ Moved(m, n)}

LEMMA LaterStep ==
  ASSUME NEW V \in SUBSET Wallets, NEW m, NEW n \in Later(V, m), NEW j \in JobIds
  PROVE  TryAssign(n, j) \in Later(V, m)
<1> DEFINE k == TryAssign(n, j)
<1>1. k \in Markets /\ Fits(V, k.jobs, k.workers, k.registry) /\ Moved(n, k) /\ Moved(m, n)
  BY TryAssignFits DEF Later
<1> HIDE DEF k
<1>2. Moved(m, k)
  BY <1>1 DEF Moved
<1> QED
  BY <1>1, <1>2 DEF Later, k

LEMMA RetryFits ==
  ASSUME NEW V \in SUBSET Wallets, NEW m \in Markets, Fits(V, m.jobs, m.workers, m.registry), order \in Seq(JobIds)
  PROVE  RetryPending(m) \in Later(V, m)
<1> DEFINE Next(f) == [i \in 0..Len(order) |-> IF i = 0 THEN m ELSE TryAssign(f[i - 1], order[i])]
           steps == [i \in 1..Len(order) |-> [n \in Later(V, m) |-> TryAssign(n, order[i])]]
           after == CHOOSE f : f = Next(f)
<1>0. Len(order) \in Nat /\ \A i \in 1..Len(order) : order[i] \in JobIds
  OBVIOUS
<1>1. m \in Later(V, m)
  BY DEF Later, Moved
<1>2. steps \in [1..Len(order) -> [Later(V, m) -> Later(V, m)]]
  BY <1>0, LaterStep
<1>3. PICK f \in [0..Len(order) -> Later(V, m)] :
          \A i \in 0..Len(order) : f[i] = IF i = 0 THEN m ELSE steps[i][f[i - 1]]
  <2> DEFINE S == Later(V, m)
             k == Len(order)
  <2>1. k \in Nat /\ m \in S /\ steps \in [1..k -> [S -> S]]
    BY <1>0, <1>1, <1>2
  <2> HIDE DEF steps, S, k
  <2>2. \E f \in [0..k -> S] : Takes(f, m, steps, k)
    BY ONLY <2>1, Iterates
  <2> QED
    BY ONLY <2>2 DEF S, k, Takes
<1>4. f = Next(f)
  <2>1. ASSUME NEW i \in 0..Len(order), i # 0 PROVE steps[i][f[i - 1]] = TryAssign(f[i - 1], order[i])
    <3>1. i \in 1..Len(order) /\ i - 1 \in 0..Len(order)
      BY <1>0, <2>1
    <3>2. f[i - 1] \in Later(V, m)
      BY <3>1
    <3> QED
      BY <3>1, <3>2
  <2> HIDE DEF steps
  <2> QED
    BY <1>3, <2>1
<1>5. after = Next(after)
  BY <1>4
<1> DEFINE G == {i \in Nat : i <= Len(order) => after[i] \in Later(V, m)}
<1> HIDE DEF after
<1>6. \A i \in 0..Len(order) : after[i] = IF i = 0 THEN m ELSE TryAssign(after[i - 1], order[i])
  BY <1>5
<1>7. 0 \in G
  BY <1>0, <1>1, <1>6
<1>8. ASSUME NEW i \in Nat, i \in G PROVE i + 1 \in G
  <2>1. CASE i + 1 <= Len(order)
    <3>1. i + 1 \in 0..Len(order) /\ i + 1 # 0 /\ i + 1 - 1 = i /\ i + 1 \in 1..Len(order)
      BY <1>0, <2>1
    <3>2. after[i + 1] = TryAssign(after[i], order[i + 1])
      BY <1>6, <3>1
    <3>3. after[i] \in Later(V, m)
      BY <1>0, <1>8, <2>1
    <3> QED
      BY <1>0, <3>1, <3>2, <3>3, LaterStep
  <2>2. CASE ~ (i + 1 <= Len(order))
    BY <2>2
  <2> QED
    BY <2>1, <2>2
<1>9. Len(order) \in G
  <2> HIDE DEF G
  <2> QED
    BY <1>0, <1>7, <1>8, NatSetInduction
<1>10. RetryPending(m) = after[Len(order)]
  BY DEF RetryPending, after
<1> QED
  BY <1>0, <1>9, <1>10

-----------------------------------------------------------------------------

Payment == [job : JobIds, wallet : Wallets, amount : Nat]
Earnings(ws) == [w \in Workers |-> ws[w].earned]
Amounts(log) == [i \in DOMAIN log |-> log[i].amount]
PaidTo(log, v) == SumFunctionOnSet(Amounts(log), {i \in DOMAIN log : log[i].wallet = v})
EarnedBy(ws, reg, v) == SumFunctionOnSet(Earnings(ws), {w \in Range(reg) : WalletOf[w] = v})
Match(V, ws, reg, log) ==
    /\ \A v \in Wallets : EarnedBy(ws, reg, v) <= PaidTo(log, v)
    /\ \A v \in V : EarnedBy(ws, reg, v) = PaidTo(log, v)

\* The market's dictionaries are typed, each assigned job holds a record of its wallet, unless
\* a posted job claims the wallet, and what the records have earned is in the payment log,
\* where nothing is for a worker that never registered.
ComputeInv ==
    /\ ComputeTypeOK
    /\ payments \in Seq(Payment)
    /\ Fits(Clear, jobs, workers, registry)
    /\ Match(Clear, workers, registry, payments)
    /\ \A w \in Workers : w \notin Range(registry) => workers[w].earned = 0

\* One more payment is one more summand.
LEMMA PaidAppend ==
  ASSUME NEW log \in Seq(Payment), NEW p \in Payment, NEW v
  PROVE  PaidTo(log, v) \in Nat
         /\ PaidTo(Append(log, p), v) = PaidTo(log, v) + IF p.wallet = v THEN p.amount ELSE 0
<1> DEFINE more == Append(log, p)
           S == {i \in DOMAIN log : log[i].wallet = v}
           T == {i \in DOMAIN more : more[i].wallet = v}
           last == Len(log) + 1
<1>1. /\ DOMAIN log = 1..Len(log) /\ DOMAIN more = 1..last /\ Len(log) \in Nat
      /\ \A i \in 1..Len(log) : more[i] = log[i] /\ log[i] \in Payment
      /\ more[last] = p /\ p.amount \in Nat
  <2>1. DOMAIN log = 1..Len(log) /\ Len(log) \in Nat /\ \A i \in 1..Len(log) : log[i] \in Payment
    OBVIOUS
  <2>2. DOMAIN more = 1..last /\ more[last] = p /\ \A i \in 1..Len(log) : more[i] = log[i]
    OBVIOUS
  <2>3. p.amount \in Nat
    BY DEF Payment
  <2> QED
    BY <2>1, <2>2, <2>3
<1>2. IsFiniteSet(DOMAIN log) /\ IsFiniteSet(DOMAIN more)
  <2>1. last \in Int /\ Len(log) \in Int /\ 1 \in Int
    BY <1>1
  <2> HIDE DEF last, more
  <2>2. IsFiniteSet(1..last) /\ IsFiniteSet(1..Len(log))
    BY <2>1, FS_Interval
  <2> QED
    BY <1>1, <2>2
<1>3. IsFiniteSet(S) /\ IsFiniteSet(T) /\ last \notin S
  BY <1>1, <1>2, FS_Subset
<1>4. \A i \in S : Amounts(log)[i] \in Nat /\ Amounts(more)[i] = Amounts(log)[i]
  BY <1>1 DEF Amounts, Payment
<1>5. T = IF p.wallet = v THEN S \cup {last} ELSE S
  <2>1. DOMAIN more = DOMAIN log \cup {last}
    BY <1>1
  <2> HIDE DEF more, last
  <2> QED
    BY <1>1, <2>1
<1>6. Amounts(more)[last] = p.amount
  BY <1>1 DEF Amounts
<1>7. PaidTo(log, v) = SumFunctionOnSet(Amounts(log), S)
  BY DEF PaidTo
<1>8. PaidTo(more, v) = SumFunctionOnSet(Amounts(more), T)
  BY DEF PaidTo
<1> HIDE DEF S, T, more, last
<1>9. SumFunctionOnSet(Amounts(more), S) = SumFunctionOnSet(Amounts(log), S)
  BY <1>3, <1>4, SumCong
<1>10. SumFunctionOnSet(Amounts(log), S) \in Nat
  BY <1>3, <1>4, SumNat
<1>11. CASE p.wallet = v
  <2>1. T = S \cup {last} /\ T \ {last} = S /\ last \in T
    BY <1>3, <1>5, <1>11
  <2>2. \A x \in T : Amounts(more)[x] \in Int
    BY <1>1, <1>4, <1>6, <2>1
  <2>3. SumFunctionOnSet(Amounts(more), T) = Amounts(more)[last] + SumFunctionOnSet(Amounts(more), T \ {last})
    BY <1>3, <2>1, <2>2, SumRemove
  <2>4. SumFunctionOnSet(Amounts(more), T) = p.amount + SumFunctionOnSet(Amounts(log), S)
    BY <1>6, <1>9, <2>1, <2>3
  <2> QED
    BY <1>1, <1>10, <1>11, <1>7, <1>8, <2>4 DEF more
<1>12. CASE p.wallet # v
  <2>1. SumFunctionOnSet(Amounts(more), T) = SumFunctionOnSet(Amounts(log), S)
    BY <1>5, <1>9, <1>12
  <2> QED
    BY <1>10, <1>12, <1>7, <1>8, <2>1 DEF more
<1> QED
  BY <1>11, <1>12

\* One record that earns more, and what it earned.
LEMMA EarnsMore ==
  ASSUME NEW ws \in [Workers -> WorkerRecord], NEW next \in [Workers -> WorkerRecord],
         NEW reg \in Seq(Workers), NEW r \in Range(reg), NEW amount \in Nat,
         next[r].earned = ws[r].earned + amount,
         \A w \in Workers : w # r => next[w] = ws[w],
         NEW v
  PROVE  EarnedBy(next, reg, v) = EarnedBy(ws, reg, v) + IF WalletOf[r] = v THEN amount ELSE 0
<1> DEFINE S == {w \in Range(reg) : WalletOf[w] = v}
<1>1. IsFiniteSet(Range(reg)) /\ Range(reg) \subseteq Workers
  BY RangeFinite
<1>2. IsFiniteSet(S) /\ S \subseteq Workers
  BY <1>1, FS_Subset
<1>3. \A w \in Workers : Earnings(ws)[w] \in Nat /\ Earnings(next)[w] \in Nat
  BY DEF Earnings, WorkerRecord
<1>4. \A w \in Workers \ {r} : Earnings(next)[w] = Earnings(ws)[w]
  BY DEF Earnings
<1>5. Earnings(next)[r] = Earnings(ws)[r] + amount
  BY <1>1 DEF Earnings
<1>6. SumFunctionOnSet(Earnings(ws), S) \in Nat
  BY <1>2, <1>3, SumNat
<1>7. CASE WalletOf[r] = v
  <2>1. r \in S
    BY <1>7
  <2> HIDE DEF S
  <2>2. SumFunctionOnSet(Earnings(next), S)
        = SumFunctionOnSet(Earnings(ws), S) - Earnings(ws)[r] + Earnings(next)[r]
    <3>1. \A x \in S : Earnings(ws)[x] \in Int /\ Earnings(next)[x] \in Int
      BY <1>2, <1>3
    <3>2. \A x \in S \ {r} : Earnings(next)[x] = Earnings(ws)[x]
      BY <1>2, <1>4
    <3> QED
      BY <1>2, <2>1, <3>1, <3>2, SumUpdate
  <2>3. SumFunctionOnSet(Earnings(next), S) = SumFunctionOnSet(Earnings(ws), S) + amount
    <3>1. Earnings(ws)[r] \in Nat
      BY <1>2, <1>3, <2>1
    <3> QED
      BY <1>5, <1>6, <2>2, <3>1
  <2> QED
    BY <1>7, <2>3 DEF EarnedBy, S
<1>8. CASE WalletOf[r] # v
  <2>1. r \notin S
    BY <1>8
  <2> HIDE DEF S
  <2>2. SumFunctionOnSet(Earnings(next), S) = SumFunctionOnSet(Earnings(ws), S)
    <3>1. \A x \in S : Earnings(next)[x] = Earnings(ws)[x]
      BY <1>2, <1>4, <2>1
    <3> QED
      BY <1>2, <3>1, SumCong
  <2> QED
    BY <1>6, <1>8, <2>2 DEF EarnedBy, S
<1> QED
  BY <1>7, <1>8

LEMMA EarnedTyped ==
  ASSUME NEW ws \in [Workers -> WorkerRecord], NEW reg \in Seq(Workers), NEW v
  PROVE  EarnedBy(ws, reg, v) \in Nat
<1>1. IsFiniteSet(Range(reg)) /\ Range(reg) \subseteq Workers
  BY RangeFinite
<1>2. IsFiniteSet({w \in Range(reg) : WalletOf[w] = v})
  BY <1>1, FS_Subset
<1>3. \A w \in {u \in Range(reg) : WalletOf[u] = v} : Earnings(ws)[w] \in Nat
  BY <1>1 DEF Earnings, WorkerRecord
<1> QED
  BY <1>2, <1>3, SumNat DEF EarnedBy

\* A wallet that has a record is found by _find_worker_by_address.
LEMMA WalletRecordFound ==
  ASSUME registry \in Seq(Workers), NEW v, Records(v) # {}
  PROVE  RecordOf(v) \in Range(registry) /\ WalletOf[RecordOf(v)] = v /\ RecordOf(v) \in Workers
<1> DEFINE own == {i \in DOMAIN registry : WalletOf[registry[i]] = v}
<1>1. own \subseteq Nat /\ own # {}
  BY DEF Records
<1>2. \E x \in own : \A y \in own : x <= y
  BY <1>1, Least
<1>3. Min(own) \in own
  BY <1>2 DEF Min
<1>4. RecordOf(v) = registry[Min(own)]
  BY DEF RecordOf, Records
<1> HIDE DEF own
<1>5. Min(own) \in DOMAIN registry /\ WalletOf[registry[Min(own)]] = v
  BY <1>3 DEF own
<1> QED
  BY <1>4, <1>5, RangeFinite DEF Range

\* Every assigned job has a record, unless a posted job claims its wallet.
LEMMA HolderFound ==
  ASSUME ComputeInv, NEW j \in JobIds, jobs[j].status = "ASSIGNED", jobs[j].worker \in Clear
  PROVE  Records(jobs[j].worker) # {}
<1> DEFINE v == jobs[j].worker
<1>1. registry \in Seq(Workers) /\ Cardinality(Booked(jobs, v)) <= Cardinality(Taken(workers, registry, v))
  BY DEF ComputeInv, ComputeTypeOK, Fits
<1>2. j \in Booked(jobs, v)
  BY DEF Booked
<1>3. Taken(workers, registry, v) # {}
  <2>1. SUFFICES ASSUME Taken(workers, registry, v) = {} PROVE FALSE
    OBVIOUS
  <2>2. IsFiniteSet(Booked(jobs, v)) /\ Cardinality(Booked(jobs, v)) \in Nat
    BY <1>1, BookFinite
  <2>3. Cardinality(Taken(workers, registry, v)) = 0
    BY <2>1, FS_EmptySet
  <2>4. Cardinality(Booked(jobs, v)) = 0
    BY <1>1, <2>2, <2>3
  <2> QED
    BY <1>2, <2>2, <2>4, FS_EmptySet
<1>4. PICK u \in Range(registry) : WalletOf[u] = v
  BY <1>3 DEF Taken
<1> QED
  BY <1>4 DEF Records, Range

\* A job that is no longer assigned lets go of at most one record of its wallet.
LEMMA ReleaseFits ==
  ASSUME NEW V \in SUBSET Wallets, NEW m \in Markets, Fits(V, m.jobs, m.workers, m.registry),
         NEW j \in JobIds, m.jobs[j].status = "ASSIGNED",
         NEW r \in Range(m.registry), WalletOf[r] = m.jobs[j].worker,
         NEW js \in [JobIds -> JobRecord], js[j].status # "ASSIGNED",
         \A i \in JobIds : i # j =>
             \/ js[i].status = m.jobs[i].status /\ js[i].worker = m.jobs[i].worker
             \/ js[i].status # "ASSIGNED" /\ m.jobs[i].status # "ASSIGNED",
         NEW rec \in WorkerRecord
  PROVE  Fits(V, js, [m.workers EXCEPT ![r] = rec], m.registry)
<1> DEFINE ws == [m.workers EXCEPT ![r] = rec]
<1>0. m.registry \in Seq(Workers) /\ m.workers \in [Workers -> WorkerRecord]
  BY DEF Markets
<1> SUFFICES ASSUME NEW v \in V
             PROVE  Cardinality(Booked(js, v)) <= Cardinality(Taken(ws, m.registry, v))
  BY DEF Fits
<1>1. Cardinality(Booked(m.jobs, v)) <= Cardinality(Taken(m.workers, m.registry, v))
  BY DEF Fits
<1>2. \A w \in Workers : w # r => ws[w] = m.workers[w]
  BY <1>0
<1> HIDE DEF ws
<1>3. /\ IsFiniteSet(Booked(m.jobs, v)) /\ IsFiniteSet(Taken(m.workers, m.registry, v))
      /\ Cardinality(Booked(m.jobs, v)) \in Nat /\ Cardinality(Taken(m.workers, m.registry, v)) \in Nat
      /\ IsFiniteSet(Booked(js, v)) /\ IsFiniteSet(Taken(ws, m.registry, v))
      /\ Cardinality(Booked(js, v)) \in Nat /\ Cardinality(Taken(ws, m.registry, v)) \in Nat
  BY <1>0, BookFinite
<1>4. Range(m.registry) \subseteq Workers
  BY <1>0, RangeFinite
<1>5. CASE v = WalletOf[r]
  <2>1. Booked(js, v) = Booked(m.jobs, v) \ {j} /\ j \in Booked(m.jobs, v)
    BY <1>5 DEF Booked
  <2>2. Cardinality(Booked(js, v)) = Cardinality(Booked(m.jobs, v)) - 1
    BY <1>3, <2>1, FS_RemoveElement
  <2>3. Taken(m.workers, m.registry, v) \ {r} \subseteq Taken(ws, m.registry, v)
    BY <1>2, <1>4 DEF Taken
  <2>4. Cardinality(Taken(m.workers, m.registry, v) \ {r}) <= Cardinality(Taken(ws, m.registry, v))
    BY <1>3, <2>3, FS_Subset
  <2>5. Cardinality(Taken(m.workers, m.registry, v) \ {r}) >= Cardinality(Taken(m.workers, m.registry, v)) - 1
    <3> DEFINE taken == Taken(m.workers, m.registry, v)
               c == Cardinality(taken)
               d == Cardinality(taken \ {r})
    <3>1. IsFiniteSet(taken) /\ c \in Nat
      BY <1>3
    <3> HIDE DEF taken
    <3>2. d = c \/ d = c - 1
      <4>1. CASE r \in taken
        BY <3>1, <4>1, FS_RemoveElement
      <4>2. CASE r \notin taken
        <5>1. taken \ {r} = taken
          BY <4>2
        <5> QED
          BY <5>1
      <4> QED
        BY <4>1, <4>2
    <3> HIDE DEF c, d
    <3>3. d >= c - 1
      BY <3>1, <3>2
    <3> QED
      BY <3>3 DEF c, d, taken
  <2>6. Cardinality(Taken(m.workers, m.registry, v) \ {r}) \in Nat
    BY <1>3, FS_Subset, FS_CardinalityType
  <2> QED
    BY <1>1, <1>3, <2>2, <2>4, <2>5, <2>6
<1>6. CASE v # WalletOf[r]
  <2>1. Booked(js, v) = Booked(m.jobs, v)
    BY <1>6 DEF Booked
  <2>2. Taken(ws, m.registry, v) = Taken(m.workers, m.registry, v)
    BY <1>2, <1>4, <1>6 DEF Taken
  <2> QED
    BY <1>1, <2>1, <2>2
<1> QED
  BY <1>5, <1>6

-----------------------------------------------------------------------------

Daemon == [up : BOOLEAN, fresh : BOOLEAN, active : SUBSET JobIds]

LEMMA MarketTyped ==
  ASSUME ComputeInv
  PROVE  /\ jobs \in [JobIds -> JobRecord] /\ workers \in [Workers -> WorkerRecord]
         /\ registry \in Seq(Workers) /\ order \in Seq(JobIds)
         /\ Range(order) = {j \in JobIds : jobs[j].status # "none"}
         /\ daemons \in [Workers -> Daemon]
         /\ Market \in Markets /\ Fits(Clear, Market.jobs, Market.workers, Market.registry)
         /\ Clear \in SUBSET Wallets
<1>1. /\ jobs \in [JobIds -> JobRecord] /\ workers \in [Workers -> WorkerRecord]
      /\ registry \in Seq(Workers)
  BY DEF ComputeInv, ComputeTypeOK, JobRecord, WorkerRecord
<1>2. Market \in Markets
  BY <1>1 DEF Market, Markets
<1>3. Market.jobs = jobs /\ Market.workers = workers /\ Market.registry = registry
  BY DEF Market
<1> QED
  BY <1>1, <1>2, <1>3 DEF ComputeInv, ComputeTypeOK, Daemon, Clear

LEMMA ComputeStart == ComputeInit => ComputeInv
<1> SUFFICES ASSUME ComputeInit PROVE ComputeInv
  OBVIOUS
<1>1. registry = <<>> /\ order = <<>> /\ payments = <<>> /\ Range(order) = {} /\ Range(registry) = {}
  BY DEF ComputeInit, Range
<1>2. \A j \in JobIds : jobs[j] = NoJob /\ NoJob.status = "none"
  BY DEF ComputeInit, NoJob, NewJob
<1>3. NoJob \in JobRecord
  BY DEF NoJob, NewJob, JobRecord
<1>4. jobs \in [JobIds -> JobRecord]
  BY <1>3 DEF ComputeInit
<1>5. ComputeTypeOK
  <2>1. workers \in [Workers -> WorkerRecord] /\ daemons \in [Workers -> Daemon]
    BY DEF ComputeInit, WorkerRecord, Daemon
  <2>2. proofs = {} /\ forwards = {} /\ submitted = {} /\ claimed = {}
    BY DEF ComputeInit
  <2> QED
    BY <1>1, <1>2, <1>4, <2>1, <2>2 DEF ComputeTypeOK, JobRecord, WorkerRecord, Daemon
<1>6. Fits(Clear, jobs, workers, registry)
  <2> SUFFICES ASSUME NEW v \in Clear
               PROVE  Cardinality(Booked(jobs, v)) <= Cardinality(Taken(workers, registry, v))
    BY DEF Fits
  <2>1. Booked(jobs, v) = {} /\ Taken(workers, registry, v) = {}
    BY <1>1, <1>2 DEF Booked, Taken
  <2> QED
    BY <2>1, FS_EmptySet
<1>7. Match(Clear, workers, registry, payments)
  <2> SUFFICES ASSUME NEW v PROVE EarnedBy(workers, registry, v) = 0 /\ PaidTo(payments, v) = 0
    BY DEF Match
  <2>1. {w \in Range(registry) : WalletOf[w] = v} = {} /\ {i \in DOMAIN payments : payments[i].wallet = v} = {}
    BY <1>1
  <2>2. EarnedBy(workers, registry, v) = 0
    BY <2>1, SumEmpty DEF EarnedBy
  <2>3. PaidTo(payments, v) = 0
    BY <2>1, SumEmpty DEF PaidTo
  <2> QED
    BY <2>2, <2>3
<1>8. \A w \in Workers : workers[w].earned = 0
  BY DEF ComputeInit
<1>9. payments \in Seq(Payment)
  BY <1>1
<1> QED
  BY <1>5, <1>6, <1>7, <1>8, <1>9 DEF ComputeInv

\* A step that ends in a market n, to which trying to assign jobs leads from a market m.
LEMMA MarketArrives ==
  ASSUME NEW V, V = Clear', NEW m \in Markets, NEW n \in Later(V, m), MarketBecomes(n),
         order' \in Seq(JobIds), Range(order') = {j \in JobIds : m.jobs[j].status # "none"},
         payments' \in Seq(Payment), Match(V, m.workers, m.registry, payments'),
         \A w \in Workers : w \notin Range(m.registry) => m.workers[w].earned = 0,
         proofs' \subseteq JobIds, forwards' \subseteq proofs', submitted' \subseteq proofs',
         daemons' \in [Workers -> Daemon], claimed' \subseteq Wallets \cup {NoWallet}
  PROVE  ComputeInv'
<1>1. jobs' = n.jobs /\ workers' = n.workers /\ registry' = n.registry
  BY DEF MarketBecomes
<1>2. n \in Markets /\ Fits(V, n.jobs, n.workers, n.registry) /\ Moved(m, n)
  BY DEF Later
<1>3. /\ n.jobs \in [JobIds -> JobRecord] /\ n.workers \in [Workers -> WorkerRecord]
      /\ n.registry \in Seq(Workers) /\ n.registry = m.registry
      /\ m.workers \in [Workers -> WorkerRecord]
  BY <1>2 DEF Markets, Moved
<1>4. {j \in JobIds : n.jobs[j].status # "none"} = {j \in JobIds : m.jobs[j].status # "none"}
  BY <1>2 DEF Moved
<1>5. ComputeTypeOK'
  BY <1>1, <1>3, <1>4 DEF ComputeTypeOK, JobRecord, WorkerRecord, Daemon
<1>6. Earnings(n.workers) = Earnings(m.workers)
  BY <1>2 DEF Earnings, Moved
<1>7. Match(V, n.workers, n.registry, payments')
  BY <1>3, <1>6 DEF Match, EarnedBy
<1>8. \A w \in Workers : w \notin Range(n.registry) => n.workers[w].earned = 0
  BY <1>2, <1>3 DEF Moved
<1>9. Fits(Clear, jobs, workers, registry)'
  BY <1>1, <1>2 DEF Fits, Booked, Taken
<1>10. Match(Clear, workers, registry, payments)'
  BY <1>1, <1>7 DEF Match, EarnedBy, PaidTo, Amounts, Earnings
<1> QED
  BY <1>1, <1>5, <1>8, <1>9, <1>10 DEF ComputeInv

LEMMA StaysThere ==
  ASSUME NEW V, NEW m \in Markets, Fits(V, m.jobs, m.workers, m.registry)
  PROVE  m \in Later(V, m)
  BY DEF Later, Moved

\* Steps that touch neither jobs nor workers.
LEMMA MarketRests ==
  ASSUME ComputeInv, UNCHANGED <<jobs, order, registry, workers, payments, claimed>>,
         proofs' \subseteq JobIds, forwards' \subseteq proofs', submitted' \subseteq proofs',
         daemons' \in [Workers -> Daemon]
  PROVE  ComputeInv'
<1>1. ComputeTypeOK'
  BY DEF ComputeInv, ComputeTypeOK, Daemon
<1>2. Fits(Clear, jobs, workers, registry)'
  BY DEF ComputeInv, Fits, Booked, Taken, Clear
<1>3. Match(Clear, workers, registry, payments)'
  BY DEF ComputeInv, Clear, Match, EarnedBy, PaidTo, Amounts, Earnings
<1> QED
  BY <1>1, <1>2, <1>3 DEF ComputeInv

\* Where no job becomes assigned to a wallet, no more of its records are needed.
LEMMA FewerBooked ==
  ASSUME NEW V, NEW U \in SUBSET V, NEW js, NEW ks, NEW ws, NEW reg \in Seq(Workers), Fits(V, js, ws, reg),
         \A v \in U : \A j \in JobIds : ks[j].status = "ASSIGNED" /\ ks[j].worker = v
                                     => js[j].status = "ASSIGNED" /\ js[j].worker = v
  PROVE  Fits(U, ks, ws, reg)
<1> SUFFICES ASSUME NEW v \in U
             PROVE  Cardinality(Booked(ks, v)) <= Cardinality(Taken(ws, reg, v))
  BY DEF Fits
<1>1. Booked(ks, v) \subseteq Booked(js, v)
  BY DEF Booked
<1>2. /\ IsFiniteSet(Booked(js, v)) /\ Cardinality(Booked(js, v)) \in Nat
      /\ Cardinality(Booked(ks, v)) \in Nat /\ Cardinality(Taken(ws, reg, v)) \in Nat
  BY BookFinite
<1>3. Cardinality(Booked(ks, v)) <= Cardinality(Booked(js, v))
  BY <1>1, <1>2, FS_Subset
<1>4. Cardinality(Booked(js, v)) <= Cardinality(Taken(ws, reg, v))
  BY DEF Fits
<1> QED
  BY <1>2, <1>3, <1>4

\* No job goes a way that JobLife does not know, proofs left aside.
Walks ==
    \A j \in JobIds : jobs'[j].status = jobs[j].status \/ <<jobs[j].status, jobs'[j].status>> \in Life!Moves

LEMMA JobSubmitted ==
  ASSUME ComputeInv, NEW j \in JobIds, NEW price \in Prices, NEW need \in Needs,
         NEW body \in Posted, SubmitJob(j, price, need, body)
  PROVE  ComputeInv' /\ Walks
<1> DEFINE m == [Market EXCEPT !.jobs[j] = PostedJob(price, need, body)]
           js == [jobs EXCEPT ![j] = PostedJob(price, need, body)]
           n == TryAssign(m, j)
           V == Clear'
<1>1. m = [jobs |-> js, workers |-> workers, registry |-> registry]
  BY DEF Market
<1>2. /\ PostedJob(price, need, body) \in JobRecord /\ PostedJob(price, need, body).status \in JobStatus
      /\ PostedJob(price, need, body).status = body.status /\ PostedJob(price, need, body).worker = body.worker
  BY ComputeAssumption DEF PostedJob, NewJob, JobRecord
<1>3. js \in [JobIds -> JobRecord]
  BY <1>2, MarketTyped
<1>4. \A i \in JobIds : js[i] = IF i = j THEN PostedJob(price, need, body) ELSE jobs[i]
  BY MarketTyped
<1>5. jobs[j].status = "none"
  BY DEF SubmitJob
<1>6. /\ UNCHANGED <<proofs, payments, forwards, submitted, daemons>> /\ order' = Append(order, j)
      /\ claimed' = claimed \cup (IF body.status = "ASSIGNED" THEN {body.worker} ELSE {})
  BY DEF SubmitJob
<1>a. claimed' \subseteq Wallets \cup {NoWallet} /\ claimed \subseteq claimed'
  BY <1>6, ComputeAssumption DEF ComputeInv, ComputeTypeOK
<1>b. V \in SUBSET Clear /\ V \in SUBSET Wallets
  BY <1>a DEF Clear
<1>c. body.status = "ASSIGNED" => body.worker \notin V
  BY <1>6 DEF Clear
<1>7. MarketBecomes(n)
  BY DEF SubmitJob
<1> HIDE DEF js, m, n, V
<1>8. /\ m \in Markets /\ m.jobs = js /\ m.workers = workers /\ m.registry = registry
  BY <1>1, <1>3, MarketTyped DEF Markets
<1>9. Fits(V, js, workers, registry)
  <2>1. Fits(Clear, jobs, workers, registry)
    BY DEF ComputeInv
  <2>2. \A v \in V : \A i \in JobIds : js[i].status = "ASSIGNED" /\ js[i].worker = v
                                     => jobs[i].status = "ASSIGNED" /\ jobs[i].worker = v
    BY <1>2, <1>4, <1>c
  <2> QED
    BY <1>b, <2>1, <2>2, FewerBooked, MarketTyped
<1>10. n \in Later(V, m)
  BY <1>8, <1>9, <1>b, StaysThere, LaterStep DEF n
<1>11. order' \in Seq(JobIds) /\ Range(order') = Range(order) \cup {j}
  BY <1>6, AppendRange, MarketTyped
<1>12. Range(order') = {i \in JobIds : m.jobs[i].status # "none"}
  BY <1>2, <1>4, <1>8, <1>11, MarketTyped DEF JobStatus
<1>13. Match(V, m.workers, m.registry, payments')
  BY <1>6, <1>8, <1>b DEF ComputeInv, Match
<1>14. /\ payments' \in Seq(Payment) /\ proofs' \subseteq JobIds /\ forwards' \subseteq proofs'
       /\ submitted' \subseteq proofs' /\ daemons' \in [Workers -> Daemon]
       /\ \A w \in Workers : w \notin Range(m.registry) => m.workers[w].earned = 0
  BY <1>6, <1>8, MarketTyped DEF ComputeInv, ComputeTypeOK
<1>15. Walks
  <2> SUFFICES ASSUME NEW i \in JobIds
               PROVE  jobs'[i].status = jobs[i].status \/ <<jobs[i].status, jobs'[i].status>> \in Life!Moves
    BY DEF Walks
  <2>1. jobs' = n.jobs
    BY <1>7 DEF MarketBecomes
  <2>2. jobs'[i].status = js[i].status \/ (js[i].status = "PENDING" /\ jobs'[i].status = "ASSIGNED")
    BY <1>8, <1>10, <2>1 DEF Later, Moved
  <2>3. IF i = j THEN jobs[i].status = "none" /\ js[i].status \in JobStatus ELSE js[i].status = jobs[i].status
    BY <1>2, <1>4, <1>5
  <2> QED
    BY <2>2, <2>3 DEF Life!Moves, Life!Arrivals, JobStatus
<1>16. V = Clear'
  BY DEF V
<1> QED
  BY <1>7, <1>8, <1>10, <1>11, <1>12, <1>13, <1>14, <1>15, <1>16, <1>a, MarketArrives

LEMMA Blamed ==
  ASSUME NEW worker \in WorkerRecord
  PROVE  Blame(worker) \in WorkerRecord /\ Blame(worker).earned = worker.earned
<1>1. worker.failed + 1 \in Nat
  BY DEF WorkerRecord
<1> QED
  BY <1>1 DEF Blame, WorkerRecord

\* The jobs whose failure is reported are at work: their workers report it.
WorkersReport == FailStatuses \subseteq {"ASSIGNED"}

LEMMA JobFailed ==
  ASSUME WorkersReport, ComputeInv, NEW j \in JobIds, NEW retry \in JobIds, FailJob(j, retry)
  PROVE  ComputeInv' /\ Walks
<1> DEFINE holder == jobs[j].worker
           again == NewJob(jobs[j].price, jobs[j].need)
           js == [jobs EXCEPT ![j].status = "FAILED", ![retry] = again]
           rec == Blame(workers[RecordOf(holder)])
           ws == IF Records(holder) = {} THEN workers ELSE [workers EXCEPT ![RecordOf(holder)] = rec]
           m == [jobs |-> js, workers |-> ws, registry |-> registry]
           n == TryAssign(m, retry)
           V == Clear
<1>1. jobs[j].status = "ASSIGNED" /\ jobs[retry].status = "none" /\ j # retry
  BY DEF FailJob, WorkersReport
<1>2. UNCHANGED <<proofs, payments, forwards, submitted, daemons, claimed>> /\ order' = Append(order, retry)
  BY DEF FailJob
<1>3. MarketBecomes(n)
  BY DEF FailJob
<1>4. again \in JobRecord /\ again.status = "PENDING"
  BY MarketTyped DEF NewJob, JobRecord, JobStatus
<1> HIDE DEF again
<1>5. \A i \in JobIds : /\ i = j => js[i].status = "FAILED" /\ js[i].worker = holder
                        /\ i = retry => js[i] = again
                        /\ i # j /\ i # retry => js[i] = jobs[i]
  <2> DEFINE failed == [jobs EXCEPT ![j].status = "FAILED"]
  <2>1. js = [failed EXCEPT ![retry] = again]
    OBVIOUS
  <2>2. failed \in [JobIds -> JobRecord]
    <3>1. [jobs[j] EXCEPT !.status = "FAILED"] \in JobRecord
      BY MarketTyped DEF JobRecord, JobStatus
    <3>2. failed = [jobs EXCEPT ![j] = [jobs[j] EXCEPT !.status = "FAILED"]]
      BY MarketTyped
    <3> QED
      BY <3>1, <3>2, MarketTyped
  <2>3. failed[j].status = "FAILED" /\ failed[j].worker = holder /\ \A i \in JobIds \ {j} : failed[i] = jobs[i]
    BY MarketTyped DEF JobRecord
  <2> HIDE DEF failed, js
  <2> QED
    BY <1>1, <2>1, <2>2, <2>3
<1>6. js \in [JobIds -> JobRecord]
  <2>1. [jobs[j] EXCEPT !.status = "FAILED"] \in JobRecord
    BY MarketTyped DEF JobRecord, JobStatus
  <2>2. [jobs EXCEPT ![j].status = "FAILED"] = [jobs EXCEPT ![j] = [jobs[j] EXCEPT !.status = "FAILED"]]
    BY MarketTyped
  <2> QED
    BY <1>4, <2>1, <2>2, MarketTyped
<1> HIDE DEF js
<1>8. Records(holder) # {} => /\ RecordOf(holder) \in Range(registry) /\ WalletOf[RecordOf(holder)] = holder
                              /\ RecordOf(holder) \in Workers
  BY WalletRecordFound, MarketTyped
<1>9. Records(holder) # {} => rec \in WorkerRecord /\ rec.earned = workers[RecordOf(holder)].earned
  <2> DEFINE r == RecordOf(holder)
  <2> HIDE DEF r
  <2>1. r \in Workers => Blame(workers[r]) \in WorkerRecord /\ Blame(workers[r]).earned = workers[r].earned
    BY MarketTyped, Blamed
  <2> QED
    BY <1>8, <2>1 DEF r
<1> HIDE DEF rec
<1>10. ws \in [Workers -> WorkerRecord] /\ \A w \in Workers : ws[w].earned = workers[w].earned
  BY <1>8, <1>9, MarketTyped
<1>a. V \in SUBSET Wallets /\ V = Clear' /\ Fits(V, jobs, workers, registry)
  BY <1>2, MarketTyped DEF Clear, ComputeInv
<1> HIDE DEF V
<1>11. Fits(V, js, ws, registry)
  <2>1. CASE Records(holder) = {}
    <3>1. \A v \in V : \A i \in JobIds : js[i].status = "ASSIGNED" /\ js[i].worker = v
                                       => jobs[i].status = "ASSIGNED" /\ jobs[i].worker = v
      BY <1>4, <1>5
    <3> QED
      BY <1>a, <2>1, <3>1, FewerBooked, MarketTyped
  <2>2. CASE Records(holder) # {}
    <3>1. Market.jobs = jobs /\ Market.workers = workers /\ Market.registry = registry
      BY DEF Market
    <3>2. js[j].status # "ASSIGNED"
      BY <1>5
    <3>3. \A i \in JobIds : i # j => \/ js[i].status = jobs[i].status /\ js[i].worker = jobs[i].worker
                                     \/ js[i].status # "ASSIGNED" /\ jobs[i].status # "ASSIGNED"
      BY <1>1, <1>4, <1>5
    <3>4. Fits(V, js, [workers EXCEPT ![RecordOf(holder)] = rec], registry)
      BY <1>1, <1>6, <1>8, <1>9, <1>a, <2>2, <3>1, <3>2, <3>3, MarketTyped, ReleaseFits
    <3> QED
      BY <2>2, <3>4
  <2> QED
    BY <2>1, <2>2
<1>12. Earnings(ws) = Earnings(workers)
  BY <1>10 DEF Earnings
<1> HIDE DEF ws, m, n
<1>13. m \in Markets /\ m.jobs = js /\ m.workers = ws /\ m.registry = registry
  BY <1>6, <1>10, MarketTyped DEF Markets, m
<1>14. n \in Later(V, m)
  BY <1>11, <1>13, <1>a, StaysThere, LaterStep DEF n
<1>15. order' \in Seq(JobIds) /\ Range(order') = Range(order) \cup {retry}
  BY <1>2, AppendRange, MarketTyped
<1>16. Range(order') = {i \in JobIds : m.jobs[i].status # "none"}
  BY <1>1, <1>4, <1>5, <1>13, <1>15, MarketTyped
<1>17. Match(V, m.workers, m.registry, payments')
  BY <1>2, <1>12, <1>13 DEF ComputeInv, Match, EarnedBy, V
<1>18. /\ payments' \in Seq(Payment) /\ proofs' \subseteq JobIds /\ forwards' \subseteq proofs'
       /\ submitted' \subseteq proofs' /\ daemons' \in [Workers -> Daemon]
       /\ claimed' \subseteq Wallets \cup {NoWallet}
       /\ \A w \in Workers : w \notin Range(m.registry) => m.workers[w].earned = 0
  BY <1>2, <1>10, <1>13, MarketTyped DEF ComputeInv, ComputeTypeOK
<1>19. Walks
  <2> SUFFICES ASSUME NEW i \in JobIds
               PROVE  jobs'[i].status = jobs[i].status \/ <<jobs[i].status, jobs'[i].status>> \in Life!Moves
    BY DEF Walks
  <2>1. jobs' = n.jobs
    BY <1>3 DEF MarketBecomes
  <2>2. jobs'[i].status = js[i].status \/ (js[i].status = "PENDING" /\ jobs'[i].status = "ASSIGNED")
    BY <1>13, <1>14, <2>1 DEF Later, Moved
  <2>3. \/ js[i].status = jobs[i].status
        \/ jobs[i].status = "ASSIGNED" /\ js[i].status = "FAILED"
        \/ jobs[i].status = "none" /\ js[i].status = "PENDING"
    BY <1>1, <1>4, <1>5
  <2> QED
    BY <2>2, <2>3 DEF Life!Moves, Life!Arrivals
<1> QED
  BY <1>3, <1>13, <1>14, <1>15, <1>16, <1>17, <1>18, <1>19, <1>a, MarketArrives

\* The market m in which jobs and workers changed, but no booking and no earnings.
LEMMA MarketChanges ==
  ASSUME ComputeInv, NEW js \in [JobIds -> JobRecord], NEW ws \in [Workers -> WorkerRecord],
         \A j \in JobIds : \/ js[j].status = jobs[j].status /\ js[j].worker = jobs[j].worker
                           \/ js[j].status = "EXPIRED" /\ jobs[j].status = "PENDING",
         \A w \in Workers : ws[w].earned = workers[w].earned /\ ws[w].available = workers[w].available,
         NEW m, m = [jobs |-> js, workers |-> ws, registry |-> registry],
         NEW n \in Later(Clear, m), MarketBecomes(n),
         UNCHANGED <<order, proofs, payments, forwards, submitted, daemons, claimed>>
  PROVE  ComputeInv' /\ Walks
<1>1. m \in Markets /\ m.jobs = js /\ m.workers = ws /\ m.registry = registry
  BY MarketTyped DEF Markets
<1>2. Earnings(ws) = Earnings(workers)
  BY DEF Earnings
<1>3. Range(order') = {i \in JobIds : m.jobs[i].status # "none"} /\ order' \in Seq(JobIds)
  BY <1>1, MarketTyped
<1>4. Match(Clear, m.workers, m.registry, payments')
  BY <1>1, <1>2 DEF ComputeInv, Match, EarnedBy
<1>a. Clear = Clear' /\ claimed' \subseteq Wallets \cup {NoWallet}
  BY DEF Clear, ComputeInv, ComputeTypeOK
<1>5. /\ payments' \in Seq(Payment) /\ proofs' \subseteq JobIds /\ forwards' \subseteq proofs'
      /\ submitted' \subseteq proofs' /\ daemons' \in [Workers -> Daemon]
      /\ \A w \in Workers : w \notin Range(m.registry) => m.workers[w].earned = 0
  BY <1>1, MarketTyped DEF ComputeInv, ComputeTypeOK
<1>6. Walks
  <2>1. jobs' = n.jobs
    BY DEF MarketBecomes
  <2>2. \A i \in JobIds : jobs'[i].status = js[i].status \/ (js[i].status = "PENDING" /\ jobs'[i].status = "ASSIGNED")
    BY <1>1, <2>1 DEF Later, Moved
  <2> QED
    BY <2>2 DEF Walks, Life!Moves
<1> QED
  BY <1>1, <1>3, <1>4, <1>5, <1>6, <1>a, MarketArrives

\* Such a market holds as many records as before.
LEMMA ChangedFits ==
  ASSUME ComputeInv, NEW js \in [JobIds -> JobRecord], NEW ws \in [Workers -> WorkerRecord],
         \A j \in JobIds : \/ js[j].status = jobs[j].status /\ js[j].worker = jobs[j].worker
                           \/ js[j].status # "ASSIGNED" /\ jobs[j].status # "ASSIGNED",
         \A w \in Workers : ws[w].available = workers[w].available
  PROVE  LET m == [jobs |-> js, workers |-> ws, registry |-> registry]
         IN  /\ m \in Markets /\ Fits(Clear, m.jobs, m.workers, m.registry) /\ m \in Later(Clear, m)
             /\ RetryPending(m) \in Later(Clear, m)
<1> DEFINE m == [jobs |-> js, workers |-> ws, registry |-> registry]
<1>1. m \in Markets
  BY MarketTyped DEF Markets
<1>2. \A v : Booked(js, v) = Booked(jobs, v)
  BY DEF Booked
<1>3. \A v : Taken(ws, registry, v) = Taken(workers, registry, v)
  BY MarketTyped, RangeFinite DEF Taken
<1>4. Fits(Clear, m.jobs, m.workers, m.registry)
  BY <1>2, <1>3 DEF ComputeInv, Fits
<1> HIDE DEF m
<1>5. m \in Later(Clear, m) /\ RetryPending(m) \in Later(Clear, m)
  BY <1>1, <1>4, MarketTyped, StaysThere, RetryFits
<1> QED
  BY <1>1, <1>4, <1>5 DEF m

LEMMA CleanedUp == ASSUME ComputeInv, Cleanup PROVE ComputeInv' /\ Walks
<1> DEFINE js == ExpireStale(jobs)
           m == [jobs |-> js, workers |-> workers, registry |-> registry]
<1>1. [Market EXCEPT !.jobs = ExpireStale(@)] = m
  BY DEF Market
<1>2. MarketBecomes(RetryPending(m)) /\ UNCHANGED <<order, proofs, payments, forwards, submitted, daemons, claimed>>
  BY <1>1 DEF Cleanup
<1>3. \A j \in JobIds : [jobs[j] EXCEPT !.status = "EXPIRED"] \in JobRecord
  BY MarketTyped DEF JobRecord, JobStatus
<1>4. js \in [JobIds -> JobRecord]
  BY <1>3, MarketTyped DEF ExpireStale
<1>5. \A j \in JobIds : \/ js[j].status = jobs[j].status /\ js[j].worker = jobs[j].worker
                        \/ js[j].status = "EXPIRED" /\ jobs[j].status = "PENDING"
  <2> TAKE j \in JobIds
  <2>1. CASE IsExpired(jobs[j])
    <3>1. js[j] = [jobs[j] EXCEPT !.status = "EXPIRED"] /\ jobs[j] \in JobRecord /\ jobs[j].status = "PENDING"
      BY <2>1, MarketTyped DEF ExpireStale, IsExpired
    <3> QED
      BY <3>1 DEF JobRecord
  <2>2. CASE ~ IsExpired(jobs[j])
    BY <2>2 DEF ExpireStale
  <2> QED
    BY <2>1, <2>2
<1> HIDE DEF js
<1>6. RetryPending(m) \in Later(Clear, m)
  BY <1>4, <1>5, ChangedFits, MarketTyped
<1> DEFINE n == RetryPending(m)
<1> HIDE DEF m, n
<1> QED
  BY <1>2, <1>4, <1>5, <1>6, MarketChanges, MarketTyped DEF m, n

LEMMA WorkerSeen ==
  ASSUME ComputeInv, NEW w \in Workers, DaemonHeartbeat(w)
  PROVE  ComputeInv' /\ Walks
<1> DEFINE ws == [workers EXCEPT ![w].online = TRUE]
           m == [jobs |-> jobs, workers |-> ws, registry |-> registry]
<1>1. [Market EXCEPT !.workers = ws] = m
  <2> HIDE DEF ws
  <2> QED
    BY DEF Market
<1>2. MarketBecomes(RetryPending(m)) /\ UNCHANGED <<order, proofs, payments, forwards, submitted, daemons, claimed>>
  BY <1>1 DEF DaemonHeartbeat
<1>3. [workers[w] EXCEPT !.online = TRUE] \in WorkerRecord
  BY MarketTyped DEF WorkerRecord
<1>4. ws = [workers EXCEPT ![w] = [workers[w] EXCEPT !.online = TRUE]]
  BY MarketTyped
<1>5. ws \in [Workers -> WorkerRecord]
  BY <1>3, <1>4, MarketTyped
<1>6. \A u \in Workers : ws[u].earned = workers[u].earned /\ ws[u].available = workers[u].available
  BY MarketTyped DEF WorkerRecord
<1> HIDE DEF ws
<1>7. RetryPending(m) \in Later(Clear, m)
  BY <1>5, <1>6, ChangedFits, MarketTyped
<1> DEFINE n == RetryPending(m)
<1> HIDE DEF m, n
<1> QED
  BY <1>2, <1>5, <1>6, <1>7, MarketChanges, MarketTyped DEF m, n

LEMMA WorkerQuiet ==
  ASSUME ComputeInv, NEW w \in Workers, WorkerSilent(w)
  PROVE  ComputeInv' /\ Walks
<1> DEFINE ws == [workers EXCEPT ![w].online = FALSE]
           m == [jobs |-> jobs, workers |-> ws, registry |-> registry]
<1>1. MarketBecomes(m) /\ UNCHANGED <<order, proofs, payments, forwards, submitted, daemons, claimed>>
  BY DEF WorkerSilent, MarketBecomes
<1>2. [workers[w] EXCEPT !.online = FALSE] \in WorkerRecord
  BY MarketTyped DEF WorkerRecord
<1>3. ws = [workers EXCEPT ![w] = [workers[w] EXCEPT !.online = FALSE]]
  BY MarketTyped
<1>4. ws \in [Workers -> WorkerRecord]
  BY <1>2, <1>3, MarketTyped
<1>5. \A u \in Workers : ws[u].earned = workers[u].earned /\ ws[u].available = workers[u].available
  BY MarketTyped DEF WorkerRecord
<1> HIDE DEF ws
<1>6. m \in Later(Clear, m)
  BY <1>4, <1>5, ChangedFits, MarketTyped
<1> HIDE DEF m
<1> QED
  BY <1>1, <1>4, <1>5, <1>6, MarketChanges, MarketTyped DEF m

LEMMA JobOld ==
  ASSUME ComputeInv, NEW j \in JobIds, JobAges(j)
  PROVE  ComputeInv' /\ Walks
<1> DEFINE js == [jobs EXCEPT ![j].late = TRUE]
           m == [jobs |-> js, workers |-> workers, registry |-> registry]
<1>1. MarketBecomes(m) /\ UNCHANGED <<order, proofs, payments, forwards, submitted, daemons, claimed>>
  BY DEF JobAges, MarketBecomes
<1>2. [jobs[j] EXCEPT !.late = TRUE] \in JobRecord
  BY MarketTyped DEF JobRecord
<1>3. js = [jobs EXCEPT ![j] = [jobs[j] EXCEPT !.late = TRUE]]
  BY MarketTyped
<1>4. js \in [JobIds -> JobRecord]
  BY <1>2, <1>3, MarketTyped
<1>5. \A i \in JobIds : js[i].status = jobs[i].status /\ js[i].worker = jobs[i].worker
  BY MarketTyped DEF JobRecord
<1> HIDE DEF js
<1>6. m \in Later(Clear, m)
  BY <1>4, <1>5, ChangedFits, MarketTyped
<1> HIDE DEF m
<1> QED
  BY <1>1, <1>4, <1>5, <1>6, MarketChanges, MarketTyped DEF m

\* The reward of a proof is a number, and so is what is paid of it.
LEMMA EarnedNat ==
  ASSUME ComputeInv, NEW j \in JobIds
  PROVE  Earned(jobs[j].price, ComputeReward(ProofOf[j])) \in Nat
<1>1. ProofOf[j].hours \in Nat /\ ProofOf[j].gb \in Nat /\ ProofOf[j].price \in Nat
  BY ComputeAssumption
<1>2. ComputeReward(ProofOf[j]) \in Nat
  BY <1>1, MaxTwo DEF ComputeReward
<1>3. jobs[j].price \in Nat
  <2>1. jobs[j] \in JobRecord
    BY MarketTyped
  <2>2. jobs[j].price \in Prices \cup {0}
    BY <2>1 DEF JobRecord
  <2>3. Prices \subseteq Nat
    BY ComputeAssumption
  <2>4. \A x \in Prices \cup {0} : x \in Nat
    BY <2>3
  <2> QED
    BY <2>2, <2>4
<1> QED
  BY <1>2, <1>3 DEF Earned

LEMMA Credited ==
  ASSUME NEW worker \in WorkerRecord, NEW reward, NEW earned \in Nat
  PROVE  /\ Credit(worker, reward, earned) \in WorkerRecord
         /\ Credit(worker, reward, earned).earned = worker.earned + earned
<1>1. worker.completed + 1 \in Nat /\ worker.earned + earned \in Nat
  BY DEF WorkerRecord
<1> QED
  BY <1>1 DEF Credit, WorkerRecord

LEMMA ProofSubmitted ==
  ASSUME ComputeInv, NEW v \in Wallets, NEW j \in JobIds, SubmitProof(v, j)
  PROVE  ComputeInv'
<1> DEFINE reward == ComputeReward(ProofOf[j])
           amount == Earned(jobs[j].price, reward)
           r == RecordOf(v)
           rec == Credit(workers[r], reward, amount)
           js == [jobs EXCEPT ![j].status = "COMPLETED"]
           ws == IF Records(v) = {} THEN workers ELSE [workers EXCEPT ![r] = rec]
           p == [job |-> j, wallet |-> v, amount |-> amount]
           m == [jobs |-> js, workers |-> ws, registry |-> registry]
<1>1. jobs[j].status = "ASSIGNED" /\ jobs[j].worker = v
  BY DEF SubmitProof, CheckProof
<1>2. amount \in Nat
  BY EarnedNat
<1>3. /\ jobs' = js /\ workers' = ws /\ registry' = registry /\ order' = order
      /\ payments' = Append(payments, p) /\ proofs' = proofs \cup {j} /\ forwards' = forwards \cup {j}
      /\ submitted' = submitted /\ daemons' = daemons /\ claimed' = claimed
  BY DEF SubmitProof
<1> HIDE DEF amount, reward
<1>4. Records(v) # {} => r \in Range(registry) /\ WalletOf[r] = v /\ r \in Workers
  BY WalletRecordFound, MarketTyped
<1> HIDE DEF r
<1>5. Records(v) # {} => rec \in WorkerRecord /\ rec.earned = workers[r].earned + amount
  BY <1>2, <1>4, MarketTyped, Credited
<1> HIDE DEF rec
<1>6. js \in [JobIds -> JobRecord]
  <2>1. [jobs[j] EXCEPT !.status = "COMPLETED"] \in JobRecord
    BY MarketTyped DEF JobRecord, JobStatus
  <2>2. js = [jobs EXCEPT ![j] = [jobs[j] EXCEPT !.status = "COMPLETED"]]
    BY MarketTyped
  <2> QED
    BY <2>1, <2>2, MarketTyped
<1>7. js[j].status = "COMPLETED" /\ \A i \in JobIds : i # j => js[i] = jobs[i]
  BY MarketTyped DEF JobRecord
<1> HIDE DEF js
<1>8. ws \in [Workers -> WorkerRecord]
  BY <1>4, <1>5, MarketTyped
<1>9. Fits(Clear, js, ws, registry)
  <2>1. Market.jobs = jobs /\ Market.workers = workers /\ Market.registry = registry
    BY DEF Market
  <2>2. CASE Records(v) # {}
    BY <1>1, <1>4, <1>5, <1>6, <1>7, <2>1, <2>2, MarketTyped, ReleaseFits
  <2>3. CASE Records(v) = {}
    <3>1. \A u \in Clear : \A i \in JobIds : js[i].status = "ASSIGNED" /\ js[i].worker = u
                                           => jobs[i].status = "ASSIGNED" /\ jobs[i].worker = u
      BY <1>7
    <3> QED
      BY <2>1, <2>3, <3>1, FewerBooked, MarketTyped
  <2> QED
    BY <2>2, <2>3
<1>10. p \in Payment
  BY <1>2 DEF Payment
<1>11. payments' \in Seq(Payment)
  <2>1. payments \in Seq(Payment)
    BY DEF ComputeInv
  <2> HIDE DEF p
  <2> QED
    BY <1>3, <1>10, <2>1
<1>12. ASSUME NEW u \in Wallets
       PROVE  /\ EarnedBy(ws, registry, u) <= PaidTo(payments', u)
              /\ u \in Clear => EarnedBy(ws, registry, u) = PaidTo(payments', u)
  <2>1. /\ EarnedBy(workers, registry, u) <= PaidTo(payments, u)
        /\ u \in Clear => EarnedBy(workers, registry, u) = PaidTo(payments, u)
        /\ payments \in Seq(Payment)
    BY DEF ComputeInv, Match
  <2>2. /\ EarnedBy(workers, registry, u) \in Nat
        /\ Records(v) = {} => EarnedBy(ws, registry, u) = EarnedBy(workers, registry, u)
        /\ Records(v) # {} => EarnedBy(ws, registry, u)
                              = EarnedBy(workers, registry, u) + IF v = u THEN amount ELSE 0
    <3>1. workers \in [Workers -> WorkerRecord] /\ registry \in Seq(Workers)
      BY MarketTyped
    <3>2. Records(v) # {} => /\ ws[r].earned = workers[r].earned + amount
                             /\ \A w \in Workers : w # r => ws[w] = workers[w]
      BY <1>4, <1>5, <3>1
    <3>3. Records(v) = {} => ws = workers
      OBVIOUS
    <3> HIDE DEF ws
    <3>4. Records(v) # {} => EarnedBy(ws, registry, u)
                              = EarnedBy(workers, registry, u) + IF WalletOf[r] = u THEN amount ELSE 0
      BY <1>2, <1>4, <1>8, <3>1, <3>2, EarnsMore
    <3> QED
      BY <1>4, <3>1, <3>3, <3>4, EarnedTyped
  <2>3. p.wallet = v /\ p.amount = amount
    OBVIOUS
  <2> HIDE DEF p, ws
  <2>4. /\ PaidTo(payments, u) \in Nat
        /\ PaidTo(payments', u) = PaidTo(payments, u) + IF v = u THEN amount ELSE 0
    BY <1>3, <1>10, <2>1, <2>3, PaidAppend
  <2>5. u \in Clear /\ v = u => Records(v) # {}
    BY <1>1, HolderFound
  <2> QED
    BY <1>2, <2>1, <2>2, <2>4, <2>5
<1>13. \A w \in Workers : w \notin Range(registry) => ws[w].earned = 0
  BY <1>4, MarketTyped DEF ComputeInv
<1> HIDE DEF ws, m
<1>14. m \in Markets /\ m.jobs = js /\ m.workers = ws /\ m.registry = registry
  BY <1>6, <1>8, MarketTyped DEF m, Markets
<1>15. m \in Later(Clear, m) /\ MarketBecomes(m)
  BY <1>3, <1>9, <1>14, StaysThere DEF MarketBecomes
<1>16. Range(order') = {i \in JobIds : m.jobs[i].status # "none"} /\ order' \in Seq(JobIds)
  BY <1>1, <1>3, <1>7, <1>14, MarketTyped
<1>17. Match(Clear, m.workers, m.registry, payments')
  BY <1>12, <1>14 DEF Match, Clear
<1>18. /\ proofs' \subseteq JobIds /\ forwards' \subseteq proofs' /\ submitted' \subseteq proofs'
       /\ daemons' \in [Workers -> Daemon]
       /\ Clear = Clear' /\ claimed' \subseteq Wallets \cup {NoWallet}
       /\ \A w \in Workers : w \notin Range(m.registry) => m.workers[w].earned = 0
  BY <1>3, <1>13, <1>14, MarketTyped DEF ComputeInv, ComputeTypeOK, Clear
<1> QED
  BY <1>11, <1>14, <1>15, <1>16, <1>17, <1>18, MarketArrives

\* A worker that registers has earned nothing yet.
LEMMA RegisteredMatch ==
  ASSUME NEW ws \in [Workers -> WorkerRecord], NEW reg \in Seq(Workers), NEW w \in Workers,
         w \notin Range(reg) => ws[w].earned = 0, NEW v
  PROVE  EarnedBy(ws, Append(reg, w), v) = EarnedBy(ws, reg, v)
<1> DEFINE S == {u \in Range(reg) : WalletOf[u] = v}
           T == {u \in Range(Append(reg, w)) : WalletOf[u] = v}
<1>1. Range(Append(reg, w)) = Range(reg) \cup {w}
  BY AppendRange
<1>2. IsFiniteSet(Range(reg)) /\ Range(reg) \subseteq Workers
  BY RangeFinite
<1>3. T = S \/ (T = S \cup {w} /\ w \notin S /\ w \notin Range(reg))
  BY <1>1
<1>4. IsFiniteSet(S) /\ S \subseteq Workers
  BY <1>2, FS_Subset
<1>5. EarnedBy(ws, reg, v) = SumFunctionOnSet(Earnings(ws), S)
      /\ EarnedBy(ws, Append(reg, w), v) = SumFunctionOnSet(Earnings(ws), T)
  BY DEF EarnedBy
<1>6. \A u \in Workers : Earnings(ws)[u] \in Nat /\ Earnings(ws)[u] = ws[u].earned
  BY DEF Earnings, WorkerRecord
<1> HIDE DEF S, T
<1>7. CASE T = S \cup {w} /\ w \notin S /\ w \notin Range(reg)
  <2>1. IsFiniteSet(T) /\ w \in T /\ T \ {w} = S /\ \A u \in T : Earnings(ws)[u] \in Int
    BY <1>4, <1>6, <1>7, FS_AddElement
  <2>2. SumFunctionOnSet(Earnings(ws), T) = Earnings(ws)[w] + SumFunctionOnSet(Earnings(ws), S)
    BY <2>1, SumRemove
  <2>3. SumFunctionOnSet(Earnings(ws), S) \in Nat
    BY <1>4, <1>6, SumNat
  <2> QED
    BY <1>5, <1>6, <1>7, <2>2, <2>3
<1> QED
  BY <1>3, <1>5, <1>7

LEMMA DaemonStarted ==
  ASSUME ComputeInv, NEW w \in Workers, NEW reached \in BOOLEAN, DaemonStart(w, reached)
  PROVE  ComputeInv' /\ Walks
<1>1. UNCHANGED <<order, proofs, payments, forwards, submitted, claimed>>
      /\ daemons' = [daemons EXCEPT ![w].up = TRUE]
  BY DEF DaemonStart
<1>2. daemons' \in [Workers -> Daemon]
  <2>1. [daemons[w] EXCEPT !.up = TRUE] \in Daemon
    BY MarketTyped DEF Daemon
  <2>2. daemons' = [daemons EXCEPT ![w] = [daemons[w] EXCEPT !.up = TRUE]]
    BY <1>1, MarketTyped
  <2> QED
    BY <2>1, <2>2, MarketTyped
<1>3. CASE ~ reached
  <2>1. UNCHANGED <<jobs, workers, registry>>
    BY <1>3 DEF DaemonStart
  <2> QED
    BY <1>1, <1>2, <2>1, MarketRests DEF ComputeInv, ComputeTypeOK, Walks
<1>4. CASE reached
  <2> DEFINE reg == Append(registry, w)
             m == [jobs |-> jobs, workers |-> workers, registry |-> reg]
             n == RetryPending(m)
  <2>1. reg \in Seq(Workers) /\ Range(reg) = Range(registry) \cup {w}
    BY AppendRange, MarketTyped
  <2>2. [Market EXCEPT !.registry = Append(@, w)] = m
    <3>1. Market.registry = registry
      BY DEF Market
    <3> HIDE DEF reg
    <3>2. [Market EXCEPT !.registry = reg] = m
      BY DEF Market
    <3> HIDE DEF m
    <3> QED
      BY <3>1, <3>2 DEF reg
  <2>3. MarketBecomes(n)
    BY <1>4, <2>2 DEF DaemonStart
  <2>4. Fits(Clear, jobs, workers, reg)
    <3> SUFFICES ASSUME NEW v \in Clear
                 PROVE  Cardinality(Booked(jobs, v)) <= Cardinality(Taken(workers, reg, v))
      BY DEF Fits
    <3>1. Cardinality(Booked(jobs, v)) <= Cardinality(Taken(workers, registry, v))
      BY DEF ComputeInv, Fits
    <3>2. Taken(workers, registry, v) \subseteq Taken(workers, reg, v)
      BY <2>1 DEF Taken
    <3>3. IsFiniteSet(Taken(workers, reg, v)) /\ Cardinality(Taken(workers, reg, v)) \in Nat
          /\ Cardinality(Taken(workers, registry, v)) \in Nat /\ Cardinality(Booked(jobs, v)) \in Nat
      BY <2>1, BookFinite, MarketTyped
    <3>4. Cardinality(Taken(workers, registry, v)) <= Cardinality(Taken(workers, reg, v))
      BY <3>2, <3>3, FS_Subset
    <3> QED
      BY <3>1, <3>3, <3>4
  <2>5. Match(Clear, workers, reg, payments')
    <3>1. \A v \in Wallets : EarnedBy(workers, reg, v) = EarnedBy(workers, registry, v)
      BY MarketTyped, RegisteredMatch DEF ComputeInv
    <3>2. Match(Clear, workers, registry, payments)
      BY DEF ComputeInv
    <3> HIDE DEF reg
    <3> QED
      BY <1>1, <3>1, <3>2 DEF Match, Clear
  <2> HIDE DEF reg, n, m
  <2>6. m \in Markets /\ m.jobs = jobs /\ m.workers = workers /\ m.registry = reg
    BY <2>1, MarketTyped DEF m, Markets
  <2>7. n \in Later(Clear, m)
    BY <2>4, <2>6, MarketTyped, RetryFits DEF n
  <2>8. /\ payments' \in Seq(Payment) /\ proofs' \subseteq JobIds /\ forwards' \subseteq proofs'
        /\ submitted' \subseteq proofs' /\ Clear = Clear' /\ claimed' \subseteq Wallets \cup {NoWallet}
        /\ \A u \in Workers : u \notin Range(m.registry) => m.workers[u].earned = 0
    BY <1>1, <2>1, <2>6 DEF ComputeInv, ComputeTypeOK, Clear
  <2>9. Range(order') = {i \in JobIds : m.jobs[i].status # "none"} /\ order' \in Seq(JobIds)
    BY <1>1, <2>6, MarketTyped
  <2>10. Walks
    <3>1. jobs' = n.jobs
      BY <2>3 DEF MarketBecomes
    <3>2. \A i \in JobIds : jobs'[i].status = jobs[i].status \/ (jobs[i].status = "PENDING" /\ jobs'[i].status = "ASSIGNED")
      BY <2>6, <2>7, <3>1 DEF Later, Moved
    <3> QED
      BY <3>2 DEF Walks, Life!Moves
  <2> QED
    BY <1>2, <2>3, <2>5, <2>6, <2>7, <2>8, <2>9, <2>10, MarketArrives
<1> QED
  BY <1>3, <1>4

\* Polling, running and ageing touch the daemon alone.
LEMMA DaemonMoves ==
  ASSUME ComputeInv, NEW w \in Workers,
         \/ DaemonAges(w) \/ DaemonPoll(w) \/ \E j \in JobIds, outcome \in Execute : DaemonRunJob(w, j, outcome)
  PROVE  ComputeInv'
<1>1. UNCHANGED <<jobs, order, registry, workers, proofs, payments, forwards, submitted, claimed>>
  BY DEF DaemonAges, DaemonPoll, DaemonRunJob
<1>2. \E d \in Daemon : daemons' = [daemons EXCEPT ![w] = d]
  <2>1. CASE DaemonAges(w)
    <3>1. [daemons[w] EXCEPT !.fresh = FALSE] \in Daemon
      BY MarketTyped DEF Daemon
    <3>2. daemons' = [daemons EXCEPT ![w] = [daemons[w] EXCEPT !.fresh = FALSE]]
      BY <2>1, MarketTyped DEF DaemonAges
    <3> QED
      BY <3>1, <3>2
  <2>2. CASE DaemonPoll(w)
    <3> DEFINE j == order[Min(Offers(w))]
    <3>1. j \in JobIds
      <4>1. Offers(w) # {} /\ Offers(w) \subseteq DOMAIN order /\ Offers(w) \subseteq Nat
        BY <2>2, MarketTyped DEF DaemonPoll, Offers
      <4>2. \E x \in Offers(w) : \A y \in Offers(w) : x <= y
        BY <4>1, Least
      <4>3. Min(Offers(w)) \in DOMAIN order
        BY <4>1, <4>2 DEF Min
      <4> QED
        BY <4>3, MarketTyped
    <3> HIDE DEF j
    <3>2. [daemons[w] EXCEPT !.active = @ \cup {j}] \in Daemon
      BY <3>1, MarketTyped DEF Daemon
    <3>3. daemons' = [daemons EXCEPT ![w] = [daemons[w] EXCEPT !.active = @ \cup {j}]]
      BY <2>2, MarketTyped DEF DaemonPoll, j
    <3> QED
      BY <3>2, <3>3
  <2>3. ASSUME NEW j \in JobIds, NEW outcome \in Execute, DaemonRunJob(w, j, outcome)
        PROVE  \E d \in Daemon : daemons' = [daemons EXCEPT ![w] = d]
    <3>1. [daemons[w] EXCEPT !.active = @ \ {j}] \in Daemon
      BY MarketTyped DEF Daemon
    <3>2. daemons' = [daemons EXCEPT ![w] = [daemons[w] EXCEPT !.active = @ \ {j}]]
      BY <2>3, MarketTyped DEF DaemonRunJob
    <3> QED
      BY <3>1, <3>2
  <2> QED
    BY <2>1, <2>2, <2>3
<1>3. daemons' \in [Workers -> Daemon]
  BY <1>2, MarketTyped
<1> QED
  BY <1>1, <1>3, MarketRests DEF ComputeInv, ComputeTypeOK

LEMMA ComputeStep ==
  ASSUME WorkersReport
  PROVE  ComputeInv /\ [ComputeNext]_computeVars => ComputeInv'
<1> SUFFICES ASSUME ComputeInv, [ComputeNext]_computeVars PROVE ComputeInv'
  OBVIOUS
<1>1. CASE UNCHANGED computeVars
  <2>1. UNCHANGED <<jobs, order, registry, workers, proofs, payments, forwards, submitted, daemons, claimed>>
    BY <1>1 DEF computeVars
  <2> QED
    BY <2>1, MarketRests, MarketTyped DEF ComputeInv, ComputeTypeOK
<1>2. ASSUME NEW j \in JobIds, NEW price \in Prices, NEW need \in Needs, NEW body \in Posted,
             SubmitJob(j, price, need, body)
      PROVE  ComputeInv'
  BY <1>2, JobSubmitted
<1>3. ASSUME NEW v \in Wallets, NEW j \in JobIds, SubmitProof(v, j) PROVE ComputeInv'
  BY <1>3, ProofSubmitted
<1>4. ASSUME NEW j \in JobIds, NEW retry \in JobIds, FailJob(j, retry) PROVE ComputeInv'
  BY <1>4, JobFailed
<1>5. ASSUME NEW j \in JobIds, JobAges(j) PROVE ComputeInv'
  BY <1>5, JobOld
<1>6. ASSUME NEW j \in JobIds, NEW accepted \in BOOLEAN, ForwardProof(j, accepted) PROVE ComputeInv'
  <2>1. /\ UNCHANGED <<jobs, order, registry, workers, proofs, payments, daemons, claimed>>
        /\ forwards' \subseteq forwards /\ submitted' \subseteq submitted \cup {j} /\ j \in forwards
    BY <1>6 DEF ForwardProof
  <2> QED
    BY <2>1, MarketRests, MarketTyped DEF ComputeInv, ComputeTypeOK
<1>7. CASE Cleanup
  BY <1>7, CleanedUp
<1>8. ASSUME NEW w \in Workers, WorkerSilent(w) PROVE ComputeInv'
  BY <1>8, WorkerQuiet
<1>9. ASSUME NEW w \in Workers, DaemonHeartbeat(w) PROVE ComputeInv'
  BY <1>9, WorkerSeen
<1>10. ASSUME NEW w \in Workers, NEW reached \in BOOLEAN, DaemonStart(w, reached) PROVE ComputeInv'
  BY <1>10, DaemonStarted
<1> QED
  BY <1>1, <1>2, <1>3, <1>4, <1>5, <1>6, <1>7, <1>8, <1>9, <1>10, DaemonMoves DEF ComputeNext

LEMMA ComputeAlways == ASSUME WorkersReport PROVE ComputeSpec => []ComputeInv
  BY ComputeStart, ComputeStep, PTL DEF ComputeSpec

\* The registry agrees with the jobs, whatever order proofs, failures, expiry, silence and
\* registrations come in: ComputeConsistent, for all jobs, workers, wallets and prices, when
\* only workers report failures.
THEOREM ComputeMarketConsistent == ASSUME WorkersReport PROVE ComputeSpec => []ComputeConsistent
<1>1. ComputeInv => ComputeConsistent
  <2> SUFFICES ASSUME ComputeInv PROVE ComputeTypeOK /\ EarningsMatchPayments /\ NotOverbooked
    BY DEF ComputeConsistent
  <2>1. EarningsMatchPayments
    BY DEF ComputeInv, Clear, Match, EarnedBy, PaidTo, Earnings, Amounts, EarningsMatchPayments, Gains,
           RecordsOf, Pay
  <2>2. NotOverbooked
    BY DEF ComputeInv, Clear, Fits, Booked, Taken, NotOverbooked, RecordsOf
  <2> QED
    BY <2>1, <2>2 DEF ComputeInv
<1> QED
  BY <1>1, ComputeAlways, PTL

\* What the life of a job sees of the market: its status, and how many payments it made.
PaymentsOf == [j \in JobIds |-> PaidFor(j)]
StatusOf == [j \in JobIds |-> jobs[j].status]

LEMMA WalksAreLife == ASSUME Walks, UNCHANGED payments PROVE Life!Next
<1>1. PaymentsOf' = PaymentsOf
  BY DEF PaymentsOf, PaidFor
<1>2. \A j \in JobIds : Life!Step(j)
  <2> TAKE j \in JobIds
  <2>1. PaidFor(j)' = PaidFor(j)
    BY DEF PaidFor
  <2> QED
    BY <2>1 DEF Walks, Life!Step
<1> QED
  BY <1>2 DEF Life!Next

\* A proof that is accepted completes its job and is the one payment for it that is added.
LEMMA ProofIsLife ==
  ASSUME ComputeInv, NEW v \in Wallets, NEW j \in JobIds, SubmitProof(v, j)
  PROVE  Life!Next
<1> DEFINE amount == Earned(jobs[j].price, ComputeReward(ProofOf[j]))
           p == [job |-> j, wallet |-> v, amount |-> amount]
           At(log, i) == {k \in DOMAIN log : log[k].job = i}
<1>1. /\ jobs[j].status = "ASSIGNED" /\ jobs' = [jobs EXCEPT ![j].status = "COMPLETED"]
      /\ payments' = Append(payments, p)
  BY DEF SubmitProof, CheckProof
<1>2. jobs'[j].status = "COMPLETED" /\ \A i \in JobIds : i # j => jobs'[i] = jobs[i]
  BY <1>1, MarketTyped DEF JobRecord
<1>3. p.job = j /\ p \in Payment
  BY EarnedNat DEF Payment
<1> HIDE DEF p
<1>4. /\ DOMAIN payments = 1..Len(payments) /\ Len(payments) \in Nat
      /\ DOMAIN payments' = 1..(Len(payments) + 1)
      /\ \A k \in 1..Len(payments) : payments'[k] = payments[k]
      /\ payments'[Len(payments) + 1] = p
  BY <1>1, <1>3 DEF ComputeInv
<1>5. \A i \in JobIds : At(payments', i) = IF i = j THEN At(payments, i) \cup {Len(payments) + 1} ELSE At(payments, i)
  <2>1. DOMAIN payments' = DOMAIN payments \cup {Len(payments) + 1}
    BY <1>4
  <2> QED
    BY <1>3, <1>4, <2>1
<1>6. \A i \in JobIds : PaidFor(i) = Cardinality(At(payments, i)) /\ PaidFor(i)' = Cardinality(At(payments', i))
  BY DEF PaidFor
<1>7. IsFiniteSet(At(payments, j)) /\ Len(payments) + 1 \notin At(payments, j)
  <2>1. IsFiniteSet(DOMAIN payments)
    <3>1. 1 \in Int /\ Len(payments) \in Int /\ DOMAIN payments = 1..Len(payments)
      BY <1>4
    <3>2. IsFiniteSet(1..Len(payments))
      BY ONLY <3>1, FS_Interval
    <3> QED
      BY ONLY <3>1, <3>2
  <2> QED
    BY <1>4, <2>1, FS_Subset
<1> HIDE DEF At
<1>8. PaidFor(j)' = PaidFor(j) + 1
  BY <1>5, <1>6, <1>7, FS_AddElement
<1>9. \A i \in JobIds : i # j => PaidFor(i)' = PaidFor(i)
  BY <1>5, <1>6
<1>10. \A i \in JobIds : Life!Step(i)
  BY <1>1, <1>2, <1>8, <1>9 DEF Life!Step
<1> QED
  BY <1>10 DEF Life!Next

LEMMA LifeStep ==
  ASSUME WorkersReport
  PROVE  ComputeInv /\ [ComputeNext]_computeVars => [Life!Next]_<<StatusOf, PaymentsOf>>
<1> SUFFICES ASSUME ComputeInv, [ComputeNext]_computeVars PROVE [Life!Next]_<<StatusOf, PaymentsOf>>
  OBVIOUS
<1>1. CASE UNCHANGED <<jobs, payments>>
  <2>1. StatusOf' = StatusOf /\ PaymentsOf' = PaymentsOf
    BY <1>1 DEF StatusOf, PaymentsOf, PaidFor
  <2> QED
    BY <2>1
<1>2. ASSUME NEW j \in JobIds, NEW price \in Prices, NEW need \in Needs, NEW body \in Posted,
             SubmitJob(j, price, need, body)
      PROVE  Life!Next
  BY <1>2, JobSubmitted, WalksAreLife DEF SubmitJob
<1>3. ASSUME NEW v \in Wallets, NEW j \in JobIds, SubmitProof(v, j) PROVE Life!Next
  BY <1>3, ProofIsLife
<1>4. ASSUME NEW j \in JobIds, NEW retry \in JobIds, FailJob(j, retry) PROVE Life!Next
  BY <1>4, JobFailed, WalksAreLife DEF FailJob
<1>5. ASSUME NEW j \in JobIds, JobAges(j) PROVE Life!Next
  BY <1>5, JobOld, WalksAreLife DEF JobAges
<1>6. CASE Cleanup
  BY <1>6, CleanedUp, WalksAreLife DEF Cleanup
<1>7. ASSUME NEW w \in Workers, WorkerSilent(w) PROVE Life!Next
  BY <1>7, WorkerQuiet, WalksAreLife DEF WorkerSilent
<1>8. ASSUME NEW w \in Workers, DaemonHeartbeat(w) PROVE Life!Next
  BY <1>8, WorkerSeen, WalksAreLife DEF DaemonHeartbeat
<1>9. ASSUME NEW w \in Workers, NEW reached \in BOOLEAN, DaemonStart(w, reached) PROVE Life!Next
  BY <1>9, DaemonStarted, WalksAreLife DEF DaemonStart
<1>10. ASSUME NEW w \in Workers,
             \/ DaemonAges(w) \/ DaemonPoll(w) \/ \E j \in JobIds, outcome \in Execute : DaemonRunJob(w, j, outcome)
       PROVE UNCHANGED <<jobs, payments>>
  BY <1>10 DEF DaemonAges, DaemonPoll, DaemonRunJob
<1>11. ASSUME NEW j \in JobIds, NEW accepted \in BOOLEAN, ForwardProof(j, accepted)
       PROVE  UNCHANGED <<jobs, payments>>
  BY <1>11 DEF ForwardProof
<1>12. CASE UNCHANGED computeVars
  BY <1>1, <1>12 DEF computeVars
<1> QED
  BY <1>1, <1>2, <1>3, <1>4, <1>5, <1>6, <1>7, <1>8, <1>9, <1>10, <1>11, <1>12 DEF ComputeNext

\* The market implements the life of a job, for any number of jobs, workers and daemons: a
\* job ends once and is paid for once, when it completes.
THEOREM ComputeJobsEndOnce == ASSUME WorkersReport PROVE ComputeSpec => ImplementsJobLife
<1>1. ComputeInit => Life!Init
  <2> SUFFICES ASSUME ComputeInit PROVE Life!Init
    OBVIOUS
  <2>1. \A j \in JobIds : jobs[j].status = "none"
    BY DEF ComputeInit, NoJob, NewJob
  <2>2. \A j \in JobIds : PaidFor(j) = 0
    <3>1. DOMAIN payments = {}
      BY DEF ComputeInit
    <3>2. \A j \in JobIds : {i \in DOMAIN payments : payments[i].job = j} = {}
      BY <3>1
    <3> QED
      BY <3>2, FS_EmptySet DEF PaidFor
  <2> QED
    BY <2>1, <2>2 DEF Life!Init
<1>2. ComputeInv /\ [ComputeNext]_computeVars
      => [Life!Next]_<<[j \in JobIds |-> jobs[j].status], [j \in JobIds |-> PaidFor(j)]>>
  BY LifeStep DEF StatusOf, PaymentsOf
<1> QED
  BY <1>1, <1>2, ComputeAlways, PTL DEF ComputeSpec, ImplementsJobLife, Life!Spec
=============================================================================
