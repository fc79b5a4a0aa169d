----------------------------- MODULE RecordProofs -----------------------------
(***************************************************************************)
(* Records arrive, however often they are handed on.  A table of           *)
(* WireFormat is sound when what its class requires, seals, hashes and     *)
(* acts on is both written and read, and is not shortened on the way; that *)
(* each table is sound is a matter of comparing sets of names, and so is   *)
(* which few are not: the results are not read as they are written, of the *)
(* weight of a vote and the counts of a proposal only eight digits arrive, *)
(* and a vote is signed over all of them.                                  *)
(* The invariant then relates the record in hand to the one that was made: *)
(* a field that is written and read is as it was made, unless it is one    *)
(* of those that to_dict shortens and was made long.                       *)
(***************************************************************************)
EXTENDS WireFormat, TLAPS

-----------------------------------------------------------------------------
(* The tables *)

Results == {"InferResult", "RenderResult"}

\* The fields that survive a transfer, whole or shortened.
Kept(w) == w.fields \cap w.written \cap w.read

\* What is required, acted on, sealed and hashed survives; a seal is not shortened.
Sound(w) ==
    /\ w.required \subseteq w.written
    /\ w.acts \subseteq Kept(w)
    /\ w.seal # {} => w.hashed \cup w.seal \subseteq Kept(w)
    /\ w.seal \cap w.cut = {}

\* A class takes what it writes, and what it hashes or is acted on is never shortened.
Readable(w) == w.strict => w.written \subseteq w.fields
HashedWhole(w) == w.seal # {} => w.hashed \cap w.cut = {}
ActsWhole(w) == w.acts \cap w.cut = {}

\* A class of which everything is written and read back whole.
IsWhole(w) ==
    /\ w.written = w.fields /\ w.read = w.fields /\ w.cut = {} /\ w.formatted = {}
    /\ w.required \cup w.hashed \cup w.seal \cup w.acts \subseteq w.fields

LEMMA WholeSound ==
  ASSUME NEW R, NEW O, NEW H, NEW S, NEW A, H \cup S \cup A \subseteq R \cup O
  PROVE  LET w == Whole(R, O, H, S, A)
         IN  Sound(w) /\ IsWhole(w) /\ Readable(w) /\ HashedWhole(w) /\ ActsWhole(w)
  BY DEF Whole, Sound, Kept, IsWhole, Readable, HashedWhole, ActsWhole

Fine(w) == Sound(w) /\ Readable(w) /\ HashedWhole(w) /\ ActsWhole(w)

\* The classes that are written and read whole.
LEMMA WholeTables ==
  /\ Fine(BandwidthProofWire) /\ IsWhole(BandwidthProofWire)
  /\ Fine(ComputeProofRecordWire) /\ IsWhole(ComputeProofRecordWire)
  /\ Fine(StorageProofRecordWire) /\ IsWhole(StorageProofRecordWire)
  /\ Fine(TransactionWire) /\ IsWhole(TransactionWire)
  /\ Fine(PaymentChannelWire) /\ Fine(VerifiableClaimWire)
  /\ Fine(ComputeJobWire)
  /\ Fine(ComputeProofWire) /\ IsWhole(ComputeProofWire)
  /\ Fine(InferJobWire) /\ Fine(RenderJobWire)
  /\ Fine(StorageProofWire) /\ IsWhole(StorageProofWire)
<1>1. Fine(BandwidthProofWire) /\ IsWhole(BandwidthProofWire)
  BY WholeSound DEF BandwidthProofWire, Fine
<1>2. Fine(ComputeProofRecordWire) /\ IsWhole(ComputeProofRecordWire)
  BY WholeSound DEF ComputeProofRecordWire, Fine
<1>3. Fine(StorageProofRecordWire) /\ IsWhole(StorageProofRecordWire)
  BY WholeSound DEF StorageProofRecordWire, Fine
<1>4. Fine(TransactionWire) /\ IsWhole(TransactionWire)
  BY WholeSound DEF TransactionWire, Fine
<1>5. Fine(PaymentChannelWire)
  BY WholeSound DEF PaymentChannelWire, Fine
<1>6. Fine(VerifiableClaimWire)
  BY WholeSound DEF VerifiableClaimWire, Fine
<1>7. Fine(ComputeJobWire)
  BY WholeSound DEF ComputeJobWire, Fine
<1>8. Fine(ComputeProofWire) /\ IsWhole(ComputeProofWire)
  BY WholeSound DEF ComputeProofWire, Fine
<1>9. Fine(InferJobWire)
  BY WholeSound DEF InferJobWire, Fine
<1>10. Fine(RenderJobWire)
  BY WholeSound DEF RenderJobWire, Fine
<1>11. Fine(StorageProofWire) /\ IsWhole(StorageProofWire)
  BY WholeSound DEF StorageProofWire, Fine
<1> QED
  BY <1>1, <1>2, <1>3, <1>4, <1>5, <1>6, <1>7, <1>8, <1>9, <1>10, <1>11

\* The classes that format, shorten, leave out or add something.
LEMMA OtherTables ==
  /\ Fine(PaymentReceiptWire) /\ Fine(DNSRecordWire)
  /\ Fine(StorageChallengeWire) /\ Fine(FileManifestWire)
  /\ Fine(PeerWire) /\ Fine(RelayNodeWire) /\ Fine(LoRaContentWire) /\ Fine(BandwidthReceiptWire)
  /\ Sound(VoteWire) /\ Readable(VoteWire) /\ VoteWire.cut = {"weight"} /\ VoteWire.formatted = {}
  /\ Sound(ProposalWire) /\ Readable(ProposalWire) /\ HashedWhole(ProposalWire)
  /\ ProposalWire.cut = {"votes_yes", "votes_no", "votes_abstain"}
  /\ Sound(InferResultWire) /\ HashedWhole(InferResultWire) /\ ActsWhole(InferResultWire)
  /\ Sound(RenderResultWire) /\ HashedWhole(RenderResultWire) /\ ActsWhole(RenderResultWire)
<1> USE DEF Whole, Sound, Kept, Readable, HashedWhole, ActsWhole, Fine
<1>1. Fine(PaymentReceiptWire)
  BY DEF PaymentReceiptWire
<1>2. /\ Sound(ProposalWire) /\ Readable(ProposalWire) /\ HashedWhole(ProposalWire)
      /\ ProposalWire.cut = {"votes_yes", "votes_no", "votes_abstain"}
  BY DEF ProposalWire
<1>3. Fine(DNSRecordWire)
  BY DEF DNSRecordWire
<1>4. Fine(StorageChallengeWire)
  BY DEF StorageChallengeWire
<1>5. Fine(FileManifestWire)
  BY DEF FileManifestWire
<1>6. Fine(PeerWire)
  BY DEF PeerWire
<1>7. Fine(RelayNodeWire)
  BY DEF RelayNodeWire
<1>8. Fine(LoRaContentWire)
  BY DEF LoRaContentWire
<1>9. Fine(BandwidthReceiptWire)
  BY DEF BandwidthReceiptWire
<1>10. Sound(VoteWire) /\ Readable(VoteWire) /\ VoteWire.cut = {"weight"} /\ VoteWire.formatted = {}
  BY DEF VoteWire
<1>11. Sound(InferResultWire) /\ HashedWhole(InferResultWire) /\ ActsWhole(InferResultWire)
  BY DEF InferResultWire
<1>12. Sound(RenderResultWire) /\ HashedWhole(RenderResultWire) /\ ActsWhole(RenderResultWire)
  BY DEF RenderResultWire
<1> QED
  BY <1>1, <1>2, <1>3, <1>4, <1>5, <1>6, <1>7, <1>8, <1>9, <1>10, <1>11, <1>12

LEMMA PartTables == \A p \in DOMAIN Parts : IsWhole(Parts[p])
<1>1. DOMAIN Parts = {"bandwidth_proofs", "compute_proofs", "storage_proofs", "transactions"}
  BY DEF Parts
<1>2. IsWhole(Parts.bandwidth_proofs) /\ IsWhole(Parts.compute_proofs)
  BY WholeTables DEF Parts
<1>3. IsWhole(Parts.storage_proofs) /\ IsWhole(Parts.transactions)
  BY WholeTables DEF Parts
<1> QED
  BY <1>1, <1>2, <1>3

\* The fields of nested records.
LEMMA NestedTables ==
  /\ Fine(BlockWire) /\ IsWhole(BlockWire)
  /\ Fine(BorderDIDWire)
  /\ Fine(BorderWorkerWire)
<1>1. Fine(BlockWire) /\ IsWhole(BlockWire)
  <2> DEFINE fields == UNION {In(p, Parts[p].fields) : p \in DOMAIN Parts}
             acts == UNION {In(p, Parts[p].acts) : p \in DOMAIN Parts}
             R == Own({"index", "timestamp", "previous_hash", "miner_address"})
             O == Own({"difficulty", "block_hash"}) \cup fields
             S == Own({"block_hash"})
             A == Own({"difficulty"}) \cup acts
  <2>1. \A p \in DOMAIN Parts : In(p, Parts[p].acts) \cup In(p, Parts[p].hashed) \subseteq In(p, Parts[p].fields)
    BY PartTables DEF IsWhole, In
  <2>2. acts \subseteq fields
    BY <2>1
  <2>3. /\ DOMAIN Parts = {"bandwidth_proofs", "compute_proofs", "storage_proofs", "transactions"}
        /\ Parts["bandwidth_proofs"] = BandwidthProofWire /\ Parts["compute_proofs"] = ComputeProofRecordWire
        /\ Parts["storage_proofs"] = StorageProofRecordWire /\ Parts["transactions"] = TransactionWire
    BY DEF Parts
  <2>4. /\ "receipt_id" \in BandwidthProofWire.fields
        /\ "proof_id" \in ComputeProofRecordWire.fields
        /\ "proof_id" \in StorageProofRecordWire.fields
    BY DEF BandwidthProofWire, ComputeProofRecordWire, StorageProofRecordWire, Whole
  <2>5. In("transactions", TransactionWire.hashed) \subseteq fields
    BY <2>1, <2>3
  <2>6. /\ In("bandwidth_proofs", {"receipt_id"}) \subseteq In("bandwidth_proofs", BandwidthProofWire.fields)
        /\ In("compute_proofs", {"proof_id"}) \subseteq In("compute_proofs", ComputeProofRecordWire.fields)
        /\ In("storage_proofs", {"proof_id"}) \subseteq In("storage_proofs", StorageProofRecordWire.fields)
    BY <2>4 DEF In
  <2>7. /\ In("bandwidth_proofs", {"receipt_id"}) \subseteq fields
        /\ In("compute_proofs", {"proof_id"}) \subseteq fields
        /\ In("storage_proofs", {"proof_id"}) \subseteq fields
    BY <2>3, <2>6
  <2> HIDE DEF fields, acts
  <2>8. Own({"index", "timestamp", "previous_hash", "miner_address", "difficulty"}) \subseteq R \cup O
    BY DEF Own
  <2>9. BlockHashed \subseteq R \cup O
    BY <2>5, <2>7, <2>8 DEF BlockHashed
  <2>10. S \cup A \subseteq R \cup O
    BY <2>2 DEF Own
  <2>11. BlockWire = Whole(R, O, BlockHashed, S, A)
    BY DEF BlockWire, fields, acts
  <2> HIDE DEF R, O, S, A
  <2>12. BlockHashed \cup S \cup A \subseteq R \cup O
    BY <2>9, <2>10
  <2> QED
    BY <2>11, <2>12, WholeSound DEF Fine
<1>2. Fine(BorderDIDWire)
  BY WholeSound DEF BorderDIDWire, Own, In, ServiceEndpointWire, Fine
<1>3. Fine(BorderWorkerWire)
  BY DEF BorderWorkerWire, Whole, Own, In, GPUSpecWire, Fine, Sound, Kept, Readable, HashedWhole, ActsWhole
<1> QED
  BY <1>1, <1>2, <1>3

LEMMA KindsListed ==
  WireKinds = {"BandwidthProof", "ComputeProofRecord", "StorageProofRecord", "Transaction", "Block",
      "PaymentReceipt", "PaymentChannel", "Vote", "Proposal", "VerifiableClaim", "BorderDID",
      "DNSRecord", "BorderWorker", "ComputeJob", "ComputeProof", "InferJob", "RenderJob",
      "InferResult", "RenderResult", "StorageChallenge", "StorageProof", "FileManifest", "Peer",
      "RelayNode", "LoRaContent", "BandwidthReceipt"}
  BY DEF WireKinds, Wire

LEMMA TableOf ==
  /\ Wire["BandwidthProof"] = BandwidthProofWire /\ Wire["ComputeProofRecord"] = ComputeProofRecordWire
  /\ Wire["StorageProofRecord"] = StorageProofRecordWire /\ Wire["Transaction"] = TransactionWire
  /\ Wire["Block"] = BlockWire /\ Wire["PaymentReceipt"] = PaymentReceiptWire
  /\ Wire["PaymentChannel"] = PaymentChannelWire /\ Wire["Vote"] = VoteWire
  /\ Wire["Proposal"] = ProposalWire /\ Wire["VerifiableClaim"] = VerifiableClaimWire
  /\ Wire["BorderDID"] = BorderDIDWire /\ Wire["DNSRecord"] = DNSRecordWire
  /\ Wire["BorderWorker"] = BorderWorkerWire /\ Wire["ComputeJob"] = ComputeJobWire
  /\ Wire["ComputeProof"] = ComputeProofWire /\ Wire["InferJob"] = InferJobWire
  /\ Wire["RenderJob"] = RenderJobWire /\ Wire["InferResult"] = InferResultWire
  /\ Wire["RenderResult"] = RenderResultWire /\ Wire["StorageChallenge"] = StorageChallengeWire
  /\ Wire["StorageProof"] = StorageProofWire /\ Wire["FileManifest"] = FileManifestWire
  /\ Wire["Peer"] = PeerWire /\ Wire["RelayNode"] = RelayNodeWire
  /\ Wire["LoRaContent"] = LoRaContentWire /\ Wire["BandwidthReceipt"] = BandwidthReceiptWire
  BY DEF Wire

\* Every table is sound; only the results are not read as they are written, only what a vote
\* hashes is shortened, and only votes and proposals shorten what is acted on.
LEMMA Tables ==
  ASSUME NEW k \in WireKinds
  PROVE  /\ Sound(Wire[k])
         /\ k \notin Results => Readable(Wire[k])
         /\ k # "Vote" => HashedWhole(Wire[k])
         /\ k \notin {"Vote", "Proposal"} => ActsWhole(Wire[k])
<1>1. CASE k \in {"BandwidthProof", "ComputeProofRecord", "StorageProofRecord", "Transaction", "PaymentChannel",
                  "VerifiableClaim", "ComputeJob", "ComputeProof", "InferJob", "RenderJob", "StorageProof"}
  <2>1. Fine(Wire[k])
    BY <1>1, TableOf, WholeTables
  <2> QED
    BY <2>1 DEF Fine
<1>2. CASE k \in {"PaymentReceipt", "DNSRecord", "StorageChallenge", "FileManifest", "Peer",
                  "RelayNode", "LoRaContent", "BandwidthReceipt", "Block", "BorderDID", "BorderWorker"}
  <2>1. Fine(Wire[k])
    BY <1>2, TableOf, OtherTables, NestedTables
  <2> QED
    BY <2>1 DEF Fine
<1>3. CASE k \in {"Vote", "Proposal"}
  BY <1>3, TableOf, OtherTables
<1>4. CASE k \in Results
  BY <1>4, TableOf, OtherTables DEF Results
<1> QED
  BY <1>1, <1>2, <1>3, <1>4, KindsListed DEF Results

-----------------------------------------------------------------------------
(* The record in hand *)

\* A record of kind k, handed on from one that was made as kind m, or turned into a record of
\* the chain: what survives is as it was made, or was made long and may have been shortened.
FromMade(k, m) == k = m \/ (m \in DOMAIN ToRecord /\ k = ToRecord[m])
Faithful(k, m, r, o) ==
    \A f \in Kept(Wire[k]) \cap Wire[m].fields :
        r[f] = o[f] \/ (f \in Wire[k].cut /\ o[f] = "long" /\ r[f] = "cut")

WireInv ==
    /\ wireKind \in WireKinds /\ madeKind \in WireKinds /\ FromMade(wireKind, madeKind)
    /\ made \in [Wire[madeKind].fields -> {"exact", "long"}]
    /\ held \in [Wire[wireKind].fields -> Values]
    /\ Faithful(wireKind, madeKind, held, made)
    /\ wireError \in BOOLEAN /\ (wireError => wireKind \in Results)
    /\ hops \in 0..MaxHops

LEMMA ToRecordIs ==
  /\ DOMAIN ToRecord = {"ComputeProof", "StorageProof"}
  /\ ToRecord["ComputeProof"] = "ComputeProofRecord" /\ ToRecord["StorageProof"] = "StorageProofRecord"
  BY DEF ToRecord

\* A proof and its record are written and read whole.
LEMMA RecordedWhole ==
  ASSUME NEW k \in DOMAIN ToRecord
  PROVE  /\ k \in WireKinds /\ ToRecord[k] \in WireKinds /\ ToRecord[k] \notin DOMAIN ToRecord
         /\ IsWhole(Wire[k]) /\ IsWhole(Wire[ToRecord[k]])
  BY ToRecordIs, KindsListed, TableOf, WholeTables

\* One transfer keeps what survives.
LEMMA TransferKeeps ==
  ASSUME NEW k \in WireKinds, NEW m \in WireKinds, NEW o \in [Wire[m].fields -> {"exact", "long"}],
         NEW r \in [Wire[k].fields -> Values], Faithful(k, m, r, o)
  PROVE  LET d == ToDict(k, r)
         IN  /\ DOMAIN d = Wire[k].written
             /\ FromDict(k, d) \in [Wire[k].fields -> Values]
             /\ Faithful(k, m, FromDict(k, d), o)
<1> DEFINE w == Wire[k]
           d == ToDict(k, r)
           g == FromDict(k, d)
<1>1. DOMAIN d = w.written /\ DOMAIN g = w.fields
  BY DEF ToDict, FromDict
<1>2. \A key \in w.written \cap w.fields :
         d[key] = IF key \in w.cut /\ r[key] = "long" THEN "cut" ELSE r[key]
  BY DEF ToDict
<1>3. \A f \in w.fields : g[f] = IF f \in w.read \cap w.written THEN d[f] ELSE "default"
  BY <1>1 DEF FromDict
<1> HIDE DEF d, g
<1>4. \A f \in w.fields : g[f] \in Values
  BY <1>2, <1>3 DEF Values
<1>5. g \in [w.fields -> Values]
  <2>1. g = [f \in w.fields |-> g[f]]
    BY DEF g, FromDict
  <2> QED
    BY <1>4, <2>1
<1>6. ASSUME NEW f \in Kept(w) \cap Wire[m].fields PROVE g[f] = o[f] \/ (f \in w.cut /\ o[f] = "long" /\ g[f] = "cut")
  <2>1. g[f] = IF f \in w.cut /\ r[f] = "long" THEN "cut" ELSE r[f]
    BY <1>2, <1>3, <1>6 DEF Kept
  <2>2. r[f] = o[f] \/ (f \in w.cut /\ o[f] = "long" /\ r[f] = "cut")
    BY <1>6 DEF Faithful
  <2> QED
    BY <2>1, <2>2
<1> QED
  BY <1>1, <1>5, <1>6 DEF Faithful, d, g

LEMMA WireStart == WireInit => WireInv
<1> SUFFICES ASSUME WireInit PROVE WireInv
  OBVIOUS
<1>1. PICK k \in WireKinds, wide \in BOOLEAN :
         /\ wireKind = k /\ madeKind = k
         /\ made = [f \in Wire[k].fields |-> IF wide /\ f \in Wire[k].cut \cup Wire[k].formatted
                                             THEN "long" ELSE "exact"]
  BY DEF WireInit
<1>2. made \in [Wire[madeKind].fields -> {"exact", "long"}]
  BY <1>1
<1>3. held = made /\ wireError = FALSE /\ hops = 0
  BY DEF WireInit
<1>4. held \in [Wire[wireKind].fields -> Values]
  BY <1>1, <1>2, <1>3 DEF Values
<1>5. 0 \in 0..MaxHops
  BY HopsAssumption
<1> QED
  BY <1>1, <1>2, <1>3, <1>4, <1>5 DEF WireInv, FromMade, Faithful

LEMMA HandedOn == WireInv /\ HandOn => WireInv'
<1> SUFFICES ASSUME WireInv, HandOn PROVE WireInv'
  OBVIOUS
<1> DEFINE k == wireKind
           d == ToDict(k, held)
           g == FromDict(k, d)
<1>1. /\ k \in WireKinds /\ madeKind \in WireKinds /\ made \in [Wire[madeKind].fields -> {"exact", "long"}]
      /\ held \in [Wire[k].fields -> Values] /\ Faithful(k, madeKind, held, made) /\ hops \in 0..MaxHops
  BY DEF WireInv
<1>2. /\ DOMAIN d = Wire[k].written /\ g \in [Wire[k].fields -> Values]
      /\ Faithful(k, madeKind, g, made)
  BY <1>1, TransferKeeps
<1>3. /\ wireError' = Raises(k, d) /\ held' = IF wireError' THEN held ELSE g
      /\ hops < MaxHops /\ hops' = hops + 1 /\ UNCHANGED <<wireKind, made, madeKind>>
  BY DEF HandOn
<1>4. Raises(k, d) => k \in Results
  BY <1>1, <1>2, Tables DEF Raises, Sound, Readable
<1> HIDE DEF d, g
<1>5. hops' \in 0..MaxHops
  BY <1>1, <1>3, HopsAssumption
<1>6. wireError' \in BOOLEAN
  BY <1>3 DEF Raises
<1>7. held' \in [Wire[k].fields -> Values] /\ Faithful(k, madeKind, held', made)
  BY <1>1, <1>2, <1>3, <1>6
<1> QED
  BY <1>3, <1>4, <1>5, <1>6, <1>7 DEF WireInv

LEMMA Recorded == WireInv /\ Record => WireInv'
<1> SUFFICES ASSUME WireInv, Record PROVE WireInv'
  OBVIOUS
<1> DEFINE k == wireKind
           t == ToRecord[k]
           g == OnChain(k, held)
<1>1. /\ madeKind = k /\ k \in DOMAIN ToRecord
      /\ held \in [Wire[k].fields -> Values] /\ Faithful(k, k, held, made)
  <2>1. k \in DOMAIN ToRecord /\ FromMade(k, madeKind)
    BY DEF Record, WireInv
  <2>2. madeKind = k
    BY <2>1, RecordedWhole DEF FromMade
  <2> QED
    BY <2>1, <2>2 DEF WireInv
<1>2. wireKind' = t /\ held' = g /\ UNCHANGED <<made, madeKind, wireError, hops>> /\ ~ wireError
  BY DEF Record
<1>3. t \in WireKinds /\ IsWhole(Wire[k]) /\ IsWhole(Wire[t])
  BY <1>1, RecordedWhole
<1>4. /\ DOMAIN g = Wire[t].fields
      /\ \A f \in Wire[t].fields : g[f] = IF f \in Wire[k].fields THEN held[f] ELSE "exact"
  BY DEF OnChain
<1>5. g \in [Wire[t].fields -> Values]
  <2>1. \A f \in Wire[t].fields : g[f] \in Values
    BY <1>1, <1>4 DEF Values
  <2> QED
    BY <2>1 DEF OnChain
<1> HIDE DEF g
<1>6. \A f \in Wire[k].fields : held[f] = made[f]
  BY <1>1, <1>3 DEF Faithful, IsWhole, Kept
<1>7. Faithful(t, k, g, made)
  BY <1>4, <1>6 DEF Faithful, Kept
<1> QED
  BY <1>1, <1>2, <1>3, <1>5, <1>7 DEF WireInv, FromMade

LEMMA WireKept == WireInv /\ [WireNext]_wireVars => WireInv'
<1>1. WireInv /\ UNCHANGED wireVars => WireInv'
  BY DEF wireVars, WireInv
<1> QED
  BY <1>1, HandedOn, Recorded DEF WireNext

-----------------------------------------------------------------------------
(* What the invariant says of a receiver *)

\* A record hashes, formats and seals what the proof it came from does.
LEMMA SameHash ==
  ASSUME NEW m \in WireKinds, NEW k \in WireKinds, FromMade(k, m), m # "ComputeProof"
  PROVE  /\ Wire[k].hashed = Wire[m].hashed /\ Wire[k].seal = Wire[m].seal
         /\ Wire[k].formatted = Wire[m].formatted
<1>1. CASE k = m
  BY <1>1
<1>2. CASE k # m
  <2>1. m = "StorageProof" /\ k = "StorageProofRecord"
    BY <1>2, ToRecordIs DEF FromMade
  <2> QED
    BY <2>1, TableOf DEF StorageProofWire, StorageProofRecordWire, Whole
<1> QED
  BY <1>1, <1>2

LEMMA Verdict == WireInv => VerdictKept
<1> SUFFICES ASSUME WireInv, Wire[madeKind].seal # {}, madeKind # "ComputeProof",
                    ~ (madeKind = "Vote" /\ made["weight"] = "long")
             PROVE  Verifies(wireKind, held)
  BY DEF VerdictKept
<1> DEFINE k == wireKind
           m == madeKind
<1>1. k \in WireKinds /\ m \in WireKinds /\ FromMade(k, m) /\ Faithful(k, m, held, made)
  BY DEF WireInv
<1>2. /\ Wire[k].hashed = Wire[m].hashed /\ Wire[k].seal = Wire[m].seal
      /\ Wire[k].formatted = Wire[m].formatted
  BY <1>1, SameHash
<1>3. Wire[k].hashed \cup Wire[k].seal \subseteq Kept(Wire[k]) /\ Wire[k].seal \cap Wire[k].cut = {}
  BY <1>1, <1>2, Tables DEF Sound
<1>4. Wire[m].hashed \cup Wire[m].seal \subseteq Wire[m].fields
  BY <1>1, Tables DEF Sound, Kept
<1>5. \A f \in Wire[k].hashed : held[f] = made[f]
  <2>1. CASE k # "Vote"
    <3>1. Wire[k].hashed \cap Wire[k].cut = {}
      BY <1>1, <1>2, <2>1, Tables DEF HashedWhole
    <3> QED
      BY <1>1, <1>2, <1>3, <1>4, <3>1 DEF Faithful
  <2>2. CASE k = "Vote"
    <3>1. m = "Vote"
      BY <1>1, <2>2, ToRecordIs DEF FromMade
    <3>2. Wire[k].cut = {"weight"}
      BY <2>2, TableOf, OtherTables
    <3> QED
      BY <1>1, <1>2, <1>3, <1>4, <3>1, <3>2 DEF Faithful
  <2> QED
    BY <2>1, <2>2
<1>6. \A f \in Wire[k].seal : held[f] = made[f]
  BY <1>1, <1>2, <1>3, <1>4 DEF Faithful
<1>7. \A f \in Wire[k].seal : held[f] # "default"
  BY <1>2, <1>4, <1>6 DEF WireInv
<1>8. HashOf(k, held) = HashOf(m, made)
  BY <1>2, <1>5 DEF HashOf
<1> QED
  BY <1>7, <1>8 DEF Verifies

LEMMA PartsArrive == WireInv => PartsVerify
<1> SUFFICES ASSUME WireInv, wireKind = "Block", NEW p \in DOMAIN Parts, NEW f \in Parts[p].hashed \cup Parts[p].seal
             PROVE  held[<<p, f>>] = made[<<p, f>>]
  BY DEF PartsVerify
<1>1. madeKind = "Block"
  BY ToRecordIs DEF WireInv, FromMade
<1>2. f \in Parts[p].fields
  BY PartTables DEF IsWhole
<1>3. <<p, f>> \in BlockWire.fields
  <2>1. <<p, f>> \in In(p, Parts[p].fields)
    BY <1>2 DEF In
  <2> QED
    BY <2>1 DEF BlockWire, Whole
<1>4. IsWhole(Wire["Block"]) /\ <<p, f>> \in Wire["Block"].fields
  BY <1>3, TableOf, NestedTables
<1> QED
  BY <1>1, <1>4 DEF WireInv, Faithful, IsWhole, Kept

\* Records arrive, for any number of transfers (to_dict and from_dict of all 26 classes): every
\* one is read but the results of inference and rendering; it verifies wherever its maker's node
\* accepts it, and so do the parts of a block, but for a vote over a weight of more than eight
\* digits and the record of a compute proof; and what is acted on is what was made, but for the
\* weight of a vote and the counts of a proposal, of which eight digits arrive.
THEOREM EveryRecordArrives == WireSpec => []RecordsArrive
<1>1. WireInv => WireTypeOK
  <2>1. {"exact", "long"} \subseteq Values
    BY DEF Values
  <2> QED
    BY <2>1 DEF WireInv, WireTypeOK
<1>2. WireInv => ActsOnWhatWasMade
  <2> SUFFICES ASSUME WireInv, NEW f \in Wire[wireKind].acts \cap Wire[madeKind].fields, held[f] # made[f]
               PROVE  Rounded(wireKind, f) /\ made[f] = "long" /\ held[f] = "cut"
    BY DEF ActsOnWhatWasMade
  <2>1. wireKind \in WireKinds /\ f \in Kept(Wire[wireKind])
    BY Tables DEF WireInv, Sound
  <2>2. f \in Wire[wireKind].cut /\ made[f] = "long" /\ held[f] = "cut"
    BY <2>1 DEF WireInv, Faithful
  <2>3. wireKind \in {"Vote", "Proposal"}
    BY <2>1, <2>2, Tables DEF ActsWhole
  <2>4. Rounded(wireKind, f)
    BY <2>2, <2>3, TableOf, OtherTables DEF Rounded
  <2> QED
    BY <2>2, <2>4
<1>3. WireInv => OwnFormatIsRead
  BY DEF WireInv, OwnFormatIsRead, Results
<1>4. WireInv => RecordsArrive
  BY <1>1, <1>2, <1>3, Verdict, PartsArrive DEF RecordsArrive
<1> QED
  BY <1>4, WireStart, WireKept, PTL DEF WireSpec
=============================================================================
