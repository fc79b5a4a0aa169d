----------------------------- MODULE WireFormat -----------------------------
(***************************************************************************)
(* The records nodes, clients and files exchange, and what to_dict and     *)
(* from_dict do to them.  A record is a function from its fields to how    *)
(* good the value still is; every class is a table: its fields, the keys   *)
(* to_dict writes, the keys from_dict insists on, whether it takes unknown *)
(* keys, the fields to_dict shortens, the ones hash() or compute_hash()    *)
(* covers (and the ones it formats to eight digits first), the seal that   *)
(* the receiver wants present, and the fields the receiver acts on.        *)
(***************************************************************************)
EXTENDS Naturals, FiniteSets

CONSTANTS
    MaxHops         \* how often one record is handed on

ASSUME HopsAssumption == MaxHops \in Nat

VARIABLES
    wireKind,       \* the class of the record in hand
    made,           \* the record as its maker built and signed it
    madeKind,       \* and the class it was built as
    held,           \* the record as the last receiver holds it
    wireError,      \* from_dict raised
    hops            \* transfers so far

wireVars == <<wireKind, made, madeKind, held, wireError, hops>>

Values == {"exact", "long", "cut", "default"}

(***************************************************************************)
(* Tables.  Whole: to_dict writes every field and from_dict reads it back; *)
(* it raises when a required key is missing, and falls back to the default *)
(* for an optional one.                                                    *)
(***************************************************************************)
Whole(required, optional, hashed, seal, acts) ==
    [fields |-> required \union optional, required |-> required,
     written |-> required \union optional, read |-> required \union optional,
     strict |-> FALSE, cut |-> {}, hashed |-> hashed, formatted |-> {},
     seal |-> seal, acts |-> acts]

BandwidthProofWire ==
    Whole({"receipt_id", "relay_address", "client_id", "bytes_forwarded",
           "timestamp", "session_id"},
          {"relay_signature", "relay_public_key", "client_signature"},
          {"relay_address", "client_id", "bytes_forwarded", "timestamp"},
          {"relay_signature", "relay_public_key"},
          {"receipt_id", "bytes_forwarded"})

ComputeProofRecordWire ==
    Whole({"proof_id", "job_id", "worker_address", "client_address",
           "compute_seconds", "bytes_processed", "input_hash",
           "output_hash", "timestamp"}, {"price_bc"},
          {"proof_id", "worker_address", "input_hash", "output_hash"}, {},
          {"proof_id", "compute_seconds", "bytes_processed", "price_bc"})

StorageProofRecordWire ==
    Whole({"proof_id", "proof_type", "node_address", "owner_address",
           "chunk_id", "file_id", "bytes_stored", "duration_seconds",
           "timestamp"}, {"reward_bc", "node_signature", "node_public_key"},
          {"proof_id", "node_address", "chunk_id", "bytes_stored",
           "duration_seconds", "timestamp"},
          {"node_signature", "node_public_key"}, {"proof_id", "reward_bc"})

TransactionWire ==
    Whole({"tx_id", "from_address", "to_address", "amount", "fee",
           "timestamp"}, {"public_key", "signature"},
          {"tx_id", "from_address", "to_address", "amount", "fee",
           "timestamp"},
          {"public_key", "signature"},
          {"from_address", "to_address", "amount", "fee"})

(* A field of a record nested in another is <<its list, the field>>, and a *)
(* field of the outer record itself <<the field>>.                         *)
Own(fields) == {<<f>> : f \in fields}
In(list, fields) == {<<list, f>> : f \in fields}

(* A block writes the dictionaries of its parts. *)
Parts == [bandwidth_proofs |-> BandwidthProofWire,
          compute_proofs   |-> ComputeProofRecordWire,
          storage_proofs   |-> StorageProofRecordWire,
          transactions     |-> TransactionWire]

(* Its hash covers the ids of the proofs and the transactions' hashes. *)
BlockHashed ==
    Own({"index", "timestamp", "previous_hash", "miner_address",
         "difficulty"})
        \union In("bandwidth_proofs", {"receipt_id"})
        \union In("compute_proofs", {"proof_id"})
        \union In("storage_proofs", {"proof_id"})
        \union In("transactions", TransactionWire.hashed)

BlockWire ==
    Whole(Own({"index", "timestamp", "previous_hash", "miner_address"}),
          Own({"difficulty", "block_hash"})
              \union UNION {In(p, Parts[p].fields) : p \in DOMAIN Parts},
          BlockHashed, Own({"block_hash"}),
          Own({"difficulty"})
              \union UNION {In(p, Parts[p].acts) : p \in DOMAIN Parts})

(* Mutant: the amount is signed as it is and written with eight digits. *)
PaymentReceiptRounded ==
    [Whole({"receipt_id", "channel_id", "nonce", "amount", "sender_address",
            "receiver_address"},
           {"sender_signature", "ack_signature", "created_at", "memo"},
           {"channel_id", "nonce", "amount"}, {"sender_signature"},
           {"channel_id", "nonce"}) EXCEPT !.cut = {"amount"}]

PaymentReceiptWire ==
    [Whole({"receipt_id", "channel_id", "nonce", "amount", "sender_address",
            "receiver_address"},
           {"sender_signature", "ack_signature", "created_at", "memo"},
           {"channel_id", "nonce", "amount"}, {"sender_signature"},
           {"channel_id", "nonce", "amount"})
        EXCEPT !.formatted = {"amount"}]

PaymentChannelWire ==
    Whole({"channel_id", "sender_address", "receiver_address", "deposited"},
          {"nonce", "cumulative_paid", "state", "opened_at", "expires_at",
           "closed_at"}, {}, {},
          {"channel_id", "sender_address", "receiver_address", "deposited",
           "nonce", "cumulative_paid", "state", "expires_at"})

(* Signed over the full weight, written with eight digits of it. *)
VoteWire ==
    [Whole({"vote_id", "proposal_id", "voter_did", "voter_address", "choice",
            "weight"}, {"timestamp", "signature", "reason"},
           {"vote_id", "proposal_id", "voter_address", "choice", "weight",
            "timestamp"}, {"signature"},
           {"proposal_id", "voter_address", "choice", "weight"})
        EXCEPT !.cut = {"weight"}]

(* What was counted before a proposal is submitted counts on.              *)
ProposalWire ==
    [Whole({"proposal_id", "proposal_type", "proposer_did", "title",
            "created_at", "voting_ends_at"},
           {"description", "payload", "status", "executed_at",
            "execution_tx", "votes_yes", "votes_no", "votes_abstain"},
           {"proposal_id", "proposal_type", "proposer_did", "title",
            "payload", "created_at"}, {},
           {"proposal_id", "proposal_type", "payload", "voting_ends_at",
            "votes_yes", "votes_no", "votes_abstain"})
        EXCEPT !.cut = {"votes_yes", "votes_no", "votes_abstain"},
               !.written = @ \union {"total_votes", "yes_pct"}]

VerifiableClaimWire ==
    Whole({"claim_id", "issuer_did", "subject_did", "claim_type",
           "claim_data", "issued_at"}, {"expires_at", "signature"},
          {"claim_id", "issuer_did", "subject_did", "claim_type",
           "claim_data", "issued_at", "expires_at"}, {"signature"},
          {"issuer_did", "subject_did", "claim_type", "claim_data",
           "expires_at"})

(* Written under the keys id, type and serviceEndpoint, and read from them. *)
ServiceEndpointWire == {"service_id", "service_type", "endpoint"}

BorderDIDWire ==
    Whole(Own({"wallet_address", "public_key_hex"})
              \union In("services", ServiceEndpointWire),
          Own({"created_at", "updated_at", "handle", "metadata"})
              \union In("services", {"description"}),
          Own({"wallet_address", "public_key_hex", "created_at", "handle"})
              \union In("services", {"service_id"}), {},
          Own({"wallet_address", "handle"})
              \union In("services", {"service_type", "endpoint"}))

DNSRecordWire ==
    [Whole({"record_id", "name", "record_type", "value", "owner_address",
            "created_at"}, {"updated_at", "ttl", "metadata", "signature"},
           {"name", "record_type", "value", "owner_address", "created_at"},
           {"signature"},
           {"name", "record_type", "value", "owner_address", "created_at",
            "ttl"})
        EXCEPT !.written = @ \union {"content_hash"}]

GPUSpecWire == {"gpu_id", "name", "vram_gb", "compute_type"}

(* The derived figures a worker writes about itself are not read back. *)
BorderWorkerWire ==
    [Whole(Own({"worker_id", "wallet_address", "endpoint", "stake_bc",
                "registered_at", "last_seen", "jobs_completed",
                "jobs_failed", "total_earned_bc", "is_available"})
               \union In("gpu_specs", GPUSpecWire),
           Own({"region"}), {}, {},
           Own({"worker_id", "wallet_address", "stake_bc", "jobs_completed",
                "jobs_failed", "is_available"})
               \union In("gpu_specs", {"vram_gb"}))
        EXCEPT !.written = @ \union Own({"reputation", "max_vram_gb",
                                "total_vram_gb", "gpu_count", "is_online"})]

ComputeJobWire ==
    Whole({"job_id", "job_type", "client_address", "model_id", "input_data",
           "max_price_bc", "min_vram_gb", "submitted_at", "status"},
          {"worker_address", "assigned_at", "completed_at", "result",
           "error"}, {"input_data"}, {},
          {"job_id", "input_data", "max_price_bc", "min_vram_gb",
           "submitted_at", "status", "worker_address"})

ComputeProofWire ==
    Whole({"proof_id", "job_id", "job_type", "worker_address",
           "client_address", "model_id", "compute_seconds", "gpu_name",
           "vram_used_gb", "bytes_processed", "input_hash", "output_hash",
           "timestamp"},
          {"worker_signature", "worker_public_key", "price_bc"},
          {"job_id", "worker_address", "client_address", "compute_seconds",
           "input_hash", "output_hash", "timestamp"},
          {"worker_signature", "worker_public_key"},
          {"job_id", "compute_seconds", "bytes_processed", "price_bc"})

InferJobWire ==
    Whole({"job_id", "infer_type", "client_address", "model_id", "messages"},
          {"max_tokens", "temperature", "max_price_bc", "min_vram_gb",
           "status", "worker_address", "created_at"}, {}, {},
          {"job_id", "model_id", "messages", "max_tokens", "min_vram_gb",
           "status"})

RenderJobWire ==
    Whole({"job_id", "render_type", "client_address", "model_id", "prompt"},
          {"negative_prompt", "width", "height", "steps", "cfg_scale",
           "seed", "num_frames", "fps", "max_price_bc", "min_vram_gb",
           "extra_params", "status", "worker_address", "created_at"},
          {}, {},
          {"job_id", "render_type", "model_id", "prompt", "width", "height",
           "num_frames", "min_vram_gb", "status"})

(* The result classes have no from_dict: the market's route calls the      *)
(* constructor with the posted keys, and to_dict writes one it rejects.    *)
InferResultWire ==
    [Whole({"result_id", "job_id", "worker_address", "client_address",
            "model_id", "input_tokens", "output_tokens", "output_text",
            "embeddings", "latency_ms", "price_bc"},
           {"timestamp", "worker_signature"},
           {"result_id", "job_id", "worker_address", "output_tokens",
            "timestamp"}, {},
           {"job_id", "input_tokens", "output_tokens", "price_bc"})
        EXCEPT !.written = @ \union {"reward_bc"}, !.strict = TRUE]

RenderResultWire ==
    [Whole({"result_id", "job_id", "worker_address", "client_address",
            "model_id", "render_type", "frames_rendered", "width", "height",
            "output_hash", "output_url", "render_time_s", "price_bc"},
           {"timestamp", "worker_signature"},
           {"result_id", "job_id", "worker_address", "output_hash"}, {},
           {"job_id", "render_type", "frames_rendered", "width", "height",
            "price_bc"})
        EXCEPT !.written = @ \union {"reward_bc"}, !.strict = TRUE]

StorageChallengeWire ==
    [Whole({"challenge_id", "chunk_id", "node_address", "nonce"},
           {"issued_at", "expires_at"}, {}, {},
           {"chunk_id", "nonce", "expires_at"}) EXCEPT !.strict = TRUE]

StorageProofWire ==
    Whole({"proof_id", "proof_type", "node_address", "owner_address",
           "chunk_id", "file_id", "bytes_stored", "duration_seconds"},
          {"challenge_id", "challenge_nonce", "response_hash",
           "expected_hash", "timestamp", "node_signature",
           "node_public_key"},
          {"proof_id", "node_address", "chunk_id", "bytes_stored",
           "duration_seconds", "timestamp"},
          {"node_signature", "node_public_key"},
          {"proof_type", "bytes_stored", "duration_seconds",
           "response_hash", "expected_hash"})

FileManifestWire ==
    [Whole({"file_id", "filename", "total_size", "chunk_count", "chunk_size",
            "chunk_entries", "node_map", "owner_address"},
           {"uploaded_at", "content_hash"}, {}, {},
           {"chunk_entries", "node_map", "content_hash"})
        EXCEPT !.strict = TRUE]

(* What a node learnt of a peer stays with it: only the address travels. *)
PeerWire ==
    [Whole({"host", "port"},
           {"node_id", "version", "chain_height", "state", "last_seen",
            "last_ping", "fail_count", "latency_ms"}, {}, {},
           {"host", "port"})
        EXCEPT !.written = {"host", "port", "node_id", "version"},
               !.read = {"host", "port", "node_id", "version"}]

RelayNodeWire ==
    [Whole({"node_id", "endpoint"},
           {"region", "uptime_score", "last_seen", "bytes_forwarded",
            "phantom_version"}, {}, {},
           {"endpoint", "region", "uptime_score", "last_seen"})
        EXCEPT !.written = @ \ {"phantom_version"}]

(* Over the radio the body is capped, the time is whole seconds and the    *)
(* priority is left behind.                                                *)
LoRaContentWire ==
    [Whole({"content_id", "content_type", "title", "body"},
           {"url", "language", "priority", "queued_at"}, {}, {},
           {"content_id", "content_type", "title"})
        EXCEPT !.cut = {"body", "queued_at"},
               !.written = @ \ {"priority"}, !.read = @ \ {"priority"}]

BandwidthReceiptWire ==
    [Whole({"receipt_id", "relay_id", "client_id", "bytes_forwarded",
            "timestamp", "session_id"}, {"signature"},
           {"relay_id", "client_id", "bytes_forwarded", "timestamp",
            "session_id"}, {"signature"}, {"client_id", "bytes_forwarded"})
        EXCEPT !.strict = TRUE]

Wire ==
    [BandwidthProof |-> BandwidthProofWire,
     ComputeProofRecord |-> ComputeProofRecordWire,
     StorageProofRecord |-> StorageProofRecordWire,
     Transaction |-> TransactionWire, Block |-> BlockWire,
     PaymentReceipt |-> PaymentReceiptWire,
     PaymentChannel |-> PaymentChannelWire, Vote |-> VoteWire,
     Proposal |-> ProposalWire, VerifiableClaim |-> VerifiableClaimWire,
     BorderDID |-> BorderDIDWire, DNSRecord |-> DNSRecordWire,
     BorderWorker |-> BorderWorkerWire, ComputeJob |-> ComputeJobWire,
     ComputeProof |-> ComputeProofWire, InferJob |-> InferJobWire,
     RenderJob |-> RenderJobWire, InferResult |-> InferResultWire,
     RenderResult |-> RenderResultWire,
     StorageChallenge |-> StorageChallengeWire,
     StorageProof |-> StorageProofWire, FileManifest |-> FileManifestWire,
     Peer |-> PeerWire, RelayNode |-> RelayNodeWire,
     LoRaContent |-> LoRaContentWire,
     BandwidthReceipt |-> BandwidthReceiptWire]

WireKinds == DOMAIN Wire
-----------------------------------------------------------------------------

ToDict(k, r) ==
    [key \in Wire[k].written |->
        IF key \notin Wire[k].fields THEN "exact"
        ELSE IF key \in Wire[k].cut /\ r[key] = "long" THEN "cut"
        ELSE r[key]]

Raises(k, d) ==
    \/ ~(Wire[k].required \subseteq DOMAIN d)
    \/ Wire[k].strict /\ ~(DOMAIN d \subseteq Wire[k].fields)

FromDict(k, d) ==
    [f \in Wire[k].fields |->
        IF f \in Wire[k].read \intersect DOMAIN d THEN d[f] ELSE "default"]

(* What hash() feeds to the digest. *)
HashOf(k, r) ==
    [f \in Wire[k].hashed |->
        IF f \in Wire[k].formatted /\ r[f] = "long" THEN "cut" ELSE r[f]]

(* verify(), verify_signature(), verify_sender() and the comparison of a   *)
(* block's hash: the seal is there and was set over what is held now.      *)
Verifies(k, r) ==
    /\ \A f \in Wire[k].seal : r[f] # "default"
    /\ HashOf(k, r) = HashOf(madeKind, made)

(* The records the chain takes are built from the node's own proofs field  *)
(* by field, with the reward the node worked out.                          *)
ToRecord == [ComputeProof |-> "ComputeProofRecord",
             StorageProof |-> "StorageProofRecord"]

OnChain(k, r) ==
    [f \in Wire[ToRecord[k]].fields |->
        IF f \in Wire[k].fields THEN r[f] ELSE "exact"]
-----------------------------------------------------------------------------
WireInit ==
    /\ \E k \in WireKinds, wide \in BOOLEAN :
          /\ wireKind = k
          /\ madeKind = k
          /\ made = [f \in Wire[k].fields |->
                       IF wide /\ f \in Wire[k].cut \union Wire[k].formatted
                       THEN "long" ELSE "exact"]
    /\ held = made
    /\ wireError = FALSE
    /\ hops = 0

(* One transfer: an HTTP call, a gossip message, a file or a row of the    *)
(* store, written by one node and read by the next.                        *)
HandOn ==
    /\ ~wireError /\ hops < MaxHops
    /\ LET d == ToDict(wireKind, held) IN
         /\ wireError' = Raises(wireKind, d)
         /\ held' = IF wireError' THEN held ELSE FromDict(wireKind, d)
    /\ hops' = hops + 1
    /\ UNCHANGED <<wireKind, made, madeKind>>

(* A proof of work done becomes a record for the chain. *)
Record ==
    /\ ~wireError /\ wireKind \in DOMAIN ToRecord
    /\ wireKind' = ToRecord[wireKind]
    /\ held' = OnChain(wireKind, held)
    /\ UNCHANGED <<made, madeKind, wireError, hops>>

WireNext == HandOn \/ Record

WireSpec == WireInit /\ [][WireNext]_wireVars
-----------------------------------------------------------------------------
(***************************************************************************)
(* Properties.                                                             *)
(***************************************************************************)
(* The record in hand is one of the classes and has exactly its fields,    *)
(* whatever dictionaries it went through.                                  *)
WireTypeOK ==
    /\ wireKind \in WireKinds /\ madeKind \in WireKinds
    /\ held \in [Wire[wireKind].fields -> Values]
    /\ made \in [Wire[madeKind].fields -> Values]
    /\ wireError \in BOOLEAN /\ hops \in 0..MaxHops

(* A signature, or a block's hash, that its maker's node accepts is        *)
(* accepted by every node the record reaches, also once a storage proof    *)
(* has become a record of the chain.  Two exceptions are the code's own: a *)
(* vote signed over a weight of more than eight digits, and a compute      *)
(* proof, whose record carries no signature and hashes other fields.       *)
VerdictKept ==
    (Wire[madeKind].seal # {} /\ madeKind # "ComputeProof"
        /\ ~(madeKind = "Vote" /\ made["weight"] = "long"))
        => Verifies(wireKind, held)

(* The same for what a block holds: each proof and each transaction in it  *)
(* still has the fields its own signature covers, and the signature.       *)
PartsVerify ==
    wireKind = "Block" =>
        \A p \in DOMAIN Parts :
            \A f \in Parts[p].hashed \union Parts[p].seal :
                held[<<p, f>>] = made[<<p, f>>]

(* Every node acts on what the maker wrote: the coins a proof mints, the   *)
(* amounts and nonces of a channel, the terms of a job, the address of a   *)
(* peer, the expiry of a name arrive unchanged, however many hops away.    *)
(* What the voters' weights are worth is the exception: of the weight of a *)
(* vote and the counts of a proposal only eight digits arrive.             *)
Rounded(k, f) ==
    \/ k = "Vote" /\ f = "weight"
    \/ k = "Proposal" /\ f \in {"votes_yes", "votes_no", "votes_abstain"}
ActsOnWhatWasMade ==
    \A f \in Wire[wireKind].acts \intersect Wire[madeKind].fields :
        held[f] # made[f] =>
            Rounded(wireKind, f) /\ made[f] = "long" /\ held[f] = "cut"

(* A receiver can read what a sender of the same version writes; only the  *)
(* two result classes cannot be posted as they print themselves.           *)
OwnFormatIsRead ==
    wireError => wireKind \in {"InferResult", "RenderResult"}

(* A record means the same to everyone it reaches, but for what VerdictKept, *)
(* ActsOnWhatWasMade and OwnFormatIsRead except: it is read, it verifies,    *)
(* and what is acted on is what its maker wrote.                             *)
RecordsArrive == WireTypeOK /\ VerdictKept /\ PartsVerify /\ ActsOnWhatWasMade /\ OwnFormatIsRead
=============================================================================
