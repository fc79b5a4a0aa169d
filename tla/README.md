# Border Protocol: TLA+ models and proofs

This directory holds TLA+ models of the Border Protocol (`src/border`), the TLC runs
that check them on small instances and the TLAPS proofs of what holds for every instance.
`PROJECT.json` lists components, runs, the lines each definition models, hazards, findings
and theorems; this file explains them.

Parse a module with `tlasany M.tla`, check a run with `tlc -config X.cfg M`, prove with
`tlapm M.tla`.

## 1. Inventory

| Component | State | Operations | Interaction | What is hard |
|---|---|---|---|---|
| **BorderChain** (`blockchain/chain.py`, `block.py`, `transaction.py`) | chain, mempool and reservations, three pools of pending proofs, three spent sets, balance cache, stakes, slash log | `add_proof`, `add_compute_proof`, `add_storage_proof`, `add_transaction`, `create_block`, `add_block`, `replace_chain`, `stake`, `unstake`, `slash` | called by relay, markets, storage, HTTP and gossip threads; blocks go to peers | creation and adding of a block are apart; only `add_block` is locked; a reorganisation rebuilds part of the state |
| **Chain store and sync** (`blockchain/store.py`, `p2p/sync.py`, `p2p/node.py`) | SQLite rows, sync thread, heights of peers | append, load, sync pass, fork search, download | pings report heights; gossip brings blocks | crash before the commit, both chains growing during a search, failed requests, forks |
| **Gossip** (`p2p/gossip.py`) | bounded cache of seen ids, envelopes in flight | broadcast, receive, relay | calls the node's handlers | check and mark are apart, the cache forgets, posts are lost |
| **Peer table** (`p2p/discovery.py`, `peer.py`, `server.py`) | table, failures, `peers.json` | ping round, exchange, announce, save, start | tells gossip and sync whom to ask | bans, full tables, restarts |
| **Relay** (`relay.py`) | sessions with byte counters, one lock | open, record, close, flush daemon, mining daemon | gives proofs to the chain | counters read in one critical section and used in another |
| **Payment channels** (`payments/`) | channel, nonces, latest receipt | open, send, receive, close, settle | receipts travel between parties | late, repeated and reordered receipts |
| **DAO** (`dao/`) | proposals, votes, tallies, parameters, treasury | submit, vote, tally, execute, collect, spend | FastAPI thread pool, no lock | check and effect are apart; failed executions are repeated |
| **Compute market** (`compute/`) | jobs, queue, registry of workers, payment log | submit, assign, prove, fail, retry, cleanup, heartbeat | daemons poll by HTTP; proofs go to the chain | timeouts against late proofs, two records of one wallet |
| **Inference and render markets** (`infer/`, `render/`) | jobs, workers, total paid | submit, result, daemon turn, retry | daemons share the market object with the routes | threads between choice and assignment, executions that raise |
| **DNS** (`dns/`) | records, owners, fees, file, resolver cache | register, add, transfer, resolve, flush | HTTP, a thread per request | no lock: every access to the dictionaries is apart, a file is emptied before it is written, stale answers, aliases that loop |
| **Identity** (`identity/`) | documents, handles, claims, counts, file | register, update, claim, score | HTTP, a thread per request | documents are live objects that requests change, no lock, claims out of order, restart |
| **Storage** (`storage/`) | chunks on disk, index in memory and on disk, manifests | upload, store, delete, challenge, prove, download | client and several nodes; proofs go to the chain | crash between two writes or inside one, one chunk in two uploads, lost answers |
| **Faucet** (`faucet.py`) | cooldowns, history | drip | the chain's `add_transaction` | check, spend and record are apart |
| **LoRa** (`lora.py`) | priority queue, sessions | queue, broadcast, reassemble | radio | lost packets, session numbers that come back |
| **Relay directory** (`discovery.py`) | known relays, cache file | discover, register, probe | HTTP directories | listings that break off, overlapping tasks, torn cache |
| **Economics** (`blockchain/economics.py`) | none | reward schedule, headroom, fee floor, retarget | block and chain | boundaries, clamps, integer division, clocks that go back |
| **Script engine** (`blockchain/script.py`) | stack, position, operations | run, builders | transactions | skipped branches, order of signatures, limits |
| **Records on the wire** (`to_dict` / `from_dict` everywhere) | none | serialise, parse, hash, verify | every hand-over between programs | rounding, dropped and renamed fields |
| **Home directory** (`wallet.py`, `mnemonic.py`, `cli.py`, `node_runner.py`) | wallet, channel and receipt files | wallet and payment commands, node start | processes share files | killed inside a write, overlapping commands |
| **HTTP node, CLI, runner, dashboard, explorer, legacy tunnel** | wiring | routes and commands | call the above | little logic of their own |

What makes the parts correct: no proof is rewarded twice and no coin is minted or spent
twice on a chain; every forwarded byte is claimed once; at the manager that knows its
channel a receipt counts once and never above the deposit; a decision follows the votes and is carried out once; what one node
announces reaches the others and what a node has acknowledged survives its restart; a job
ends once and is paid for once. The `hazards` of `PROJECT.json` say at which line each of
these could go wrong.

## 2. Modules

| Module | Models |
|---|---|
| `BorderChain` | several nodes, each method one step; blocks in the making, delivery, chain replacement |
| `ChainThreads` | one chain object, its methods cut between accesses to shared state |
| `ChainSync` | chains, stores and sync threads of P2P nodes, with gossiped blocks, failed requests and restarts |
| `Gossip` | messages, caches and threads of a network of routers |
| `PeerTable` | ping rounds, exchanges, announcements, bans, the file, restarts |
| `BandwidthMeter`, `Relay` | what the byte accounting promises; sessions, handlers and flush daemon, which implement it when calls do not overlap |
| `PaymentChannel` | one channel and the receipts under way |
| `Governance` | proposals, votes and treasury under a pool of threads |
| `JobLife` | what a job market promises: a job comes in with the status of its body, ends once and is paid for once |
| `ComputeMarket`, `GpuMarkets` | the compute market; the inference and the render market, which share their control. Both implement `JobLife` |
| `DnsRegistry`, `Identity`, `Storage`, `Faucet`, `Lora`, `RelayDirectory` | the services of the same names |
| `Economics`, `ScriptEngine`, `WireFormat`, `HomeDir` | the schedule and retargeting; the stack machine; every record class as a table; files shared by processes |
| `SumTheorems` | lemmas about sums over finite sets (the community modules' `SumFunction`), induction on sets of naturals, iterated steps and least sets |
| `BorderChainProofs` | theorems about the ledger: types, proofs and spent sets; balances, supply and reservations |
| `GovernanceProofs` | theorems about the DAO |
| `MarketProofs` | theorems about channels, the markets and the home directory |
| `NodeProofs` | theorems about the threads of a chain and the peer-to-peer network |
| `ServiceProofs` | theorems about relay, DNS, identity, storage, faucet, relay directory and economics |
| `RecordProofs` | theorem about the records on the wire |
| `ScriptProofs` | theorems about the stack machine |
| `MC*` | constants for TLC; composites |

**Composites.** `MCLedger`, `MCThreads`, `MCPeerToPeer`, `MCMarkets` and `MCServices` put
components side by side in one run. Those components share no variable, so no
behaviour of one depends on a step of another: instead of all interleavings, which would
show nothing more, a variable `part` chooses at the start which component a behaviour is of
and the others stay in their initial states. Components that do share state are one
module: chain and network (`BorderChain`), chain, store and sync (`ChainSync`), market and
daemons (`ComputeMarket`, `GpuMarkets`), client and nodes (`Storage`). Because the steps
carry `part`, a composite restates the fairness of its components.

**BorderChain.** `chain`, `mempool`, `reserved`, `pending*`, `spent*`, `balance` and `stakes`
are the attributes of the same names, per node. `candidates` are the blocks between
`create_block` and `add_block`, `network` the blocks that were broadcast, `fetched` the
answer of a peer held across the `await` of `_sync_with_peers`. `NewBlock` is
`create_block` with `Block.finalize`, `ValidateBlock` `_validate_block`, `AddBlock`
the whole of `_add_block_locked`. A block hash is abstracted to the sequence of ids it
commits to; amounts are naturals in the smallest unit; the order inside a block has no
effect, so mempool and block hold bags of transactions (the same transaction can be there
twice). The difficulty is one constant here; its retarget is in `Economics`.
Peers are nodes that run the same code.

**ChainThreads.** Every call of a thread is a sequence of steps (`pc`, `local`). `lock` is
`_lock`, taken by `add_block` only. A list comprehension reads in one step and the
assignment of its result is another, so that an `append` by a thread without the lock may
fall between. Lists of proofs are bags, since two copies of a proof pay twice. Loops over
the contents of one block are one step. `PeerBlock` is the gossip handler with a block made
on the current tip.

**ChainSync.** A block is the sequence of ids since genesis, so "fits" is "its front is the tip".
The sync thread takes a step per request and per block (`CompareTips`, `SearchFork`, `FetchBlocks`,
`ApplyBlock`, `RefuseBlock`), `Save` is the commit that follows the append in memory, and
`RestartNode` loads what was committed.

**Gossip, PeerTable.** `GossipReceive` is the test of `receive`, `Handle` the rest; the limit of
the cache is chosen at the start so that both a sufficient and a too small one are looked at. `PingLoop`
is one round of pings, `ExchangePeers` one request for peers; a lost answer is a fault.

**Relay.** `CloseSession`, `CheckLeft`, `EvalCount`, `SignProof`, `MarkFlush`, `Submit` follow
`close_session` and `_emit_proof`; the arguments of `_emit_proof` and `mark_flush` are steps of
their own because they are evaluated without the lock.

**PaymentChannel.** The manager has no chain. With one, `open_channel` and `settle` call
`Transaction.create(private_key=...)`, which has no such parameter, and fail; the tests use
managers without a chain, or fail at this point. `Receive` is `receive_payment` of the manager that knows the channel;
`ReceiveStateless` is its branch for one that does not (`manager.py:188-193`), which countersigns
every copy of a receipt and remembers none.

**Governance.** With one thread the calls are sequential, with two the check and the effect of a
call may be apart. Refused calls have no step. A proposal is what its body says: `Proposal.from_dict` takes the tallies of the body
(`proposal.py:131-133`) and `submit` resets the status only, so votes are counted on top of `PostedTally`.
What is said of decisions speaks of that sum.

**ComputeMarket, GpuMarkets.** The compute routes are coroutines without an `await`, so each is one
step; the routes of the other two run in threads, so `submit_job` and `submit_result` are two steps. The
clock is a set of flags (late, online, fresh). `gpuKind` says whether a behaviour is of the inference or
of the render market; prices and scores come in pairs. Jobs are posted with the status and the worker of the body
(`Posted`, `PostedBodies`), which no method resets: a compute job can arrive assigned to a wallet that never
heard of it, or completed. In the GPU markets a posted id replaces the job that has it (`infer/market.py:89-90`), and the route for
results asks neither who sends one nor what state the job is in (`infer/market.py:108-128`). What these
markets promise holds of the jobs that nobody posts anything odd for; `gpuOutside` collects the others, and of
a wallet that a posted compute job names, earnings are bounded only. Registrations are those that the daemons make:
a worker id is registered once, with finite numbers, and posted rewards are naturals.

**DnsRegistry, Identity.** Their routes run in a thread each and nothing is locked, so a request is a sequence of
steps, cut between every two accesses to a dictionary: it checks, looks again whether the name or DID is
there, sets entry, record and owner (or document, handle and counts), copies the dictionaries, opens
the file, which empties it, and writes the copy. A stop between opening and writing leaves a torn file, with which
the node does not start. A flag in each call (`alone`) and the histories `dnsRaced`, `idRaced` say whether requests overlapped: of
the file of overlapping requests nothing is promised, an older copy may be written last. Documents and records are
objects that are shared: the route changes the document that `resolve` returned, and `update` compares it with itself
(`identity/node.py:111-119`, `registry.py:61-64`), so that it would not see a changed handle. Nothing in the repository gives a document
another handle; the route adds a service. A claim that comes while its
DID is being registered is lost, since `register` sets the empty list of claims last (`registry.py:48-51`).

**The other services.** In `Faucet` a request checks in one step and commits in another. `Storage`
writes file, index in memory and index on disk in separate steps with crashes between, and `CrashInSave` inside the
write of `index.json`, which leaves a torn index and a node that does not start. A chunk whose file
was removed and whose index was not is acknowledged again without a file. `RelayDirectory`
restarts from its file. `Lora` numbers sessions modulo a small constant so that numbers come back. `WireFormat`
follows a record through up to `MaxHops` hand-overs: for each field, whether it is still exact, rounded, defaulted
or gone. `HomeDir` lets a process die before or inside a write.

## 3. Runs

Every run is TLC's exhaustive search. Deadlock is not checked: inputs are bounded and run out,
after which a model stops although the program waits for more.

| Run | Bounds | States | Shows |
|---|---|---|---|
| `chain_peers` | 2 nodes, 2 receipts, 1 storage proof, 1 transaction, stakes of 3, 3 blocks, cap reached by the second block | 690,420 | through forks, late blocks and chain replacement: proofs are rewarded once, spent sets and balance cache follow the chain, a fresh block is accepted, the supply cap holds |
| `chain_ledger` | chain: 1 node, 2 miners, 3 receipts (one unsigned), 3 transactions, 1 compute proof, stakes, 3 blocks. DAO: 1 thread, 2 proposals (payment, fee rate), one posted with a tally of its own, 2 voters, weights 1 and 2, 2 coins of income | 2,338,399 | reservations cover the mempool and balances the reservations, no coin is lost; the tally is the posted one and the sum of standing votes, what passes has quorum and majority, is paid once and covered, rates agree |
| `threads` | chain: 2 threads, 1 transaction, 1 receipt, 1 receipt of a peer, 1 storage proof, 2 blocks. Relay: 2 handlers and the daemon, 5 bytes, flush at 2. Home: 2 terminals, 2 random draws, a deposit of 2 | 635,535 | everything is consistent whenever the lock is free, `add_block` and relay calls return, a killed command leaves phrases, nonces and amounts right |
| `peer_to_peer` | gossip: 3 nodes, 2 messages, 2 hops, caches of 1 and 2, 1 loss. Table: 3 hosts, ban after 2, 1 lost request, 1 stop, a full table in the middle. Sync: 2 nodes that mine 3 and 1 blocks, batches of 2, 1 fault | 541,606 | a message is handled once while the cache is large enough, storms end, messages arrive; bans are earned, hosts come to know each other; the fork search is right, what was broadcast is stored, a node behind catches up |
| `markets` | compute: 2 jobs, posted pending or as assigned long ago, 2 records of one wallet. GPU: 2 jobs, posted pending or assigned, 1 daemon, 1 remote worker, 1 posted result. Channel: deposits 3 and 5 (0 and -1 are refused), increments 1 and 2, 4 receipts, 2 of them received elsewhere | 827,585 | both markets implement `JobLife`, jobs that wait or were given to a daemon end, the books agree; the manager of a channel counts a receipt once |
| `services` | relay: 2 sessions, 1 thread, 4 bytes. DNS: 3 spellings of 2 names, 2 owners, 2 threads, 3 requests. Identity: 2 DIDs, 2 handles, 3 claims, 2 threads, 3 requests. Storage: 2 nodes, 2 uploads with a chunk in common, 1 fault. Faucet: 2 threads, 2 addresses, a clock up to 3. LoRa: 4 contents of one and two packets, 2 session numbers, 1 loss. Chain of 6 blocks with clocks that go back. 9 slots of stack, 15 operations. 3 hand-overs. 2 directories, 2 tasks, 1 restart | 249,366 | the sequential relay implements the meter; each service is consistent, names change owner by a transfer, by registrations that found the name free, or through a file that is raced or behind; uploads stay as they are, contents arrive; miner and validator retarget alike; scripts are unlocked by what they were built for; records mean the same to everyone |

Each of the 40 properties of these runs has a mutant of the code that violates it within the same
bounds. Some properties are conjunctions of named parts (`DnsConsistent`, `SyncConsistent`,
`VotesDecide`, ...): the parts, each with its comment, stand before them in the module, the type invariant first.

The bounds let every interesting case happen. Two nodes fork, both extend, one replaces its
chain and offers the candidates made before; three blocks are enough for a proof to be rewarded, rolled
back and offered again. Three routers in a line with a shortcut give a message two paths of different length; a
cache of one is smaller than the number of messages. Two records of one wallet are the least for "the first that
matches" to be the wrong one. Two session numbers and four contents make a number come back twice. Two intervals
of retargeting and three eras of rewards fit into six blocks. The programs of `MCScripts` contain each builder's
script with right, missing, repeated and reordered signatures and nested conditionals.
Symmetry is over block ids (their values are only compared), threads or voters, and is not
used with liveness.

### Disagreements between documentation and code

Each of these runs checks one statement of the repository's documentation, and TLC shows a behaviour
of the code against it.

| Run | Statement | Behaviour |
|---|---|---|
| `chain_tx_twice` | whitepaper 8.2: `tx_id` is deduplicated | nothing looks at the `tx_id`; a transaction is confirmed twice |
| `threads_funded` | `SECURITY.md` H2: all mutating methods hold the lock | only `add_block` does: the mempool spends more than the balance |
| `relay_overclaim` | whitepaper 4.2: rewards are proportional to bytes | two handlers claim the same bytes |
| `payment_amounts` | whitepaper 5.3: amounts increase | a late receipt sets the amount back |
| `gov_spending` | `treasury.py:5`: spending requires a PASSED proposal | a second `execute` spends for a proposal that the first has executed |
| `storage_restore` | `storage/client.py:12`: a file can be reconstructed from any copy of the manifest | two uploads share a chunk, the node keeps the first ciphertext, which the second key does not open |

Also met while reading and modelling the code; no run of this project checks these.

Chain and relay:

* staked coins can be spent (`chain.py:249` ignores stakes; whitepaper 4.3 says they are locked);
* a transaction pooled twice and confirmed once leaves a reservation behind (`chain.py:183` removes
  every copy, `chain.py:173` releases what the block holds);
* a transaction accepted while `add_block` rebuilds the mempool is lost (`chain.py:183`);
* `create_block` without the lock can put a storage proof into a second block (`chain.py:125`), and two
  concurrent `add_proof` calls put two copies of a receipt into one block (`chain.py:208`);
* one unsigned queued receipt makes every block of its node invalid; after `replace_chain` the mempool is
  not checked against the new balances;
* retargeting is inverted: blocks that come late raise the threshold, so the next come later still
  (`economics.py:152-184`); `cumulative_supply` differs from the sum of the rewards once a reward is no whole
  number of satoshis (`economics.py:106-122`);
* a forked node never converges by sync, which never removes a block, although `p2p/sync.py:35` keeps the chain
  "in sync with the best peer";
* an `IF` nested in a branch that `OP_IF` skips ends the skipping at its own `ELSE` (`script.py:307-319`), so that of a conditional
  whose first branch is a conditional of two pushes neither branch is run; and a zero of
  four bytes, as `OP_ADD` and `OP_SUB` make it, is true;
* bytes recorded between the count of a proof and `mark_flush` are never claimed when handlers overlap
  (`relay.py:245`), though `relay.py:137` promises a proof for any un-flushed bytes;
* nothing drains `_proof_queue` (`relay.py:6` says the mining daemon does).

Money and decisions:

* a manager that does not know a channel countersigns the same receipt any number of times (`manager.py:188-193`),
  although `channel.py:16-17` says that receipts "cannot be replayed";
* a proposal passes with the tallies of its body and no vote at all (`proposal.py:131-133`, `governance.py:45-57`),
  although `proposal.py:46` asks for a share of the supply that must vote; and `to_dict` rounds them (`proposal.py:110-112`);
* a receipt delivered after `settle` changes a closed channel (`manager.py:187`); overlapping `payment` commands
  use a nonce twice or open a closed channel again (`cli.py:674-691`);
* two concurrent spends overdraw the treasury (`treasury.py:103`), two concurrent tallies finalise twice
  (`governance.py:109`);
* a late vote finalises with a supply of 0 and so rejects (`governance.py:75`); tally and execute do not
  look at the voting period, although whitepaper 8.2 speaks of time-locked execution;
* executing a SLASH proposal ends in an `AttributeError`, `self.chain` does not exist
  (`governance.py:193`);
* `to_dict` rounds the weight of a vote that was signed unrounded (`dao/vote.py:37-71`);
* a wallet file encrypted with a password is overwritten when the node starts (`node_runner.py:57-69`).

Markets and services:

* `InferResult.to_dict` and `RenderResult.to_dict` write `reward_bc`, which `InferResult(**body)` refuses
  (`infer/node.py:86-92`); the compute daemon imports `phantom.compute.job` and never submits a proof; the chain
  node has no `/compute/proof` or `/storage/proof`;
* a compute job can be posted as assigned to anybody and is then paid for (`compute/node.py:122-130`, `job.py:229-231`); the GPU
  markets take a result from anybody, for a job in any state and again (`infer/market.py:108-128`), and a job submitted
  under the id of another replaces it (`infer/market.py:89-90`);
* a job that was assigned never expires (`compute/job.py:190`); `max_price` is not looked at when assigning;
* the capacity of a storage node is never compared; a proof built by the client names the endpoint as the node and
  carries no signature;
* two registrations of one DNS name, or of one DID, both succeed when both look before either sets (`dns/registry.py:86-88`,
  `identity/registry.py:43-51`); of two savers the older copy can be written last, and a node killed in
  between finds a torn file (`dns/registry.py:215-224`, `identity/registry.py:151-158`);
* a storage node killed inside the write of `index.json` does not start again (`storage/node.py:313-320`);
* `update` cannot see that a document changed its handle, which it compares with itself (`identity/registry.py:61-64`), and sets
  the handle of its document without asking who has it (`identity/registry.py:65-66`); a DNS name without its
  suffix resolves only where the caller adds it;
* bootstrap relays, "always available as a fallback" (`discovery.py:49`), are not fresh after 300 seconds
  (`discovery.py:109-112`), the preferred region only breaks ties (`discovery.py:114-119`), and an older listing
  overwrites a newer `last_seen`;
* the legacy client never completes its handshake with the legacy node (`client.py`, `node.py:179`), whose
  bandwidth receipts have no wallet and are unsigned.

### Fairness

| Where | Assumed | Why |
|---|---|---|
| `ChainThreads`, `Relay` | the next step of a thread inside a call | a thread that runs is scheduled; a new call is never assumed |
| `Gossip` | some thread that sends or receives goes on (`GossipTurn`) | each request has a thread and a timeout; which one is first is open, losses are bounded faults |
| `PeerTable` | ping rounds, exchanges and starts of a node happen again and again | `_ping_loop` repeats for ever; a stopped node is started by its operator, which the properties need only for bounded stops |
| `ChainSync` | a save ends, the sync thread takes its next step, heights are learnt | `_sync_loop` waits with a timeout and goes on; pings are repeated. Delivery of gossip is not assumed |
| `ComputeMarket` | the cleanup loop runs and jobs grow old | `_cleanup_loop` is a task of the server; time passes |
| `GpuMarkets` | a daemon takes its next turn | its thread loops for ever |
| `Lora` | the next content is broadcast, the next packet is received | both threads loop for ever |

Locks are assumed free of starvation only in so far as the bounded calls of the model end. No new request of a user,
client or peer is ever assumed.

## 4. Proofs

All theorems hold for every value of the constants that satisfies the `ASSUME`s of the modules: tables of the right
type, natural amounts, finite sets wherever something is summed or counted (addresses, transactions, proofs, voters,
jobs, workers, messages), markers such as `NoOne` that are no member of the sets they mark the absence of. Where
a theorem has a further hypothesis, it is named below. A property that is a conjunction of named parts is stated
either as a whole or part by part, by name.

Hardly any property of a run is inductive as it stands. The proof names a stronger invariant, and one lemma per action shows
that the action keeps it.

### Chain

* **`TypeCorrect`.** The sums in `CoinbaseReward`, `Outflow` and `Replay` are folds over finite sets; `SumTheorems`
  derives from the fold's definition that they are integers, or naturals when the summands are.
* **`ReceiptsSafe`, `ServiceProofsSafe`, `SpentSetsExact`, `RewardedProofsSigned`, `FreshBlocksAccepted`,
  `ChainsGrow`.** `ReplaceChain` adopts a chain without looking at its proofs, so
  `ChainInv` says that every chain, fetched chain and candidate is well made: hashes link, block ids are unique among
  published blocks and candidates, the ancestors of a block are published, each block's proofs are disjoint from those
  of its ancestors, published receipts are signed, and spent sets are those of the chain. What any
  node adopts is then a chain of published blocks. `ServiceProofsSafe` takes `create_block` as one step;
  section 3 says what an interruption does.
* **`CacheIsReplay`.** Of balances only: stakes are not derived from the chain. `add_block` updates the cache, `replace_chain`
  recomputes it; `Replay` of a chain and one more block is `Replay` of the chain and the effect of the block, by the lemmas on sums.
* **`SupplyStaysCapped`.** The cap is looked at in `create_block` only. `AncestorsCapped` carries it: every block, published or
  not, fits the cap on top of its ancestors, and `ChainInv` makes a chain that contains it contain them.
* **`CoinsConserved`.** Each confirmed copy of a transaction moves its amount; only coinbases add and only fees take away.
* **`SingleNodeFunded`.** For one node and any transactions, miners and blocks. `FundedInv` adds `TipFunded`:
  a candidate on the tip spends only what the mempool still holds, and what is published lies below the tip; so the block that
  `add_block` accepts takes as much out of the balances as out of the reservations.
  The hypothesis of one node is needed: `replace_chain` leaves mempool and reservations as they were
  (`chain.py:366`), so that with several nodes the property is false.
* **`QuiescentState`** (`ChainThreads`). Any number of threads. `Exclusion` (one thread inside `add_block`) and `Progress` (what the thread
  that holds the lock has already changed, step by step of its program counter) give that spent sets and balances are those of
  the chain whenever nobody is inside.

### Network

* **`GossipIsConsistent`.** Any graph, fanout and cache: what is in flight or handled was sent; while the cache has room
  it remembers what its node sent and handled. That a node handles a message once is not said: two threads can be between check and mark.
* **`TablesAreConsistent`.** `GoodTable` (other hosts only, the limit, bans for failures) holds of what each of the five ways into a table makes of it.
* **`SyncIsConsistent`.** Any number of nodes. `ThreadFits` says what the sync thread knows at each point of a pass: the binary search keeps
  an interval of heights: the two chains agree up to the lower end and, unless a request failed, no further than the upper one,
  so that it ends at the fork. A sync only appends. `Stored` relates chain and rows across `Save` and restarts.
* **`RelayTypes`, `SequentialRelayMeters`.** For any threads a mark is at most the total, so no count is
  negative. For one thread each step of the relay is a step of `BandwidthMeter` or stutters.
* **`RelaysKeptAndRanked`** (`RelayDirectory`). `DirectoryInv` adds that the cache file, unless absent or torn, lists what was learnt, once
  each. For the answer (`BestFirst`), set induction over the relays placed so far shows that the stable sort keeps the members, each once,
  and leaves nobody behind a worse one; what is cut off is then no better than what is given.

### Decisions and money

* **`DecisionFollowsVotes`, `TreasuryKeepsToDecisions`.** Hypothesis: one thread governs; with two, check and effect come apart (section 3). `GovInv`: the
  tally is that of the body and the sum of the standing votes but for the one being cast (`TallyInv`), what passed would pass again (`PassInv`),
  what is spent was executed (`PayInv`), rates agree but for the execution under way (`RateInv`).
* **`ChannelSafe`** and its four parts. Amounts and nonces are bounded by deposit and `MaxNonce`, `ch.nonce` bounds the
  signed nonces; at the manager that knows the channel, no nonce above `recvNonce` was acknowledged, the deposit never changes once receipts exist.
* **`HomeIsConsistent`.** `NothingBefore`, `OneAtATime`, `Ascending`: a command that was killed before its write left no receipt, and
  unless commands overlap the receipts are those of the nonces so far, in ascending value.
* **`FaucetIsConsistent`.** `FaucetSolvent`: what requests between check and send hold is covered; `DripsApart`: drips of an IP that does not overlap
  are a cooldown apart, so there are at most as many as cooldowns have passed. The cooldown per address is not stated: requests of several IPs
  for one address overlap like requests of one IP.

### Markets

* **`ComputeMarketConsistent`, `ComputeJobsEndOnce`.** Hypothesis `WorkersReport`: failures are reported of assigned jobs, as
  the daemons do. `Fits` says that a wallet which no posted job names (`Clear`) has no more assigned jobs than it has busy records
  in the registry, `Match` that what its records earned is the sum of its payments, and for every wallet no more than that. For
  `Match` to survive a
  registration, a record outside the registry must have earned nothing. `RetryPending` is iterated assignment; `Iterates` gives the
  recursive function and set induction carries `Fits` along it. For the refinement every action moves each job along `Life!Moves`, where
  a job comes in with any status.
* **`GpuMarketConsistent`, `GpuJobsEndOnce`.** Hypothesis `OneRecordPerWallet` for the first: with two records
  of a wallet the one that is freed need not be the one that was booked. `TotalInv` says that each pending `+=` read
  a total not above the results other than its own, so lost updates only lose; it holds of foreign results too. The refinement is of the jobs outside
  `gpuOutside`, which a job enters with the first odd request about it and does not leave.

### Services

* **`DnsIsConsistent`, `OwnersChangeByTransfer`.** `DnsCalls` gives the shape of a request at each of its steps; `DnsCompany` and `DnsCopies` say
  that a request which runs alone stays alone until its save and writes what the memory holds; hence `DnsFile`, for requests that came one at a
  time. A name that resolves finds its entry, although lists are set by threads that looked earlier (`DnsListed`). That a resolution finds what the end
  of a chain of aliases holds (`AliasesHold`) is by set induction on the depth. `OwnerChangesByTransfer` names the ways in which a name gets
  another owner: a transfer, a registration that found the name free when it looked, a restart with a file that is raced or behind.
* **`IdentityIsConsistent`.** `IdCompany`, `IdCopies` and `IdFile` are the same argument. `HandleResolves` and `HandlesEntered` relate documents and
  handles while no registration has replaced a document that another one had made (`replaced`); scores are monotone sums with caps.
* **`StorageIsConsistent`, `LaterUploadsDoNoHarm`.** `IndexSaved` and `IndexHeld` follow the three writes of a chunk, so that
  a crash between two leaves a chunk that is not acknowledged or one that is whole; a crash inside the write of the index leaves a torn index and a node that
  is down for good. `removed` exempts files that were deleted, also by a deletion that was broken off, until they are written again.
  `LaterUploadsHarmless` speaks of uploads whose chunks the same nodes hold
  before and after: without it the property is false as soon as two nodes replicate and two faults may happen, since a
  deletion can take away the last good copy.
* **`DifficultiesValidate`, `RewardsAndDifficulties`** (`Economics`). `ValidateDifficulties` looks at a prefix of the chain only, so a block more
  disturbs nothing below it. Floor and ceiling hold whatever the clocks say. The second theorem adds that the supply is the sum of
  the rewards, under the hypothesis `WholeRewards`: no era of the chain has a reward with a fraction of a satoshi, and the cap is not below
  the limit of the series. The code's 50 BC are whole for the first ten eras, and its `MAX_SUPPLY` is that limit; later
  the property is false (section 3). The argument: after e rounds the loop has paid what the first
  e eras were paid, and twice an era at the present reward is still left below the cap (`WholeEras`, by set
  induction on e); the last round pays the part of an era that is left, and further rounds change nothing (`LoopEnds`). That `2 ^ (n + 1)` is twice
  `2 ^ n`, which the provers do not know, comes from the library's theorem on the cardinality of a power set. `MCServices` has TLC
  evaluate `WholeRewards` for the instance of the run.
* **`EveryRecordArrives`** (`WireFormat`). A table is sound (`Sound`) when what its class requires, seals, hashes and acts on is both
  written and read, and is not shortened on the way where it is acted on; that each of the 26 tables is sound is a comparison of sets of names. The invariant
  relates the record in hand to the one that was made (`Faithful`): a field that is written and read is as it was made, unless
  `to_dict` shortens it and it was made long. The exceptions are named in the property: `InferResult` and
  `RenderResult` are not read, a vote over a weight of more than eight digits and the record of a compute proof do
  not verify, and of a vote's weight and a proposal's tallies eight digits are acted on. Hence the number of hand-overs does not matter, nor a proof's becoming a record of the chain.

### Scripts

* **`ScriptsStayInLimits`.** Every step moves `pc` forward, also the scans over skipped branches.
* **`SingleKeysUnlockExactly`.** `KeyPlace` gives the stack at each `pc` of the two templates.
* **`MultisigsUnlockExactly`.** For any keys, signers, m and n. `Arguments` describes the stack while the values are pushed;
  at `OP_CHECKMULTISIG` the values come off in reverse. `GreedyFinds`: a pass that takes for
  each signature the first key left finds m increasing keys exactly if there are any; `Reversed` turns a choice for the reversed
  lists into one for the lists themselves.
* **`BranchesAreSelected`.** For conditionals nested to any depth in branches that are run or that `OP_ELSE` skips. A conditional leaves the number that its
  condition selects, so does each of its branches, and so on (`Conditionals` in `ScriptAssumption`). The invariant `BranchPlace`
  says where a run is: before a branch that is still to be run (`BeforeBranch`), before an `OP_IF` with its condition on the stack
  (`BeforeIf`), or on the way out with the number on the stack (`OnWay`). The positions that lead out are a
  set `Way`: the end, an `OP_ENDIF` before a position of the set, an `OP_ELSE` from which the scan ends in it. Entering a branch adds
  the position behind it (`WayGrows`), so that no depth of nesting is ever counted. That the scan from an
  `OP_ELSE` ends behind its own `OP_ENDIF` (`ElseSkips`) needs the depths over a whole branch: they come back to
  where they began and never go below (`BranchesEven`, by induction on a set of lengths of code). The
  scan from `OP_IF` counts an `OP_ELSE` as the end of a conditional (`script.py:316`), so it stops inside a conditional nested in the branch
  that it skips. The assumption says of such a branch that it is a number or a conditional of two pushes; of the latter the
  property says that neither branch is run. Deeper ones are outside the assumption.
* **`EveryScriptHolds`** puts the four together: `ScriptsHold`.

### Only model-checked

* Liveness (`AddBlockReturns`, `CallsReturn`, `GossipEnds`, `Delivered`, `AllKnown`, `CatchUp`, `PendingEnds`, `AssignedEnds`,
  `ArrivesUnlessSpoiled`): the prover has no fairness and no `ENABLED`. `AddBlockReturns` stands for no hazard of the list: `with` frees the lock
  on every way out; it is checked because everything that waits for the lock depends on it.

### What the proofs changed in the models

Where a definition could not be reasoned about it was written differently, with the same states: sequences of records that are searched for
the first or best match became sets of positions with their minimum (`ComputeMarket`, `GpuMarkets`, `Identity`), sets of ids
(`DnsRegistry`); folds became recursive functions (`RetryPending`, `PutAll`, `FollowAliases`, `Matched`, `ByUptime`), `cumulative_supply` became its loop,
round by round (`EraPaid`), `SelectSeq` and `SortSeq` recursive functions that append and insert (`Only`, `Placed`), and sums over finite sets (`PaidTo`).
Some constants got assumptions that the code justifies: a feature flag is never kept under the key of the fee (`Governance`), a
content key is never the marker of none (`Storage`), ids are strings of bounded length, so finitely many (`Gossip`). In some places the model was wrong and
was put right: `LaterUploadsHarmless` (above); in `ScriptEngine`, `OP_ADD` and `OP_SUB` refuse results beyond four bytes and strings that are no numbers,
and `OP_CHECKMULTISIG` reads its counts from the first byte of whatever it finds; `TimelockHolds` had left the public key out.

## 5. Plan

Done: every component of section 1 but the last row; every safety property of a passing run is proved.

Next:

1. stronger readings of what is proved: `MempoolFunded` for several nodes up to the first `replace_chain`,
   `QuiescentConsistent` with `replace_chain` among the calls;
2. the safety half of `CatchUp`: a chain never gets shorter across a sync pass and a restart.

Next models: the retarget inside `BorderChain` (a difficulty per block), a forked `ChainSync` together with the HTTP
node's `replace_chain`, three gossiping peers that also ban.

## 6. Not modelled

* Cryptography: a signature is valid or not and a hash is injective; key derivation and the word list are values.
* Floating-point arithmetic in amounts: they are whole numbers of a small unit. Where rounding decides something, in
  `to_dict`, `WireFormat` has it.
* Wall-clock time, of which only "over or not", "fresh or not" or a small clock matters.
* The legacy tunnel (`node.py`, `client.py`) and `obfuscate.py`: socket forwarding and packet layout; the client never
  completes its handshake, so there is no session to say anything of. The in-memory list of `BandwidthLedger` is used
  by it only.
* Dashboard, explorer and HTTP routes that only read; commands that only print or post; logging.
* Demos and testnet scripts, but for two hand-overs of records that exist only there (`WireFormat`).
* What a job computes, what a model answers: its outcome is that it finishes or raises.
