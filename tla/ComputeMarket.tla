--------------------------- MODULE ComputeMarket ---------------------------
(***************************************************************************)
(* The GPU market (border/compute): the job queue, the registry of workers *)
(* and the routes of BorderComputeNode, together with the worker daemons.  *)
(* The routes are coroutines without an await, so each is one step.        *)
(*                                                                         *)
(* Dictionaries are iterated in the order of insertion, which decides who  *)
(* gets a worker and which record a wallet means: order and registry are   *)
(* sequences.  The clock is a set of flags: late (older than               *)
(* JOB_TIMEOUT_SECONDS), online and fresh (seen within 60 seconds).        *)
(* Amounts are naturals.  Refused calls are no steps.                      *)
(*                                                                         *)
(* The route stores a posted job as it is: its status, its worker and its  *)
(* submission time are those of the body.  A posted registration is the    *)
(* one a daemon makes of itself.                                           *)
(***************************************************************************)
EXTENDS Integers, FiniteSets, FiniteSetsExt, SequencesExt

CONSTANTS
    JobIds,         \* ids of jobs, retries included: the bound on jobs
    Workers,        \* worker ids: one per start of a daemon (one that stops takes no more steps)
    WalletOf,       \* WalletOf[w]: the wallet of worker w
    Stake,          \* Stake[w] in BC
    Cards,          \* Cards[w]: [nvidia, amd], the sets of VRAM sizes in GB
    Posted,         \* bodies of posted jobs: the [status, worker, late] they give
    Prices, Needs,  \* max_price_bc (in 1/10 BC) and min_vram_gb of submitted jobs
    ProofOf,        \* ProofOf[j]: [hours, gb, price] of a proof for j
    MaxConcurrent,  \* jobs per daemon
    FailStatuses,   \* the statuses of jobs whose failure is reported
    NoWallet

Wallets == {WalletOf[w] : w \in Workers}
JobStatus == {"PENDING", "ASSIGNED", "COMPLETED", "FAILED", "EXPIRED"}

ASSUME ComputeAssumption ==
    /\ IsFiniteSet(JobIds) /\ IsFiniteSet(Workers)
    /\ \A w \in Workers : WalletOf[w] # NoWallet /\ Stake[w] \in Nat
    /\ \A w \in Workers : Cards[w] \in [nvidia : SUBSET Nat, amd : SUBSET Nat]
    /\ Prices \subseteq Nat \ {0} /\ Needs \subseteq Nat 
    /\ Posted \subseteq [status : JobStatus, worker : Wallets \cup {NoWallet}, late : BOOLEAN]
    /\ ProofOf \in [JobIds -> [hours : Nat, gb : Nat, price : Nat]]

VARIABLES
    jobs,      \* jobs[j]: [status, worker, price, need, late]
    order,     \* the ids in _jobs, oldest first
    registry,  \* the ids in registry._workers, oldest first
    workers,   \* workers[w]: [available, online, completed, failed, earned]
    proofs,    \* ids of the jobs in _proofs
    payments,  \* _payments: a sequence of [job, wallet, amount]
    forwards,  \* proofs (by job) that a background task is sending to the chain
    submitted, \* _submitted_proof_ids (by job)
    daemons,   \* daemons[w]: [up, fresh, active]
    claimed    \* history: the wallets that a posted job named as those it is assigned to

computeVars == <<jobs, order, registry, workers, proofs, payments, forwards, submitted, daemons, claimed>>

\* ComputeJob.create
NewJob(price, need) ==
    [status |-> "PENDING", worker |-> NoWallet, price |-> price, need |-> need, late |-> FALSE]
NoJob == [NewJob(0, 0) EXCEPT !.status = "none"]

ComputeInit ==
    /\ jobs = [j \in JobIds |-> NoJob]
    /\ order = <<>> /\ registry = <<>>
    /\ workers = [w \in Workers |-> [available |-> TRUE, online |-> TRUE,
                                     completed |-> 0, failed |-> 0, earned |-> 0]]
    /\ proofs = {} /\ payments = <<>> /\ forwards = {} /\ submitted = {}
    /\ daemons = [w \in Workers |-> [up |-> FALSE, fresh |-> TRUE, active |-> {}]]
    /\ claimed = {}

-----------------------------------------------------------------------------
(* BorderWorker, WorkerRegistry *)

\* GPUSpec.detect: NVIDIA cards, else AMD cards, else the CPU, which has no VRAM
Detect(cards) == IF cards.nvidia # {} THEN cards.nvidia
                 ELSE IF cards.amd # {} THEN cards.amd ELSE {0}

\* max_vram_gb
Vram(w) == Max(Detect(Cards[w]))

\* reputation, rounded to 1/10000
Reputation(worker) ==
    LET total == worker.completed + worker.failed IN
    IF total = 0 THEN 5000 ELSE (20000 * worker.completed + total) \div (2 * total)

\* MIN_STAKE_TO_WORK
IsTrusted(w, worker) == Stake[w] >= 1 /\ Reputation(worker) >= 3000

CanHandle(w, worker, need) ==
    worker.available /\ worker.online /\ IsTrusted(w, worker) /\ Vram(w) >= need

\* score_for_job, in units of 1/100000
Score(w, worker, need) ==
    5 * Reputation(worker)
    + (IF Stake[w] < 30 THEN 1000 * Stake[w] ELSE 30000)
    + (20000 * (Vram(w) - need)) \div (IF Vram(w) = 0 THEN 1 ELSE Vram(w))

\* best_worker_for, in a market m = [jobs, workers, registry]: the first of those with the
\* highest score, {} if nobody can handle the job
BestWorker(m, need) ==
    LET worker(i) == m.workers[m.registry[i]]
        score(i) == Score(m.registry[i], worker(i), need)
        can == {i \in DOMAIN m.registry : CanHandle(m.registry[i], worker(i), need)}
        best == {i \in can : \A k \in can : score(i) >= score(k)}
    IN  IF best = {} THEN {} ELSE {m.registry[Min(best)]}

\* _find_worker_by_address: the first record of the wallet, if it has one
Records(wallet) == {i \in DOMAIN registry : WalletOf[registry[i]] = wallet}
RecordOf(wallet) == registry[Min(Records(wallet))]

-----------------------------------------------------------------------------
(* ComputeMarket *)

Market == [jobs |-> jobs, workers |-> workers, registry |-> registry]
MarketBecomes(m) == jobs' = m.jobs /\ workers' = m.workers /\ registry' = m.registry

Assign(m, j, w) ==
    [jobs |-> [m.jobs EXCEPT ![j].status = "ASSIGNED", ![j].worker = WalletOf[w]],
     workers |-> [m.workers EXCEPT ![w].available = FALSE],
     registry |-> m.registry]

\* _try_assign
TryAssign(m, j) ==
    LET best == BestWorker(m, m.jobs[j].need) IN
    IF m.jobs[j].status = "PENDING" /\ best # {} THEN Assign(m, j, CHOOSE w \in best : TRUE) ELSE m

\* retry_pending_jobs: after[i] is the market after the i oldest jobs were tried
RetryPending(m) ==
    LET after[i \in 0..Len(order)] == IF i = 0 THEN m ELSE TryAssign(after[i - 1], order[i])
    IN  after[Len(order)]

\* from_dict of a body
PostedJob(price, need, body) ==
    [NewJob(price, need) EXCEPT !.status = body.status, !.worker = body.worker, !.late = body.late]

\* submit_job of an unknown id
SubmitJob(j, price, need, body) ==
    /\ jobs[j].status = "none"
    /\ order' = Append(order, j)
    /\ MarketBecomes(TryAssign([Market EXCEPT !.jobs[j] = PostedJob(price, need, body)], j))
    /\ claimed' = claimed \cup (IF body.status = "ASSIGNED" THEN {body.worker} ELSE {})
    /\ UNCHANGED <<proofs, payments, forwards, submitted, daemons>>

\* compute_reward_bc, in 1/10 BC: BC_PER_COMPUTE_HOUR, BC_PER_GB_PROCESSED, at least the price
ComputeReward(proof) == Max({20 * proof.hours + proof.gb, proof.price})

\* The cap of submit_proof
Earned(price, reward) == IF reward > 2 * price THEN price ELSE reward

\* Mutant: the state of the job is not asked.
CheckProofAny(wallet, j) == jobs[j].worker = wallet

\* The checks of submit_proof; a worker that hashes the job it was given passes the others.
CheckProof(wallet, j) ==
    jobs[j].status = "ASSIGNED" /\ jobs[j].worker = wallet /\ j \notin proofs

\* Mutant: the record is credited with the uncapped reward.
CreditReward(worker, reward, earned) ==
    [worker EXCEPT !.completed = @ + 1, !.earned = @ + reward, !.available = TRUE]

\* record_completion
Credit(worker, reward, earned) ==
    [worker EXCEPT !.completed = @ + 1, !.earned = @ + earned, !.available = TRUE]

\* submit_proof and its route: the proof is also given to a background task.
SubmitProof(wallet, j) ==
    LET reward == ComputeReward(ProofOf[j])
        earned == Earned(jobs[j].price, reward) IN
    /\ CheckProof(wallet, j)
    /\ jobs' = [jobs EXCEPT ![j].status = "COMPLETED"]
    /\ proofs' = proofs \cup {j}
    /\ workers' = IF Records(wallet) = {} THEN workers
                  ELSE [workers EXCEPT ![RecordOf(wallet)] = Credit(@, reward, earned)]
    /\ payments' = Append(payments, [job |-> j, wallet |-> wallet, amount |-> earned])
    /\ forwards' = forwards \cup {j}
    /\ UNCHANGED <<order, registry, submitted, daemons, claimed>>

\* record_failure
Blame(worker) == [worker EXCEPT !.failed = @ + 1, !.available = TRUE]

\* fail_job: the work is queued again as a new job.
FailJob(j, retry) ==
    /\ jobs[j].status \in FailStatuses
    /\ jobs[retry].status = "none"
    /\ order' = Append(order, retry)
    /\ LET holder == jobs[j].worker
           failed == [jobs EXCEPT ![j].status = "FAILED", ![retry] = NewJob(jobs[j].price, jobs[j].need)]
           freed == IF Records(holder) = {} THEN workers ELSE [workers EXCEPT ![RecordOf(holder)] = Blame(@)]
       IN  MarketBecomes(TryAssign([jobs |-> failed, workers |-> freed, registry |-> registry], retry))
    /\ UNCHANGED <<proofs, payments, forwards, submitted, daemons, claimed>>

\* Mutant: jobs that wait are never too old.
IsExpiredNot(job) == job.status = "ASSIGNED" /\ job.late

IsExpired(job) == job.status = "PENDING" /\ job.late

\* expire_stale_jobs
ExpireStale(js) ==
    [j \in JobIds |-> IF IsExpired(js[j]) THEN [js[j] EXCEPT !.status = "EXPIRED"] ELSE js[j]]

\* One turn of _cleanup_loop
Cleanup ==
    /\ MarketBecomes(RetryPending([Market EXCEPT !.jobs = ExpireStale(@)]))
    /\ UNCHANGED <<order, proofs, payments, forwards, submitted, daemons, claimed>>

\* time.time() - submitted_at passes JOB_TIMEOUT_SECONDS
JobAges(j) ==
    /\ jobs[j].status # "none" /\ ~ jobs[j].late
    /\ jobs' = [jobs EXCEPT ![j].late = TRUE]
    /\ UNCHANGED <<order, registry, workers, proofs, payments, forwards, submitted, daemons, claimed>>

\* No heartbeat for 60 seconds
WorkerSilent(w) ==
    /\ w \in Range(registry) /\ workers[w].online
    /\ workers' = [workers EXCEPT ![w].online = FALSE]
    /\ UNCHANGED <<jobs, order, registry, proofs, payments, forwards, submitted, daemons, claimed>>

\* _submit_proof_to_chain: one attempt; the proof is marked when the answer says so.
ForwardProof(j, accepted) ==
    /\ j \in forwards
    /\ forwards' = forwards \ {j}
    /\ submitted' = IF accepted THEN submitted \cup {j} ELSE submitted
    /\ UNCHANGED <<jobs, order, registry, workers, proofs, payments, daemons, claimed>>

-----------------------------------------------------------------------------
(* WorkerDaemon *)

\* _main and _register: the daemon goes on when the market cannot be reached.  The route
\* tries to place the jobs that wait.
DaemonStart(w, reached) ==
    /\ ~ daemons[w].up
    /\ daemons' = [daemons EXCEPT ![w].up = TRUE]
    /\ IF reached THEN MarketBecomes(RetryPending([Market EXCEPT !.registry = Append(@, w)]))
                  ELSE UNCHANGED <<jobs, workers, registry>>
    /\ UNCHANGED <<order, proofs, payments, forwards, submitted, claimed>>

\* _heartbeat that reaches the market; a worker that is not registered gets a 404.
DaemonHeartbeat(w) ==
    /\ daemons[w].up
    /\ w \in Range(registry)
    /\ LET seen == [workers EXCEPT ![w].online = TRUE]
       IN  MarketBecomes(RetryPending([Market EXCEPT !.workers = seen]))
    /\ UNCHANGED <<order, proofs, payments, forwards, submitted, daemons, claimed>>

\* 60 seconds after the start: nothing renews last_seen of the daemon's own record.
DaemonAges(w) ==
    /\ daemons[w].up /\ daemons[w].fresh
    /\ daemons' = [daemons EXCEPT ![w].fresh = FALSE]
    /\ UNCHANGED <<jobs, order, registry, workers, proofs, payments, forwards, submitted, claimed>>

\* The places in _jobs of the pending jobs that the daemon may take; its own record counts
\* as available and has no history.
Offers(w) ==
    {i \in DOMAIN order : /\ jobs[order[i]].status = "PENDING" /\ order[i] \notin daemons[w].active
                          /\ daemons[w].fresh /\ Stake[w] >= 1 /\ Vram(w) >= jobs[order[i]].need}

\* _poll_and_accept: one job per turn, the oldest
DaemonPoll(w) ==
    /\ daemons[w].up
    /\ Cardinality(daemons[w].active) < MaxConcurrent
    /\ Offers(w) # {}
    /\ daemons' = [daemons EXCEPT ![w].active = @ \cup {order[Min(Offers(w))]}]
    /\ UNCHANGED <<jobs, order, registry, workers, proofs, payments, forwards, submitted, claimed>>

\* How _execute ends: inference, rendering and training fall back on a stub, a custom job
\* turns its errors and its timeout into a result; only input of a wrong shape raises.
Execute == {"result", "raised"}

\* _run_job.  With a result, wallet.sign gets a str and raises before a proof is submitted;
\* without one, the failure is reported to a route that the node does not have.
DaemonRunJob(w, j, outcome) ==
    /\ outcome \in Execute
    /\ j \in daemons[w].active
    /\ daemons' = [daemons EXCEPT ![w].active = @ \ {j}]
    /\ UNCHANGED <<jobs, order, registry, workers, proofs, payments, forwards, submitted, claimed>>

-----------------------------------------------------------------------------
ComputeNext ==
    \/ \E j \in JobIds, price \in Prices, need \in Needs, body \in Posted : SubmitJob(j, price, need, body)
    \/ \E wallet \in Wallets, j \in JobIds : SubmitProof(wallet, j)
    \/ \E j, retry \in JobIds : FailJob(j, retry)
    \/ \E j \in JobIds : JobAges(j)
    \/ \E j \in JobIds, accepted \in BOOLEAN : ForwardProof(j, accepted)
    \/ Cleanup
    \/ \E w \in Workers : \/ WorkerSilent(w) \/ DaemonHeartbeat(w) \/ DaemonAges(w)
                          \/ DaemonPoll(w)
                          \/ \E reached \in BOOLEAN : DaemonStart(w, reached)
                          \/ \E j \in JobIds, outcome \in Execute : DaemonRunJob(w, j, outcome)

\* The cleanup loop runs every 30 seconds, and time passes.
ComputeFairness == WF_computeVars(Cleanup) /\ \A j \in JobIds : WF_computeVars(JobAges(j))

ComputeSpec == ComputeInit /\ [][ComputeNext]_computeVars /\ ComputeFairness

-----------------------------------------------------------------------------
(* Properties *)

\* The types, and _jobs holds exactly the jobs that were queued, retries included.
ComputeTypeOK ==
    /\ jobs \in [JobIds -> [status : JobStatus \cup {"none"}, worker : Wallets \cup {NoWallet},
                             price : Prices \cup {0}, need : Needs \cup {0}, late : BOOLEAN]]
    /\ order \in Seq(JobIds) /\ registry \in Seq(Workers)
    /\ Range(order) = {j \in JobIds : jobs[j].status # "none"}
    /\ workers \in [Workers -> [available : BOOLEAN, online : BOOLEAN, completed : Nat,
                                 failed : Nat, earned : Nat]]
    /\ proofs \subseteq JobIds /\ forwards \subseteq proofs /\ submitted \subseteq proofs
    /\ daemons \in [Workers -> [up : BOOLEAN, fresh : BOOLEAN,
                                 active : SUBSET JobIds]]
    /\ claimed \subseteq Wallets \cup {NoWallet}

PaidFor(j) == Cardinality({i \in DOMAIN payments : payments[i].job = j})
Life == INSTANCE JobLife WITH Jobs <- JobIds, status <- [j \in JobIds |-> jobs[j].status],
                              paid <- [j \in JobIds |-> PaidFor(j)]

\* The market implements the abstract life of a job: whatever order proofs, failures,
\* expiry and registrations come in, a job ends once and is paid for when it completes.
ImplementsJobLife == Life!Spec

Pay(wallet) ==
    SumFunctionOnSet([i \in DOMAIN payments |-> payments[i].amount],
                     {i \in DOMAIN payments : payments[i].wallet = wallet})
RecordsOf(wallet) == {w \in Range(registry) : WalletOf[w] = wallet}

Gains(wallet) == SumFunctionOnSet([w \in Workers |-> workers[w].earned], RecordsOf(wallet))

\* No record earns what the payment log does not have; and the registry's total_earned_bc of
\* a wallet's records is what the log says, also when a daemon was restarted and the wallet
\* has several records (_find_worker_by_address), unless a posted job named the wallet: then
\* it may be paid before it has a record.
EarningsMatchPayments ==
    /\ \A wallet \in Wallets : Gains(wallet) <= Pay(wallet)
    /\ \A wallet \in Wallets \ claimed : Gains(wallet) = Pay(wallet)

\* No wallet is given more jobs at a time than it has records: each assigned job keeps a
\* record of its wallet unavailable (_try_assign, record_completion, record_failure).  A job
\* that is posted as assigned to a wallet holds no record, and its end frees another's.
NotOverbooked ==
    \A wallet \in Wallets \ claimed :
        Cardinality({j \in JobIds : jobs[j].status = "ASSIGNED" /\ jobs[j].worker = wallet})
            <= Cardinality({w \in RecordsOf(wallet) : ~ workers[w].available})

\* A queued job does not wait for ever: it is assigned or expires (_cleanup_loop).
PendingEnds == \A j \in JobIds : []<>(jobs[j].status # "PENDING")

\* The registry agrees with the jobs that the market assigned itself: each holds a record,
\* and the records have earned what was paid.
ComputeConsistent == ComputeTypeOK /\ EarningsMatchPayments /\ NotOverbooked
=============================================================================
