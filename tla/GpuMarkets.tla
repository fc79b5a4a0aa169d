----------------------------- MODULE GpuMarkets -----------------------------
(***************************************************************************)
(* The inference market (border/infer) and the rendering market            *)
(* (border/render): a node, the daemons that share its market object, and  *)
(* workers elsewhere that post their results.  The two packages have the   *)
(* same control, so one module stands for both: gpuKind says which of them *)
(* a behaviour is of, and the operators that differ come in pairs.         *)
(*                                                                         *)
(* Routes are plain functions, run by a pool of threads, and no method     *)
(* takes a lock.  submit_job is two steps (the worker is chosen, the       *)
(* worker is taken), and submit_result is two: `total += result.reward_bc` *)
(* loads the total before it calls the property.  Amounts are in           *)
(* 1/10000000 BC (inference) and 1/10000 BC (rendering); counts that only  *)
(* the statistics show (jobs, tokens, frames) are left out.                *)
(*                                                                         *)
(* A job is the object that a request to submit it makes, with the status  *)
(* and the worker of the body.  An id that is submitted again replaces the *)
(* object in _jobs, and a result goes to the object that its id has then.  *)
(* The result route asks neither the state of the job nor who sends it.    *)
(* gpuOutside collects the jobs to which such a request was made: what the *)
(* market promises, it promises of the others.                             *)
(***************************************************************************)
EXTENDS Integers, FiniteSets, FiniteSetsExt, SequencesExt

CONSTANTS
    GpuJobs,      \* requests that submit a job, each with the object it makes: the bound on jobs
    PostedBodies, \* the [status, worker] of bodies that are sent
    GpuWorkers,   \* worker ids
    GpuDaemons,   \* those that are a daemon in the process of the market
    GpuWallet,    \* GpuWallet[w]
    GpuStake,     \* GpuStake[w] in BC
    GpuVram,      \* GpuVram[w] in GB
    Loaded,       \* Loaded[w]: the model_ids of w
    InferAsk,     \* InferAsk[j]: [model, need, max, embedding, input, output], a body sent to /infer/job
    RenderAsk,    \* RenderAsk[j]: [model, need, max, type, frames, pixels], sent to /render/job
    PostedRewards, \* rewards of results sent to the route
    MaxPosted,     \* results that the route gets: a bound
    NoOne

GpuWallets == {GpuWallet[w] : w \in GpuWorkers}
InferType == BOOLEAN   \* EMBEDDING or another
RenderType == {"IMAGE", "VIDEO", "MODEL3D", "UPSCALE", "INPAINT"}

\* RUNNING is STREAMING in border/infer and RENDERING in border/render.
GpuStatus == {"PENDING", "ASSIGNED", "RUNNING", "COMPLETED", "FAILED"}

ASSUME GpuAssumption ==
    /\ IsFiniteSet(GpuJobs) /\ IsFiniteSet(GpuWorkers) /\ GpuDaemons \subseteq GpuWorkers
    /\ NoOne \notin GpuJobs \cup GpuWorkers \cup GpuWallets
    /\ \A w \in GpuWorkers : GpuStake[w] \in Nat /\ GpuVram[w] \in Nat
    /\ PostedBodies \subseteq [status : GpuStatus, worker : GpuWallets \cup {NoOne}]
    /\ PostedRewards \subseteq Nat
    /\ \A j \in GpuJobs : LET ask == InferAsk[j] IN
          ask.embedding \in InferType /\ ask.max \in Nat /\ ask.input \in Nat /\ ask.output \in Nat
    /\ \A j \in GpuJobs : LET ask == RenderAsk[j] IN
          ask.type \in RenderType /\ ask.max \in Nat /\ ask.frames \in Nat /\ ask.pixels \in Nat

VARIABLES
    gpuKind,     \* "infer" or "render"
    gpuJobs,     \* gpuJobs[j]: [id, status, worker]; the id is the first job that had it
    gpuStored,   \* the jobs in _jobs
    gpuRecords,  \* the ids in _workers, oldest first
    gpuFree,     \* the workers with is_available
    gpuPick,     \* gpuPick[j]: the worker that submit_job has chosen and not yet taken
    gpuBusy,     \* gpuBusy[w]: the job that daemon w is executing
    gpuPaid,     \* gpuPaid[j]: the results that were counted for j
    gpuAdding,   \* calls of submit_result that have read the total: [job, nth, read, reward]
    gpuTotal,    \* _total_bc_paid
    gpuDue,      \* history: the rewards of all results
    gpuPosted,   \* history: the results that the route got
    gpuOutside   \* history: jobs not as create makes them, submitted under an id that another
                 \* has, or whose result did not come from their worker while they were assigned

gpuVars == <<gpuKind, gpuJobs, gpuStored, gpuRecords, gpuFree, gpuPick, gpuBusy, gpuPaid, gpuAdding,
             gpuTotal, gpuDue, gpuPosted, gpuOutside>>

\* InferJob.create and RenderJob.create
Created == [status |-> "PENDING", worker |-> NoOne]
Ask(j) == IF gpuKind = "infer" THEN InferAsk[j] ELSE RenderAsk[j]

GpuInit ==
    /\ gpuKind \in {"infer", "render"}
    /\ gpuJobs = [j \in GpuJobs |-> [id |-> j, status |-> "none", worker |-> NoOne]]
    /\ gpuRecords = <<>> /\ gpuFree = {}
    /\ gpuStored = {} /\ gpuPosted = 0 /\ gpuOutside = {}
    /\ gpuPick = [j \in GpuJobs |-> NoOne] /\ gpuBusy = [w \in GpuWorkers |-> NoOne]
    /\ gpuPaid = [j \in GpuJobs |-> 0] /\ gpuAdding = {} /\ gpuTotal = 0 /\ gpuDue = 0

-----------------------------------------------------------------------------
(* Workers *)

\* InferWorker.score in 1/10: a daemon registers 45 tokens per second, others 30
InferScore(w) == 5 * GpuStake[w] + (IF w \in GpuDaemons THEN 45 ELSE 30)

\* RenderWorker.score in 1/20: a daemon derives its frames per minute from the VRAM, others have 2
RenderScore(w) ==
    10 * GpuStake[w] + (IF w \notin GpuDaemons THEN 40 ELSE Max({20, 5 * GpuVram[w]}))

GpuScore(w) == IF gpuKind = "infer" THEN InferScore(w) ELSE RenderScore(w)

\* can_serve, in both packages
InferCanServe(w, j) == w \in gpuFree /\ InferAsk[j].model \in Loaded[w] /\ GpuVram[w] >= InferAsk[j].need
RenderCanServe(w, j) == w \in gpuFree /\ RenderAsk[j].model \in Loaded[w] /\ GpuVram[w] >= RenderAsk[j].need
CanServe(w, j) == IF gpuKind = "infer" THEN InferCanServe(w, j) ELSE RenderCanServe(w, j)

\* _best_worker: the first of those with the highest score, NoOne if nobody can serve
GpuBest(j) ==
    LET can == {i \in DOMAIN gpuRecords : CanServe(gpuRecords[i], j)}
        best == {i \in can : \A k \in can : GpuScore(gpuRecords[i]) >= GpuScore(gpuRecords[k])}
    IN IF best = {} THEN NoOne ELSE gpuRecords[Min(best)]

\* _worker_by_address: the first record of a wallet, if it has one
GpuRecordOf(wallet) ==
    LET own == {i \in DOMAIN gpuRecords : GpuWallet[gpuRecords[i]] = wallet}
    IN {gpuRecords[i] : i \in {k \in own : \A m \in own : k <= m}}

\* register_worker: the route, or __init__ of a daemon, which loads the models it declares
RegisterWorker(w) ==
    /\ w \notin Range(gpuRecords)
    /\ gpuRecords' = Append(gpuRecords, w)
    /\ gpuFree' = gpuFree \cup {w}
    /\ UNCHANGED <<gpuKind, gpuJobs, gpuStored, gpuPick, gpuBusy, gpuPaid, gpuAdding, gpuTotal,
                   gpuDue, gpuPosted, gpuOutside>>

\* InferMarket.heartbeat
GpuHeartbeat(w) ==
    /\ gpuKind = "infer" /\ w \in Range(gpuRecords)
    /\ gpuFree' = gpuFree \cup {w}
    /\ UNCHANGED <<gpuKind, gpuJobs, gpuStored, gpuRecords, gpuPick, gpuBusy, gpuPaid, gpuAdding,
                   gpuTotal, gpuDue, gpuPosted, gpuOutside>>

-----------------------------------------------------------------------------
(* Jobs *)

\* submit_job up to _best_worker: without a worker the job stays as its body says.  It takes
\* the place of the job that has its id.
SubmitChoose(j, id, body) ==
    LET replaced == {i \in gpuStored : gpuJobs[i].id = id} IN
    /\ gpuJobs[j].status = "none"
    /\ id # j => replaced # {}
    /\ gpuJobs' = [gpuJobs EXCEPT ![j] = [id |-> id, status |-> body.status, worker |-> body.worker]]
    /\ gpuStored' = (gpuStored \ replaced) \cup {j}
    /\ gpuPick' = [gpuPick EXCEPT ![j] = GpuBest(j)]
    /\ gpuOutside' = gpuOutside \cup replaced \cup (IF replaced = {} /\ body = Created THEN {} ELSE {j})
    /\ UNCHANGED <<gpuKind, gpuRecords, gpuFree, gpuBusy, gpuPaid, gpuAdding, gpuTotal, gpuDue, gpuPosted>>

\* A worker is taken for a job, whatever happened to either since it was chosen.
Give(j, w) ==
    /\ gpuJobs' = [gpuJobs EXCEPT ![j].status = "ASSIGNED", ![j].worker = GpuWallet[w]]
    /\ gpuFree' = gpuFree \ {w}
    /\ gpuPick' = [gpuPick EXCEPT ![j] = NoOne]
    /\ UNCHANGED <<gpuKind, gpuStored, gpuRecords, gpuBusy, gpuPaid, gpuAdding, gpuTotal, gpuDue,
                   gpuPosted, gpuOutside>>

\* The rest of submit_job
SubmitTake(j) == gpuPick[j] # NoOne /\ Give(j, gpuPick[j])

\* One turn of retry_pending_jobs for a job.  Only the tests call it, between other calls.
RetryJob(j) ==
    /\ j \in gpuStored /\ gpuJobs[j].status = "PENDING" /\ \A i \in GpuJobs : gpuPick[i] = NoOne
    /\ GpuBest(j) # NoOne /\ Give(j, GpuBest(j))

\* The price a daemon puts into a result, and InferResult.reward_bc: two units per input
\* token, eight per output token, and at least the price; an embedding has no output.
InferReward(ask) ==
    LET cost == 2 * ask.input + 8 * (IF ask.embedding THEN 0 ELSE ask.output) IN
    Max({cost, Min({ask.max, cost})})

\* expected_cost_bc
ExpectedCost(ask) ==
    CASE ask.type = "IMAGE" -> IF ask.pixels >= 1024 * 1024 THEN 20 ELSE 5
      [] ask.type = "VIDEO" -> 3 * ask.frames
      [] ask.type = "MODEL3D" -> 10 * ask.frames
      [] OTHER -> 5

\* RenderResult.reward_bc
RenderReward(ask) ==
    Max({CASE ask.type = "VIDEO" -> 3 * ask.frames
           [] ask.type = "MODEL3D" -> 10 * ask.frames
           [] OTHER -> IF ask.pixels >= 1024 * 1024 THEN 20 ELSE 5,
         Min({ask.max, ExpectedCost(ask)})})

GpuReward(j) == IF gpuKind = "infer" THEN InferReward(InferAsk[j]) ELSE RenderReward(RenderAsk[j])

\* A result from the worker of the job, which has not begun in the process of the market
Expected(j, wallet) == gpuJobs[j].status = "ASSIGNED" /\ gpuJobs[j].worker = wallet

\* submit_result up to the read of the total, for the job that the id of the result has; the
\* state of the job is not asked.  free: the workers that are available then.
Complete(j, reward, free) ==
    /\ gpuJobs' = [gpuJobs EXCEPT ![j].status = "COMPLETED"]
    /\ gpuFree' = free
    /\ gpuPaid' = [gpuPaid EXCEPT ![j] = @ + 1]
    /\ gpuAdding' = gpuAdding \cup {[job |-> j, nth |-> gpuPaid[j], read |-> gpuTotal, reward |-> reward]}
    /\ gpuDue' = gpuDue + reward
    /\ UNCHANGED <<gpuKind, gpuStored, gpuRecords, gpuPick, gpuTotal>>

\* Mutant: the worker is credited and not freed.
AcceptResultBusy(j, wallet, reward) == j \in gpuStored /\ Complete(j, reward, gpuFree)

AcceptResult(j, wallet, reward) == j \in gpuStored /\ Complete(j, reward, gpuFree \cup GpuRecordOf(wallet))

\* The rest of submit_result
AddReward(call) ==
    /\ gpuTotal' = call.read + call.reward
    /\ gpuAdding' = gpuAdding \ {call}
    /\ UNCHANGED <<gpuKind, gpuJobs, gpuStored, gpuRecords, gpuFree, gpuPick, gpuBusy, gpuPaid,
                   gpuDue, gpuPosted, gpuOutside>>

\* The result route: somebody sends a result for a job and names the wallet to credit.
PostResult(wallet, j, reward) ==
    /\ gpuPosted < MaxPosted
    /\ gpuPosted' = gpuPosted + 1
    /\ AcceptResult(j, wallet, reward)
    /\ gpuOutside' = IF Expected(j, wallet) THEN gpuOutside
                     ELSE gpuOutside \cup {j}
    /\ UNCHANGED gpuBusy

-----------------------------------------------------------------------------
(* InferDaemon and RenderDaemon *)

\* run_once meets the jobs that were in _jobs when its turn began; an inference daemon executes
\* those whose model it has.  When that was is left open, so one that was replaced may be met.
Meets(w, j) ==
    /\ w \in GpuDaemons /\ w \in Range(gpuRecords) /\ gpuBusy[w] = NoOne
    /\ gpuKind = "infer" => InferAsk[j].model \in Loaded[w]

StartJob(w, j) ==
    /\ gpuJobs' = [gpuJobs EXCEPT ![j].status = "RUNNING"]
    /\ gpuBusy' = [gpuBusy EXCEPT ![w] = j]
    /\ UNCHANGED <<gpuKind, gpuStored, gpuRecords, gpuFree, gpuPick, gpuPaid, gpuAdding, gpuTotal,
                   gpuDue, gpuPosted, gpuOutside>>

\* Mutant: run_once takes every job of the wallet, whatever its status.
DaemonTakeAny(w, j) == Meets(w, j) /\ gpuJobs[j].worker = GpuWallet[w] /\ StartJob(w, j)

\* run_once meets a job of its wallet and starts to execute it.
DaemonTake(w, j) ==
    /\ Meets(w, j)
    /\ gpuJobs[j].status = "ASSIGNED" /\ gpuJobs[j].worker = GpuWallet[w]
    /\ StartJob(w, j)

\* _execute has a result, from the model server or from the stub, and submits it for the id.
DaemonResult(w) ==
    /\ gpuBusy[w] # NoOne
    /\ \E j \in gpuStored : gpuJobs[j].id = gpuJobs[gpuBusy[w]].id /\ AcceptResult(j, GpuWallet[w], GpuReward(gpuBusy[w]))
    /\ gpuBusy' = [gpuBusy EXCEPT ![w] = NoOne]
    /\ UNCHANGED <<gpuPosted, gpuOutside>>

\* The job of a daemon ends without a result.
Drop(w, js) ==
    /\ gpuBusy[w] # NoOne
    /\ gpuJobs' = js
    /\ gpuBusy' = [gpuBusy EXCEPT ![w] = NoOne]
    /\ UNCHANGED <<gpuKind, gpuStored, gpuRecords, gpuFree, gpuPick, gpuPaid, gpuAdding, gpuTotal,
                   gpuDue, gpuPosted, gpuOutside>>

\* Mutant: an exception leaves the status as it is.
DaemonFailsSilently(w) == Drop(w, gpuJobs)

\* _execute raises: the job it executes ends, the worker is not freed.
DaemonFails(w) == Drop(w, [gpuJobs EXCEPT ![gpuBusy[w]].status = "FAILED"])

DaemonTurn(w) == (\E j \in GpuJobs : DaemonTake(w, j)) \/ DaemonResult(w) \/ DaemonFails(w)

-----------------------------------------------------------------------------
GpuNext ==
    \/ \E w \in GpuWorkers : \/ RegisterWorker(w) \/ GpuHeartbeat(w)
                             \/ DaemonResult(w) \/ DaemonFails(w)
                             \/ \E j \in GpuJobs : DaemonTake(w, j)
    \/ \E j \in GpuJobs : \/ SubmitTake(j) \/ RetryJob(j)
                          \/ \E id \in GpuJobs, body \in PostedBodies : SubmitChoose(j, id, body)
                          \/ \E wallet \in GpuWallets, reward \in PostedRewards : PostResult(wallet, j, reward)
    \/ \E call \in gpuAdding : AddReward(call)

\* The threads of daemons go on; run polls for ever.
GpuFairness == \A w \in GpuDaemons : WF_gpuVars(DaemonTurn(w))

GpuSpec == GpuInit /\ [][GpuNext]_gpuVars /\ GpuFairness

-----------------------------------------------------------------------------
(* Properties *)

\* The types, and a job of the market's own has a worker exactly when it was assigned.
GpuTypeOK ==
    /\ gpuKind \in {"infer", "render"}
    /\ gpuJobs \in [GpuJobs -> [id : GpuJobs, status : {"none"} \cup GpuStatus, worker : GpuWallets \cup {NoOne}]]
    /\ gpuStored \subseteq GpuJobs /\ gpuOutside \subseteq GpuJobs
    /\ gpuFree \subseteq Range(gpuRecords) /\ Range(gpuRecords) \subseteq GpuWorkers
    /\ gpuPick \in [GpuJobs -> GpuWorkers \cup {NoOne}]
    /\ gpuBusy \in [GpuWorkers -> GpuJobs \cup {NoOne}]
    /\ gpuPaid \in [GpuJobs -> Nat]
    /\ gpuAdding \subseteq [job : GpuJobs, nth : Nat, read : Nat, reward : Nat]
    /\ gpuTotal \in Nat /\ gpuDue \in Nat /\ gpuPosted \in Nat
    /\ \A j \in GpuJobs \ gpuOutside : gpuJobs[j].worker = NoOne <=> gpuJobs[j].status \in {"none", "PENDING"}

GpuLife == INSTANCE JobLife WITH
    Jobs <- GpuJobs,
    status <- [j \in GpuJobs |-> IF gpuJobs[j].status = "RUNNING" THEN "ASSIGNED" ELSE gpuJobs[j].status],
    paid <- gpuPaid

\* Both markets lead every job that stays inside through the abstract life of a job, with
\* threads inside submit_job and submit_result and workers booked twice: it ends once, and one
\* result is counted for it when it completes, whatever else is posted for other jobs.
ImplementsGpuLife == GpuLife!Init /\ [][\A j \in GpuJobs \ gpuOutside' : GpuLife!Step(j)]_gpuVars

\* _total_bc_paid never says more than the rewards of the results, though a thread may lose
\* another's addition, and though a result may come again or from anybody (submit_result).
TotalWithinResults == gpuTotal <= gpuDue

\* A worker that is not available has a job of its wallet that is not completed, or one that
\* went outside; otherwise only a failed job keeps it from more work (submit_job,
\* submit_result, _execute).
BusyHasJob ==
    \A w \in Range(gpuRecords) \ gpuFree :
        \E j \in GpuJobs : gpuJobs[j].worker = GpuWallet[w] /\ (gpuJobs[j].status # "COMPLETED" \/ j \in gpuOutside)

\* A job in _jobs that is assigned to a running daemon that can execute it is taken up and ends, also
\* when the daemon was booked twice, its execution raises, or other jobs came under an id that
\* was taken; one that a body calls running may stay so (run, _execute).
AssignedEnds ==
    \A w \in GpuDaemons, j \in GpuJobs :
        []<>~(/\ w \in Range(gpuRecords) /\ j \in gpuStored /\ gpuJobs[j].worker = GpuWallet[w]
              /\ gpuKind = "infer" => InferAsk[j].model \in Loaded[w]
              /\ \/ gpuJobs[j].status = "ASSIGNED"
                 \/ gpuJobs[j].status = "RUNNING" /\ j \notin gpuOutside)

\* Workers, jobs and the total agree, whichever threads are inside a method.
GpuConsistent == GpuTypeOK /\ BusyHasJob /\ TotalWithinResults
=============================================================================
