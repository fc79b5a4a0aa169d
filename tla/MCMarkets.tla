----------------------------- MODULE MCMarkets -----------------------------
(***************************************************************************)
(* Work and its payment: the compute market (ComputeMarket), the markets   *)
(* for inference and rendering (GpuMarkets), and the payment channel       *)
(* between two parties (PaymentChannel).  They share no variable, so a     *)
(* behaviour is one of one of them.                                        *)
(***************************************************************************)
EXTENDS ComputeMarket, GpuMarkets, MCPaymentChannel

CONSTANTS w1, w2, alice, bob, j1, j2, d1, r1, i1, i2

\* The daemon of one wallet is started twice.
MCWalletOf == [w \in Workers |-> alice]
MCStake == [w \in Workers |-> IF w = w2 THEN 2 ELSE 1]
MCCards == [w \in Workers |-> IF w = w1 THEN [nvidia |-> {4, 8}, amd |-> {}]
                                        ELSE [nvidia |-> {}, amd |-> {4}]]
\* A job as create makes it, and one that says it was assigned long ago.
MCPosted == {[status |-> "PENDING", worker |-> NoWallet, late |-> FALSE],
             [status |-> "ASSIGNED", worker |-> alice, late |-> TRUE]}
\* One proof within the cap of twice the price, and one above.
MCProofOf == [j \in JobIds |-> [hours |-> 0, gb |-> IF j = j1 THEN 2 ELSE 3, price |-> 1]]

\* A body as create makes it, and one that says the job is assigned to alice.
MCPostedBodies == {Created, [status |-> "ASSIGNED", worker |-> alice]}
\* A daemon and a worker elsewhere.
MCGpuWallet == [w \in GpuWorkers |-> IF w = d1 THEN alice ELSE bob]
MCGpuStake == [w \in GpuWorkers |-> IF w = r1 THEN 20 ELSE 10]
MCGpuVram == [w \in GpuWorkers |-> IF w = d1 THEN 24 ELSE 8]
MCLoaded == [w \in GpuWorkers |-> IF w = r1 THEN {"sdxl"} ELSE {"sdxl", "llama"}]
MCInferAsk ==
    [j \in GpuJobs |-> [model |-> IF j = i1 THEN "llama" ELSE "sdxl", need |-> 0,
                        max |-> 20, embedding |-> (j = i2), input |-> 1, output |-> 0]]
MCRenderAsk ==
    [j \in GpuJobs |-> [model |-> "sdxl", need |-> 8, max |-> 10, frames |-> 2,
                        type |-> IF j = i1 THEN "IMAGE" ELSE "VIDEO",
                        pixels |-> 1024 * 1024]]

VARIABLE part    \* whose behaviour it is: "compute", "gpu" or "channel"

allVars == <<computeVars, gpuVars, channelVars, part>>

OfCompute(A) == part = "compute" /\ A /\ UNCHANGED <<gpuVars, channelVars, part>>
OfGpu(A)     == part = "gpu" /\ A /\ UNCHANGED <<computeVars, channelVars, part>>
OfChannel(A) == part = "channel" /\ A /\ UNCHANGED <<computeVars, gpuVars, part>>

MarketsInit ==
    /\ part \in {"compute", "gpu", "channel"}
    /\ ComputeInit /\ GpuInit /\ ChannelInit
    /\ part # "gpu" => gpuKind = "infer"

MarketsNext == OfCompute(ComputeNext) \/ OfGpu(GpuNext) \/ OfChannel(ChannelNext)

\* ComputeFairness and GpuFairness.
MarketsFairness ==
    /\ WF_allVars(OfCompute(Cleanup)) /\ \A j \in JobIds : WF_allVars(OfCompute(JobAges(j)))
    /\ \A w \in GpuDaemons : WF_allVars(OfGpu(DaemonTurn(w)))

MarketsSpec == MarketsInit /\ [][MarketsNext]_allVars /\ MarketsFairness
=============================================================================
