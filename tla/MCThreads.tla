----------------------------- MODULE MCThreads -----------------------------
(***************************************************************************)
(* What threads and processes on one machine do to each other: the threads *)
(* of the chain (ChainThreads) and of the relay (Relay), and the commands  *)
(* and the node that share a home directory (HomeDir).  The three share no *)
(* variable, so a behaviour is one of one of them.                         *)
(***************************************************************************)
EXTENDS MCChainThreads, MCRelay, HomeDir

CONSTANTS u1, u2, e1, e2

VARIABLE part    \* whose behaviour it is: "chain", "relay" or "home"

allVars == <<vars, relayVars, homeVars, part>>

OfChain(A) == part = "chain" /\ A /\ UNCHANGED <<relayVars, homeVars, part>>
OfRelay(A) == part = "relay" /\ A /\ UNCHANGED <<vars, homeVars, part>>
OfHome(A)  == part = "home" /\ A /\ UNCHANGED <<vars, relayVars, part>>

ThreadsInit == part \in {"chain", "relay", "home"} /\ Init /\ RelayInit /\ HomeInit
ThreadsNext == OfChain(Next) \/ OfRelay(RelayNext) \/ OfHome(HomeNext)

\* Fairness and RelayFairness; commands may be killed.
ThreadsFairness ==
    /\ \A th \in Threads : WF_allVars(OfChain(Continue(th)))
    /\ \A th \in RelayThreads : WF_allVars(OfRelay(RelayContinue(th)))

ThreadsSpec == ThreadsInit /\ [][ThreadsNext]_allVars /\ ThreadsFairness
=============================================================================
