--------------------------- MODULE MCChainThreads ---------------------------
(* Instances of ChainThreads for TLC. *)
EXTENDS ChainThreads, TLC

CONSTANTS h1, h2, alice, t1, t2, r1, r2, p1, s1

MCSender == [t \in Txs |-> alice]
MCCost   == [t \in Txs |-> 2]
MCFunds  == [a \in Senders |-> 3]

Symmetry == Permutations(Threads)
=============================================================================
