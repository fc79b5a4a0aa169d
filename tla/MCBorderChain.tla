--------------------------- MODULE MCBorderChain ---------------------------
(* Instances of BorderChain for TLC. *)
EXTENDS BorderChain, TLC

CONSTANTS n1, n2, alice, bob, r1, r2, r3, c1, s1, t1, t2, t3, b1, b2, b3, b4

MCWallet == [n \in Nodes |-> IF n = n1 THEN alice ELSE bob]

\* One receipt carries one unit of bytes and of reward; r3 is unsigned when told so.
AllSigned  == [r \in Receipts |-> [bytes |-> 1, value |-> 1, signed |-> TRUE]]
OneForged  == [r \in Receipts |-> [bytes |-> 1, value |-> 1, signed |-> r # r3]]

MCComputeOf == [c \in ComputeIds |-> [value |-> 1, worker |-> alice]]
MCStorageOf == [s \in StorageIds |-> [value |-> 1, signed |-> TRUE]]

\* alice pays bob (t1, t3) and bob pays alice back (t2).
MCTxOf == [t \in Txs |->
    IF t = t2 THEN [from |-> bob, to |-> alice, amount |-> 1, fee |-> 1, signed |-> TRUE]
    ELSE [from |-> alice, to |-> bob, amount |-> IF t = t1 THEN 2 ELSE 1, fee |-> 1,
          signed |-> TRUE]]

MCStakeMinimums == [role \in Roles |-> IF role = "storage" THEN 2 ELSE 1]

Symmetry == Permutations(BlockIds)
=============================================================================
