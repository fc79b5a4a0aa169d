---------------------------- MODULE MCGovernance ----------------------------
(* Instances of Governance for TLC. *)
EXTENDS Governance, TLC

CONSTANTS th1, th2, v1, v2, p1, p2

Payload(type, key, value) == [type |-> type, valid |-> TRUE, key |-> key, value |-> value]

\* What the proposals of a run ask for.
Payments       == [p \in Proposals |-> Payload("treasury", "other", 2)]
PaymentAndRate == [p \in Proposals |->
    IF p = p1 THEN Payload("treasury", "other", 2) ELSE Payload("parameter", "tx_fee_pct", 3)]

\* p1 comes as Proposal.create makes it, any other with a vote for it from another node.
Fresh    == [p \in Proposals |-> [c \in Choices |-> 0]]
OneTaken == [p \in Proposals |-> [c \in Choices |-> IF p # p1 /\ c = "yes" THEN 1 ELSE 0]]

VoterSymmetry == Permutations(Voters)
=============================================================================
