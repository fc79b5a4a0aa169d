------------------------------ MODULE MCLedger ------------------------------
(***************************************************************************)
(* The two books of coins: the chain's ledger (BorderChain) and the DAO's  *)
(* treasury (Governance).  dao/node.py takes balances from the requests    *)
(* and keeps a treasury of its own, so the two share no variable and a     *)
(* behaviour is one of the chain or one of the DAO.                        *)
(***************************************************************************)
EXTENDS MCBorderChain, MCGovernance

VARIABLE part    \* whose behaviour it is: "chain" or "dao"

allVars == <<vars, govVars, part>>

LedgerInit == part \in {"chain", "dao"} /\ Init /\ GovInit

LedgerNext ==
    \/ part = "chain" /\ Next /\ UNCHANGED <<govVars, part>>
    \/ part = "dao" /\ GovNext /\ UNCHANGED <<vars, part>>

LedgerSpec == LedgerInit /\ [][LedgerNext]_allVars

LedgerSymmetry == Symmetry \cup VoterSymmetry
=============================================================================
