--------------------------- MODULE BandwidthMeter ---------------------------
(***************************************************************************)
(* What the relay's byte accounting promises: bytes are forwarded, and     *)
(* every proof claims exactly the bytes no earlier proof has claimed.      *)
(***************************************************************************)
EXTENDS Integers

CONSTANTS Sessions, Sizes

VARIABLES total,    \* total[s]: bytes forwarded in session s
          claimed   \* claimed[s]: bytes the proofs of session s claim

Init == /\ total = [s \in Sessions |-> 0]
        /\ claimed = [s \in Sessions |-> 0]

Forward(s, k) == /\ total' = [total EXCEPT ![s] = @ + k]
                 /\ UNCHANGED claimed

Claim(s) == /\ claimed[s] < total[s]
            /\ claimed' = [claimed EXCEPT ![s] = total[s]]
            /\ UNCHANGED total

Next == \E s \in Sessions : Claim(s) \/ \E k \in Sizes : Forward(s, k)

Spec == Init /\ [][Next]_<<total, claimed>>
=============================================================================
