-------------------------- MODULE MCPaymentChannel --------------------------
(* Bounds of PaymentChannel for TLC: two deposits, a refused one, four receipts. *)
EXTENDS PaymentChannel

MCDeposits   == {-1, 0, 3, 5}
MCIncrements == {0, 1, 2}
=============================================================================
