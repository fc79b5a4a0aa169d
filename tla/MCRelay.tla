------------------------------ MODULE MCRelay ------------------------------
(* Instances of Relay for TLC. *)
EXTENDS Relay

CONSTANTS rs1, rs2, rh1, rh2, daemon
=============================================================================
