----------------------------- MODULE MCStorage -----------------------------
(* Instances of Storage for TLC: two uploads that have a chunk in common. *)
EXTENDS Storage

CONSTANTS sn1, sn2, up1, up2, ch1, ch2

MCStoreNodes == <<sn1, sn2>>
MCPlain == [u \in Uploads |-> IF u = up1 THEN <<ch1>> ELSE <<ch2, ch1>>]
MCChunkSize == [c \in {ch1, ch2} |-> IF c = ch1 THEN 2 ELSE 3]
=============================================================================
