--------------------------- MODULE MCDurableQueue ---------------------------
(* Instances of DurableQueue for TLC. *)
EXTENDS DurableQueue, TLC

CONSTANTS w1, w2

=============================================================================
