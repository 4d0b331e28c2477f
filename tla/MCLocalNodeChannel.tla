------------------------ MODULE MCLocalNodeChannel ------------------------
(* Instances of LocalNodeChannel for TLC. *)
EXTENDS LocalNodeChannel

CONSTANTS k1, k2, a, b

\* One capture, another with other content under its key, and one of its own.
Two == {[key |-> k1, text |-> a], [key |-> k1, text |-> b], [key |-> k2, text |-> a]}

=============================================================================
