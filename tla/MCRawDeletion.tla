--------------------------- MODULE MCRawDeletion ---------------------------
(* Instances of RawDeletion for TLC. *)
EXTENDS RawDeletionRefinement, TLC

CONSTANTS s1, s2, r1, r2, r3, p1

\* Two objects of one source, one of the other; one of each can expire.
TwoAndOne == (r1 :> s1) @@ (r2 :> s1) @@ (r3 :> s2)

\* All objects are of the same source.
OneSource == [r \in {r1, r2, r3} |-> s1]

=============================================================================
