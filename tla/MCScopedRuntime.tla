-------------------------- MODULE MCScopedRuntime --------------------------
(* An instance of ScopedRuntime for TLC. *)
EXTENDS ScopedRuntime, TLC

CONSTANTS c1, c2, s1, p1, p2, e1, e2

Symmetry == Permutations({c1, c2}) \cup Permutations({p1, p2})

\* Three generations of policy and revocations, seen by two purposes of a space.
\* The contexts of the last one may name withdrawn evidence, and those of the
\* first may close the gate.
MCContexts ==
  {x \in [space : {s1}, purpose : {p1, p2}, policy : {1, 2}, revocation : {1, 2},
          deleted : {{}, {e1}}, revoked : {{}, {e2}}, budget : {0, MaxBudget},
          permits : BOOLEAN] :
     /\ x.policy <= x.revocation
     /\ x.deleted = {} \/ x.revoked = {}
     /\ x.policy = 2 \/ (x.deleted = {} /\ x.revoked = {})
     /\ \/ x.permits /\ x.budget > 0
        \/ x.revocation = 1 /\ (x.permits \/ x.budget > 0)}

=============================================================================
