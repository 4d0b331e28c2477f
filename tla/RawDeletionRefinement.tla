----------------------- MODULE RawDeletionRefinement -----------------------
(* The two-phase deletion of RawDeletion implements DeletionPromise. *)
EXTENDS RawDeletion

\* A row is readable, lost or doomed by its manifest; an object is erased when
\* its manifest says so and its ciphertext is gone.
PhaseOf(r) ==
  CASE manifest[r].state = "none" -> "absent"
    [] manifest[r].state = "ready" -> "readable"
    [] manifest[r].state = "missing" -> "lost"
    [] manifest[r].state = "deleted" /\ r \notin files -> "erased"
    [] OTHER -> "doomed"

PromiseOf(s) ==
  CASE job[s].state = "none" -> "kept"
    [] job[s].state = "completed" -> "proved"
    [] OTHER -> "erasing"

Promise == INSTANCE DeletionPromise
  WITH phase <- [r \in Raws |-> PhaseOf(r)],
       owed <- [s \in Sources |-> job[s].raws],
       waiting <- [s \in Sources |-> job[s].pendingReplicas],
       promise <- [s \in Sources |-> PromiseOf(s)]

\* Crashes, faults, retries and recoveries do not show: what the vault, its rows
\* and its jobs go through is a behaviour of the promise.
ImplementsPromise == Promise!PromiseSpec

=============================================================================
