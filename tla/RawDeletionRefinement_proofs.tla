-------------------- MODULE RawDeletionRefinement_proofs --------------------
(* The two-phase deletion implements its promise, for every instance.  Crashes, *)
(* faults, retries and recoveries are stuttering steps of the promise, or       *)
(* repeat a step of it without effect.                                          *)
EXTENDS RawDeletionRefinement, RawDeletion_proofs

USE SourceOfAssumption, ExpiringAssumption

\* The refinement mapping, under the names it has here.
Phases == [r \in Raws |-> PhaseOf(r)]
Owed == [s \in Sources |-> job[s].raws]
Waiting == [s \in Sources |-> job[s].pendingReplicas]
Promises == [s \in Sources |-> PromiseOf(s)]

\* The row of an object tells its phase: nothing between two states shows.
PhaseIsOfRow(r) ==
  /\ PhaseOf(r) = "absent" <=> manifest[r].state = "none"
  /\ PhaseOf(r) = "readable" <=> manifest[r].state = "ready"
  /\ PhaseOf(r) = "lost" <=> manifest[r].state = "missing"
  /\ PhaseOf(r) = "doomed" <=> manifest[r].state = "delete_pending"
  /\ PhaseOf(r) = "erased" <=> manifest[r].state = "deleted"
  /\ PhaseOf(r) = "readable" <=> IsReady(manifest[r])
  /\ PhaseOf(r) = "erased" <=> Clean(r)
  /\ PhaseOf(r) \in {"absent", "readable", "lost", "doomed", "erased"}

\* The job of a source tells how far its promise is.
PromiseIsOfJob(s) ==
  /\ PromiseOf(s) = "kept" <=> job[s].state = "none"
  /\ PromiseOf(s) = "proved" <=> job[s].state = "completed"
  /\ PromiseOf(s) = "erasing" <=> job[s].state = "partial_failed"
  /\ PromiseOf(s) \in {"kept", "proved", "erasing"}

MappingIsRead == /\ \A r \in Raws : PhaseIsOfRow(r)
                 /\ \A s \in Sources : PromiseIsOfJob(s)

\* In a consistent state the mapping is read off rows and jobs alone.
LEMMA MappingReads == VaultAgrees => MappingIsRead
<1>1. ASSUME VaultAgrees, NEW r \in Raws PROVE PhaseIsOfRow(r)
  <2>1. manifest[r].state \in {"none", "ready", "delete_pending", "deleted", "missing"}
    BY <1>1 DEF VaultAgrees, TypeOK, Manifest
  <2>2. RowAgrees(manifest[r]) /\ (manifest[r].state = "deleted" => r \notin files)
    BY <1>1 DEF VaultAgrees, DeletedManifestHasNoFile, RowsAgree
  <2> QED
    BY <2>1, <2>2 DEF RowAgrees, PhaseIsOfRow, PhaseOf, IsReady, Clean
<1>2. ASSUME VaultAgrees, NEW s \in Sources PROVE PromiseIsOfJob(s)
  <2>1. job[s].state \in {"none", "partial_failed", "completed"}
    BY <1>2 DEF VaultAgrees, TypeOK, DeletionJob
  <2> QED
    BY <2>1 DEF PromiseIsOfJob, PromiseOf
<1> QED
  BY <1>1, <1>2 DEF MappingIsRead

\* A step that leaves the states of the rows and the jobs alone does not show.
LEMMA Stutters ==
  ASSUME MappingIsRead, MappingIsRead', UNCHANGED job,
         \A r \in Raws : manifest'[r].state = manifest[r].state
  PROVE  UNCHANGED Promise!pvars
<1>1. \A r \in Raws : PhaseOf(r)' = PhaseOf(r)
  BY DEF MappingIsRead, PhaseIsOfRow
<1>2. \A s \in Sources : PromiseOf(s)' = PromiseOf(s)
  BY DEF MappingIsRead, PromiseIsOfJob
<1> QED
  BY <1>1, <1>2 DEF Promise!pvars

\* A step in which rows change their states and the jobs do not is told by the
\* phases alone.
LEMMA JobsStay ==
  ASSUME MappingIsRead, MappingIsRead', UNCHANGED job
  PROVE  /\ \A s \in Sources : PromiseOf(s)' = PromiseOf(s)
         /\ UNCHANGED <<Owed, Waiting, Promises>>
<1>1. \A s \in Sources : PromiseOf(s)' = PromiseOf(s)
  BY DEF MappingIsRead, PromiseIsOfJob
<1> QED
  BY <1>1 DEF Owed, Waiting, Promises

\* Storing an object adds it.
LEMMA StoreAdds ==
  ASSUME VaultAgrees, MappingIsRead, MappingIsRead', NEW r \in Raws, StoreRaw(r)
  PROVE  Promise!Add(r)
<1>1. /\ manifest[r].state = "none" /\ manifest'[r].state = "ready"
      /\ \A q \in Raws \ {r} : manifest'[q] = manifest[q]
      /\ job' = job
  BY DEF StoreRaw, MayStore, VaultAgrees, TypeOK
<1>2. SourceOf[r] \in Sources /\ job[SourceOf[r]].state = "none"
  BY DEF StoreRaw, MayStore, VaultAgrees, TypeOK, JobsAgree, JobAgrees
<1>3. /\ PhaseOf(r) = "absent" /\ PhaseOf(r)' = "readable"
      /\ \A q \in Raws \ {r} : PhaseOf(q)' = PhaseOf(q)
  BY <1>1 DEF MappingIsRead, PhaseIsOfRow
<1>4. Phases' = [Phases EXCEPT ![r] = "readable"]
  BY <1>3 DEF Phases
<1>5. PromiseOf(SourceOf[r]) = "kept" /\ UNCHANGED <<Owed, Waiting, Promises>>
  BY <1>1, <1>2, JobsStay DEF MappingIsRead, PromiseIsOfJob
<1> QED
  BY <1>2, <1>3, <1>4, <1>5 DEF Promise!Add, Phases, Owed, Waiting, Promises

\* Purging dooms the objects it stages, and none if it finds only staged ones.
LEMMA PurgeExpires ==
  ASSUME VaultAgrees, MappingIsRead, MappingIsRead', NEW S \in SUBSET Expiring,
         PurgeExpired(S)
  PROVE  Promise!Expire(S)
<1>1. /\ \A r \in S : r \in Raws /\ IsReady(manifest[r])
      /\ \A r \in Raws : manifest'[r] = IF r \in S THEN Staged("expired") ELSE manifest[r]
      /\ job' = job
  BY DEF PurgeExpired
<1>2. /\ \A r \in S : r \in Raws /\ PhaseOf(r) = "readable"
      /\ \A r \in Raws : PhaseOf(r)' = IF r \in S THEN "doomed" ELSE PhaseOf(r)
  BY <1>1 DEF MappingIsRead, PhaseIsOfRow, Staged
<1>3. UNCHANGED <<Owed, Waiting, Promises>>
  BY <1>1, JobsStay
<1> QED
  BY <1>2, <1>3 DEF Promise!Expire, Owed, Waiting, Promises

\* Opening the process after a crash loses the objects whose file is missing.
LEMMA OpenLoses ==
  ASSUME VaultAgrees, MappingIsRead, MappingIsRead', Open
  PROVE  \E S \in SUBSET Raws : Promise!Lose(S)
<1> DEFINE S == {r \in Raws : IsReady(manifest[r]) /\ r \notin files}
<1>1. /\ \A r \in Raws : manifest'[r] = IF r \in S
                                       THEN [manifest[r] EXCEPT !.state = "missing"]
                                       ELSE manifest[r]
      /\ job' = job
  BY DEF Open
<1>2. \A r \in S : r \in Raws /\ manifest'[r].state = "missing" /\ IsReady(manifest[r])
  BY <1>1 DEF VaultAgrees, TypeOK, Manifest
<1> S \in SUBSET Raws
  OBVIOUS
<1> HIDE DEF S
<1>3. /\ \A r \in S : r \in Raws /\ PhaseOf(r) = "readable"
      /\ \A r \in Raws : PhaseOf(r)' = IF r \in S THEN "lost" ELSE PhaseOf(r)
  BY <1>1, <1>2 DEF MappingIsRead, PhaseIsOfRow
<1>4. UNCHANGED <<Owed, Waiting, Promises>>
  BY <1>1, JobsStay
<1>5. Promise!Lose(S)
  BY <1>3, <1>4 DEF Promise!Lose, Owed, Waiting, Promises
<1> QED
  BY <1>5

\* Finalizing a staged object erases it; one that is final stays as it is.
LEMMA FinalizeErases ==
  ASSUME VaultAgrees, MappingIsRead, MappingIsRead', NEW r \in Raws, FinalizeRaw(r)
  PROVE  Promise!Erase(r) \/ UNCHANGED Promise!pvars
<1>0. job' = job
  BY DEF FinalizeRaw
<1>1. CASE manifest[r].state = "deleted"
  BY <1>0, <1>1, Stutters DEF FinalizeRaw
<1>2. CASE manifest[r].state = "delete_pending"
  <2>1. /\ manifest'[r].state = "deleted"
        /\ \A q \in Raws \ {r} : manifest'[q] = manifest[q]
    BY <1>2 DEF FinalizeRaw, VaultAgrees, TypeOK
  <2>2. /\ PhaseOf(r) = "doomed" /\ PhaseOf(r)' = "erased"
        /\ \A q \in Raws \ {r} : PhaseOf(q)' = PhaseOf(q)
    BY <1>2, <2>1 DEF MappingIsRead, PhaseIsOfRow
  <2>3. Phases' = [Phases EXCEPT ![r] = "erased"]
    BY <2>2 DEF Phases
  <2>4. UNCHANGED <<Owed, Waiting, Promises>>
    BY <1>0, JobsStay
  <2> QED
    BY <2>2, <2>3, <2>4 DEF Promise!Erase, Phases, Owed, Waiting, Promises
<1> QED
  BY <1>1, <1>2 DEF FinalizeRaw

\* Deleting a source dooms its readable objects and owes exactly those.
LEMMA DeletionDooms ==
  ASSUME VaultAgrees, MappingIsRead, MappingIsRead', NEW s \in Sources,
         NEW R \in SUBSET Replicas, DeleteSource(s, R)
  PROVE  Promise!Delete(s, R)
<1> DEFINE I == Impact(s)
           ready == {r \in Raws : SourceOf[r] = s /\ Phases[r] = "readable"}
<1>1. /\ \A r \in Raws : manifest'[r] = IF r \in I THEN Staged("deleted") ELSE manifest[r]
      /\ job' = [job EXCEPT ![s] = OpenJob(I, R)]
      /\ source[s] # "deleted"
  BY DEF DeleteSource
<1>2. I = ready
  BY DEF DeleteSource, Impact, IsReady, Phases, MappingIsRead, PhaseIsOfRow
<1>3. Promise!ReadableOf(s) = ready
  BY DEF Promise!ReadableOf, Phases
<1> HIDE DEF I, ready
<1>4. \A r \in Raws : PhaseOf(r)' = IF r \in I THEN "doomed" ELSE PhaseOf(r)
  BY <1>1 DEF MappingIsRead, PhaseIsOfRow, Staged
<1>5. Phases' = [r \in Raws |-> IF r \in I THEN "doomed" ELSE Phases[r]]
  BY <1>4 DEF Phases
<1>6. /\ job'[s] = OpenJob(I, R) /\ \A t \in Sources \ {s} : job'[t] = job[t]
      /\ job[s].state = "none"
  BY <1>1 DEF VaultAgrees, TypeOK, JobsAgree, JobAgrees
<1>7. /\ job'[s].raws = I /\ job'[s].pendingReplicas = R
      /\ job'[s].state = IF I = {} /\ R = {} THEN "completed" ELSE "partial_failed"
  BY <1>6 DEF OpenJob, JobState
<1>8. Owed' = [Owed EXCEPT ![s] = I] /\ Waiting' = [Waiting EXCEPT ![s] = R]
  BY <1>6, <1>7 DEF Owed, Waiting
<1>9. /\ PromiseOf(s) = "kept"
      /\ PromiseOf(s)' = IF I = {} /\ R = {} THEN "proved" ELSE "erasing"
      /\ \A t \in Sources \ {s} : PromiseOf(t)' = PromiseOf(t)
  BY <1>6, <1>7 DEF MappingIsRead, PromiseIsOfJob
<1>10. Promises' = [Promises EXCEPT ![s] = IF I = {} /\ R = {} THEN "proved" ELSE "erasing"]
  BY <1>9 DEF Promises
<1>11. Promises[s] = "kept"
  BY <1>9 DEF Promises
<1>12. Promise!ReadableOf(s) = I
  BY <1>2, <1>3
<1> QED
  BY <1>4, <1>8, <1>10, <1>11, <1>12
     DEF Promise!Delete, Phases, Owed, Waiting, Promises

\* What a step on one job changes of the mapping, when no row changes.
LEMMA JobMoves ==
  ASSUME MappingIsRead, MappingIsRead', NEW s \in Sources,
         \A t \in Sources \ {s} : job'[t] = job[t],
         job'[s].raws = job[s].raws, UNCHANGED manifest
  PROVE  /\ UNCHANGED <<Phases, Owed>>
         /\ Waiting' = [Waiting EXCEPT ![s] = job'[s].pendingReplicas]
         /\ Promises' = [Promises EXCEPT ![s] = PromiseOf(s)']
<1>1. Phases' = Phases
  BY DEF Phases, MappingIsRead, PhaseIsOfRow
<1>2. \A t \in Sources : job'[t].raws = job[t].raws
  OBVIOUS
<1>3. Owed' = Owed
  BY <1>2 DEF Owed
<1>4. Waiting' = [Waiting EXCEPT ![s] = job'[s].pendingReplicas]
  BY DEF Waiting
<1>5. \A t \in Sources \ {s} : PromiseOf(t)' = PromiseOf(t)
  BY DEF MappingIsRead, PromiseIsOfJob
<1>6. Promises' = [Promises EXCEPT ![s] = PromiseOf(s)']
  BY <1>5 DEF Promises
<1> QED
  BY <1>1, <1>3, <1>4, <1>6

\* Reconciliation brings the proof, or does not show.
LEMMA ReconciliationProves ==
  ASSUME VaultAgrees, MappingIsRead, MappingIsRead', NEW s \in Sources, NEW failed,
         job[s].state # "none", job' = [job EXCEPT ![s] = Reconciled(@, failed)],
         UNCHANGED manifest
  PROVE  Promise!Prove(s) \/ UNCHANGED Promise!pvars
<1> DEFINE j == Reconciled(job[s], failed)
           dirty == {r \in job[s].raws : ~Clean(r)}
<1>1. /\ j.raws = job[s].raws /\ j.pendingReplicas = job[s].pendingReplicas
      /\ j.state = JobState(dirty = {}, job[s].pendingReplicas)
  BY DEF Reconciled
<1>2. /\ UNCHANGED <<Phases, Owed>> /\ job'[s] = j
      /\ Waiting' = [Waiting EXCEPT ![s] = j.pendingReplicas]
      /\ Promises' = [Promises EXCEPT ![s] = PromiseOf(s)']
  <2>1. job'[s] = j /\ \A t \in Sources \ {s} : job'[t] = job[t]
    BY DEF VaultAgrees, TypeOK
  <2> QED
    BY <1>1, <2>1, JobMoves
<1> HIDE DEF j
<1>3. Waiting' = Waiting
  BY <1>1, <1>2 DEF Waiting
<1>4. j.state \in {"completed", "partial_failed"}
  BY <1>1 DEF JobState
<1>5. CASE PromiseOf(s)' = PromiseOf(s)
  <2>1. Promises' = Promises
    BY <1>2, <1>5 DEF Promises
  <2> QED
    BY <1>2, <1>3, <2>1 DEF Promise!pvars, Phases, Owed, Waiting, Promises
<1>6. CASE PromiseOf(s)' # PromiseOf(s)
  <2>1. j.state # job[s].state /\ job[s].state # "none"
    BY <1>2, <1>6 DEF MappingIsRead, PromiseIsOfJob
  <2>2. job[s].state = "completed" => j.state = "completed"
    BY <1>1 DEF VaultAgrees, JobsAgree, JobAgrees, JobState
  <2>3. job[s].state = "partial_failed" /\ j.state = "completed"
    BY <1>4, <2>1, <2>2 DEF VaultAgrees, TypeOK, DeletionJob
  <2>4. dirty = {} /\ job[s].pendingReplicas = {}
    BY <1>1, <2>3 DEF JobState
  <2>5. \A r \in job[s].raws : r \in Raws /\ PhaseOf(r) = "erased"
    BY <2>4 DEF MappingIsRead, PhaseIsOfRow, VaultAgrees, TypeOK, DeletionJob
  <2>6. PromiseOf(s) = "erasing" /\ PromiseOf(s)' = "proved"
    BY <1>2, <2>3 DEF MappingIsRead, PromiseIsOfJob
  <2>7. Promises' = [Promises EXCEPT ![s] = "proved"]
    BY <1>2, <2>6
  <2> QED
    BY <1>2, <1>3, <2>4, <2>5, <2>6, <2>7
       DEF Promise!Prove, Phases, Owed, Waiting, Promises
<1> QED
  BY <1>5, <1>6

\* An acknowledgement is one of the promise; a repeated one does not show.
LEMMA AcknowledgementCounts ==
  ASSUME VaultAgrees, MappingIsRead, MappingIsRead', NEW s \in Sources,
         NEW p \in Replicas, Acknowledge(s, p)
  PROVE  Promise!Acked(s, p) \/ UNCHANGED Promise!pvars
<1> DEFINE j == Acknowledged(job[s], p)
<1>1. /\ j.raws = job[s].raws /\ j.pendingReplicas = job[s].pendingReplicas \ {p}
      /\ j.state = JobState(job[s].localComplete, job[s].pendingReplicas \ {p})
      /\ job' = [job EXCEPT ![s] = j] /\ UNCHANGED manifest
  BY DEF Acknowledge, Acknowledged, VaultAgrees, TypeOK, DeletionJob
<1> HIDE DEF j
<1>2. /\ UNCHANGED <<Phases, Owed>> /\ job'[s] = j
      /\ Waiting' = [Waiting EXCEPT ![s] = j.pendingReplicas]
      /\ Promises' = [Promises EXCEPT ![s] = PromiseOf(s)']
  <2>1. job'[s] = j /\ \A t \in Sources \ {s} : job'[t] = job[t]
    BY <1>1 DEF VaultAgrees, TypeOK
  <2> QED
    BY <1>1, <2>1, JobMoves
<1>3. job[s].state # "none"
  BY DEF Acknowledge, VaultAgrees, JobsAgree, JobAgrees, NoJob
<1>4. JobAgrees(s)
  BY DEF VaultAgrees, JobsAgree
<1>5. CASE p \in job[s].pendingReplicas
  <2>1. Waiting' = [Waiting EXCEPT ![s] = @ \ {p}] /\ p \in Waiting[s]
    BY <1>1, <1>2, <1>5 DEF Waiting
  <2>2. PromiseOf(s) = "erasing"
    BY <1>3, <1>4, <1>5 DEF JobAgrees, MappingIsRead, PromiseIsOfJob
  <2>3. CASE j.state = "completed"
    <3>1. job[s].localComplete /\ j.pendingReplicas = {}
      BY <1>1, <2>3 DEF JobState
    <3>2. \A r \in job[s].raws : r \in Raws /\ PhaseOf(r) = "erased"
      BY <1>4, <3>1 DEF JobAgrees, MappingIsRead, PhaseIsOfRow, VaultAgrees, TypeOK,
                       DeletionJob
    <3>3. PromiseOf(s)' = "proved"
      BY <1>2, <2>3 DEF MappingIsRead, PromiseIsOfJob
    <3>4. Promises' = [Promises EXCEPT ![s] = "proved"]
      BY <1>2, <3>3
    <3>5. Waiting'[s] = {} /\ \A r \in Owed[s] : Phases[r] = "erased"
      BY <1>2, <3>1, <3>2 DEF Waiting, Owed, Phases
    <3> QED
      BY <1>2, <2>1, <3>4, <3>5 DEF Promise!Acked, Phases, Owed, Waiting, Promises
  <2>4. CASE j.state # "completed"
    <3>1. PromiseOf(s)' = "erasing"
      BY <1>1, <1>2, <2>4 DEF JobState, MappingIsRead, PromiseIsOfJob
    <3>2. Promises' = Promises
      BY <1>2, <2>2, <3>1 DEF Promises
    <3> QED
      BY <1>2, <2>1, <3>2 DEF Promise!Acked, Phases, Owed, Waiting, Promises
  <2> QED
    BY <2>3, <2>4
<1>6. CASE p \notin job[s].pendingReplicas
  <2>1. j.pendingReplicas = job[s].pendingReplicas
    BY <1>1, <1>6
  <2>2. j.state = job[s].state
    BY <1>1, <1>3, <1>4, <2>1 DEF JobAgrees, JobState, VaultAgrees, TypeOK, DeletionJob
  <2>3. PromiseOf(s)' = PromiseOf(s)
    BY <1>2, <2>2 DEF MappingIsRead, PromiseIsOfJob
  <2>4. Waiting' = Waiting /\ Promises' = Promises
    BY <1>2, <2>1, <2>3 DEF Waiting, Promises
  <2> QED
    BY <1>2, <2>4 DEF Promise!pvars, Phases, Owed, Waiting, Promises
<1> QED
  BY <1>5, <1>6

\* Every step of the vault is a step of the promise, or does not show.
LEMMA StepIsPromised ==
  VaultAgrees /\ VaultAgrees' /\ [Next]_vars => [Promise!PromiseNext]_(Promise!pvars)
<1> SUFFICES ASSUME VaultAgrees, VaultAgrees', [Next]_vars
             PROVE  Promise!PromiseNext \/ UNCHANGED Promise!pvars
  OBVIOUS
<1> USE DEF Promise!PromiseNext
<1>0. MappingIsRead /\ MappingIsRead'
  BY MappingReads, PTL
<1>1. ASSUME NEW r \in Raws, StoreRaw(r) PROVE Promise!PromiseNext
  BY <1>0, <1>1, StoreAdds
<1>2. ASSUME NEW r \in Raws, FinalizeRaw(r)
      PROVE  Promise!PromiseNext \/ UNCHANGED Promise!pvars
  BY <1>0, <1>2, FinalizeErases
<1>3. ASSUME NEW r \in Raws, \/ StoreRawFails(r) \/ StoreRawCrashes(r)
                              \/ FinalizeRawFails(r) \/ LoseFile(r)
      PROVE  UNCHANGED Promise!pvars
  BY <1>0, <1>3, Stutters DEF StoreRawFails, StoreRawCrashes, FinalizeRawFails, LoseFile
<1>4. ASSUME NEW S \in SUBSET Expiring, PurgeExpired(S) PROVE Promise!PromiseNext
  <2>1. S \in SUBSET Raws
    OBVIOUS
  <2> QED
    BY <1>0, <1>4, <2>1, PurgeExpires
<1>5. ASSUME NEW s \in Sources, NEW R \in SUBSET Replicas, DeleteSource(s, R)
      PROVE  Promise!PromiseNext
  BY <1>0, <1>5, DeletionDooms
<1>6. ASSUME NEW s \in Sources, NEW p \in Replicas, Acknowledge(s, p)
      PROVE  Promise!PromiseNext \/ UNCHANGED Promise!pvars
  BY <1>0, <1>6, AcknowledgementCounts
<1>7. ASSUME NEW s \in Sources, ReconcileDeletion(s)
      PROVE  Promise!PromiseNext \/ UNCHANGED Promise!pvars
  <2>1. job[s].state # "none"
    BY <1>7 DEF ReconcileDeletion, VaultAgrees, WorkIsOnJobs
  <2> QED
    BY <1>0, <1>7, <2>1, ReconciliationProves DEF ReconcileDeletion
<1>8. ASSUME NEW s \in Sources, RecoverJob(s)
      PROVE  Promise!PromiseNext \/ UNCHANGED Promise!pvars
  <2>1. job[s].state # "none"
    BY <1>8 DEF RecoverJob, VaultAgrees, WorkIsOnJobs
  <2>2. CASE job' = [job EXCEPT ![s] = Reconciled(@, {})]
    BY <1>0, <1>8, <2>1, <2>2, ReconciliationProves DEF RecoverJob
  <2>3. CASE UNCHANGED job
    BY <1>0, <1>8, <2>3, Stutters DEF RecoverJob
  <2> QED
    BY <1>8, <2>2, <2>3 DEF RecoverJob
<1>9. ASSUME Open PROVE Promise!PromiseNext
  BY <1>0, <1>9, OpenLoses
<1>10. ASSUME NEW s \in Sources, RetryDeletion(s) PROVE UNCHANGED Promise!pvars
  BY <1>0, <1>10, Stutters DEF RetryDeletion
<1>11. ASSUME \/ EndOfPurge \/ ReconcileDeletionFails \/ Crash \/ OpenFails
              \/ EndOfRecoveryLoop \/ EndOfRecovery \/ UNCHANGED vars
       PROVE  UNCHANGED Promise!pvars
  BY <1>0, <1>11, Stutters DEF EndOfPurge, ReconcileDeletionFails, Crash, OpenFails,
                             EndOfRecoveryLoop, EndOfRecovery, vars
<1> QED
  BY <1>1, <1>2, <1>3, <1>4, <1>5, <1>6, <1>7, <1>8, <1>9, <1>10, <1>11 DEF Next

-----------------------------------------------------------------------------
\* The vault, its rows and its jobs go through a behaviour of the promise.
THEOREM Refinement == Spec => ImplementsPromise
<1>1. Init => Promise!PromiseInit
  BY DEF Init, Promise!PromiseInit, PhaseOf, PromiseOf, NoManifest, NoJob
<1>2. VaultAgrees /\ VaultAgrees' /\ [Next]_vars
        => [Promise!PromiseNext]_(Promise!pvars)
  BY StepIsPromised
<1> QED
  BY <1>1, <1>2, VaultConsistency, PTL DEF Spec, ImplementsPromise, Promise!PromiseSpec

=============================================================================
