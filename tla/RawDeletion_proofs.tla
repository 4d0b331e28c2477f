------------------------- MODULE RawDeletion_proofs -------------------------
(* Proofs about RawDeletion, for every number of sources, objects, replicas. *)
EXTENDS RawDeletion, FiniteSetTheorems, TLAPS

USE SourceOfAssumption, ExpiringAssumption, FlagAssumption
USE DEF Idle, Down, At

\* The initial state is consistent.
LEMMA InitAgrees == Init => VaultAgrees
  BY DEF Init, VaultAgrees, TypeOK, Manifest, NoManifest, DeletionJob, NoJob, Process,
         RowsAgree, RowAgrees, JobsAgree, JobAgrees, DeletedSourceClosed,
         DeletedManifestHasNoFile, ReadableHasFile, WorkIsOnJobs,
         Readable, IsReady, Clean, Staged

\* What happens to a deletion job keeps its type.
LEMMA OpenJobType ==
  ASSUME NEW raws \in SUBSET Raws, NEW R \in SUBSET Replicas
  PROVE  OpenJob(raws, R) \in DeletionJob
  BY DEF OpenJob, JobState, DeletionJob

\* An acknowledged job is a deletion job.
LEMMA AcknowledgedType ==
  ASSUME NEW j \in DeletionJob, NEW p \in Replicas
  PROVE  Acknowledged(j, p) \in DeletionJob
  BY DEF Acknowledged, JobState, DeletionJob

\* A reconciled job is a deletion job.
LEMMA ReconciledType ==
  ASSUME NEW j \in DeletionJob, NEW failed \in SUBSET Raws
  PROVE  Reconciled(j, failed) \in DeletionJob
<1>1. {r \in j.raws : ~Clean(r)} \in SUBSET Raws
  BY DEF DeletionJob
<1> QED
  BY <1>1 DEF Reconciled, JobState, DeletionJob

\* Every step keeps the types.
LEMMA TypeStep == VaultAgrees /\ [Next]_vars => TypeOK'
<1> SUFFICES ASSUME VaultAgrees, [Next]_vars PROVE TypeOK'
  OBVIOUS
<1> USE DEF TypeOK, Manifest, Process
<1>0. TypeOK
  BY DEF VaultAgrees
<1>1. ASSUME NEW r \in Raws, StoreRaw(r) PROVE TypeOK'
  BY <1>0, <1>1 DEF StoreRaw, MayStore
<1>2. ASSUME NEW r \in Raws, StoreRawFails(r) PROVE TypeOK'
  BY <1>0, <1>2 DEF StoreRawFails, MayStore
<1>3. ASSUME NEW r \in Raws, StoreRawCrashes(r) PROVE TypeOK'
  BY <1>0, <1>3 DEF StoreRawCrashes, MayStore
<1>4. ASSUME NEW r \in Raws, FinalizeRaw(r) PROVE TypeOK'
  <2>1. manifest' \in [Raws -> Manifest]
    <3> DEFINE row == [state |-> "deleted", deletion |-> manifest[r].pending,
                       pending |-> "none"]
    <3>1. row \in Manifest
      BY <1>0
    <3>2. manifest' = manifest \/ manifest' = [manifest EXCEPT ![r] = row]
      BY <1>4 DEF FinalizeRaw
    <3> HIDE DEF row
    <3> QED
      BY <1>0, <3>1, <3>2
  <2>2. files' \in SUBSET Raws
    BY <1>0, <1>4 DEF FinalizeRaw
  <2>3. proc' \in Process
    BY <1>0, <1>4 DEF FinalizeRaw
  <2> QED
    BY <1>0, <1>4, <2>1, <2>2, <2>3 DEF FinalizeRaw
<1>5. ASSUME NEW r \in Raws, FinalizeRawFails(r) PROVE TypeOK'
  BY <1>0, <1>5 DEF FinalizeRawFails, InLoop
<1>6. ASSUME NEW r \in Raws, LoseFile(r) PROVE TypeOK'
  BY <1>0, <1>6 DEF LoseFile
<1>7. ASSUME NEW S \in SUBSET Expiring, PurgeExpired(S) PROVE TypeOK'
  BY <1>0, <1>7 DEF PurgeExpired, Staged
<1>8. ASSUME NEW s \in Sources, NEW replicas \in SUBSET Replicas, DeleteSource(s, replicas)
      PROVE  TypeOK'
  <2>1. Impact(s) \in SUBSET Raws
    BY DEF Impact
  <2>2. OpenJob(Impact(s), replicas) \in DeletionJob
    BY <2>1, OpenJobType
  <2>3. job' \in [Sources -> DeletionJob]
    BY <1>0, <1>8, <2>2 DEF DeleteSource
  <2>4. manifest' \in [Raws -> Manifest]
    BY <1>0, <1>8 DEF DeleteSource, Staged
  <2>5. proc' \in Process
    BY <1>8, <2>1 DEF DeleteSource
  <2> QED
    BY <1>0, <1>8, <2>3, <2>4, <2>5 DEF DeleteSource
<1>9. ASSUME NEW s \in Sources, NEW p \in Replicas, Acknowledge(s, p) PROVE TypeOK'
  <2>1. Acknowledged(job[s], p) \in DeletionJob
    BY <1>0, AcknowledgedType
  <2>2. job' \in [Sources -> DeletionJob]
    BY <1>0, <1>9, <2>1 DEF Acknowledge
  <2> QED
    BY <1>0, <1>9, <2>2 DEF Acknowledge
<1>10. ASSUME NEW s \in Sources, RetryDeletion(s) PROVE TypeOK'
  <2>1. job[s].raws \in SUBSET Raws
    BY <1>0 DEF DeletionJob
  <2> QED
    BY <1>0, <1>10, <2>1 DEF RetryDeletion
<1>11. ASSUME NEW s \in Sources, ReconcileDeletion(s) PROVE TypeOK'
  <2>1. Reconciled(job[s], proc.failed) \in DeletionJob
    BY <1>0, ReconciledType
  <2>2. job' \in [Sources -> DeletionJob]
    BY <1>0, <1>11, <2>1 DEF ReconcileDeletion
  <2> QED
    BY <1>0, <1>11, <2>2 DEF ReconcileDeletion
<1>12. ASSUME NEW s \in Sources, RecoverJob(s) PROVE TypeOK'
  <2>1. Reconciled(job[s], {}) \in DeletionJob
    BY <1>0, ReconciledType
  <2>2. job' \in [Sources -> DeletionJob]
    BY <1>0, <1>12, <2>1 DEF RecoverJob
  <2> QED
    BY <1>0, <1>12, <2>2 DEF RecoverJob
<1>13. ASSUME Open PROVE TypeOK'
  BY <1>0, <1>13 DEF Open, Referenced
<1>14. ASSUME OpenFails \/ Crash \/ EndOfPurge \/ ReconcileDeletionFails
              \/ EndOfRecoveryLoop \/ EndOfRecovery \/ UNCHANGED vars
       PROVE  TypeOK'
  BY <1>0, <1>14 DEF OpenFails, Crash, EndOfPurge, ReconcileDeletionFails,
                     EndOfRecoveryLoop, EndOfRecovery, vars
<1> QED
  BY <1>1, <1>2, <1>3, <1>4, <1>5, <1>6, <1>7, <1>8, <1>9, <1>10, <1>11, <1>12,
     <1>13, <1>14 DEF Next

\* What the lemmas below assume of the state before a step, and prove of the
\* state after it, beside its type.
Agree == /\ RowsAgree
         /\ DeletedManifestHasNoFile
         /\ JobsAgree
         /\ DeletedSourceClosed
         /\ ~FilesMayVanish => ReadableHasFile

\* An object without a row belongs to no deletion job.
LEMMA UnstoredNotOwed ==
  ASSUME TypeOK, JobsAgree, NEW r \in Raws, manifest[r].state = "none",
         NEW s \in Sources
  PROVE  r \notin job[s].raws
  BY DEF JobsAgree, JobAgrees, Staged

\* Steps that touch neither rows nor jobs nor sources, and add no file to a row
\* that is deleted nor take one from a row that is readable.
LEMMA FileStep ==
  ASSUME Agree, TypeOK, UNCHANGED <<source, manifest, job>>, TypeOK',
         \A r \in Raws : manifest[r].state = "deleted" => r \notin files',
         ~FilesMayVanish => \A r \in Raws : Readable(r) => r \in files'
  PROVE  Agree'
<1> USE DEF Agree
<1>1. RowsAgree' /\ DeletedManifestHasNoFile' /\ DeletedSourceClosed'
  BY DEF RowsAgree, DeletedManifestHasNoFile, DeletedSourceClosed
<1>2. JobsAgree'
  <2> SUFFICES ASSUME NEW s \in Sources PROVE JobAgrees(s)'
    BY DEF JobsAgree
  <2>1. \A r \in job[s].raws : r \in Raws
    BY DEF TypeOK, DeletionJob
  <2> QED
    BY <2>1 DEF JobsAgree, JobAgrees, Clean
<1>3. ~FilesMayVanish => ReadableHasFile'
  BY DEF ReadableHasFile, Readable
<1> QED
  BY <1>1, <1>2, <1>3

\* A step that gives an unused id a ready row and its file.
LEMMA StoreStep ==
  ASSUME Agree, TypeOK, TypeOK', NEW r \in Raws, StoreRaw(r)
  PROVE  Agree'
<1> USE DEF Agree
<1>1. /\ manifest' = [manifest EXCEPT ![r] = [state |-> "ready", deletion |-> "active",
                                             pending |-> "none"]]
      /\ files' = files \cup {r}
      /\ job' = job /\ source' = source /\ source[SourceOf[r]] # "deleted"
      /\ manifest[r].state = "none"
  BY DEF StoreRaw, MayStore
<1>2. manifest'[r] = [state |-> "ready", deletion |-> "active", pending |-> "none"]
      /\ \A q \in Raws \ {r} : manifest'[q] = manifest[q]
  BY <1>1 DEF TypeOK
<1>3. RowsAgree'
  BY <1>2 DEF RowsAgree, RowAgrees
<1>4. DeletedManifestHasNoFile'
  BY <1>1, <1>2 DEF DeletedManifestHasNoFile
<1>5. JobsAgree'
  <2> SUFFICES ASSUME NEW s \in Sources PROVE JobAgrees(s)'
    BY DEF JobsAgree
  <2>1. \A q \in job[s].raws : q \in Raws /\ q # r
    BY <1>1, UnstoredNotOwed DEF TypeOK, DeletionJob
  <2> QED
    BY <1>1, <1>2, <2>1 DEF JobsAgree, JobAgrees, Clean
<1>6. DeletedSourceClosed'
  BY <1>1, <1>2 DEF DeletedSourceClosed
<1>7. ~FilesMayVanish => ReadableHasFile'
  BY <1>1, <1>2 DEF ReadableHasFile, Readable
<1> QED
  BY <1>3, <1>4, <1>5, <1>6, <1>7

\* A step that stages expired rows for a purge.
LEMMA PurgeStep ==
  ASSUME Agree, TypeOK, TypeOK', NEW S \in SUBSET Expiring, PurgeExpired(S)
  PROVE  Agree'
<1> USE DEF Agree
<1>1. /\ S \subseteq Raws /\ \A r \in S : manifest[r].state = "ready"
      /\ \A r \in Raws : manifest'[r] = IF r \in S THEN Staged("expired") ELSE manifest[r]
      /\ files' = files /\ job' = job /\ source' = source
  BY DEF PurgeExpired, IsReady
<1>2. RowsAgree'
  BY <1>1 DEF RowsAgree, RowAgrees, Staged
<1>3. DeletedManifestHasNoFile'
  BY <1>1 DEF DeletedManifestHasNoFile, Staged
<1>4. JobsAgree'
  <2> SUFFICES ASSUME NEW s \in Sources PROVE JobAgrees(s)'
    BY DEF JobsAgree
  <2>1. \A r \in job[s].raws : r \in Raws /\ r \notin S
    BY <1>1 DEF TypeOK, DeletionJob, JobsAgree, JobAgrees, Staged
  <2> QED
    BY <1>1, <2>1 DEF JobsAgree, JobAgrees, Clean
<1>5. DeletedSourceClosed'
  BY <1>1 DEF DeletedSourceClosed, Staged
<1>6. ~FilesMayVanish => ReadableHasFile'
  BY <1>1 DEF ReadableHasFile, Readable, Staged, IsReady
<1> QED
  BY <1>2, <1>3, <1>4, <1>5, <1>6

\* A step that deletes a source, stages its rows and opens its deletion job.
LEMMA DeleteStep ==
  ASSUME Agree, TypeOK, TypeOK', NEW s \in Sources, NEW R \in SUBSET Replicas,
         DeleteSource(s, R)
  PROVE  Agree'
<1> USE DEF Agree
<1> DEFINE I == Impact(s)
<1>1. /\ I \subseteq Raws
      /\ \A r \in I : manifest[r].state = "ready" /\ SourceOf[r] = s
      /\ \A r \in Raws \ I : SourceOf[r] = s => manifest[r].deletion # "active"
      /\ source[s] # "deleted"
  BY DEF DeleteSource, Impact, IsReady
<1>2. /\ \A r \in Raws : manifest'[r] = IF r \in I THEN Staged("deleted") ELSE manifest[r]
      /\ files' = files
      /\ source' = [source EXCEPT ![s] = "deleted"]
      /\ job' = [job EXCEPT ![s] = OpenJob(I, R)]
  BY DEF DeleteSource
<1> HIDE DEF I
<1>3. RowsAgree'
  BY <1>1, <1>2 DEF RowsAgree, RowAgrees, Staged
<1>4. DeletedManifestHasNoFile'
  BY <1>1, <1>2 DEF DeletedManifestHasNoFile, Staged
<1>5. JobsAgree'
  <2> SUFFICES ASSUME NEW t \in Sources PROVE JobAgrees(t)'
    BY DEF JobsAgree
  <2>1. CASE t = s
    <3>1. job'[t] = OpenJob(I, R) /\ source'[t] = "deleted"
      BY <1>2, <2>1 DEF TypeOK
    <3>2. /\ OpenJob(I, R).raws = I /\ OpenJob(I, R).localComplete = (I = {})
          /\ OpenJob(I, R).pendingReplicas = R
          /\ OpenJob(I, R).state = IF I = {} /\ R = {} THEN "completed"
                                   ELSE "partial_failed"
      BY DEF OpenJob, JobState
    <3>3. \A r \in I : manifest'[r] = Staged("deleted") /\ SourceOf[r] = t
      BY <1>1, <1>2, <2>1
    <3> QED
      BY <2>1, <3>1, <3>2, <3>3 DEF JobAgrees
  <2>2. CASE t # s
    <3>1. job'[t] = job[t] /\ source'[t] = source[t]
      BY <1>2, <2>2 DEF TypeOK
    <3>2. \A r \in job[t].raws : r \in Raws /\ r \notin I
      BY <1>1, <2>2 DEF TypeOK, DeletionJob, JobsAgree, JobAgrees
    <3> QED
      BY <1>2, <3>1, <3>2 DEF JobsAgree, JobAgrees, Clean
  <2> QED
    BY <2>1, <2>2
<1>6. DeletedSourceClosed'
  BY <1>1, <1>2 DEF DeletedSourceClosed, Staged, TypeOK
<1>7. ~FilesMayVanish => ReadableHasFile'
  BY <1>1, <1>2 DEF ReadableHasFile, Readable, Staged, IsReady
<1> QED
  BY <1>3, <1>4, <1>5, <1>6, <1>7

\* A step that unlinks the file of a staged row and makes the row final.
LEMMA FinalizeStep ==
  ASSUME Agree, TypeOK, TypeOK', NEW r \in Raws, FinalizeRaw(r)
  PROVE  Agree'
<1> USE DEF Agree
<1>1. CASE manifest[r].state = "deleted"
  BY <1>1, FileStep DEF FinalizeRaw, DeletedManifestHasNoFile, ReadableHasFile
<1>2. CASE manifest[r].state = "delete_pending"
  <2> DEFINE row == [state |-> "deleted", deletion |-> manifest[r].pending,
                     pending |-> "none"]
  <2>1. /\ manifest' = [manifest EXCEPT ![r] = row]
        /\ files' = files \ {r} /\ job' = job /\ source' = source
    BY <1>2 DEF FinalizeRaw
  <2>2. manifest'[r] = row /\ \A q \in Raws \ {r} : manifest'[q] = manifest[q]
    BY <2>1 DEF TypeOK
  <2>3. manifest[r].pending \in {"deleted", "expired"}
    BY <1>2 DEF TypeOK, Manifest, RowsAgree, RowAgrees
  <2>4. RowsAgree'
    BY <2>2, <2>3 DEF RowsAgree, RowAgrees
  <2>5. DeletedManifestHasNoFile'
    BY <2>1, <2>2 DEF DeletedManifestHasNoFile
  <2>6. JobsAgree'
    <3> SUFFICES ASSUME NEW s \in Sources PROVE JobAgrees(s)'
      BY DEF JobsAgree
    <3>1. \A q \in job[s].raws : q \in Raws
      BY DEF TypeOK, DeletionJob
    <3>2. r \in job[s].raws => manifest[r].pending = "deleted"
      BY <1>2 DEF JobsAgree, JobAgrees, Staged
    <3>3. job[s].localComplete => \A q \in job[s].raws : Clean(q)'
      BY <2>1, <2>2, <3>1 DEF JobsAgree, JobAgrees, Clean
    <3> QED
      BY <2>1, <2>2, <3>1, <3>2, <3>3 DEF JobsAgree, JobAgrees
  <2>7. DeletedSourceClosed'
    BY <2>1, <2>2, <2>3 DEF DeletedSourceClosed
  <2>8. ~FilesMayVanish => ReadableHasFile'
    BY <2>1, <2>2 DEF ReadableHasFile, Readable, IsReady
  <2> QED
    BY <2>4, <2>5, <2>6, <2>7, <2>8
<1> QED
  BY <1>1, <1>2 DEF FinalizeRaw

\* A step that replaces one deletion job by what reconciliation makes of it.
LEMMA ReconcileStep ==
  ASSUME Agree, TypeOK, TypeOK', NEW s \in Sources, NEW failed \in SUBSET Raws,
         job[s].state # "none", job' = [job EXCEPT ![s] = Reconciled(@, failed)],
         UNCHANGED <<source, manifest, files>>
  PROVE  Agree'
<1> USE DEF Agree
<1>1. /\ Reconciled(job[s], failed).raws = job[s].raws
      /\ Reconciled(job[s], failed).pendingReplicas = job[s].pendingReplicas
      /\ Reconciled(job[s], failed).localComplete
            = ({r \in job[s].raws : ~Clean(r)} = {})
      /\ Reconciled(job[s], failed).state
            = JobState({r \in job[s].raws : ~Clean(r)} = {}, job[s].pendingReplicas)
  BY DEF Reconciled
<1>2. JobsAgree'
  <2> SUFFICES ASSUME NEW t \in Sources PROVE JobAgrees(t)'
    BY DEF JobsAgree
  <2>1. CASE t = s
    <3>1. job'[t] = Reconciled(job[s], failed)
      BY <2>1 DEF TypeOK
    <3>2. JobAgrees(s)
      BY DEF JobsAgree
    <3>3. (job'[s].state = "completed") <=> job'[s].localComplete
                                           /\ job'[s].pendingReplicas = {}
      BY <1>1, <2>1, <3>1 DEF JobState
    <3>4. job'[s].state # "none" /\ source[s] = "deleted"
      BY <1>1, <2>1, <3>1, <3>2 DEF JobAgrees, JobState
    <3>5. job'[s].localComplete => \A r \in job'[s].raws : Clean(r)'
      BY <1>1, <2>1, <3>1 DEF Clean
    <3>6. \A r \in job'[s].raws : SourceOf[r] = s
            /\ \/ manifest'[r] = Staged("deleted")
               \/ manifest'[r].state = "deleted" /\ manifest'[r].deletion = "deleted"
      BY <1>1, <2>1, <3>1, <3>2 DEF JobAgrees
    <3> QED
      BY <2>1, <3>3, <3>4, <3>5, <3>6 DEF JobAgrees
  <2>2. CASE t # s
    <3>1. job'[t] = job[t]
      BY <2>2 DEF TypeOK
    <3> QED
      BY <3>1 DEF JobsAgree, JobAgrees, Clean
  <2> QED
    BY <2>1, <2>2
<1> QED
  BY <1>2 DEF RowsAgree, DeletedManifestHasNoFile, DeletedSourceClosed,
              ReadableHasFile, Readable

\* A step in which a replica acknowledges a deletion.
LEMMA AcknowledgeStep ==
  ASSUME Agree, TypeOK, TypeOK', NEW s \in Sources, NEW p \in Replicas,
         Acknowledge(s, p)
  PROVE  Agree'
<1> USE DEF Agree
<1>1. /\ Acknowledged(job[s], p).raws = job[s].raws
      /\ Acknowledged(job[s], p).localComplete = job[s].localComplete
      /\ Acknowledged(job[s], p).pendingReplicas = job[s].pendingReplicas \ {p}
      /\ Acknowledged(job[s], p).state
            = JobState(job[s].localComplete, job[s].pendingReplicas \ {p})
  BY DEF Acknowledged, TypeOK, DeletionJob
<1>2. job[s].state # "none"
  BY DEF Acknowledge, JobsAgree, JobAgrees, NoJob
<1>3. JobsAgree'
  <2> SUFFICES ASSUME NEW t \in Sources PROVE JobAgrees(t)'
    BY DEF JobsAgree
  <2>1. CASE t = s
    <3>1. job'[t] = Acknowledged(job[s], p)
      BY <2>1 DEF Acknowledge, TypeOK
    <3> QED
      BY <1>1, <1>2, <2>1, <3>1 DEF Acknowledge, JobsAgree, JobAgrees, JobState, Clean
  <2>2. CASE t # s
    <3>1. job'[t] = job[t]
      BY <2>2 DEF Acknowledge, TypeOK
    <3> QED
      BY <3>1 DEF Acknowledge, JobsAgree, JobAgrees, Clean
  <2> QED
    BY <2>1, <2>2
<1> QED
  BY <1>3 DEF Acknowledge, RowsAgree, DeletedManifestHasNoFile, DeletedSourceClosed,
              ReadableHasFile, Readable

\* Opening the process may turn readable rows into missing ones.
LEMMA OpenStep ==
  ASSUME Agree, TypeOK, TypeOK', Open
  PROVE  Agree'
<1> USE DEF Agree
<1>1. /\ files' = files \cap Referenced /\ job' = job /\ source' = source
      /\ \A r \in Raws : manifest'[r] = IF IsReady(manifest[r]) /\ r \notin files
                                       THEN [manifest[r] EXCEPT !.state = "missing"]
                                       ELSE manifest[r]
  BY DEF Open
<1>2. \A r \in Raws :
        /\ manifest'[r].deletion = manifest[r].deletion
        /\ manifest'[r].pending = manifest[r].pending
        /\ ~IsReady(manifest[r]) => manifest'[r] = manifest[r]
        /\ IsReady(manifest[r]) => manifest'[r].state \in {"ready", "missing"}
        /\ IsReady(manifest'[r]) => r \in files /\ IsReady(manifest[r])
  BY <1>1 DEF TypeOK, Manifest, IsReady
<1>3. RowsAgree'
  BY <1>2 DEF RowsAgree, RowAgrees, IsReady
<1>4. DeletedManifestHasNoFile'
  BY <1>1, <1>2 DEF DeletedManifestHasNoFile
<1>5. JobsAgree'
  <2> SUFFICES ASSUME NEW s \in Sources PROVE JobAgrees(s)'
    BY DEF JobsAgree
  <2>1. \A r \in job[s].raws : r \in Raws /\ ~IsReady(manifest[r])
    BY DEF TypeOK, DeletionJob, JobsAgree, JobAgrees, Staged, IsReady
  <2> QED
    BY <1>1, <1>2, <2>1 DEF JobsAgree, JobAgrees, Clean
<1>6. DeletedSourceClosed'
  BY <1>1, <1>2 DEF DeletedSourceClosed
<1>7. ReadableHasFile'
  BY <1>1, <1>2 DEF ReadableHasFile, Readable, Referenced
<1> QED
  BY <1>3, <1>4, <1>5, <1>6, <1>7

\* Steps of the process keep it at work on deletion jobs that exist.
LEMMA WorkStep ==
  ASSUME VaultAgrees, TypeOK', [Next]_vars
  PROVE  WorkIsOnJobs'
<1> USE DEF WorkIsOnJobs
<1>0. TypeOK /\ \A s \in proc.jobs : s \in Sources /\ job[s].state # "none"
  BY DEF VaultAgrees, TypeOK, Process
<1>1. ASSUME UNCHANGED job, proc'.jobs \subseteq proc.jobs PROVE WorkIsOnJobs'
  BY <1>0, <1>1
<1>2. ASSUME NEW r \in Raws,
             StoreRaw(r) \/ StoreRawFails(r) \/ StoreRawCrashes(r) \/ LoseFile(r)
      PROVE  WorkIsOnJobs'
  BY <1>1, <1>2 DEF StoreRaw, StoreRawFails, StoreRawCrashes, MayStore, LoseFile
<1>3. ASSUME NEW r \in Raws, FinalizeRaw(r) \/ FinalizeRawFails(r) PROVE WorkIsOnJobs'
  <2>1. proc'.jobs = proc.jobs
    BY <1>0, <1>3 DEF FinalizeRaw, FinalizeRawFails, TypeOK, Process
  <2> QED
    BY <1>1, <1>3, <2>1 DEF FinalizeRaw, FinalizeRawFails
<1>4. ASSUME NEW S \in SUBSET Expiring, PurgeExpired(S) PROVE WorkIsOnJobs'
  BY <1>4 DEF PurgeExpired
<1>5. ASSUME NEW s \in Sources, NEW R \in SUBSET Replicas, DeleteSource(s, R)
      PROVE  WorkIsOnJobs'
  <2>1. job'[s] = OpenJob(Impact(s), R)
    BY <1>0, <1>5 DEF DeleteSource, TypeOK
  <2>2. job'[s].state # "none"
    BY <2>1 DEF OpenJob, JobState
  <2> QED
    BY <1>5, <2>2 DEF DeleteSource
<1>6. ASSUME NEW s \in Sources, NEW p \in Replicas, Acknowledge(s, p) PROVE WorkIsOnJobs'
  BY <1>6 DEF Acknowledge
<1>7. ASSUME NEW s \in Sources, RetryDeletion(s) PROVE WorkIsOnJobs'
  <2>1. job[s].state # "none"
    BY <1>7 DEF RetryDeletion, VaultAgrees, JobsAgree, JobAgrees, NoJob
  <2> QED
    BY <1>7, <2>1 DEF RetryDeletion
<1>8. ASSUME NEW s \in Sources, ReconcileDeletion(s) PROVE WorkIsOnJobs'
  BY <1>8 DEF ReconcileDeletion
<1>9. ASSUME NEW s \in Sources, RecoverJob(s) PROVE WorkIsOnJobs'
  <2>1. proc'.jobs = proc.jobs \ {s}
    BY <1>0, <1>9 DEF RecoverJob, TypeOK, Process
  <2>2. \A t \in Sources \ {s} : job'[t] = job[t]
    BY <1>0, <1>9 DEF RecoverJob, TypeOK
  <2> QED
    BY <1>0, <2>1, <2>2
<1>10. ASSUME Crash \/ EndOfPurge \/ ReconcileDeletionFails \/ EndOfRecoveryLoop
              \/ EndOfRecovery \/ Open
       PROVE  WorkIsOnJobs'
  BY <1>10 DEF Crash, EndOfPurge, ReconcileDeletionFails, EndOfRecoveryLoop,
               EndOfRecovery, Open
<1>11. ASSUME OpenFails \/ UNCHANGED vars PROVE WorkIsOnJobs'
  BY <1>1, <1>11 DEF OpenFails, vars
<1> QED
  BY <1>2, <1>3, <1>4, <1>5, <1>6, <1>7, <1>8, <1>9, <1>10, <1>11 DEF Next

\* Every step keeps rows, files, jobs and the process in agreement.
LEMMA AgreeStep == VaultAgrees /\ [Next]_vars => VaultAgrees'
<1> SUFFICES ASSUME VaultAgrees, [Next]_vars PROVE VaultAgrees'
  OBVIOUS
<1>0. TypeOK /\ TypeOK' /\ Agree /\ WorkIsOnJobs /\ WorkIsOnJobs'
  BY TypeStep, WorkStep DEF VaultAgrees, Agree
<1>1. ASSUME NEW r \in Raws, StoreRaw(r) PROVE Agree'
  BY <1>0, <1>1, StoreStep
<1>2. ASSUME NEW r \in Raws, StoreRawFails(r) \/ StoreRawCrashes(r) PROVE Agree'
  <2>1. /\ UNCHANGED <<source, manifest, job>> /\ manifest[r].state = "none"
        /\ \A q \in Raws \ {r} : q \in files <=> q \in files'
    BY <1>2 DEF StoreRawFails, StoreRawCrashes, MayStore
  <2> QED
    BY <1>0, <2>1, FileStep DEF Agree, DeletedManifestHasNoFile, ReadableHasFile,
                                Readable, IsReady
<1>3. ASSUME NEW r \in Raws, FinalizeRaw(r) PROVE Agree'
  BY <1>0, <1>3, FinalizeStep
<1>4. ASSUME NEW r \in Raws, FinalizeRawFails(r) PROVE Agree'
  <2>1. /\ UNCHANGED <<source, manifest, job>> /\ manifest[r].state = "delete_pending"
        /\ files' \subseteq files /\ \A q \in Raws \ {r} : q \in files => q \in files'
    BY <1>4 DEF FinalizeRawFails
  <2> QED
    BY <1>0, <2>1, FileStep DEF Agree, DeletedManifestHasNoFile, ReadableHasFile,
                                Readable, IsReady
<1>5. ASSUME NEW r \in Raws, LoseFile(r) PROVE Agree'
  <2>1. /\ UNCHANGED <<source, manifest, job>> /\ FilesMayVanish /\ files' \subseteq files
    BY <1>5 DEF LoseFile
  <2> QED
    BY <1>0, <2>1, FileStep DEF Agree, DeletedManifestHasNoFile
<1>6. ASSUME NEW S \in SUBSET Expiring, PurgeExpired(S) PROVE Agree'
  BY <1>0, <1>6, PurgeStep
<1>7. ASSUME NEW s \in Sources, NEW R \in SUBSET Replicas, DeleteSource(s, R) PROVE Agree'
  BY <1>0, <1>7, DeleteStep
<1>8. ASSUME NEW s \in Sources, NEW p \in Replicas, Acknowledge(s, p) PROVE Agree'
  BY <1>0, <1>8, AcknowledgeStep
<1>9. ASSUME NEW s \in Sources, ReconcileDeletion(s) PROVE Agree'
  <2>1. job[s].state # "none" /\ proc.failed \in SUBSET Raws
    BY <1>0, <1>9 DEF ReconcileDeletion, WorkIsOnJobs, TypeOK, Process
  <2> QED
    BY <1>0, <1>9, <2>1, ReconcileStep DEF ReconcileDeletion
<1>10. ASSUME UNCHANGED <<source, manifest, files, job>> PROVE Agree'
  BY <1>0, <1>10, FileStep DEF Agree, DeletedManifestHasNoFile, ReadableHasFile
<1>11. ASSUME NEW s \in Sources, RecoverJob(s) PROVE Agree'
  <2>1. job[s].state # "none"
    BY <1>11, <1>0 DEF RecoverJob, WorkIsOnJobs
  <2>2. CASE job' = [job EXCEPT ![s] = Reconciled(@, {})]
    <3>1. {} \in SUBSET Raws /\ UNCHANGED <<source, manifest, files>>
      BY <1>11 DEF RecoverJob
    <3> QED
      BY <1>0, <2>1, <2>2, <3>1, ReconcileStep
  <2>3. CASE UNCHANGED job
    BY <1>10, <1>11, <2>3 DEF RecoverJob
  <2> QED
    BY <1>11, <2>2, <2>3 DEF RecoverJob
<1>12. ASSUME Open PROVE Agree'
  BY <1>0, <1>12, OpenStep
<1>13. ASSUME OpenFails PROVE Agree'
  <2>1. /\ UNCHANGED <<source, manifest, job>> /\ files' \subseteq files
        /\ \A r \in Raws : Readable(r) /\ r \in files => r \in files'
    BY <1>13 DEF OpenFails, Referenced, Readable
  <2> QED
    BY <1>0, <2>1, FileStep DEF Agree, DeletedManifestHasNoFile, ReadableHasFile
<1>14. ASSUME NEW s \in Sources, RetryDeletion(s) PROVE Agree'
  BY <1>10, <1>14 DEF RetryDeletion
<1>15. ASSUME Crash \/ EndOfPurge \/ ReconcileDeletionFails \/ EndOfRecoveryLoop
              \/ EndOfRecovery \/ UNCHANGED vars
       PROVE  Agree'
  BY <1>10, <1>15 DEF Crash, EndOfPurge, ReconcileDeletionFails, EndOfRecoveryLoop,
                      EndOfRecovery, vars
<1>16. Agree'
  BY <1>1, <1>2, <1>3, <1>4, <1>5, <1>6, <1>7, <1>8, <1>9, <1>11, <1>12, <1>13, <1>14,
     <1>15 DEF Next
<1> QED
  BY <1>0, <1>16 DEF VaultAgrees, Agree

-----------------------------------------------------------------------------
\* Rows, files, deletion jobs and the process agree in every reachable state.
THEOREM VaultConsistency == Spec => []VaultAgrees
<1>1. Init => VaultAgrees
  BY InitAgrees
<1>2. VaultAgrees /\ [Next]_vars => VaultAgrees'
  BY AgreeStep
<1> QED
  BY <1>1, <1>2, PTL DEF Spec

\* Every variable has its type in every reachable state.
THEOREM TypeCorrect == Spec => []TypeOK
<1>1. VaultAgrees => TypeOK
  BY DEF VaultAgrees
<1> QED
  BY <1>1, VaultConsistency, PTL

\* A completed deletion job is backed by rows, files and acknowledgements.
THEOREM CompletionIsSound == Spec => []CompletedJobIsClean
<1>1. VaultAgrees => CompletedJobIsClean
  BY DEF VaultAgrees, JobsAgree, JobAgrees, CompletedJobIsClean
<1> QED
  BY <1>1, VaultConsistency, PTL

\* No object of a deleted source is ever readable again.
THEOREM DeletionHides == Spec => []DeletedSourceUnreadable
<1>1. VaultAgrees => DeletedSourceUnreadable
  BY DEF VaultAgrees, DeletedSourceClosed, DeletedSourceUnreadable, Readable, IsReady
<1> QED
  BY <1>1, VaultConsistency, PTL

\* A row that says "deleted" has no ciphertext.
THEOREM DeletedMeansGone == Spec => []DeletedManifestHasNoFile
<1>1. VaultAgrees => DeletedManifestHasNoFile
  BY DEF VaultAgrees
<1> QED
  BY <1>1, VaultConsistency, PTL

\* A purge never takes over an object that a deletion job owes.
THEOREM OutcomeKept == Spec => []OutcomeIsNotStolen
<1>1. VaultAgrees => OutcomeIsNotStolen
  BY DEF VaultAgrees, JobsAgree, JobAgrees, OutcomeIsNotStolen
<1> QED
  BY <1>1, VaultConsistency, PTL

\* Reconciliation and acknowledgement recompute the state of a job; neither
\* takes a completed proof back.
THEOREM ProofStays == Spec => ProofIsFinal
<1> DEFINE Stays(s) == job[s].state = "completed" => job'[s].state = "completed"
<1>1. ASSUME VaultAgrees, [Next]_vars, NEW s \in Sources PROVE Stays(s)
  <2> SUFFICES ASSUME job[s].state = "completed" PROVE job'[s].state = "completed"
    OBVIOUS
  <2>0. /\ TypeOK /\ source[s] = "deleted" /\ job[s].localComplete
        /\ job[s].pendingReplicas = {} /\ \A r \in job[s].raws : Clean(r)
    BY <1>1 DEF VaultAgrees, JobsAgree, JobAgrees
  <2>1. ASSUME NEW t \in Sources, NEW failed \in SUBSET Raws,
               job' = [job EXCEPT ![t] = Reconciled(@, failed)]
        PROVE  job'[s].state = "completed"
    <3>1. Reconciled(job[s], failed).state = "completed"
      BY <2>0 DEF Reconciled, JobState
    <3> QED
      BY <2>0, <2>1, <3>1 DEF TypeOK
  <2>2. ASSUME NEW t \in Sources, NEW R \in SUBSET Replicas, DeleteSource(t, R)
        PROVE  job'[s].state = "completed"
    <3>1. t # s
      BY <2>0, <2>2 DEF DeleteSource
    <3> QED
      BY <2>0, <2>2, <3>1 DEF DeleteSource, TypeOK
  <2>3. ASSUME NEW t \in Sources, NEW p \in Replicas, Acknowledge(t, p)
        PROVE  job'[s].state = "completed"
    <3>1. Acknowledged(job[s], p).state = "completed"
      BY <2>0 DEF Acknowledged, JobState, TypeOK, DeletionJob
    <3> QED
      BY <2>0, <2>3, <3>1 DEF Acknowledge, TypeOK
  <2>4. ASSUME NEW t \in Sources, ReconcileDeletion(t) PROVE job'[s].state = "completed"
    BY <2>0, <2>1, <2>4 DEF ReconcileDeletion, TypeOK, Process
  <2>5. ASSUME NEW t \in Sources, RecoverJob(t) PROVE job'[s].state = "completed"
    <3>1. {} \in SUBSET Raws
      OBVIOUS
    <3> QED
      BY <2>1, <2>5, <3>1 DEF RecoverJob
  <2>6. ASSUME UNCHANGED job PROVE job'[s].state = "completed"
    BY <2>6
  <2>7. ASSUME NEW r \in Raws, \/ StoreRaw(r) \/ StoreRawFails(r) \/ StoreRawCrashes(r)
                                \/ FinalizeRaw(r) \/ FinalizeRawFails(r) \/ LoseFile(r)
        PROVE  job'[s].state = "completed"
    BY <2>6, <2>7 DEF StoreRaw, StoreRawFails, StoreRawCrashes, FinalizeRaw,
                      FinalizeRawFails, LoseFile
  <2>8. ASSUME NEW S \in SUBSET Expiring, PurgeExpired(S) PROVE job'[s].state = "completed"
    BY <2>6, <2>8 DEF PurgeExpired
  <2>9. ASSUME NEW t \in Sources, RetryDeletion(t) PROVE job'[s].state = "completed"
    BY <2>6, <2>9 DEF RetryDeletion
  <2>10. ASSUME \/ EndOfPurge \/ ReconcileDeletionFails \/ Crash \/ Open \/ OpenFails
                \/ EndOfRecoveryLoop \/ EndOfRecovery \/ UNCHANGED vars
         PROVE  job'[s].state = "completed"
    BY <2>6, <2>10 DEF EndOfPurge, ReconcileDeletionFails, Crash, Open, OpenFails,
                       EndOfRecoveryLoop, EndOfRecovery, vars
  <2> QED
    BY <1>1, <2>2, <2>3, <2>4, <2>5, <2>7, <2>8, <2>9, <2>10 DEF Next
<1>2. VaultAgrees /\ [Next]_vars => [\A s \in Sources : Stays(s)]_vars
  BY <1>1
<1> QED
  BY <1>2, VaultConsistency, PTL DEF Spec, ProofIsFinal

-----------------------------------------------------------------------------
(* The quota.                                                              *)

\* The files on disk and the rows that count fit into the quota together, and
\* only while the process is down may a file have no row that counts.
QuotaIsKept ==
  /\ IsFiniteSet(files \cup Held)
  /\ Cardinality(files \cup Held) <= Quota
  /\ proc.at # "down" => files \subseteq Held

\* Nothing is added to what is on disk or counts.
LEMMA QuotaShrinks ==
  ASSUME QuotaIsKept, files' \cup Held' \subseteq files \cup Held,
         proc'.at # "down" => files' \subseteq Held'
  PROVE  QuotaIsKept'
<1>1. files' \cup Held' \in SUBSET (files \cup Held)
  OBVIOUS
<1>2. /\ IsFiniteSet(files' \cup Held')
      /\ Cardinality(files' \cup Held') <= Cardinality(files \cup Held)
  BY <1>1, FS_Subset DEF QuotaIsKept
<1>3. Cardinality(files' \cup Held') \in Nat /\ Cardinality(files \cup Held) \in Nat
  BY <1>2, FS_CardinalityType DEF QuotaIsKept
<1> QED
  BY <1>2, <1>3, QuotaAssumption DEF QuotaIsKept

\* One object is added, which the quota had room for.
LEMMA QuotaHasRoom ==
  ASSUME QuotaIsKept, NEW r \in Raws, MayStore(r),
         files' \cup Held' \subseteq Held \cup {r},
         proc'.at # "down" => files' \subseteq Held'
  PROVE  QuotaIsKept'
<1>1. files \cup Held = Held /\ IsFiniteSet(Held) /\ Cardinality(Held) + 1 <= Quota
  BY DEF QuotaIsKept, MayStore
<1>2. IsFiniteSet(Held \cup {r}) /\ Cardinality(Held) \in Nat
  BY <1>1, FS_AddElement, FS_CardinalityType
<1>3. Cardinality(Held \cup {r}) <= Quota
  <2>1. Cardinality(Held \cup {r}) = IF r \in Held THEN Cardinality(Held)
                                     ELSE Cardinality(Held) + 1
    BY <1>1, FS_AddElement
  <2> QED
    BY <1>1, <1>2, <2>1, QuotaAssumption
<1>4. files' \cup Held' \in SUBSET (Held \cup {r})
  OBVIOUS
<1>5. /\ IsFiniteSet(files' \cup Held')
      /\ Cardinality(files' \cup Held') <= Cardinality(Held \cup {r})
  BY <1>2, <1>4, FS_Subset
<1>6. Cardinality(files' \cup Held') \in Nat /\ Cardinality(Held \cup {r}) \in Nat
  BY <1>2, <1>5, FS_CardinalityType
<1> QED
  BY <1>3, <1>5, <1>6, QuotaAssumption DEF QuotaIsKept

\* Every step keeps the quota, if the rollback of a store can remove its file.
LEMMA QuotaStep ==
  ASSUME ~CleanupMayFail, VaultAgrees, QuotaIsKept, [Next]_vars
  PROVE  QuotaIsKept'
<1>0. TypeOK
  BY DEF VaultAgrees
<1>1. ASSUME UNCHANGED manifest, files' \subseteq files, proc.at = "down" => proc'.at = "down"
      PROVE  QuotaIsKept'
  <2>1. Held' = Held
    BY <1>1 DEF Held
  <2>2. proc'.at # "down" => files' \subseteq Held'
    BY <1>1, <2>1 DEF QuotaIsKept
  <2> QED
    BY <1>1, <2>1, <2>2, QuotaShrinks
<1>2. ASSUME NEW r \in Raws, StoreRaw(r) PROVE QuotaIsKept'
  <2>1. /\ MayStore(r) /\ files' = files \cup {r} /\ proc' = proc
        /\ manifest' = [manifest EXCEPT ![r] = [state |-> "ready", deletion |-> "active",
                                               pending |-> "none"]]
    BY <1>2 DEF StoreRaw
  <2>2. Held' = Held \cup {r}
    BY <1>0, <2>1 DEF Held, TypeOK
  <2>3. files \subseteq Held
    BY <2>1 DEF QuotaIsKept, MayStore
  <2> QED
    BY <2>1, <2>2, <2>3, QuotaHasRoom
<1>3. ASSUME NEW r \in Raws, StoreRawFails(r) PROVE QuotaIsKept'
  BY <1>1, <1>3 DEF StoreRawFails, MayStore
<1>4. ASSUME NEW r \in Raws, StoreRawCrashes(r) PROVE QuotaIsKept'
  <2>1. MayStore(r) /\ files' = files \cup {r} /\ proc'.at = "down" /\ Held' = Held
    BY <1>4 DEF StoreRawCrashes, Held
  <2>2. files \subseteq Held
    BY <2>1 DEF QuotaIsKept, MayStore
  <2> QED
    BY <2>1, <2>2, QuotaHasRoom
<1>5. ASSUME NEW r \in Raws, FinalizeRaw(r) PROVE QuotaIsKept'
  <2>1. proc'.at = proc.at /\ proc.at # "down"
    BY <1>0, <1>5 DEF FinalizeRaw, InLoop, TypeOK, Process
  <2>2. CASE manifest[r].state = "deleted"
    BY <1>1, <1>5, <2>1, <2>2 DEF FinalizeRaw
  <2>3. CASE manifest[r].state = "delete_pending"
    <3>1. /\ files' = files \ {r} /\ manifest'[r].state = "deleted"
          /\ \A q \in Raws \ {r} : manifest'[q] = manifest[q]
      BY <1>0, <1>5, <2>3 DEF FinalizeRaw, TypeOK
    <3>2. Held' = Held \ {r}
      BY <3>1 DEF Held
    <3>3. files \subseteq Held
      BY <2>1 DEF QuotaIsKept
    <3> QED
      BY <3>1, <3>2, <3>3, QuotaShrinks
  <2> QED
    BY <1>5, <2>2, <2>3 DEF FinalizeRaw
<1>6. ASSUME NEW r \in Raws, FinalizeRawFails(r) PROVE QuotaIsKept'
  <2>1. proc'.at = proc.at
    BY <1>0, <1>6 DEF FinalizeRawFails, TypeOK, Process
  <2> QED
    BY <1>1, <1>6, <2>1 DEF FinalizeRawFails
<1>7. ASSUME NEW r \in Raws, LoseFile(r) PROVE QuotaIsKept'
  BY <1>1, <1>7 DEF LoseFile
<1>8. ASSUME NEW S \in SUBSET Raws, NEW outcome, files' = files, proc.at = "idle",
             \A r \in S : IsReady(manifest[r]),
             manifest' = [r \in Raws |-> IF r \in S THEN Staged(outcome) ELSE manifest[r]]
      PROVE  QuotaIsKept'
  <2>1. Held' = Held
    BY <1>8 DEF Held, Staged, IsReady
  <2> QED
    BY <1>8, <2>1, QuotaShrinks DEF QuotaIsKept
<1>9. ASSUME NEW S \in SUBSET Expiring, PurgeExpired(S) PROVE QuotaIsKept'
  <2>1. /\ S \in SUBSET Raws /\ files' = files /\ proc.at = "idle"
        /\ \A r \in S : IsReady(manifest[r])
        /\ manifest' = [r \in Raws |-> IF r \in S THEN Staged("expired") ELSE manifest[r]]
    BY <1>9 DEF PurgeExpired
  <2> QED
    BY <1>8, <2>1
<1>10. ASSUME NEW s \in Sources, NEW R \in SUBSET Replicas, DeleteSource(s, R)
       PROVE  QuotaIsKept'
  <2>1. /\ Impact(s) \in SUBSET Raws /\ files' = files /\ proc.at = "idle"
        /\ \A r \in Impact(s) : IsReady(manifest[r])
        /\ manifest' = [r \in Raws |-> IF r \in Impact(s) THEN Staged("deleted")
                                       ELSE manifest[r]]
    BY <1>10 DEF DeleteSource, Impact
  <2> QED
    BY <1>8, <2>1
<1>11. ASSUME Open PROVE QuotaIsKept'
  <2>1. /\ files' = files \cap Referenced
        /\ \A r \in Raws : manifest'[r] = IF IsReady(manifest[r]) /\ r \notin files
                                         THEN [manifest[r] EXCEPT !.state = "missing"]
                                         ELSE manifest[r]
    BY <1>11 DEF Open
  <2>2. \A r \in Raws : IsReady(manifest[r]) /\ r \notin files
                          => manifest'[r].state = "missing"
    BY <1>0, <2>1 DEF TypeOK, Manifest
  <2>3. Held' \subseteq Held
    BY <2>1, <2>2 DEF Held
  <2>4. files' \subseteq Held'
    BY <2>1 DEF Held, Referenced, IsReady, IsStaged
  <2> QED
    BY <2>1, <2>3, <2>4, QuotaShrinks
<1>12. ASSUME OpenFails PROVE QuotaIsKept'
  BY <1>1, <1>12 DEF OpenFails
<1>13. ASSUME NEW s \in Sources,
              \/ \E p \in Replicas : Acknowledge(s, p)
              \/ RetryDeletion(s) \/ ReconcileDeletion(s)
       PROVE  QuotaIsKept'
  BY <1>1, <1>13 DEF Acknowledge, RetryDeletion, ReconcileDeletion
<1>14. ASSUME NEW s \in Sources, RecoverJob(s) PROVE QuotaIsKept'
  <2>1. proc.at # "down" /\ UNCHANGED <<manifest, files>>
    BY <1>14 DEF RecoverJob
  <2> QED
    BY <1>1, <2>1
<1>15. ASSUME \/ EndOfPurge \/ ReconcileDeletionFails \/ Crash \/ EndOfRecoveryLoop
              \/ EndOfRecovery \/ UNCHANGED vars
       PROVE  QuotaIsKept'
  BY <1>1, <1>15 DEF EndOfPurge, ReconcileDeletionFails, Crash, EndOfRecoveryLoop,
                     EndOfRecovery, vars
<1> QED
  BY <1>2, <1>3, <1>4, <1>5, <1>6, <1>7, <1>9, <1>10, <1>11, <1>12, <1>13, <1>14,
     <1>15 DEF Next

\* The ciphertext on disk, orphans of crashed stores included, stays within the
\* quota, as long as a store that fails can remove the file it wrote.
THEOREM QuotaHolds ==
  ASSUME ~CleanupMayFail
  PROVE  Spec => []DiskWithinQuota
<1>1. Init => QuotaIsKept
  <2> SUFFICES ASSUME Init PROVE QuotaIsKept
    OBVIOUS
  <2>1. files \cup Held = {}
    BY DEF Init, Held, NoManifest
  <2> QED
    BY <2>1, FS_EmptySet, QuotaAssumption DEF QuotaIsKept, Init
<1>2. VaultAgrees /\ QuotaIsKept /\ [Next]_vars => QuotaIsKept'
  BY QuotaStep
<1>3. QuotaIsKept => DiskWithinQuota
  <2> SUFFICES ASSUME QuotaIsKept PROVE DiskWithinQuota
    OBVIOUS
  <2>1. files \in SUBSET (files \cup Held)
    OBVIOUS
  <2>2. IsFiniteSet(files) /\ Cardinality(files) <= Cardinality(files \cup Held)
    BY <2>1, FS_Subset DEF QuotaIsKept
  <2>3. Cardinality(files) \in Nat /\ Cardinality(files \cup Held) \in Nat
    BY <2>2, FS_CardinalityType DEF QuotaIsKept
  <2> QED
    BY <2>2, <2>3, QuotaAssumption DEF QuotaIsKept, DiskWithinQuota
<1> QED
  BY <1>1, <1>2, <1>3, VaultConsistency, PTL DEF Spec

=============================================================================
