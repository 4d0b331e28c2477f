---------------------------- MODULE RawDeletion ----------------------------
(***************************************************************************)
(* The encrypted Raw Vault of the reference Event Core and the two-phase   *)
(* deletion that keeps its ciphertext files and its SQLite manifest rows   *)
(* in step: store, purge of expired objects, deletion of a source with its *)
(* deletion job, retry, replica acknowledgement, and the recovery that     *)
(* runs when the process is opened again after a crash.                    *)
(*                                                                         *)
(* One process owns the database; commands run one after the other.  A     *)
(* SQLite transaction is one step, an unlink with the transaction that     *)
(* records it is one step with three outcomes, and the process may crash   *)
(* between any two steps.  A step that raises an exception after a         *)
(* rollback changes nothing and is left out.                               *)
(***************************************************************************)
EXTENDS Naturals, FiniteSets

CONSTANTS
  Sources,         \* source objects
  Raws,            \* raw object ids the sequence can allocate
  Replicas,        \* replica ids a deletion may declare
  SourceOf,        \* the source a raw object is derived from
  Expiring,        \* raw objects stored with an expiring retention class
  Quota,           \* raw_quota_bytes, in objects of unit size
  CleanupMayFail,  \* may the rollback unlink of a failed store raise OSError?
  FilesMayVanish   \* may a ciphertext file be lost behind the program's back?

ASSUME SourceOfAssumption == SourceOf \in [Raws -> Sources]
ASSUME ExpiringAssumption == Expiring \subseteq Raws
ASSUME QuotaAssumption == Quota \in Nat
ASSUME FlagAssumption == CleanupMayFail \in BOOLEAN /\ FilesMayVanish \in BOOLEAN

VARIABLES
  source,    \* source_objects.processing_state
  manifest,  \* raw_manifests: state, deletion_state, pending_deletion_state
  files,     \* raw objects with ciphertext in the vault directory
  job,       \* deletion_jobs, at most one per source, with affected_json
  proc       \* the process: what it is doing and what is left of it

vars == <<source, manifest, files, job, proc>>

-----------------------------------------------------------------------------
(* Rows and their states.                                                  *)

Manifest == [state : {"none", "ready", "delete_pending", "deleted", "missing"},
             deletion : {"none", "active", "pending", "deleted", "expired"},
             pending : {"none", "deleted", "expired"}]

NoManifest == [state |-> "none", deletion |-> "none", pending |-> "none"]

DeletionJob == [state : {"none", "partial_failed", "completed"},
                raws : SUBSET Raws,              \* raw_object_ids
                pendingRaws : SUBSET Raws,       \* pending_raw_object_ids
                failedRaws : SUBSET Raws,        \* failed_raw_object_ids
                localComplete : BOOLEAN,         \* local_cleanup_complete
                pendingReplicas : SUBSET Replicas,
                ackedReplicas : SUBSET Replicas]

NoJob == [state |-> "none", raws |-> {}, pendingRaws |-> {}, failedRaws |-> {},
          localComplete |-> FALSE, pendingReplicas |-> {}, ackedReplicas |-> {}]

\* What the process is doing.  "todo" and "failed" are the raw objects its
\* finalization loop has left and has failed on, "jobs" the deletion jobs it
\* reconciles after the loop.
Process == [at : {"down", "recovering", "reconciling", "idle", "purging", "deleting"},
            todo : SUBSET Raws, failed : SUBSET Raws, jobs : SUBSET Sources]

At(place, todo, jobs) == [at |-> place, todo |-> todo, failed |-> {}, jobs |-> jobs]
Down == At("down", {}, {})
Idle == At("idle", {}, {})

IsReady(m) == m.state = "ready" /\ m.deletion = "active"
IsStaged(m) == m.state = "delete_pending" /\ m.deletion = "pending"
Readable(r) == IsReady(manifest[r])

\* Mutant of Held: an object stops counting when it is staged.
HeldWhileReady == {r \in Raws : Readable(r)}

\* raw_vault_usage: rows that still count against the quota.
Held == {r \in Raws : /\ manifest[r].state \in {"ready", "delete_pending"}
                      /\ manifest[r].deletion \in {"active", "pending"}}

\* Mutant of Clean: the proof asks the disk alone.
CleanByFile(r) == r \notin files

\* _raw_cleanup_complete for one object.
Clean(r) == manifest[r].state = "deleted" /\ r \notin files

JobState(localComplete, pendingReplicas) ==
  IF localComplete /\ pendingReplicas = {} THEN "completed" ELSE "partial_failed"

\* _reconcile_deletion_job: recompute what is pending from rows and files.
Reconciled(j, failed) ==
  LET dirty == {r \in j.raws : ~Clean(r)}
  IN  [state |-> JobState(dirty = {}, j.pendingReplicas),
       raws |-> j.raws, pendingRaws |-> dirty,
       failedRaws |-> (j.failedRaws \cup failed) \cap dirty,
       localComplete |-> (dirty = {}),
       pendingReplicas |-> j.pendingReplicas, ackedReplicas |-> j.ackedReplicas]

\* Mutant of Acknowledged: the last replica completes the job.
AcknowledgedAnyway(j, p) ==
  [j EXCEPT !.pendingReplicas = @ \ {p},
            !.ackedReplicas = @ \cup {p},
            !.state = JobState(TRUE, j.pendingReplicas \ {p})]

\* acknowledge_deletion: the state is recomputed from the recorded outcome of
\* the local cleanup, which is not looked at again.
Acknowledged(j, p) ==
  [j EXCEPT !.pendingReplicas = @ \ {p},
            !.ackedReplicas = @ \cup {p},
            !.state = JobState(j.localComplete, j.pendingReplicas \ {p})]

\* The job delete_source opens for the objects it staged.
OpenJob(raws, replicas) ==
  [state |-> JobState(raws = {}, replicas),
   raws |-> raws, pendingRaws |-> raws, failedRaws |-> {}, localComplete |-> (raws = {}),
   pendingReplicas |-> replicas, ackedReplicas |-> {}]

\* _stage_raw_deletion_tx on a row that is eligible for it.
Staged(outcome) == [state |-> "delete_pending", deletion |-> "pending",
                    pending |-> outcome]

-----------------------------------------------------------------------------
Init ==
  /\ source = [s \in Sources |-> "active"]
  /\ manifest = [r \in Raws |-> NoManifest]
  /\ files = {}
  /\ job = [s \in Sources |-> NoJob]
  /\ proc = Idle

-----------------------------------------------------------------------------
(* Storing a raw object: write, fsync, replace, then insert the manifest.  *)

\* Mutant of MayStore: the source is not looked at.
MayStoreForAnySource(r) ==
  /\ proc = Idle
  /\ manifest[r].state = "none"
  /\ Cardinality(Held) + 1 <= Quota

MayStore(r) ==
  /\ proc = Idle
  /\ manifest[r].state = "none"
  /\ source[SourceOf[r]] # "deleted"
  /\ Cardinality(Held) + 1 <= Quota

StoreRaw(r) ==
  /\ MayStore(r)
  /\ files' = files \cup {r}
  /\ manifest' = [manifest EXCEPT ![r] =
                    [state |-> "ready", deletion |-> "active", pending |-> "none"]]
  /\ UNCHANGED <<source, job, proc>>

\* The write or the insert raises: the transaction, the allocated id included,
\* is rolled back and the file is unlinked, unless that unlink fails as well.
StoreRawFails(r) ==
  /\ MayStore(r)
  /\ \/ files' = files \ {r}
     \/ CleanupMayFail /\ files' = files \cup {r}
  /\ UNCHANGED <<source, manifest, job, proc>>

\* The process dies between the write of the file and the commit.
StoreRawCrashes(r) ==
  /\ MayStore(r)
  /\ files' = files \cup {r}
  /\ proc' = Down
  /\ UNCHANGED <<source, manifest, job>>

-----------------------------------------------------------------------------
(* Staging: one transaction, before any file is touched.                   *)

\* Mutant of PurgeExpired: rows whose deletion is pending are staged again.
PurgeExpiredOrPending(S) ==
  /\ proc = Idle
  /\ S # {}
  /\ S \subseteq {r \in Expiring : IsReady(manifest[r]) \/ IsStaged(manifest[r])}
  /\ proc' = At("purging", S, {})
  /\ manifest' = [r \in Raws |-> IF r \in S THEN Staged("expired") ELSE manifest[r]]
  /\ UNCHANGED <<source, files, job>>

\* purge_expired_raw: the expired objects are staged, and joined by those an
\* earlier purge left pending.  Which objects have expired at the caller's
\* instant is an arbitrary set of expiring ones.  (A replay under the same key
\* finalizes again what is still pending of its objects; a later purge does so
\* for all of them.)
PurgeExpired(S) ==
  /\ proc = Idle
  /\ S \subseteq {r \in Expiring : IsReady(manifest[r])}
  /\ LET todo == S \cup {r \in Raws : IsStaged(manifest[r])
                                      /\ manifest[r].pending = "expired"}
     IN  /\ todo # {}
         /\ proc' = At("purging", todo, {})
  /\ manifest' = [r \in Raws |-> IF r \in S THEN Staged("expired") ELSE manifest[r]]
  /\ UNCHANGED <<source, files, job>>

\* deletion_impact: the raw objects a deletion of s has to remove.
Impact(s) == {r \in Raws : SourceOf[r] = s /\ manifest[r].deletion = "active"}

\* delete_source: tombstone, staging and the deletion job in one transaction.
\* Staging raises on a row that is not ready, and the deletion is refused.
DeleteSource(s, replicas) ==
  /\ proc = Idle
  /\ source[s] # "deleted"
  /\ \A r \in Impact(s) : IsReady(manifest[r])
  /\ source' = [source EXCEPT ![s] = "deleted"]
  /\ manifest' = [r \in Raws |-> IF r \in Impact(s) THEN Staged("deleted")
                                 ELSE manifest[r]]
  /\ job' = [job EXCEPT ![s] = OpenJob(Impact(s), replicas)]
  /\ proc' = IF Impact(s) = {} THEN Idle
             ELSE At("deleting", Impact(s), {s})
  /\ UNCHANGED files

\* Mutant of RetryDeletion: only objects that are known to have failed are retried.
RetryFailedDeletion(s) ==
  /\ proc = Idle
  /\ job[s].failedRaws # {}
  /\ proc' = At("deleting", job[s].raws, {s})
  /\ UNCHANGED <<source, manifest, files, job>>

\* retry_deletion_job, and the replay of delete_source under the same key:
\* unless the job is known to be clean the loop runs again over all its objects.
RetryDeletion(s) ==
  /\ proc = Idle
  /\ job[s].raws # {}
  /\ ~ /\ job[s].localComplete
       /\ job[s].pendingRaws = {}
       /\ job[s].failedRaws = {}
  /\ proc' = At("deleting", job[s].raws, {s})
  /\ UNCHANGED <<source, manifest, files, job>>

\* acknowledge_deletion, by a replica that was declared; it may come twice.
Acknowledge(s, p) ==
  /\ proc = Idle
  /\ p \in job[s].pendingReplicas \cup job[s].ackedReplicas
  /\ job' = [job EXCEPT ![s] = Acknowledged(@, p)]
  /\ UNCHANGED <<source, manifest, files, proc>>

-----------------------------------------------------------------------------
(* Finalization: unlink the file, then commit the final manifest state.    *)

InLoop(r) == proc.at \in {"recovering", "purging", "deleting"} /\ r \in proc.todo

\* Mutant of FinalizeRaw: the pending outcome is left in the row.
FinalizeRawKeepingPending(r) ==
  /\ InLoop(r)
  /\ manifest[r].state = "delete_pending"
  /\ files' = files \ {r}
  /\ manifest' = [manifest EXCEPT ![r].state = "deleted", ![r].deletion = manifest[r].pending]
  /\ proc' = [proc EXCEPT !.todo = @ \ {r}]
  /\ UNCHANGED <<source, job>>

\* _finalize_raw_deletion succeeds; a row that is deleted already is passed over.
FinalizeRaw(r) ==
  /\ InLoop(r)
  /\ manifest[r].state \in {"delete_pending", "deleted"}
  /\ IF manifest[r].state = "deleted"
     THEN UNCHANGED <<files, manifest>>
     ELSE /\ files' = files \ {r}
          /\ manifest' = [manifest EXCEPT ![r] =
                            [state |-> "deleted", deletion |-> @.pending,
                             pending |-> "none"]]
  /\ proc' = [proc EXCEPT !.todo = @ \ {r}]
  /\ UNCHANGED <<source, job>>

\* It raises before or after the unlink: the row stays staged.
FinalizeRawFails(r) ==
  /\ InLoop(r)
  /\ manifest[r].state = "delete_pending"
  /\ \/ UNCHANGED files
     \/ files' = files \ {r}
  /\ proc' = [proc EXCEPT !.todo = @ \ {r},
                          !.failed = IF proc.at = "deleting" THEN @ \cup {r} ELSE @]
  /\ UNCHANGED <<source, manifest, job>>

EndOfPurge ==
  /\ proc.at = "purging" /\ proc.todo = {}
  /\ proc' = Idle
  /\ UNCHANGED <<source, manifest, files, job>>

\* _reconcile_deletion_job at the end of a deletion.
ReconcileDeletion(s) ==
  /\ proc.at = "deleting" /\ proc.todo = {} /\ s \in proc.jobs
  /\ job' = [job EXCEPT ![s] = Reconciled(@, proc.failed)]
  /\ proc' = Idle
  /\ UNCHANGED <<source, manifest, files>>

\* A fault before the reconciliation commits: the job keeps its old proof and
\* the caller is handed that.
ReconcileDeletionFails ==
  /\ proc.at = "deleting" /\ proc.todo = {}
  /\ proc' = Idle
  /\ UNCHANGED <<source, manifest, files, job>>

-----------------------------------------------------------------------------
(* Crash and recovery.                                                     *)

Crash ==
  /\ proc.at # "down"
  /\ proc' = Down
  /\ UNCHANGED <<source, manifest, files, job>>

\* Rows _recover_raw_vault reads: their files are not orphans.
Referenced == {r \in Raws : IsReady(manifest[r]) \/ IsStaged(manifest[r])}

\* The process is opened: orphan files are removed, a ready row without a file
\* becomes "missing", and the rows that are staged are finalized next.
Open ==
  /\ proc.at = "down"
  /\ files' = files \cap Referenced
  /\ manifest' = [r \in Raws |->
                    IF IsReady(manifest[r]) /\ r \notin files
                    THEN [manifest[r] EXCEPT !.state = "missing"]
                    ELSE manifest[r]]
  /\ proc' = At("recovering", {r \in Raws : IsStaged(manifest[r])}, {})
  /\ UNCHANGED <<source, job>>

\* The constructor raises or dies while it removes orphans.
OpenFails ==
  /\ proc.at = "down"
  /\ \E removed \in SUBSET (files \ Referenced) : files' = files \ removed
  /\ UNCHANGED <<source, manifest, job, proc>>

EndOfRecoveryLoop ==
  /\ proc.at = "recovering" /\ proc.todo = {}
  /\ proc' = At("reconciling", {}, {s \in Sources : job[s].state # "none"})
  /\ UNCHANGED <<source, manifest, files, job>>

\* Recovery reconciles every deletion job, without a list of failures, and
\* ignores the ones that raise.
RecoverJob(s) ==
  /\ proc.at = "reconciling" /\ s \in proc.jobs
  /\ \/ job' = [job EXCEPT ![s] = Reconciled(@, {})]
     \/ UNCHANGED job
  /\ proc' = [proc EXCEPT !.jobs = @ \ {s}]
  /\ UNCHANGED <<source, manifest, files>>

EndOfRecovery ==
  /\ proc.at = "reconciling" /\ proc.jobs = {}
  /\ proc' = Idle
  /\ UNCHANGED <<source, manifest, files, job>>

\* The environment: a ciphertext file disappears.
LoseFile(r) ==
  /\ FilesMayVanish
  /\ r \in files
  /\ files' = files \ {r}
  /\ UNCHANGED <<source, manifest, job, proc>>

-----------------------------------------------------------------------------
(* The process at work.                                                    *)

Next ==
  \/ \E r \in Raws : \/ StoreRaw(r) \/ StoreRawFails(r) \/ StoreRawCrashes(r)
                     \/ FinalizeRaw(r) \/ FinalizeRawFails(r)
                     \/ LoseFile(r)
  \/ \E S \in SUBSET Expiring : PurgeExpired(S)
  \/ \E s \in Sources : \/ \E replicas \in SUBSET Replicas : DeleteSource(s, replicas)
                        \/ \E p \in Replicas : Acknowledge(s, p)
                        \/ RetryDeletion(s)
                        \/ ReconcileDeletion(s)
                        \/ RecoverJob(s)
  \/ EndOfPurge \/ ReconcileDeletionFails
  \/ Crash \/ Open \/ OpenFails \/ EndOfRecoveryLoop \/ EndOfRecovery

Spec == Init /\ [][Next]_vars

\* The process is opened again after a crash and a loop it has begun goes on,
\* which is how the program runs.  The rest is assumed of its surroundings: the
\* caller retries a deletion that is not proved (no code of the repository does it
\* for the caller, the durable job of the deletion is only put in a queue), an
\* unlink or a commit that is tried over and over succeeds at last, and the
\* process does not crash for ever.
Fairness ==
  /\ WF_vars(Open)
  /\ WF_vars(EndOfRecoveryLoop) /\ WF_vars(EndOfRecovery) /\ WF_vars(EndOfPurge)
  /\ \A r \in Raws : SF_vars(FinalizeRaw(r))
  /\ \A s \in Sources : /\ SF_vars(RetryDeletion(s))
                        /\ SF_vars(ReconcileDeletion(s))
                        /\ WF_vars(RecoverJob(s))
  /\ <>[][~Crash]_vars

FairSpec == Spec /\ Fairness

-----------------------------------------------------------------------------
(* Properties.                                                             *)

\* Every variable has its type.
TypeOK ==
  /\ source \in [Sources -> {"active", "deleted"}]
  /\ manifest \in [Raws -> Manifest]
  /\ files \in SUBSET Raws
  /\ job \in [Sources -> DeletionJob]
  /\ proc \in Process

\* A deletion job that is reported as completed is backed by the disk and by
\* the replicas: each of its objects has its final manifest state and no
\* ciphertext, and no declared replica is missing, whatever crashed, failed or
\* was retried on the way.
CompletedJobIsClean ==
  \A s \in Sources : job[s].state = "completed" =>
    /\ \A r \in job[s].raws : Clean(r)
    /\ job[s].pendingReplicas = {}

\* No object of a deleted source can be read again: a store that was retried, a
\* recovery or a purge never brings one back.
DeletedSourceUnreadable ==
  \A s \in Sources : source[s] = "deleted" =>
    \A r \in Raws : SourceOf[r] = s => ~Readable(r)

\* A manifest that says "deleted" never has ciphertext beside it, not even
\* between the unlink and the commit of a crashed deletion.
DeletedManifestHasNoFile ==
  \A r \in Raws : manifest[r].state = "deleted" => r \notin files

\* A readable object has its ciphertext, although recovery removes every file
\* it takes for an orphan and a failed store removes the file it wrote.
ReadableHasFile ==
  \A r \in Raws : Readable(r) => r \in files

\* The objects of a deletion job end as "deleted": a purge never takes over an
\* object whose deletion is pending and records it as expired.
OutcomeIsNotStolen ==
  \A s \in Sources : \A r \in job[s].raws :
    \/ manifest[r] = Staged("deleted")
    \/ manifest[r].deletion = "deleted"

\* The ciphertext on disk, with what a crashed store left behind, stays within
\* the quota: an object counts until its file is known to be gone.
DiskWithinQuota == Cardinality(files) <= Quota

\* A completed proof is final: recovery reconciles every job anew, and a late
\* acknowledgement recomputes the state, but neither takes it back.
ProofIsFinal ==
  [][\A s \in Sources : job[s].state = "completed" => job'[s].state = "completed"]_vars

\* The columns of a manifest row agree with each other.
RowAgrees(m) ==
  /\ m.state = "none" => m = NoManifest
  /\ m.state \in {"ready", "missing"} => m.deletion = "active" /\ m.pending = "none"
  /\ m.state = "delete_pending" => m.deletion = "pending" /\ m.pending # "none"
  /\ m.state = "deleted" => m.deletion \in {"deleted", "expired"} /\ m.pending = "none"

\* A deletion job exists exactly for a deleted source, covers objects of that
\* source only, and records a local cleanup only when all of them are clean.
JobAgrees(s) ==
  /\ job[s].state # "none" <=> source[s] = "deleted"
  /\ job[s].state = "none" => job[s] = NoJob
  /\ \A r \in job[s].raws : /\ SourceOf[r] = s
                           /\ \/ manifest[r] = Staged("deleted")
                              \/ /\ manifest[r].state = "deleted"
                                 /\ manifest[r].deletion = "deleted"
  /\ job[s].localComplete => \A r \in job[s].raws : Clean(r)
  /\ job[s].state = "completed" <=> job[s].state # "none" /\ job[s].localComplete
                                    /\ job[s].pendingReplicas = {}

RowsAgree == \A r \in Raws : RowAgrees(manifest[r])
JobsAgree == \A s \in Sources : JobAgrees(s)

\* A deleted source has no row left that is active, readable or missing.
DeletedSourceClosed ==
  \A r \in Raws : source[SourceOf[r]] = "deleted" => manifest[r].deletion # "active"

\* The jobs the process reconciles exist.
WorkIsOnJobs == \A s \in proc.jobs : job[s].state # "none"

\* Rows, files and jobs agree in every state of every step: the inductive form
\* of the invariants above.
VaultAgrees ==
  /\ TypeOK
  /\ RowsAgree
  /\ DeletedManifestHasNoFile
  /\ JobsAgree
  /\ DeletedSourceClosed
  /\ ~FilesMayVanish => ReadableHasFile
  /\ WorkIsOnJobs

\* A deletion that was accepted has its local part done and proved in the end.
DeletionFinishes ==
  \A s \in Sources : (source[s] = "deleted") ~> job[s].localComplete

\* The README of the package: a job is completed only after the ciphertext path
\* of every affected object is absent.  Read for the source the job deletes: no
\* ciphertext of that source is on disk.
CompletedSourceHasNoCiphertext ==
  \A s \in Sources : job[s].state = "completed" =>
    \A r \in files : SourceOf[r] # s

\* The domain contract: every source object that is not deleted can be deleted
\* (any non-deleted -> deleted, through a deletion job).
EverySourceDeletable ==
  \A s \in Sources : (source[s] # "deleted" /\ proc = Idle)
                       => ENABLED DeleteSource(s, {})

=============================================================================
