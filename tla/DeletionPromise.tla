-------------------------- MODULE DeletionPromise --------------------------
(***************************************************************************)
(* What the Event Core promises about the raw objects of a source, without *)
(* files, transactions, faults or a process: an object is readable until   *)
(* its expiry or the deletion of its source dooms it, a doomed object is   *)
(* erased some time later, and the deletion of a source is proved only     *)
(* once all it owes is erased and every declared replica has acknowledged. *)
(***************************************************************************)
CONSTANTS Sources, Raws, Replicas, SourceOf

VARIABLES
  phase,    \* of a raw object: absent, readable, lost, doomed, erased
  owed,     \* the objects the deletion of a source has to erase
  waiting,  \* the replicas whose acknowledgement the proof needs
  promise   \* of a source: kept, erasing, proved

pvars == <<phase, owed, waiting, promise>>

PromiseInit ==
  /\ phase = [r \in Raws |-> "absent"]
  /\ owed = [s \in Sources |-> {}]
  /\ waiting = [s \in Sources |-> {}]
  /\ promise = [s \in Sources |-> "kept"]

ReadableOf(s) == {r \in Raws : SourceOf[r] = s /\ phase[r] = "readable"}

\* Only a source that is kept takes new objects.
Add(r) ==
  /\ phase[r] = "absent" /\ promise[SourceOf[r]] = "kept"
  /\ phase' = [phase EXCEPT ![r] = "readable"]
  /\ UNCHANGED <<owed, waiting, promise>>

\* Readable objects expire.
Expire(S) ==
  /\ \A r \in S : phase[r] = "readable"
  /\ phase' = [r \in Raws |-> IF r \in S THEN "doomed" ELSE phase[r]]
  /\ UNCHANGED <<owed, waiting, promise>>

\* The ciphertext of readable objects is found missing.
Lose(S) ==
  /\ \A r \in S : phase[r] = "readable"
  /\ phase' = [r \in Raws |-> IF r \in S THEN "lost" ELSE phase[r]]
  /\ UNCHANGED <<owed, waiting, promise>>

\* Deletion dooms what is readable of the source, and owes exactly that.
Delete(s, replicas) ==
  /\ promise[s] = "kept"
  /\ owed' = [owed EXCEPT ![s] = ReadableOf(s)]
  /\ waiting' = [waiting EXCEPT ![s] = replicas]
  /\ phase' = [r \in Raws |-> IF r \in ReadableOf(s) THEN "doomed" ELSE phase[r]]
  /\ promise' = [promise EXCEPT ![s] = IF ReadableOf(s) = {} /\ replicas = {}
                                       THEN "proved" ELSE "erasing"]

Erase(r) ==
  /\ phase[r] = "doomed"
  /\ phase' = [phase EXCEPT ![r] = "erased"]
  /\ UNCHANGED <<owed, waiting, promise>>

\* The proof, when nothing is owed any more.
Prove(s) ==
  /\ promise[s] = "erasing" /\ waiting[s] = {}
  /\ \A r \in owed[s] : phase[r] = "erased"
  /\ promise' = [promise EXCEPT ![s] = "proved"]
  /\ UNCHANGED <<phase, owed, waiting>>

\* A replica acknowledges; the last acknowledgement may bring the proof.
Acked(s, p) ==
  /\ p \in waiting[s]
  /\ waiting' = [waiting EXCEPT ![s] = @ \ {p}]
  /\ \/ UNCHANGED promise
     \/ /\ waiting'[s] = {} /\ \A r \in owed[s] : phase[r] = "erased"
        /\ promise' = [promise EXCEPT ![s] = "proved"]
  /\ UNCHANGED <<phase, owed>>

PromiseNext ==
  \/ \E r \in Raws : Add(r) \/ Erase(r)
  \/ \E S \in SUBSET Raws : Expire(S) \/ Lose(S)
  \/ \E s \in Sources : \/ \E replicas \in SUBSET Replicas : Delete(s, replicas)
                        \/ Prove(s)
                        \/ \E p \in Replicas : Acked(s, p)

PromiseSpec == PromiseInit /\ [][PromiseNext]_pvars

=============================================================================
