---------------------------- MODULE DurableQueue ----------------------------
(***************************************************************************)
(* The durable job queue of the reference Event Core: enqueue, lease,      *)
(* complete and fail under leases that expire and attempts that run out,   *)
(* the replay of a lease call whose answer was lost, and the coupling of a *)
(* "delete" job to the proof of its deletion, which completes or requeues  *)
(* the job whoever holds it.                                               *)
(*                                                                         *)
(* Every command is one SQLite transaction.  Instants are kept as the time *)
(* that is left until them, so that time can go on for ever.               *)
(***************************************************************************)
EXTENDS Integers, FiniteSets

CONSTANTS
  NumJobs,       \* bound: jobs that are ever enqueued
  Workers,       \* worker ids
  Priorities,    \* priorities of ordinary jobs; a delete job has TopPriority
  TopPriority,
  MaxAttempts,   \* max_attempts
  LeaseTime,     \* lease_seconds
  BaseBackoff,   \* base_backoff_seconds
  MaxBackoff,    \* max_backoff_seconds
  MaxRequeues    \* bound: times a deletion proof falls short of a delete job

ASSUME NumJobsAssumption == NumJobs \in Nat
ASSUME PriorityAssumption == Priorities \subseteq Nat /\ TopPriority \in Nat
ASSUME LimitsAssumption ==
  MaxAttempts \in Nat \ {0} /\ LeaseTime \in Nat \ {0} /\ MaxRequeues \in Nat
ASSUME BackoffAssumption ==
  BaseBackoff \in Nat \ {0} /\ MaxBackoff \in Nat /\ BaseBackoff <= MaxBackoff

Jobs == 1..NumJobs

VARIABLES
  job,       \* durable_jobs, in the order of their ids
  hold,      \* the job a worker takes itself to hold, or NoJob
  answer,    \* the recorded answer to a worker's last lease call, or NoJob
  requeues   \* times a deletion proof fell short

vars == <<job, hold, answer, requeues>>

NoJob == 0
NoWorker == "no worker"

Job == [state : {"none", "queued", "leased", "completed", "failed"},
        kind : {"ordinary", "delete"},
        priority : Nat,
        owner : Workers \cup {NoWorker},
        lease : 0..LeaseTime,            \* time left of the lease
        wait : 0..MaxBackoff,            \* time left until the job is available
        attempts : Nat,
        proved : BOOLEAN]                \* state of the deletion job is "completed"

Absent == [state |-> "none", kind |-> "ordinary", priority |-> 0, owner |-> NoWorker,
           lease |-> 0, wait |-> 0, attempts |-> 0, proved |-> FALSE]

Init ==
  /\ job = [j \in Jobs |-> Absent]
  /\ hold = [w \in Workers |-> NoJob]
  /\ answer = [w \in Workers |-> NoJob]
  /\ requeues = 0

-----------------------------------------------------------------------------
(* Enqueue.                                                                *)

Enqueued(kind, priority, wait) ==
  [Absent EXCEPT !.state = "queued", !.kind = kind, !.priority = priority, !.wait = wait]

\* Job ids are allocated in ascending order.
IsNextId(j) == job[j].state = "none" /\ \A i \in 1..(j - 1) : job[i].state # "none"

Enqueue(j, priority, wait) ==
  /\ IsNextId(j)
  /\ job' = [job EXCEPT ![j] = Enqueued("ordinary", priority, wait)]
  /\ UNCHANGED <<hold, answer, requeues>>

\* delete_source enqueues the job of a deletion, and completes it at once when
\* nothing is left to prove.
EnqueueDelete(j, provedAlready) ==
  /\ IsNextId(j)
  /\ job' = [job EXCEPT ![j] =
               [Enqueued("delete", TopPriority, 0) EXCEPT
                  !.state = IF provedAlready THEN "completed" ELSE "queued",
                  !.proved = provedAlready]]
  /\ UNCHANGED <<hold, answer, requeues>>

-----------------------------------------------------------------------------
(* Lease.                                                                  *)

LeaseExpired(r) == r.lease = 0

\* Mutants of Released: the update is not limited to leased jobs, expired leases
\* are left alone.
ReleasedUnleased(r) ==
  IF r.state # "none" /\ LeaseExpired(r)
  THEN [r EXCEPT !.state = IF r.attempts >= MaxAttempts THEN "failed" ELSE "queued",
                 !.owner = NoWorker]
  ELSE r

ReleasedNever(r) == r

\* _release_expired_leases_tx: a lease that ran out ends the job when it was the
\* last attempt, and returns it to the queue otherwise.
Released(r) ==
  IF r.state = "leased" /\ LeaseExpired(r)
  THEN [r EXCEPT !.state = IF r.attempts >= MaxAttempts THEN "failed" ELSE "queued",
                 !.owner = NoWorker]
  ELSE r

Leased(r, w) == [r EXCEPT !.state = "leased", !.owner = w, !.lease = LeaseTime,
                          !.attempts = @ + 1]

IsAvailable(r, kinds) == r.state = "queued" /\ r.wait = 0 /\ r.kind \in kinds

\* ORDER BY priority DESC, created_at, job_id.
IsBefore(q, i, j) == \/ q[i].priority > q[j].priority
                     \/ q[i].priority = q[j].priority /\ i <= j

\* lease_next_job, for the kinds the worker asks for.  The answer may be lost on
\* its way to the worker; it is recorded under the key of the call.
LeaseNext(w, kinds) ==
  LET released == [j \in Jobs |-> Released(job[j])]
      available == {j \in Jobs : IsAvailable(released[j], kinds)}
      first == {j \in available : \A i \in available : IsBefore(released, j, i)}
  IN  /\ hold[w] = NoJob
      /\ available # {} \/ released # job
      /\ \/ /\ available = {}
            /\ job' = released
            /\ answer' = [answer EXCEPT ![w] = NoJob]
            /\ UNCHANGED hold
         \/ \E j \in first :
              /\ job' = [released EXCEPT ![j] = Leased(@, w)]
              /\ answer' = [answer EXCEPT ![w] = j]
              /\ hold' \in {hold, [hold EXCEPT ![w] = j]}
      /\ UNCHANGED requeues

\* The worker repeats its last lease call under the same key and is given the
\* recorded answer, whatever has become of the job since.
ReplayLease(w) ==
  /\ hold[w] = NoJob /\ answer[w] # NoJob
  /\ hold' = [hold EXCEPT ![w] = answer[w]]
  /\ UNCHANGED <<job, answer, requeues>>

\* The worker loses track of what it was doing, the key of its call included.
Forget(w) ==
  /\ hold[w] # NoJob \/ answer[w] # NoJob
  /\ hold' = [hold EXCEPT ![w] = NoJob]
  /\ answer' = [answer EXCEPT ![w] = NoJob]
  /\ UNCHANGED <<job, requeues>>

-----------------------------------------------------------------------------
(* Completion and failure, by the worker that holds the lease.             *)

\* Mutant of HoldsLease: any worker may end a job that is leased.
HoldsAnyLease(w, j) == job[j].state = "leased" /\ ~LeaseExpired(job[j])

HoldsLease(w, j) ==
  job[j].state = "leased" /\ job[j].owner = w /\ ~LeaseExpired(job[j])

\* The worker is done with the job whether its call was taken or refused.
LetGo(w) == hold' = [hold EXCEPT ![w] = NoJob] /\ answer' = [answer EXCEPT ![w] = NoJob]

Settled(r, state, wait) ==
  [r EXCEPT !.state = state, !.owner = NoWorker, !.lease = 0, !.wait = wait]

\* Mutant of Complete: a delete job completes like any other.
CompleteUnproved(w, j) ==
  /\ hold[w] = j
  /\ HoldsLease(w, j)
  /\ job' = [job EXCEPT ![j] = Settled(@, "completed", @.wait)]
  /\ LetGo(w)
  /\ UNCHANGED requeues

\* complete_job; a delete job completes only once its deletion is proved.
Complete(w, j) ==
  /\ hold[w] = j
  /\ HoldsLease(w, j)
  /\ job[j].kind = "delete" => job[j].proved
  /\ job' = [job EXCEPT ![j] = Settled(@, "completed", @.wait)]
  /\ LetGo(w)
  /\ UNCHANGED requeues

Smaller(m, n) == IF m < n THEN m ELSE n

Backoff(attempts) == Smaller(MaxBackoff, BaseBackoff * 2^(attempts - 1))

\* Mutant of Failed: off by one in the number of attempts.
FailedLate(r) == IF r.attempts > MaxAttempts THEN Settled(r, "failed", 0)
                 ELSE Settled(r, "queued", Backoff(r.attempts))

Failed(r) == IF r.attempts >= MaxAttempts THEN Settled(r, "failed", 0)
             ELSE Settled(r, "queued", Backoff(r.attempts))

\* fail_job: back to the queue after a delay, or to the end of its attempts.
Fail(w, j) ==
  /\ hold[w] = j
  /\ HoldsLease(w, j)
  /\ job' = [job EXCEPT ![j] = Failed(@)]
  /\ LetGo(w)
  /\ UNCHANGED requeues

\* Either call is refused: the worker's lease has expired or is another's now, or
\* the job is a deletion that is not proved.
Refused(w, j) ==
  /\ hold[w] = j
  /\ ~HoldsLease(w, j) \/ (job[j].kind = "delete" /\ ~job[j].proved)
  /\ LetGo(w)
  /\ UNCHANGED <<job, requeues>>

-----------------------------------------------------------------------------
(* _update_deletion_job_tx: an acknowledgement, a retry or a recovery has  *)
(* recomputed the proof of a deletion.                                     *)

IsDeleteJob(j) == job[j].state # "none" /\ job[j].kind = "delete"

\* The proof falls short: the job is queued anew, leased or failed as it may be.
Requeue(j) ==
  /\ IsDeleteJob(j) /\ ~job[j].proved
  /\ requeues < MaxRequeues
  /\ requeues' = requeues + 1
  /\ job' = [job EXCEPT ![j] = IF @.state = "completed" THEN @
                               ELSE Settled(@, "queued", 0)]
  /\ UNCHANGED <<hold, answer>>

\* The proof is complete, and with it the job.
Prove(j) ==
  /\ IsDeleteJob(j)
  /\ job' = [job EXCEPT ![j] = [Settled(@, "completed", @.wait) EXCEPT !.proved = TRUE]]
  /\ UNCHANGED <<hold, answer, requeues>>

-----------------------------------------------------------------------------
\* Time passes for every lease and every delay.
Less(n) == IF n = 0 THEN 0 ELSE n - 1

Tick ==
  /\ job' = [j \in Jobs |-> [job[j] EXCEPT !.lease = Less(@), !.wait = Less(@)]]
  /\ job' # job
  /\ UNCHANGED <<hold, answer, requeues>>

Next ==
  \/ \E j \in Jobs : \/ \E priority \in Priorities, wait \in 0..BaseBackoff :
                          Enqueue(j, priority, wait)
                     \/ \E provedAlready \in BOOLEAN : EnqueueDelete(j, provedAlready)
                     \/ Requeue(j) \/ Prove(j)
  \/ \E w \in Workers : \/ \E kinds \in (SUBSET {"ordinary", "delete"}) \ {{}} :
                             LeaseNext(w, kinds)
                        \/ ReplayLease(w) \/ Forget(w)
                        \/ \E j \in Jobs : Complete(w, j) \/ Fail(w, j) \/ Refused(w, j)
  \/ Tick

Spec == Init /\ [][Next]_vars

\* Time passes, and some worker that is free goes on asking for jobs of any kind;
\* a worker ends what it holds, if only by losing track of it.  Nothing is
\* assumed of how a job ends.
Fairness ==
  /\ WF_vars(Tick)
  /\ \A w \in Workers :
       /\ SF_vars(LeaseNext(w, {"ordinary", "delete"}))
       /\ WF_vars(Forget(w))

FairSpec == Spec /\ Fairness

-----------------------------------------------------------------------------
(* Properties.                                                             *)

\* Every variable has its type, and an ordinary job that is to be retried has an
\* attempt left, so that no attempt beyond the last is ever leased.
TypeOK ==
  /\ job \in [Jobs -> Job]
  /\ hold \in [Workers -> Jobs \cup {NoJob}]
  /\ answer \in [Workers -> Jobs \cup {NoJob}]
  /\ requeues \in 0..MaxRequeues
  /\ \A j \in Jobs : job[j].kind = "ordinary" /\ job[j].state = "queued"
                       => job[j].attempts < MaxAttempts

\* The queue never reports a deletion as done before it is proved, and never
\* keeps one queued that is.
DeleteJobFollowsProof ==
  \A j \in Jobs : job[j].kind = "delete" => (job[j].state = "completed" <=> job[j].proved)

\* A lease that has not expired is ended by its owner alone: no other worker, no
\* replayed call and no clean-up takes an ordinary job away or ends it.
LeaseIsKept ==
  [][\A j \in Jobs :
       (job[j].kind = "ordinary" /\ job[j].state = "leased" /\ ~LeaseExpired(job[j]))
         => \/ job'[j].state = "leased" /\ job'[j].owner = job[j].owner
            \/ hold[job[j].owner] = j /\ hold'[job[j].owner] = NoJob]_vars

\* What is settled stays settled: a late or repeated call moves no job out of
\* "completed", and no ordinary job out of "failed".
SettledStays ==
  [][\A j \in Jobs :
       \/ job[j].state = "completed"
       \/ job[j].state = "failed" /\ job[j].kind = "ordinary"
       => job'[j].state = job[j].state]_vars

\* Every ordinary job is settled in the end, though workers forget their jobs,
\* lose answers and let leases run out, and deletions come first.
EveryJobSettles ==
  \A j \in Jobs : (job[j].state = "queued" /\ job[j].kind = "ordinary")
                    ~> job[j].state \in {"completed", "failed"}

=============================================================================
