------------------------- MODULE DurableQueue_proofs -------------------------
(* Proofs about DurableQueue, for every number of jobs, workers and attempts. *)
EXTENDS DurableQueue, FiniteSetTheorems, TLAPS

USE NumJobsAssumption, PriorityAssumption, LimitsAssumption, BackoffAssumption
USE DEF Jobs, NoJob

\* A row as Job has it, without the lower bound of the delay, which rests on
\* what 2^n is.
Row == [state : {"none", "queued", "leased", "completed", "failed"},
        kind : {"ordinary", "delete"},
        priority : Nat,
        owner : Workers \cup {NoWorker},
        lease : 0..LeaseTime,
        wait : Int,
        attempts : Nat,
        proved : BOOLEAN]

Typed ==
  /\ job \in [Jobs -> Row]
  /\ hold \in [Workers -> Jobs \cup {NoJob}]
  /\ answer \in [Workers -> Jobs \cup {NoJob}]
  /\ requeues \in 0..MaxRequeues

\* What the rows of jobs say in every state: a deletion is completed when it is
\* proved, and an ordinary job that waits or is at work is within its attempts.
RowIsSound(r) ==
  /\ r.kind = "delete" => (r.state = "completed" <=> r.proved = TRUE)
  /\ r.kind = "ordinary" /\ r.state = "queued" => r.attempts < MaxAttempts
  /\ r.kind = "ordinary" => r.attempts <= MaxAttempts
  /\ r.state = "leased" => r.attempts > 0

QueueIsSound == Typed /\ \A j \in Jobs : RowIsSound(job[j])

-----------------------------------------------------------------------------
(* What the operations do to one row.                                      *)

\* The two values a lease is set to.
LEMMA LeaseValues == 0 \in 0..LeaseTime /\ LeaseTime \in 0..LeaseTime
  OBVIOUS

\* A row that is enqueued.
LEMMA EnqueuedRow ==
  ASSUME NEW kind \in {"ordinary", "delete"}, NEW p \in Nat, NEW t \in Nat
  PROVE  /\ Enqueued(kind, p, t) \in Row
         /\ Enqueued(kind, p, t).state = "queued"
         /\ Enqueued(kind, p, t).kind = kind
         /\ Enqueued(kind, p, t).attempts = 0
         /\ Enqueued(kind, p, t).proved = FALSE
         /\ RowIsSound(Enqueued(kind, p, t))
<1>1. /\ Absent \in Row /\ Absent.kind = "ordinary" /\ Absent.attempts = 0
      /\ Absent.proved = FALSE
  BY LeaseValues DEF Absent, Row
<1> HIDE DEF Absent
<1>2. /\ Enqueued(kind, p, t).state = "queued"
      /\ Enqueued(kind, p, t).kind = kind
      /\ Enqueued(kind, p, t).attempts = 0
      /\ Enqueued(kind, p, t).proved = FALSE
  BY <1>1 DEF Enqueued, Row
<1>3. Enqueued(kind, p, t) \in Row
  <2>1. t \in Int
    OBVIOUS
  <2>2. [Absent EXCEPT !.state = "queued", !.kind = kind] \in Row
    BY <1>1 DEF Row
  <2>3. \A r \in Row : [r EXCEPT !.priority = p, !.wait = t] \in Row
    BY <2>1 DEF Row
  <2>4. Enqueued(kind, p, t) =
          [[Absent EXCEPT !.state = "queued", !.kind = kind]
             EXCEPT !.priority = p, !.wait = t]
    BY DEF Enqueued
  <2> QED
    BY <2>2, <2>3, <2>4
<1>4. RowIsSound(Enqueued(kind, p, t))
  BY <1>2 DEF RowIsSound
<1> QED
  BY <1>2, <1>3, <1>4

\* The clean-up of expired leases touches expired leases only, keeps a row sound,
\* and never queues a job that has no attempt left.
LEMMA ReleasedRow ==
  ASSUME NEW r \in Row, RowIsSound(r)
  PROVE  /\ Released(r) \in Row /\ RowIsSound(Released(r))
         /\ Released(r).kind = r.kind
         /\ r.state # "leased" \/ ~LeaseExpired(r) => Released(r) = r
<1>1. CASE ~(r.state = "leased" /\ LeaseExpired(r))
  BY <1>1 DEF Released
<1>2. CASE r.state = "leased" /\ LeaseExpired(r)
  <2> DEFINE state == IF r.attempts >= MaxAttempts THEN "failed" ELSE "queued"
             q == [r EXCEPT !.state = state, !.owner = NoWorker]
  <2>1. Released(r) = q
    BY <1>2 DEF Released
  <2>2. /\ q \in Row /\ q.state = state /\ q.kind = r.kind
        /\ q.attempts = r.attempts /\ q.proved = r.proved
    BY DEF Row
  <2>3. RowIsSound(q)
    BY <1>2, <2>2 DEF RowIsSound, Row
  <2> QED
    BY <1>2, <2>1, <2>2, <2>3
<1> QED
  BY <1>1, <1>2

\* A lease takes one of the attempts that are left.
LEMMA LeasedRow ==
  ASSUME NEW r \in Row, RowIsSound(r), r.state = "queued", NEW w \in Workers
  PROVE  Leased(r, w) \in Row /\ RowIsSound(Leased(r, w))
<1>1. r.attempts \in Nat /\ r.attempts + 1 \in Nat
  BY DEF Row
<1>2. Leased(r, w) \in Row
  BY <1>1, LeaseValues DEF Leased, Row
<1>3. /\ Leased(r, w).state = "leased" /\ Leased(r, w).kind = r.kind
      /\ Leased(r, w).proved = r.proved /\ Leased(r, w).attempts = r.attempts + 1
  BY DEF Leased, Row
<1> QED
  BY <1>1, <1>2, <1>3 DEF RowIsSound

\* A settled row differs in its state, its lease and its delay.
LEMMA SettledRow ==
  ASSUME NEW r \in Row, NEW state \in {"queued", "completed", "failed"}, NEW wait \in Int
  PROVE  /\ Settled(r, state, wait) \in Row
         /\ Settled(r, state, wait).state = state
         /\ Settled(r, state, wait).kind = r.kind
         /\ Settled(r, state, wait).attempts = r.attempts
         /\ Settled(r, state, wait).proved = r.proved
  BY LeaseValues DEF Settled, Row

\* A failure queues the job again or ends it.
LEMMA FailedRow ==
  ASSUME NEW r \in Row, RowIsSound(r), r.state = "leased"
  PROVE  Failed(r) \in Row /\ RowIsSound(Failed(r))
<1>0. /\ r.attempts \in Nat /\ r.proved \in BOOLEAN
      /\ r.kind = "delete" => r.proved = FALSE
  BY DEF Row, RowIsSound
<1>1. Backoff(r.attempts) \in Int
  BY <1>0 DEF Backoff, Smaller
<1>2. CASE r.attempts >= MaxAttempts
  <2>1. Failed(r) = Settled(r, "failed", 0)
    BY <1>2 DEF Failed
  <2> DEFINE q == Settled(r, "failed", 0)
  <2>2. /\ q \in Row /\ q.state = "failed" /\ q.kind = r.kind
        /\ q.attempts = r.attempts /\ q.proved = r.proved
    BY SettledRow
  <2> HIDE DEF q
  <2>3. RowIsSound(q)
    BY <1>0, <2>2 DEF RowIsSound
  <2> QED
    BY <2>1, <2>2, <2>3 DEF q
<1>3. CASE ~(r.attempts >= MaxAttempts)
  <2>1. Failed(r) = Settled(r, "queued", Backoff(r.attempts))
    BY <1>3 DEF Failed
  <2> DEFINE q == Settled(r, "queued", Backoff(r.attempts))
  <2>2. /\ q \in Row /\ q.state = "queued" /\ q.kind = r.kind
        /\ q.attempts = r.attempts /\ q.proved = r.proved
    BY <1>1, SettledRow
  <2> HIDE DEF q
  <2>3. RowIsSound(q)
    BY <1>0, <1>3, <2>2 DEF RowIsSound
  <2> QED
    BY <2>1, <2>2, <2>3 DEF q
<1> QED
  BY <1>2, <1>3

\* A completion is proved where a proof is asked for.
LEMMA CompletedRow ==
  ASSUME NEW r \in Row, RowIsSound(r), r.kind = "delete" => r.proved = TRUE
  PROVE  /\ Settled(r, "completed", r.wait) \in Row
         /\ RowIsSound(Settled(r, "completed", r.wait))
<1>1. r.wait \in Int
  BY DEF Row
<1> DEFINE q == Settled(r, "completed", r.wait)
<1>2. /\ q \in Row /\ q.state = "completed" /\ q.kind = r.kind
      /\ q.attempts = r.attempts /\ q.proved = r.proved
  BY <1>1, SettledRow
<1> HIDE DEF q
<1>3. RowIsSound(q)
  BY <1>2 DEF RowIsSound
<1> QED
  BY <1>2, <1>3 DEF q

\* A proof that falls short queues the job of the deletion again.
LEMMA RequeuedRow ==
  ASSUME NEW r \in Row, RowIsSound(r), r.kind = "delete", r.proved = FALSE
  PROVE  /\ r.state # "completed"
         /\ Settled(r, "queued", 0) \in Row /\ RowIsSound(Settled(r, "queued", 0))
  BY SettledRow DEF RowIsSound

\* A proof completes the job of the deletion.
Proved(r) == [Settled(r, "completed", r.wait) EXCEPT !.proved = TRUE]

\* It is a sound row, and completed.
LEMMA ProvedRow ==
  ASSUME NEW r \in Row, r.kind = "delete"
  PROVE  Proved(r) \in Row /\ RowIsSound(Proved(r)) /\ Proved(r).state = "completed"
<1> DEFINE s == Settled(r, "completed", r.wait)
<1>0. r.wait \in Int
  BY DEF Row
<1>1. s \in Row /\ s.state = "completed" /\ s.kind = "delete"
  BY <1>0, SettledRow
<1> HIDE DEF s
<1>2. /\ [s EXCEPT !.proved = TRUE] \in Row
      /\ [s EXCEPT !.proved = TRUE].state = "completed"
      /\ [s EXCEPT !.proved = TRUE].kind = "delete"
      /\ [s EXCEPT !.proved = TRUE].proved = TRUE
  BY <1>1 DEF Row
<1>3. RowIsSound([s EXCEPT !.proved = TRUE])
  BY <1>2 DEF RowIsSound
<1> QED
  BY <1>2, <1>3 DEF s, Proved

\* Time takes no attempt and settles nothing.
Ticked(r) == [r EXCEPT !.lease = Less(@), !.wait = Less(@)]

\* It is as sound as before, in the same state and with the same attempts.
LEMMA TickedRow ==
  ASSUME NEW r \in Row
  PROVE  /\ Ticked(r) \in Row /\ Ticked(r).state = r.state /\ Ticked(r).owner = r.owner
         /\ RowIsSound(r) => RowIsSound(Ticked(r))
<1>1. Less(r.lease) \in 0..LeaseTime /\ Less(r.wait) \in Int
  BY DEF Less, Row
<1>2. /\ Ticked(r) \in Row /\ Ticked(r).state = r.state /\ Ticked(r).owner = r.owner
      /\ Ticked(r).kind = r.kind /\ Ticked(r).attempts = r.attempts
      /\ Ticked(r).proved = r.proved
  BY <1>1 DEF Ticked, Row
<1> QED
  BY <1>2 DEF RowIsSound

-----------------------------------------------------------------------------
(* What the actions do to the queue.                                       *)

RowsAreSound == job \in [Jobs -> Row] /\ \A j \in Jobs : RowIsSound(job[j])

\* An action that replaces one row by a sound one.
LEMMA OneRow ==
  ASSUME RowsAreSound, NEW j \in Jobs, NEW r \in Row, RowIsSound(r),
         job' = [job EXCEPT ![j] = r]
  PROVE  RowsAreSound'
<1>1. job' \in [Jobs -> Row]
  BY DEF RowsAreSound
<1>2. \A i \in Jobs : job'[i] = IF i = j THEN r ELSE job[i]
  BY DEF RowsAreSound
<1> QED
  BY <1>1, <1>2 DEF RowsAreSound

\* An ordinary job enters the queue with all its attempts.
LEMMA EnqueueKeeps ==
  ASSUME RowsAreSound, NEW j \in Jobs, NEW p \in Nat, NEW t \in Nat, Enqueue(j, p, t)
  PROVE  RowsAreSound'
<1> DEFINE r == Enqueued("ordinary", p, t)
<1>0. "ordinary" \in {"ordinary", "delete"}
  OBVIOUS
<1>1. r \in Row
  BY <1>0, EnqueuedRow
<1>2. RowIsSound(r)
  BY <1>0, EnqueuedRow
<1>3. job' = [job EXCEPT ![j] = r]
  BY DEF Enqueue
<1> HIDE DEF r
<1> QED
  BY <1>1, <1>2, <1>3, OneRow

\* A deletion enters it completed exactly when it is proved.
LEMMA EnqueueDeleteKeeps ==
  ASSUME RowsAreSound, NEW j \in Jobs, NEW provedAlready \in BOOLEAN,
         EnqueueDelete(j, provedAlready)
  PROVE  RowsAreSound'
<1> DEFINE q == Enqueued("delete", TopPriority, 0)
           r == [q EXCEPT !.state = IF provedAlready THEN "completed" ELSE "queued",
                          !.proved = provedAlready]
<1>0. TopPriority \in Nat /\ 0 \in Nat /\ "delete" \in {"ordinary", "delete"}
  OBVIOUS
<1>1. q \in Row /\ q.kind = "delete"
  BY <1>0, EnqueuedRow
<1>2. job' = [job EXCEPT ![j] = r]
  BY DEF EnqueueDelete
<1> HIDE DEF q
<1>3. /\ r \in Row /\ r.kind = "delete" /\ r.proved = provedAlready
      /\ r.state = IF provedAlready THEN "completed" ELSE "queued"
  BY <1>1 DEF Row
<1> HIDE DEF r
<1>4. RowIsSound(r)
  <2>1. CASE provedAlready = TRUE
    BY <1>3, <2>1 DEF RowIsSound
  <2>2. CASE provedAlready = FALSE
    BY <1>3, <2>2 DEF RowIsSound
  <2> QED
    BY <2>1, <2>2
<1> QED
  BY <1>2, <1>3, <1>4, OneRow

\* A lease call releases what has expired and takes a job that is queued.
LEMMA LeaseKeeps ==
  ASSUME Typed, RowsAreSound, NEW w \in Workers, NEW kinds, LeaseNext(w, kinds)
  PROVE  RowsAreSound' /\ Typed'
<1> DEFINE released == [j \in Jobs |-> Released(job[j])]
           available == {j \in Jobs : IsAvailable(released[j], kinds)}
           first == {j \in available : \A i \in available : IsBefore(released, j, i)}
<1>1. /\ released \in [Jobs -> Row]
      /\ \A j \in Jobs : RowIsSound(released[j])
  BY ReleasedRow DEF RowsAreSound
<1>2. \A j \in first : j \in Jobs /\ released[j].state = "queued"
  BY DEF IsAvailable
<1>3. \/ job' = released /\ hold' = hold /\ answer' = [answer EXCEPT ![w] = NoJob]
      \/ \E j \in first : /\ job' = [released EXCEPT ![j] = Leased(@, w)]
                          /\ answer' = [answer EXCEPT ![w] = j]
                          /\ hold' \in {hold, [hold EXCEPT ![w] = j]}
  BY DEF LeaseNext
<1>4. requeues' = requeues
  BY DEF LeaseNext
<1> HIDE DEF released, first
<1>5. CASE job' = released /\ hold' = hold /\ answer' = [answer EXCEPT ![w] = NoJob]
  BY <1>1, <1>4, <1>5 DEF RowsAreSound, Typed
<1>6. ASSUME NEW j \in first, job' = [released EXCEPT ![j] = Leased(@, w)],
             answer' = [answer EXCEPT ![w] = j], hold' \in {hold, [hold EXCEPT ![w] = j]}
      PROVE  RowsAreSound' /\ Typed'
  <2> DEFINE r == Leased(released[j], w)
  <2>1. r \in Row /\ RowIsSound(r)
    BY <1>1, <1>2, LeasedRow
  <2>2. job' = [released EXCEPT ![j] = r]
    BY <1>6
  <2> HIDE DEF r
  <2>3. job' \in [Jobs -> Row] /\ \A i \in Jobs : job'[i] = IF i = j THEN r ELSE released[i]
    BY <1>1, <1>2, <2>1, <2>2
  <2>4. answer' \in [Workers -> Jobs \cup {NoJob}] /\ hold' \in [Workers -> Jobs \cup {NoJob}]
    BY <1>2, <1>6 DEF Typed
  <2> QED
    BY <1>1, <1>4, <2>1, <2>3, <2>4 DEF RowsAreSound, Typed
<1> QED
  BY <1>3, <1>5, <1>6

\* A worker ends a job it holds the lease of.
LEMMA EndKeeps ==
  ASSUME RowsAreSound, NEW w \in Workers, NEW j \in Jobs, Complete(w, j) \/ Fail(w, j)
  PROVE  RowsAreSound'
<1> DEFINE r == job[j]
<1>1. r \in Row /\ RowIsSound(r)
  BY DEF RowsAreSound
<1>2. CASE Complete(w, j)
  <2>1. r.kind = "delete" => r.proved = TRUE
    BY <1>1, <1>2 DEF Complete, Row
  <2>2. job' = [job EXCEPT ![j] = Settled(r, "completed", r.wait)]
    BY <1>2 DEF Complete
  <2> HIDE DEF r
  <2>3. Settled(r, "completed", r.wait) \in Row /\ RowIsSound(Settled(r, "completed", r.wait))
    BY <1>1, <2>1, CompletedRow
  <2> QED
    BY <2>2, <2>3, OneRow
<1>3. CASE Fail(w, j)
  <2>1. r.state = "leased" /\ job' = [job EXCEPT ![j] = Failed(r)]
    BY <1>3 DEF Fail, HoldsLease
  <2> HIDE DEF r
  <2>2. Failed(r) \in Row /\ RowIsSound(Failed(r))
    BY <1>1, <2>1, FailedRow
  <2> QED
    BY <2>1, <2>2, OneRow
<1> QED
  BY <1>2, <1>3

\* The proof of a deletion moves its job.
LEMMA ProofKeeps ==
  ASSUME RowsAreSound, NEW j \in Jobs, Requeue(j) \/ Prove(j)
  PROVE  RowsAreSound'
<1> DEFINE r == job[j]
<1>1. r \in Row /\ RowIsSound(r) /\ r.kind = "delete"
  BY DEF RowsAreSound, Requeue, Prove, IsDeleteJob
<1>2. CASE Requeue(j)
  <2>1. r.proved = FALSE
    BY <1>1, <1>2 DEF Requeue, Row
  <2>2. job' = [job EXCEPT ![j] = IF r.state = "completed" THEN r
                                  ELSE Settled(r, "queued", 0)]
    BY <1>2 DEF Requeue
  <2> HIDE DEF r
  <2>3. /\ r.state # "completed"
        /\ Settled(r, "queued", 0) \in Row /\ RowIsSound(Settled(r, "queued", 0))
    BY <1>1, <2>1, RequeuedRow
  <2> QED
    BY <2>2, <2>3, OneRow
<1>3. CASE Prove(j)
  <2>1. job' = [job EXCEPT ![j] = Proved(r)]
    BY <1>3 DEF Prove, Proved
  <2> HIDE DEF r
  <2>2. Proved(r) \in Row /\ RowIsSound(Proved(r))
    BY <1>1, ProvedRow
  <2> QED
    BY <2>1, <2>2, OneRow
<1> QED
  BY <1>2, <1>3

\* Time passes.
LEMMA TickKeeps ==
  ASSUME RowsAreSound, Tick
  PROVE  RowsAreSound' /\ \A j \in Jobs : job'[j] = Ticked(job[j])
<1>1. job' = [j \in Jobs |-> Ticked(job[j])]
  BY DEF Tick, Ticked
<1> QED
  BY <1>1, TickedRow DEF RowsAreSound

\* Every step keeps the queue sound.
LEMMA SoundStep == QueueIsSound /\ [Next]_vars => QueueIsSound'
<1> SUFFICES ASSUME QueueIsSound, [Next]_vars PROVE QueueIsSound'
  OBVIOUS
<1>0. Typed /\ RowsAreSound
  BY DEF QueueIsSound, Typed, RowsAreSound
<1>1. ASSUME RowsAreSound', UNCHANGED <<hold, answer>>, requeues' \in 0..MaxRequeues
      PROVE  QueueIsSound'
  BY <1>0, <1>1 DEF QueueIsSound, RowsAreSound, Typed
<1>2. ASSUME UNCHANGED job, requeues' = requeues,
             hold' \in [Workers -> Jobs \cup {NoJob}],
             answer' \in [Workers -> Jobs \cup {NoJob}]
      PROVE  QueueIsSound'
  BY <1>0, <1>2 DEF QueueIsSound, RowsAreSound, Typed
<1>3. ASSUME NEW j \in Jobs, NEW p \in Priorities, NEW t \in 0..BaseBackoff, Enqueue(j, p, t)
      PROVE  QueueIsSound'
  <2>1. p \in Nat /\ t \in Nat
    OBVIOUS
  <2>2. RowsAreSound'
    BY <1>0, <1>3, <2>1, EnqueueKeeps
  <2> QED
    BY <1>0, <1>1, <1>3, <2>2 DEF Enqueue, Typed
<1>4. ASSUME NEW j \in Jobs, NEW proved \in BOOLEAN, EnqueueDelete(j, proved)
      PROVE  QueueIsSound'
  BY <1>0, <1>1, <1>4, EnqueueDeleteKeeps DEF EnqueueDelete, Typed
<1>5. ASSUME NEW j \in Jobs, Requeue(j) \/ Prove(j) PROVE QueueIsSound'
  <2>1. RowsAreSound'
    BY <1>0, <1>5, ProofKeeps
  <2>2. UNCHANGED <<hold, answer>> /\ requeues' \in 0..MaxRequeues
    BY <1>0, <1>5 DEF Requeue, Prove, Typed
  <2> QED
    BY <1>1, <2>1, <2>2
<1>6. ASSUME NEW w \in Workers, NEW kinds, LeaseNext(w, kinds) PROVE QueueIsSound'
  BY <1>0, <1>6, LeaseKeeps DEF QueueIsSound, RowsAreSound, Typed
<1>7. ASSUME NEW w \in Workers, ReplayLease(w) \/ Forget(w) PROVE QueueIsSound'
  BY <1>0, <1>2, <1>7 DEF ReplayLease, Forget, Typed
<1>8. ASSUME NEW w \in Workers, NEW j \in Jobs, Complete(w, j) \/ Fail(w, j)
      PROVE  QueueIsSound'
  <2>1. RowsAreSound'
    BY <1>0, <1>8, EndKeeps
  <2>2. /\ requeues' = requeues /\ hold' = [hold EXCEPT ![w] = NoJob]
        /\ answer' = [answer EXCEPT ![w] = NoJob]
    BY <1>8 DEF Complete, Fail, LetGo
  <2> QED
    BY <1>0, <2>1, <2>2 DEF QueueIsSound, RowsAreSound, Typed
<1>9. ASSUME NEW w \in Workers, NEW j \in Jobs, Refused(w, j) PROVE QueueIsSound'
  BY <1>0, <1>2, <1>9 DEF Refused, LetGo, Typed
<1>10. ASSUME Tick PROVE QueueIsSound'
  BY <1>0, <1>1, <1>10, TickKeeps DEF Tick, Typed
<1>11. ASSUME UNCHANGED vars PROVE QueueIsSound'
  BY <1>0, <1>2, <1>11 DEF vars, Typed
<1> QED
  BY <1>3, <1>4, <1>5, <1>6, <1>7, <1>8, <1>9, <1>10, <1>11 DEF Next

\* The rows of the queue are sound in every reachable state.
THEOREM QueueSoundness == Spec => []QueueIsSound
<1>1. Init => QueueIsSound
  <2> SUFFICES ASSUME Init PROVE QueueIsSound
    OBVIOUS
  <2>1. Absent \in Row /\ RowIsSound(Absent)
    BY LeaseValues DEF Absent, Row, RowIsSound
  <2> QED
    BY <2>1 DEF Init, QueueIsSound, Typed
<1> QED
  BY <1>1, SoundStep, PTL DEF Spec

\* The queue reports a deletion as done exactly when it is proved.
THEOREM DeletionsFollowTheirProof == Spec => []DeleteJobFollowsProof
<1>1. QueueIsSound => DeleteJobFollowsProof
  <2> SUFFICES ASSUME QueueIsSound, NEW j \in Jobs, job[j].kind = "delete"
               PROVE  job[j].state = "completed" <=> job[j].proved
    BY DEF DeleteJobFollowsProof
  <2>1. job[j].proved \in BOOLEAN
    BY DEF QueueIsSound, Typed, Row
  <2>2. job[j].state = "completed" <=> job[j].proved = TRUE
    BY DEF QueueIsSound, RowIsSound
  <2> QED
    BY <2>1, <2>2
<1> QED
  BY <1>1, QueueSoundness, PTL

\* No ordinary job is leased more often than it has attempts, whoever loses
\* its lease, its answer or its track of the job.
AttemptsAreLimited == \A j \in Jobs : job[j].kind = "ordinary" => job[j].attempts <= MaxAttempts

\* Attempts run out for every ordinary job.
THEOREM AttemptsRunOut == Spec => []AttemptsAreLimited
<1>1. QueueIsSound => AttemptsAreLimited
  BY DEF QueueIsSound, RowIsSound, AttemptsAreLimited
<1> QED
  BY <1>1, QueueSoundness, PTL

-----------------------------------------------------------------------------
(* Leases and outcomes.                                                    *)

\* A lease call changes the row of a job only if its lease has expired, or if it
\* is queued.
LEMMA LeaseTouches ==
  ASSUME QueueIsSound, NEW w \in Workers, NEW kinds, LeaseNext(w, kinds),
         NEW j \in Jobs, job[j].state # "queued",
         job[j].state # "leased" \/ ~LeaseExpired(job[j])
  PROVE  job'[j] = job[j]
<1> DEFINE released == [i \in Jobs |-> Released(job[i])]
           available == {i \in Jobs : IsAvailable(released[i], kinds)}
           first == {i \in available : \A k \in available : IsBefore(released, i, k)}
<1>1. job[j] \in Row /\ RowIsSound(job[j])
  BY DEF QueueIsSound, Typed
<1>2. released[j] = job[j]
  BY <1>1, ReleasedRow
<1>3. \A i \in first : i \in Jobs /\ released[i].state = "queued"
  BY DEF IsAvailable
<1>4. \/ job' = released
      \/ \E i \in first : job' = [released EXCEPT ![i] = Leased(@, w)]
  BY DEF LeaseNext
<1> HIDE DEF first
<1>5. j \notin first
  BY <1>2, <1>3
<1>6. CASE job' = released
  BY <1>2, <1>6
<1>7. ASSUME NEW i \in first, job' = [released EXCEPT ![i] = Leased(@, w)]
      PROVE  job'[j] = job[j]
  BY <1>2, <1>5, <1>7
<1> QED
  BY <1>4, <1>6, <1>7

\* Only a worker that holds an unexpired lease of its own, or the proof of a
\* deletion, moves a job that is neither queued nor expired; time moves none.
LEMMA WhoMoves ==
  ASSUME QueueIsSound, [Next]_vars, NEW j \in Jobs, job[j].state # "none",
         job[j].state # "queued", job[j].state # "leased" \/ ~LeaseExpired(job[j])
  PROVE  \/ job'[j].state = job[j].state /\ job'[j].owner = job[j].owner
         \/ \E w \in Workers : HoldsLease(w, j) /\ hold[w] = j /\ hold'[w] = NoJob
         \/ job[j].kind = "delete" /\ (Requeue(j) \/ Prove(j))
<1> DEFINE Stays == job'[j].state = job[j].state /\ job'[j].owner = job[j].owner
<1>0. Typed /\ job[j] \in Row
  BY DEF QueueIsSound, Typed
<1>1. ASSUME NEW i \in Jobs, \/ \E p \in Priorities, t \in 0..BaseBackoff : Enqueue(i, p, t)
                             \/ \E proved \in BOOLEAN : EnqueueDelete(i, proved)
      PROVE  Stays
  <2>1. i # j /\ \E r : job' = [job EXCEPT ![i] = r]
    BY <1>1 DEF Enqueue, EnqueueDelete, IsNextId
  <2> QED
    BY <1>0, <2>1 DEF Typed
<1>2. ASSUME NEW i \in Jobs, Requeue(i) \/ Prove(i)
      PROVE  Stays \/ (job[j].kind = "delete" /\ (Requeue(j) \/ Prove(j)))
  <2>1. CASE i = j
    BY <1>2, <2>1 DEF Requeue, Prove, IsDeleteJob
  <2>2. CASE i # j
    <3>1. \E r : job' = [job EXCEPT ![i] = r]
      BY <1>2 DEF Requeue, Prove
    <3> QED
      BY <1>0, <2>2, <3>1 DEF Typed
  <2> QED
    BY <2>1, <2>2
<1>3. ASSUME NEW w \in Workers, NEW kinds, LeaseNext(w, kinds) PROVE Stays
  BY <1>3, LeaseTouches
<1>4. ASSUME NEW w \in Workers, NEW i \in Jobs, Complete(w, i) \/ Fail(w, i)
      PROVE  Stays \/ \E v \in Workers : HoldsLease(v, j) /\ hold[v] = j /\ hold'[v] = NoJob
  <2>1. CASE i = j
    <3>1. HoldsLease(w, j) /\ hold[w] = j
      BY <1>4, <2>1 DEF Complete, Fail
    <3>2. hold'[w] = NoJob
      BY <1>0, <1>4 DEF Complete, Fail, LetGo, Typed
    <3> QED
      BY <3>1, <3>2
  <2>2. CASE i # j
    <3>1. \E r : job' = [job EXCEPT ![i] = r]
      BY <1>4 DEF Complete, Fail
    <3> QED
      BY <1>0, <2>2, <3>1 DEF Typed
  <2> QED
    BY <2>1, <2>2
<1>5. ASSUME UNCHANGED job PROVE Stays
  BY <1>5
<1>6. ASSUME NEW w \in Workers, \/ ReplayLease(w) \/ Forget(w)
                                \/ \E i \in Jobs : Refused(w, i)
      PROVE  Stays
  BY <1>5, <1>6 DEF ReplayLease, Forget, Refused
<1>7. ASSUME Tick PROVE Stays
  <2>1. RowsAreSound
    BY DEF QueueIsSound, RowsAreSound, Typed
  <2>2. job'[j] = Ticked(job[j])
    BY <1>7, <2>1, TickKeeps
  <2> QED
    BY <1>0, <2>2, TickedRow
<1>8. ASSUME UNCHANGED vars PROVE Stays
  BY <1>5, <1>8 DEF vars
<1> QED
  BY <1>1, <1>2, <1>3, <1>4, <1>6, <1>7, <1>8 DEF Next

\* A lease that has not expired is ended by its owner alone.
THEOREM LeasesAreKept == Spec => LeaseIsKept
<1> DEFINE Kept(j) ==
      (job[j].kind = "ordinary" /\ job[j].state = "leased" /\ ~LeaseExpired(job[j]))
        => \/ job'[j].state = "leased" /\ job'[j].owner = job[j].owner
           \/ hold[job[j].owner] = j /\ hold'[job[j].owner] = NoJob
<1>1. ASSUME QueueIsSound, [Next]_vars, NEW j \in Jobs PROVE Kept(j)
  BY <1>1, WhoMoves DEF HoldsLease
<1>2. QueueIsSound /\ [Next]_vars => [\A j \in Jobs : Kept(j)]_vars
  BY <1>1
<1> QED
  BY <1>2, QueueSoundness, PTL DEF Spec, LeaseIsKept

\* No late or repeated call moves a job out of an outcome that is final.
THEOREM OutcomesAreFinal == Spec => SettledStays
<1> DEFINE Final(j) == \/ job[j].state = "completed"
                       \/ job[j].state = "failed" /\ job[j].kind = "ordinary"
                       => job'[j].state = job[j].state
<1>1. ASSUME QueueIsSound, [Next]_vars, NEW j \in Jobs PROVE Final(j)
  <2> SUFFICES ASSUME \/ job[j].state = "completed"
                      \/ job[j].state = "failed" /\ job[j].kind = "ordinary"
               PROVE  job'[j].state = job[j].state
    OBVIOUS
  <2>1. \/ job'[j].state = job[j].state
        \/ job[j].state = "completed" /\ (Requeue(j) \/ Prove(j))
    BY <1>1, WhoMoves DEF HoldsLease
  <2>2. ASSUME job[j].state = "completed", Requeue(j) PROVE job'[j].state = "completed"
    BY <1>1, <2>2 DEF Requeue, QueueIsSound, Typed
  <2>3. ASSUME Prove(j) PROVE job'[j].state = "completed"
    <3>1. job'[j] = Proved(job[j]) /\ job[j] \in Row
      BY <1>1, <2>3 DEF Prove, Proved, QueueIsSound, Typed
    <3> QED
      BY <2>3, <3>1, ProvedRow DEF Prove, IsDeleteJob
  <2> QED
    BY <2>1, <2>2, <2>3
<1>2. QueueIsSound /\ [Next]_vars => [\A j \in Jobs : Final(j)]_vars
  BY <1>1
<1> QED
  BY <1>2, QueueSoundness, PTL DEF Spec, SettledStays

-----------------------------------------------------------------------------
(* The delay of a retry.                                                   *)

\* A power of two is a natural number: it counts the subsets of a finite set.
LEMMA PowersOfTwo ==
  ASSUME NEW n \in Nat
  PROVE  2^n \in Nat
<1>1. IsFiniteSet(1..n) /\ Cardinality(1..n) = n
  BY FS_Interval
<1>2. IsFiniteSet(SUBSET (1..n)) /\ Cardinality(SUBSET (1..n)) = 2^n
  BY <1>1, FS_SUBSET
<1> QED
  BY <1>2, FS_CardinalityType

DelaysAreBounded == \A j \in Jobs : job[j].wait \in 0..MaxBackoff

\* A failed job waits no longer than the longest delay.
LEMMA BackoffIsBounded ==
  ASSUME NEW n \in Nat, n > 0
  PROVE  Backoff(n) \in 0..MaxBackoff
<1> DEFINE power == 2^(n - 1)
<1>1. n - 1 \in Nat
  OBVIOUS
<1>2. power \in Nat
  BY <1>1, PowersOfTwo
<1> HIDE DEF power
<1>3. BaseBackoff * power \in Nat
  BY <1>2
<1>4. Smaller(MaxBackoff, BaseBackoff * power) \in 0..MaxBackoff
  BY <1>3 DEF Smaller
<1> QED
  BY <1>4 DEF Backoff, power

\* Every step keeps the delays within their bounds.
LEMMA DelayStep ==
  ASSUME QueueIsSound, DelaysAreBounded, [Next]_vars
  PROVE  DelaysAreBounded'
<1>0. /\ job \in [Jobs -> Row] /\ \A j \in Jobs : job[j] \in Row /\ RowIsSound(job[j])
      /\ \A j \in Jobs : job[j].wait \in 0..MaxBackoff
  BY DEF QueueIsSound, Typed, DelaysAreBounded
<1>1. ASSUME NEW j \in Jobs, NEW r, job' = [job EXCEPT ![j] = r], r.wait \in 0..MaxBackoff
      PROVE  DelaysAreBounded'
  BY <1>0, <1>1 DEF DelaysAreBounded
<1>2. ASSUME NEW r \in Row, NEW state, NEW t PROVE Settled(r, state, t).wait = t
  BY DEF Settled, Row
<1>3. ASSUME NEW j \in Jobs, NEW p, NEW t \in 0..BaseBackoff, Enqueue(j, p, t)
      PROVE  DelaysAreBounded'
  <2> DEFINE r == Enqueued("ordinary", p, t)
  <2>1. r.wait = t /\ t \in 0..MaxBackoff
    BY DEF Enqueued, Absent
  <2>2. job' = [job EXCEPT ![j] = r]
    BY <1>3 DEF Enqueue
  <2> HIDE DEF r
  <2> QED
    BY <1>1, <2>1, <2>2
<1>4. ASSUME NEW j \in Jobs, NEW proved, EnqueueDelete(j, proved) PROVE DelaysAreBounded'
  <2> DEFINE r == [Enqueued("delete", TopPriority, 0) EXCEPT
                     !.state = IF proved THEN "completed" ELSE "queued",
                     !.proved = proved]
  <2>1. r.wait \in 0..MaxBackoff
    BY DEF Enqueued, Absent
  <2>2. job' = [job EXCEPT ![j] = r]
    BY <1>4 DEF EnqueueDelete
  <2> HIDE DEF r
  <2> QED
    BY <1>1, <2>1, <2>2
<1>5. ASSUME NEW j \in Jobs, Requeue(j) PROVE DelaysAreBounded'
  <2>1. job' = [job EXCEPT ![j] = IF job[j].state = "completed" THEN job[j]
                                  ELSE Settled(job[j], "queued", 0)]
    BY <1>5 DEF Requeue
  <2>2. Settled(job[j], "queued", 0).wait \in 0..MaxBackoff /\ job[j].wait \in 0..MaxBackoff
    BY <1>0, <1>2
  <2> QED
    BY <1>1, <2>1, <2>2
<1>6. ASSUME NEW j \in Jobs, Prove(j) PROVE DelaysAreBounded'
  <2> DEFINE s == Settled(job[j], "completed", job[j].wait)
  <2>1. s.wait \in 0..MaxBackoff
    BY <1>0, <1>2
  <2>2. job' = [job EXCEPT ![j] = [s EXCEPT !.proved = TRUE]]
    BY <1>6 DEF Prove
  <2>3. [s EXCEPT !.proved = TRUE].wait = s.wait
    BY DEF Settled
  <2> HIDE DEF s
  <2> QED
    BY <1>1, <2>1, <2>2, <2>3
<1>7. ASSUME NEW w \in Workers, NEW kinds, LeaseNext(w, kinds) PROVE DelaysAreBounded'
  <2> DEFINE released == [j \in Jobs |-> Released(job[j])]
             available == {j \in Jobs : IsAvailable(released[j], kinds)}
             first == {j \in available : \A i \in available : IsBefore(released, j, i)}
  <2>1. \A j \in Jobs : /\ released[j].wait \in 0..MaxBackoff
                        /\ Leased(released[j], w).wait = released[j].wait
    <3>1. ASSUME NEW r \in Row PROVE Leased(r, w).wait = r.wait /\ Released(r).wait = r.wait
      BY DEF Leased, Released, Row
    <3>2. \A j \in Jobs : Released(job[j]) \in Row
      BY <1>0, ReleasedRow
    <3> QED
      BY <1>0, <3>1, <3>2
  <2>2. \/ job' = released
        \/ \E j \in first : job' = [released EXCEPT ![j] = Leased(released[j], w)]
    BY <1>7 DEF LeaseNext
  <2>3. first \subseteq Jobs
    OBVIOUS
  <2> HIDE DEF first
  <2> QED
    BY <2>1, <2>2, <2>3 DEF DelaysAreBounded
<1>8. ASSUME NEW w \in Workers, NEW j \in Jobs, Complete(w, j) PROVE DelaysAreBounded'
  <2>1. job' = [job EXCEPT ![j] = Settled(job[j], "completed", job[j].wait)]
    BY <1>8 DEF Complete
  <2>2. Settled(job[j], "completed", job[j].wait).wait \in 0..MaxBackoff
    BY <1>0, <1>2
  <2> QED
    BY <1>1, <2>1, <2>2
<1>9. ASSUME NEW w \in Workers, NEW j \in Jobs, Fail(w, j) PROVE DelaysAreBounded'
  <2>1. job' = [job EXCEPT ![j] = Failed(job[j])] /\ job[j].state = "leased"
    BY <1>9 DEF Fail, HoldsLease
  <2>2. job[j].attempts \in Nat /\ job[j].attempts > 0
    BY <1>0, <2>1 DEF Row, RowIsSound
  <2>3. Backoff(job[j].attempts) \in 0..MaxBackoff
    BY <2>2, BackoffIsBounded
  <2>4. Failed(job[j]).wait \in {0, Backoff(job[j].attempts)}
    BY <1>0, <1>2 DEF Failed
  <2>5. Failed(job[j]).wait \in 0..MaxBackoff
    BY <2>3, <2>4
  <2> QED
    BY <1>1, <2>1, <2>5
<1>10. ASSUME Tick PROVE DelaysAreBounded'
  <2>1. \A j \in Jobs : job'[j] = Ticked(job[j])
    BY <1>10 DEF Tick, Ticked
  <2>2. ASSUME NEW r \in Row PROVE Ticked(r).wait = Less(r.wait)
    BY DEF Row, Ticked
  <2>3. \A j \in Jobs : job'[j].wait = Less(job[j].wait)
    BY <1>0, <2>1, <2>2
  <2>4. ASSUME NEW n \in 0..MaxBackoff PROVE Less(n) \in 0..MaxBackoff
    BY DEF Less
  <2> QED
    BY <1>0, <2>3, <2>4 DEF DelaysAreBounded
<1>11. ASSUME UNCHANGED job PROVE DelaysAreBounded'
  BY <1>11 DEF DelaysAreBounded
<1>12. ASSUME NEW w \in Workers, \/ ReplayLease(w) \/ Forget(w)
                                 \/ \E j \in Jobs : Refused(w, j)
       PROVE  DelaysAreBounded'
  BY <1>11, <1>12 DEF ReplayLease, Forget, Refused
<1>13. ASSUME UNCHANGED vars PROVE DelaysAreBounded'
  BY <1>11, <1>13 DEF vars
<1> QED
  BY <1>3, <1>4, <1>5, <1>6, <1>7, <1>8, <1>9, <1>10, <1>12, <1>13 DEF Next

\* Every variable has its type, the delays of retries included, whatever the
\* number of attempts that doubles them.
THEOREM TypesHold == Spec => []TypeOK
<1>1. Init => DelaysAreBounded
  BY DEF Init, Absent, DelaysAreBounded
<1>2. QueueIsSound /\ DelaysAreBounded /\ [Next]_vars => DelaysAreBounded'
  BY DelayStep
<1>3. QueueIsSound /\ DelaysAreBounded => TypeOK
  <2> SUFFICES ASSUME QueueIsSound, DelaysAreBounded PROVE TypeOK
    OBVIOUS
  <2>1. ASSUME NEW r \in Row, r.wait \in 0..MaxBackoff PROVE r \in Job
    BY <2>1 DEF Row, Job
  <2>2. job \in [Jobs -> Job]
    BY <2>1 DEF QueueIsSound, Typed, DelaysAreBounded
  <2> QED
    BY <2>2 DEF QueueIsSound, Typed, RowIsSound, TypeOK
<1> QED
  BY <1>1, <1>2, <1>3, QueueSoundness, PTL DEF Spec

=============================================================================
