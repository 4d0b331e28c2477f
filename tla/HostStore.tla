----------------------------- MODULE HostStore ------------------------------
(***************************************************************************)
(* The store behind the local MCP server: CoreEventNodeStore in the host   *)
(* process core_oracle_host.py.  It serves one request at a time, over two *)
(* stores with no common transaction: the Event Core, where every command  *)
(* is one SQLite transaction under an idempotency slot, and control.json,  *)
(* which is replaced as a whole and holds the record of every operation.   *)
(*                                                                         *)
(* A request is a chain of steps, and the process may stop between any two *)
(* of them.  What is retried is found again by its key.                    *)
(***************************************************************************)
EXTENDS Naturals, FiniteSets, Sequences, SequencesExt

CONSTANTS
  Keys,   \* idempotency keys of agents; an undo token is known by its capture's key
  Texts   \* what a payload hash tells apart

VARIABLES
  source,     \* source_objects, in the order of their ids: "active" or "deleted"
  event,      \* event_revisions: the revisions of every event
  job,        \* durable_jobs: what every sync job delivers
  slot,       \* idempotency_records of the Event Core
  operation,  \* event_store_operations in control.json
  queue,      \* queue in control.json: ids of jobs
  blocked,    \* policy_blocked_events in control.json
  host,       \* "up" or "down"
  work        \* the request the host is working on, and how far it has come

coreVars == <<source, event, job, slot>>
controlVars == <<operation, queue, blocked>>
hostVars == <<coreVars, controlVars, host, work>>

StoreOps == {"create_event", "append_revision", "undo_event", "undo_revision"}
Commands == {"source", "observation", "accept", "append", "delete", "undo", "enqueue"}

\* An object of the store: an event, a revision of an event, a feedback record.
Object(type, n, revision) == [type |-> type, id |-> n, revision |-> revision]
NoObject == Object("none", 0, 0)

\* Mutant of Revision: a tombstone does not keep the source it rests on.
RevisionBare(state, rests, command) ==
  [state |-> state, rests |-> IF state = "deleted" THEN 0 ELSE rests,
   by |-> <<command, work.key>>]

\* "by" is the command and key that appended the revision.
Revision(state, rests, command) ==
  [state |-> state, rests |-> rests, by |-> <<command, work.key>>]

NoOperation == [state |-> "none"]
NoSlot == [recorded |-> FALSE]
NoWork == [at |-> "idle"]

\* A request on its way to the host.
Request(op, k, text, e, revision, object) ==
  [at |-> "begin", op |-> op, key |-> k, text |-> text, event |-> e,
   revision |-> revision, object |-> object, source |-> 0]

HostInit ==
  /\ source = <<>> /\ event = <<>> /\ job = <<>>
  /\ slot = [c \in Commands \X Keys |-> NoSlot]
  /\ operation = [o \in StoreOps \X Keys |-> NoOperation]
  /\ queue = <<>>
  /\ blocked = {}
  /\ host = "up"
  /\ work = NoWork

Exists(e) == e \in DOMAIN event
Active(e) == Exists(e) /\ Last(event[e]).state = "active"

\* Mutant of Visible: what policy blocks is shown.
VisibleBlocked == {e \in DOMAIN event : Active(e)}

\* visible_events: what recall and get_context are given.
Visible == {e \in DOMAIN event : Active(e)} \ blocked

-----------------------------------------------------------------------------
(* The steps of a request.                                                 *)

Answer(code, object) == work' = [at |-> "reply", code |-> code, object |-> object]

\* The operation of the request.
This == <<work.op, work.key>>

Proceed(to) == work' = [work EXCEPT !.at = to]

FirstStep == IF work.op \in {"create_event", "append_revision"} THEN "source" ELSE "core"

\* An undo is refused unless what it undoes is the head; not when it was begun
\* before.
IsHead(e, revision) == Active(e) /\ Len(event[e]) = revision

Refusal ==
  IF work.op = "create_event" THEN "none"
  ELSE IF work.op = "append_revision" THEN IF Active(work.event) THEN "none" ELSE "not_visible"
  ELSE IF ~Exists(work.event) THEN "not_visible"
  ELSE IF operation[This] = NoOperation /\ ~IsHead(work.event, work.revision) THEN "conflict"
  ELSE "none"

\* The record of an operation, with what its first attempt saw: the head to
\* revise or undo, and the source to delete.
Prepared ==
  [state |-> "prepared", text |-> work.text,
   base |-> IF work.op = "append_revision" THEN Len(event[work.event]) ELSE work.revision,
   source |-> IF work.op = "undo_event" THEN Last(event[work.event]).rests ELSE 0,
   object |-> NoObject]

\* Mutant of BeginOperation: an operation that was begun is never taken up again.
BeginOperationOnce ==
  /\ work.at = "begin" /\ work.op \in StoreOps
  /\ IF Refusal # "none" THEN Answer(Refusal, NoObject) /\ UNCHANGED operation
     ELSE IF operation[This] = NoOperation
     THEN operation' = [operation EXCEPT ![This] = Prepared] /\ Proceed(FirstStep)
     ELSE /\ UNCHANGED operation
          /\ IF operation[This].state = "core_committed"
             THEN Answer("ok", operation[This].object) ELSE Answer("store_error", NoObject)
  /\ UNCHANGED <<coreVars, queue, blocked, host>>

\* _begin_operation, behind the checks of its caller: the record is on disk before
\* anything is done; one that is there decides what the retry may do.
BeginOperation ==
  LET known == operation[This]
  IN  /\ work.at = "begin" /\ work.op \in StoreOps
      /\ \/ /\ Refusal # "none"
            /\ Answer(Refusal, NoObject)
            /\ UNCHANGED operation
         \/ /\ Refusal = "none"
            /\ known = NoOperation
            /\ operation' = [operation EXCEPT ![This] = Prepared]
            /\ Proceed(FirstStep)
         \/ /\ Refusal = "none"
            /\ known # NoOperation
            /\ IF known.text # work.text THEN Answer("idempotency_conflict", NoObject)
               ELSE IF known.state = "core_committed" THEN Answer("ok", known.object)
               ELSE IF known.state = "failed" THEN Answer("store_error", NoObject)
               ELSE Proceed(FirstStep)
            /\ UNCHANGED operation
      /\ UNCHANGED <<coreVars, queue, blocked, host>>

\* _record_core_failure, for a failure no retry can mend.
Fail(code) ==
  /\ operation' = [operation EXCEPT ![This].state = "failed"]
  /\ Answer(code, NoObject)

-----------------------------------------------------------------------------
(* Commands of the Event Core.                                             *)

\* Mutant of Recorded: the Event Core does not look for the key.
RecordedNever(command) == FALSE

Recorded(command) == slot[<<command, work.key>>] # NoSlot

Record(command, payload, result) ==
  slot' = [slot EXCEPT ![<<command, work.key>>] = [payload |-> payload, result |-> result]]

Prior(command) == slot[<<command, work.key>>]

\* _command finds its key: the request goes on with the recorded answer, if the
\* payload is the same.
Again(command, payload, next) ==
  /\ Recorded(command)
  /\ IF Prior(command).payload = payload THEN next /\ UNCHANGED operation
     ELSE Fail("idempotency_conflict")
  /\ UNCHANGED coreVars

Observe(s) == work' = [work EXCEPT !.source = s, !.at = "observation"]

\* capture_source; the contract of the space, created before it under a key and
\* with a payload that never change, tells nothing apart.
CaptureSource ==
  /\ work.at = "source"
  /\ \/ Again("source", work.op, Observe(Prior("source").result))
     \/ LET s == Len(source) + 1
        IN  /\ ~Recorded("source")
            /\ source' = Append(source, "active")
            /\ Record("source", work.op, s)
            /\ Observe(s)
            /\ UNCHANGED <<event, job, operation>>
  /\ UNCHANGED <<queue, blocked, host>>

Observed == Proceed("core")

\* create_observation, of a source that is not deleted.
CreateObservation ==
  /\ work.at = "observation"
  /\ \/ Again("observation", work.source, Observed)
     \/ /\ ~Recorded("observation")
        /\ IF source[work.source] = "active"
           THEN /\ Record("observation", work.source, work.source)
                /\ Observed
                /\ UNCHANGED <<source, event, job, operation>>
           ELSE Fail("store_error") /\ UNCHANGED coreVars
  /\ UNCHANGED <<queue, blocked, host>>

Done(object) == work' = [work EXCEPT !.at = "complete", !.object = object]

\* accept_event, on the evidence of one observation.
AcceptEvent ==
  LET e == Len(event) + 1
      created == Object("event", e, 1)
  IN  /\ work.at = "core" /\ work.op = "create_event"
      /\ \/ Again("accept", work.source, Done(Prior("accept").result))
         \/ /\ ~Recorded("accept")
            /\ IF source[work.source] = "active"
               THEN /\ event' = Append(event, <<Revision("active", work.source, "accept")>>)
                    /\ Record("accept", work.source, created)
                    /\ Done(created)
                    /\ UNCHANGED <<source, job, operation>>
               ELSE Fail("store_error") /\ UNCHANGED coreVars
      /\ UNCHANGED <<queue, blocked, host>>

Revised(e, revision) == event' = [event EXCEPT ![e] = Append(@, revision)]

\* append_event_revision: the new evidence takes the place of the old, on the head
\* that the operation was prepared for.
AppendRevision ==
  LET e == work.event
      base == operation[This].base
      created == Object("revision", e, base + 1)
  IN  /\ work.at = "core" /\ work.op = "append_revision"
      /\ \/ Again("append", <<e, base, work.source>>, Done(Prior("append").result))
         \/ /\ ~Recorded("append")
            /\ IF Len(event[e]) # base THEN Fail("conflict") /\ UNCHANGED coreVars
               ELSE IF source[work.source] # "active"
               THEN Fail("store_error") /\ UNCHANGED coreVars
               ELSE /\ Revised(e, Revision("active", work.source, "append"))
                    /\ Record("append", <<e, base, work.source>>, created)
                    /\ Done(created)
                    /\ UNCHANGED <<source, job, operation>>
      /\ UNCHANGED <<queue, blocked, host>>

\* delete_source: an event whose head rests on the source gets a last revision.
DeleteSource ==
  LET s == operation[This].source
      gone == {e \in DOMAIN event : Active(e) /\ Last(event[e]).rests = s}
  IN  /\ work.at = "core" /\ work.op = "undo_event"
      /\ \/ Again("delete", s, Proceed("complete"))
         \/ /\ ~Recorded("delete")
            /\ IF source[s] = "deleted" THEN Fail("store_error") /\ UNCHANGED coreVars
               ELSE /\ source' = [source EXCEPT ![s] = "deleted"]
                    /\ event' = [e \in DOMAIN event |->
                                   IF e \in gone
                                   THEN Append(event[e], Revision("deleted", s, "delete"))
                                   ELSE event[e]]
                    /\ Record("delete", s, s)
                    /\ Proceed("complete")
                    /\ UNCHANGED <<job, operation>>
      /\ UNCHANGED <<queue, blocked, host>>

\* undo_event: the revision before the one that is undone, with its evidence, if
\* that is not deleted.
UndoRevision ==
  LET e == work.event
      base == operation[This].base
      target == event[e][base - 1]
      restored == Object("revision", e, base + 1)
  IN  /\ work.at = "core" /\ work.op = "undo_revision"
      /\ \/ Again("undo", <<e, base>>, Done(Prior("undo").result))
         \/ /\ ~Recorded("undo")
            /\ IF Len(event[e]) # base THEN Fail("conflict") /\ UNCHANGED coreVars
               ELSE IF source[target.rests] # "active"
               THEN Fail("store_error") /\ UNCHANGED coreVars
               ELSE /\ Revised(e, Revision(target.state, target.rests, "undo"))
                    /\ Record("undo", <<e, base>>, restored)
                    /\ Done(restored)
                    /\ UNCHANGED <<source, job, operation>>
      /\ UNCHANGED <<queue, blocked, host>>

\* SQLite refuses a command for the moment: the operation waits for a retry.
CoreBusy ==
  /\ work.at \in {"source", "observation", "core"}
  /\ operation' = [operation EXCEPT ![This].state = "retry_pending"]
  /\ Answer("store_error", NoObject)
  /\ UNCHANGED <<coreVars, queue, blocked, host>>

-----------------------------------------------------------------------------
(* The end of an operation; delivery; policy.                              *)

\* Mutant of Succeeded: a deletion is taken to have tombstoned the event.
SucceededAnyway == TRUE

\* After the deletion of its source an event must be deleted.
Succeeded == work.op = "undo_event" => Last(event[work.event]).state = "deleted"

\* _complete_operation: control.json says what the Event Core has done.
CompleteOperation ==
  /\ work.at = "complete"
  /\ IF Succeeded
     THEN /\ operation' = [operation EXCEPT ![This].state = "core_committed",
                                            ![This].object = work.object]
          /\ Answer("ok", work.object)
     ELSE Answer("store_error", NoObject) /\ UNCHANGED operation
  /\ UNCHANGED <<coreVars, queue, blocked, host>>

\* enqueue_delivery, in the Event Core: a job under the key.  Its errors are not
\* recorded with any operation.
EnqueueJob ==
  LET j == Len(job) + 1
      list(n) == work' = [work EXCEPT !.source = n, !.at = "list"]
  IN  /\ work.at = "begin" /\ work.op = "enqueue_delivery"
      /\ \/ /\ Recorded("enqueue")
            /\ IF Prior("enqueue").payload = work.object THEN list(Prior("enqueue").result)
               ELSE Answer("store_error", NoObject)
            /\ UNCHANGED coreVars
         \/ /\ ~Recorded("enqueue")
            /\ job' = Append(job, work.object)
            /\ Record("enqueue", work.object, j)
            /\ list(j)
            /\ UNCHANGED <<source, event>>
      /\ UNCHANGED <<controlVars, host>>

\* enqueue_delivery, in control.json.
ListDelivery ==
  /\ work.at = "list"
  /\ queue' = IF work.source \in Range(queue) THEN queue ELSE Append(queue, work.source)
  /\ Answer("ok", work.object)
  /\ UNCHANGED <<coreVars, operation, blocked, host>>

\* set_policy_blocked; the caller is not told that an event is not active.
BlockEvent ==
  /\ work.at = "begin" /\ work.op = "set_policy_blocked"
  /\ blocked' = IF Active(work.event) THEN blocked \cup {work.event} ELSE blocked
  /\ Answer("ok", work.object)
  /\ UNCHANGED <<coreVars, operation, queue, host>>

HostStep ==
  \/ BeginOperation \/ CaptureSource \/ CreateObservation
  \/ AcceptEvent \/ AppendRevision \/ DeleteSource \/ UndoRevision
  \/ CompleteOperation \/ EnqueueJob \/ ListDelivery \/ BlockEvent

=============================================================================
