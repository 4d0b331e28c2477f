---------------------------- MODULE AgentMemory -----------------------------
(***************************************************************************)
(* The local MCP server and its host process: AmemeMock over               *)
(* CoreOracleHostReferenceStore over HostStore.  The server serves one     *)
(* tool call at a time, and is the only client of the host.  It keeps      *)
(* grants, idempotency records and undo tokens in mcp-control.json, which  *)
(* it replaces as a whole at the end of a handler; a tool call is a chain  *)
(* of requests to the host and that save.                                  *)
(*                                                                         *)
(* Either process may stop at any step.  An agent that was not answered    *)
(* repeats its call under the same key.                                    *)
(***************************************************************************)
EXTENDS HostStore

CONSTANTS
  Calls,       \* capture and feedback calls: see Call
  Grants,
  ReadGrants,  \* grants for the data type "event", which alone show events
  Lapsing,     \* bound: grants whose time runs out, and the time to undo under them
  MaxFaults    \* bound: times a process stops or SQLite is busy

Call == [key : Keys, kind : {"event", "revision", "correct", "block", "note"},
         text : Texts, target : Nat, offline : BOOLEAN, grant : Grants]

\* A note that is not queued for delivery never leaves the server.
ASSUME CallsAssumption ==
  Calls \subseteq Call /\ \A c \in Calls : c.kind = "note" => c.offline
ASSUME GrantsAssumption == ReadGrants \subseteq Grants /\ Lapsing \subseteq Grants
ASSUME FaultsAssumption == MaxFaults \in Nat

VARIABLES
  grant,   \* the state of the challenge and then of the grant
  pack,    \* the ContextPack that was made last
  record,  \* idempotency records of capture and feedback
  undo,    \* undo tokens, by the key of their capture
  told,    \* what agents were answered, per key
  mcp,     \* "up" or "down"
  call,    \* the call in progress
  faults   \* faults so far

controlFile == <<grant, pack, record, undo>>
agentVars == <<controlFile, told, mcp, call, faults>>
vars == <<hostVars, agentVars>>

NoCall == [at |-> "idle"]
NoRecord == [known |-> FALSE]
NoPack == [state |-> "none"]

IsCapture(c) == c.kind \in {"event", "revision"}

Init ==
  /\ HostInit
  /\ grant = [g \in Grants |-> "none"]
  /\ pack = NoPack
  /\ record = [k \in Keys |-> NoRecord]
  /\ undo = [k \in Keys |-> "none"]
  /\ told = [k \in Keys |-> {}]
  /\ mcp = "up"
  /\ call = NoCall
  /\ faults = 0

\* The server is free and its host is there: a call is served.
Free == mcp = "up" /\ call = NoCall

-----------------------------------------------------------------------------
(* Pairing and grants.                                                     *)

SetGrant(g, from, to) ==
  /\ Free
  /\ grant[g] \in from
  /\ grant' = [grant EXCEPT ![g] = to]
  /\ UNCHANGED <<hostVars, record, undo, told, mcp, call, faults>>

BeginPair(g) == SetGrant(g, {"none"}, "pending") /\ UNCHANGED pack

\* A challenge is used once; it lapses after five minutes.
ApprovePair(g) == SetGrant(g, {"pending"}, "active") /\ UNCHANGED pack
ChallengeExpires(g) == g \in Lapsing /\ SetGrant(g, {"pending"}, "lapsed") /\ UNCHANGED pack

\* The packs of a grant end with it.
PackEnds(g) ==
  pack' = IF pack # NoPack /\ pack.grant = g THEN [pack EXCEPT !.state = "expired"] ELSE pack

RevokePair(g) == SetGrant(g, {"active", "expired"}, "revoked") /\ PackEnds(g)

\* _expire_if_needed, at the first call that finds the grant past its end.
GrantExpires(g) == g \in Lapsing /\ SetGrant(g, {"active"}, "expired") /\ PackEnds(g)

-----------------------------------------------------------------------------
(* Calls.                                                                  *)

\* The server can reach its host.  Without it every call is refused as
\* LOCAL_NODE_UNAVAILABLE, and changes nothing.
Ready == Free /\ host = "up" /\ work = NoWork

\* A request to the host, and the call that waits for its answer.
Send(request, next) == work' = request /\ call' = next

\* get_context: the events the host shows, packed for the grant.  recall shows the
\* same and keeps nothing.
GetContext(g) ==
  /\ Ready
  /\ grant[g] = "active"
  /\ pack' = [state |-> "ready", grant |-> g,
              items |-> IF g \in ReadGrants THEN Visible ELSE {}]
  /\ UNCHANGED <<hostVars, grant, record, undo, told, mcp, call, faults>>

Told(k, object) == told' = [told EXCEPT ![k] = @ \cup {object}]

\* The record of the call is found: it is answered again if it says the same.
Replay(c) ==
  /\ Free
  /\ grant[c.grant] = "active"
  /\ record[c.key] # NoRecord
  /\ record[c.key].call = c
  /\ Told(c.key, record[c.key].object)
  /\ UNCHANGED <<hostVars, controlFile, mcp, call, faults>>

\* An agent names events it was told of.
Knows(e) == e = 0 \/ \E k \in Keys : \E o \in told[k] : o.type = "event" /\ o.id = e

StoreRequest(c) ==
  CASE c.kind = "event" -> Request("create_event", c.key, c.text, 0, 0, NoObject)
    [] c.kind \in {"revision", "correct"} ->
         Request("append_revision", c.key, c.text, c.target, 0, NoObject)
    [] c.kind = "block" -> Request("set_policy_blocked", c.key, c.text, c.target, 0, NoObject)

Delivery(c, object) == Request("enqueue_delivery", c.key, c.text, 0, 0, object)

\* A feedback record gets an id of its own at every attempt; it matters only
\* whether a job has it.
Feedback == Object("feedback", Len(job) + 1, 0)

InProgress(c, at, result) == [at |-> at, call |-> c, object |-> result]

\* Nothing is recorded under the key of the call yet.
IsNew(c) == grant[c.grant] = "active" /\ record[c.key] = NoRecord /\ Knows(c.target)

\* capture and feedback, up to their request to the store.
Begin(c) ==
  /\ Ready
  /\ IsNew(c) /\ c.kind # "note"
  /\ Send(StoreRequest(c), InProgress(c, "store", Feedback))
  /\ UNCHANGED <<coreVars, controlVars, host, controlFile, told, mcp, faults>>

\* feedback that asks nothing of the store but its delivery.
BeginNote(c) ==
  /\ Ready
  /\ IsNew(c) /\ c.kind = "note"
  /\ Send(Delivery(c, Feedback), InProgress(c, "delivery", Feedback))
  /\ UNCHANGED <<coreVars, controlVars, host, controlFile, told, mcp, faults>>

\* The host has answered the request of the call.
Answered(at) == mcp = "up" /\ call # NoCall /\ call.at = at /\ work.at = "reply"

Listen == work' = NoWork

NeedsDelivery(c) == c.offline

\* What the call created: a feedback call without a revision, its record.
Result(c) == IF c.kind \in {"block", "note"} THEN call.object ELSE work.object

\* What the sync job delivers: a feedback call delivers its own record.
Delivered(c) == IF IsCapture(c) THEN work.object ELSE call.object

\* The end of a call: one save writes its record and its undo token, and then the
\* agent is answered, unless the server stops first.
Finish(c, object) ==
  /\ record' = [record EXCEPT ![c.key] = [call |-> c, object |-> object]]
  /\ undo' = [undo EXCEPT ![c.key] = IF IsCapture(c) THEN "open" ELSE @]
  /\ \/ Told(c.key, object) /\ UNCHANGED <<mcp, faults>>
     \/ faults < MaxFaults /\ faults' = faults + 1 /\ mcp' = "down" /\ UNCHANGED told
  /\ call' = NoCall
  /\ UNCHANGED <<grant, pack>>

\* The store has done its part of a capture or a feedback call.
Stored ==
  LET c == call.call
  IN  /\ Answered("store") /\ work.code = "ok"
      /\ \/ /\ ~NeedsDelivery(c)
            /\ Listen
            /\ Finish(c, Result(c))
         \/ /\ NeedsDelivery(c)
            /\ Send(Delivery(c, Delivered(c)), InProgress(c, "delivery", Result(c)))
            /\ UNCHANGED <<controlFile, told, mcp, faults>>
      /\ UNCHANGED <<coreVars, controlVars, host>>

\* The delivery is queued.
Queued ==
  /\ Answered("delivery") /\ work.code = "ok"
  /\ Listen
  /\ Finish(call.call, call.object)
  /\ UNCHANGED <<coreVars, controlVars, host>>

\* The host has refused: the agent is given the error and nothing is recorded.
Refused ==
  /\ mcp = "up" /\ call # NoCall
  /\ work.at = "reply" /\ work.code # "ok"
  /\ Listen
  /\ call' = NoCall
  /\ UNCHANGED <<coreVars, controlVars, host, controlFile, told, mcp, faults>>

-----------------------------------------------------------------------------
(* Undo.                                                                   *)

\* _undo_capture, with the token of a capture the agent was told of.
BeginUndo(c) ==
  LET made == record[c.key].object
  IN  /\ Ready
      /\ IsCapture(c) /\ record[c.key] # NoRecord /\ record[c.key].call = c
      /\ told[c.key] # {}
      /\ grant[c.grant] = "active"
      /\ undo[c.key] = "open"
      /\ Send(Request(IF c.kind = "event" THEN "undo_event" ELSE "undo_revision",
                      c.key, c.text, made.id, made.revision, NoObject),
              InProgress(c, "undo", made))
      /\ UNCHANGED <<coreVars, controlVars, host, controlFile, told, mcp, faults>>

Undone ==
  /\ Answered("undo") /\ work.code = "ok"
  /\ Listen
  /\ undo' = [undo EXCEPT ![call.call.key] = "used"]
  /\ call' = NoCall
  /\ UNCHANGED <<coreVars, controlVars, host, grant, pack, record, told, mcp, faults>>

\* Ten minutes have passed.
UndoExpires(c) ==
  /\ Free
  /\ c.grant \in Lapsing /\ undo[c.key] = "open"
  /\ undo' = [undo EXCEPT ![c.key] = "lapsed"]
  /\ UNCHANGED <<hostVars, grant, pack, record, told, mcp, call, faults>>

-----------------------------------------------------------------------------
(* Faults.                                                                 *)

Fault == faults < MaxFaults /\ faults' = faults + 1

\* The host stops, or the server gives up waiting for it and terminates it: the
\* call in progress ends with an error that may be retried, and a late line is
\* never read.
HostStops ==
  /\ Fault
  /\ host = "up" /\ work # NoWork
  /\ host' = "down" /\ work' = NoWork /\ call' = NoCall
  /\ UNCHANGED <<coreVars, controlVars, controlFile, told, mcp>>

\* The server stops in the middle of a call.  The host goes on with the request
\* it is working on.
McpStops ==
  /\ Fault
  /\ mcp = "up" /\ call # NoCall
  /\ mcp' = "down" /\ call' = NoCall
  /\ UNCHANGED <<hostVars, controlFile, told>>

\* A host without a server ends when it wants to answer, or to read more.
OrphanEnds ==
  /\ mcp = "down" /\ host = "up" /\ work.at \in {"idle", "reply"}
  /\ host' = "down" /\ work' = NoWork
  /\ UNCHANGED <<coreVars, controlVars, agentVars>>

\* The server is started, or restarted because its host is gone; it starts a host.
Restart ==
  /\ host = "down"
  /\ host' = "up" /\ mcp' = "up" /\ call' = NoCall
  /\ UNCHANGED <<coreVars, controlVars, work, controlFile, told, faults>>

Busy == Fault /\ CoreBusy /\ UNCHANGED <<controlFile, told, mcp, call>>

HostWorks == HostStep /\ UNCHANGED agentVars

Receives == Stored \/ Queued \/ Undone \/ Refused

Next ==
  \/ \E g \in Grants : \/ BeginPair(g) \/ ApprovePair(g) \/ ChallengeExpires(g)
                       \/ RevokePair(g) \/ GrantExpires(g) \/ GetContext(g)
  \/ \E c \in Calls : Begin(c) \/ BeginNote(c) \/ Replay(c) \/ BeginUndo(c) \/ UndoExpires(c)
  \/ HostWorks \/ Receives
  \/ HostStops \/ McpStops \/ OrphanEnds \/ Restart \/ Busy

Spec == Init /\ [][Next]_vars

\* The processes go on, what has stopped is started again, and agents repeat
\* their captures until they are answered.  Nothing is assumed of grants, of the
\* time, or of who else calls.
Fairness ==
  /\ WF_vars(HostWorks) /\ WF_vars(Receives) /\ WF_vars(OrphanEnds) /\ WF_vars(Restart)
  /\ \A c \in Calls : IsCapture(c) => SF_vars(Begin(c))

FairSpec == Spec /\ Fairness

-----------------------------------------------------------------------------
(* Properties.                                                             *)

\* Every variable has its type.
TypeOK ==
  /\ source \in Seq({"active", "deleted"})
  /\ \A e \in DOMAIN event : \A r \in DOMAIN event[e] :
       event[e][r] \in [state : {"active", "deleted"}, rests : DOMAIN source,
                        by : Commands \X Keys]
  /\ \A k \in Keys : slot[<<"source", k>>] \in {NoSlot} \cup
       [payload : {"create_event", "append_revision"}, result : DOMAIN source]
  /\ \A o \in StoreOps \X Keys :
       operation[o].state \in {"none", "prepared", "retry_pending", "failed", "core_committed"}
  /\ queue \in Seq(DOMAIN job) /\ blocked \subseteq DOMAIN event
  /\ grant \in [Grants -> {"none", "pending", "lapsed", "active", "revoked", "expired"}]
  /\ undo \in [Keys -> {"none", "open", "used", "lapsed"}]
  /\ mcp \in {"up", "down"} /\ host \in {"up", "down"} /\ faults \in 0..MaxFaults
  /\ mcp = "down" => call = NoCall
  /\ host = "down" => work = NoWork

\* The call that was answered under a key.
Settles(c) == record[c.key] # NoRecord /\ record[c.key].call = c

OpOf(c) == IF c.kind = "event" THEN "create_event" ELSE "append_revision"

\* What the server has recorded, the host has recorded as committed, with the same
\* object; and its delivery, when it is offline, is queued.
RecordedIsCommitted ==
  \A c \in Calls : Settles(c) =>
    /\ c.kind \in {"event", "revision", "correct"} =>
         /\ operation[<<OpOf(c), c.key>>].state = "core_committed"
         /\ operation[<<OpOf(c), c.key>>].object = record[c.key].object
    /\ c.offline => \E n \in DOMAIN queue : slot[<<"enqueue", c.key>>].result = queue[n]
    /\ c.kind = "block" => c.target \in blocked \/ ~Active(c.target)

\* What the host has recorded as committed, the Event Core has done.
CommittedIsDone ==
  \A k \in Keys : \A o \in StoreOps :
    LET this == operation[<<o, k>>]
        did(command) == \E e \in DOMAIN event : \E r \in DOMAIN event[e] :
                          event[e][r].by = <<command, k>>
    IN  this.state = "core_committed" =>
          CASE o = "create_event" -> event[this.object.id][1].by = <<"accept", k>>
            [] o = "append_revision" ->
                 event[this.object.id][this.object.revision].by = <<"append", k>>
            [] o = "undo_event" -> did("delete") /\ source[this.source] = "deleted"
            [] o = "undo_revision" -> did("undo")

\* An undo that was answered has taken place and lasts: the event is deleted with
\* its source, whatever revisions were made of it, before or since.
UndoneIsGone ==
  \A c \in Calls :
    (Settles(c) /\ c.kind = "event" /\ undo[c.key] = "used") =>
      LET e == record[c.key].object.id
      IN  ~Active(e) /\ source[event[e][1].rests] = "deleted"

\* Whatever stops where, the three stores tell the same story: each says of a call
\* at most what the one below it has made durable, and what it took back is gone.
StoresAgree == RecordedIsCommitted /\ CommittedIsDone /\ UndoneIsGone

\* However often it is repeated, a call has one effect: one event or revision, one
\* entry in the queue, one answer.
OneEffectPerKey ==
  /\ \A e, f \in DOMAIN event : \A r \in DOMAIN event[e], s \in DOMAIN event[f] :
       event[e][r].by = event[f][s].by /\ event[e][r].by[1] \in {"accept", "append", "undo"}
         => e = f /\ r = s
  /\ \A i, j \in DOMAIN job : job[i] = job[j] => i = j
  /\ \A i, j \in DOMAIN queue : queue[i] = queue[j] => i = j
  /\ \A k \in Keys : Cardinality(told[k]) <= 1

\* What was undone or reported as a violation of policy.
Hidden == {c.target : c \in {d \in Calls : Settles(d) /\ d.kind = "block"}} \cup
          {record[c.key].object.id :
             c \in {d \in Calls : Settles(d) /\ d.kind = "event" /\ undo[d.key] = "used"}}

\* A ContextPack is made for a grant in force and shows nothing that was undone or
\* blocked before; it ends with its grant.
ContextIsRightful ==
  [][pack' # NoPack /\ pack'.state = "ready" =>
       /\ grant'[pack'.grant] = "active"
       /\ pack' # pack => pack'.items \cap Hidden = {}]_vars

\* The call ends without an effect of its own: the event is not there to be
\* revised, another text has the key, the grant is not in force, or its operation
\* has failed for good.
Ends(c) ==
  \/ record[c.key] # NoRecord
  \/ grant[c.grant] # "active"
  \/ c.kind = "revision" /\ ~Active(c.target)
  \/ LET this == operation[<<OpOf(c), c.key>>]
     IN  this # NoOperation /\ (this.state = "failed" \/ this.text # c.text)

\* A capture that its agent repeats is recorded in the end, or has ended otherwise:
\* no stop, at whatever step, leaves it half done for ever.
CapturesSettle ==
  \A c \in Calls : IsCapture(c) =>
    (call # NoCall /\ call.call = c) ~> Ends(c)

-----------------------------------------------------------------------------
(* What agents are promised.                                               *)

Slots == {"event", "revision"} \X Keys

\* What the captures of a slot have made: the event, or the revision, with its key.
MadeUnder(s) ==
  IF s[1] = "event"
  THEN {Object("event", e, 1) : e \in {f \in DOMAIN event : event[f][1].by = <<"accept", s[2]>>}}
  ELSE UNION {{Object("revision", e, r) : r \in {n \in DOMAIN event[e] :
                                                 event[e][n].by = <<"append", s[2]>>}}
                : e \in DOMAIN event}

AnsweredUnder(s) == {o \in told[s[2]] : o.type = s[1]}

\* What was taken back: an event with its source, a revision by the one after it.
GoneEvents ==
  {Object("event", e, 1) : e \in {f \in DOMAIN event : Last(event[f]).state = "deleted"}}
GoneRevisions ==
  UNION {{Object("revision", e, r) : r \in {n \in DOMAIN event[e] :
            n + 1 \in DOMAIN event[e] /\ event[e][n + 1].by[1] = "undo"}}
           : e \in DOMAIN event}

Promise == INSTANCE CapturePromise
  WITH made <- [s \in Slots |-> MadeUnder(s)],
       answered <- [s \in Slots |-> AnsweredUnder(s)],
       gone <- GoneEvents \cup GoneRevisions

\* The server, its host and their three stores keep what a store promises an agent:
\* stops, retries and repeated calls do not show, a capture has one effect, an answer
\* is of that, and nothing is taken back that its agent was not told of.
ImplementsPromise == Promise!PromiseSpec

=============================================================================
