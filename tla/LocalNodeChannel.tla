-------------------------- MODULE LocalNodeChannel --------------------------
(***************************************************************************)
(* An MCP server whose events live on a phone: AndroidLocalNodeStore over  *)
(* TlsAndroidLocalNodeChannel on the host, a TLS connection, and on the    *)
(* phone AgentLocalNodeRuntime with one SingleConnectionTlsLocalNode-      *)
(* Listener after the other in front of the local database.                *)
(*                                                                         *)
(* On the host a capture waits at most five seconds for the thread that    *)
(* talks to the phone.  A failure poisons the store, and only a restart of *)
(* the server connects again.  The phone serves one connection at a time   *)
(* and stores an event together with the record of its idempotency slot.   *)
(* TLS keeps lines in order and whole; a connection may break, silently or *)
(* not, and either process may stop at any step.                           *)
(***************************************************************************)
EXTENDS Naturals, FiniteSets, Sequences, SequencesExt

CONSTANTS
  Calls,          \* captures of agents: see Call
  Keys,           \* idempotency keys
  Texts,          \* what agents capture
  MaxAttempts,    \* bound: captures that reach the store
  MaxConnections, \* bound: connections the host opens
  MaxFaults       \* bound: breaks, stops of the phone, transactions that fail

Call == [key : Keys, text : Texts]

ASSUME CallsAssumption == Calls \subseteq Call
ASSUME BoundsAssumption == MaxAttempts \in Nat /\ MaxConnections \in Nat /\ MaxFaults \in Nat

VARIABLES
  host,     \* the server process: "down", "connecting" or "up"
  store,    \* "open" or "poisoned"
  channel,  \* the session of the channel, its last sequence number, and whether it is open
  worker,   \* the thread that exchanges, and the request it was given
  call,     \* the request whose capture is in progress
  attempts, \* requests so far; a request is known by its number
  record,   \* idempotency records of the server
  told,     \* what agents were answered, per key
  conn,     \* connections: lines on their way up and down, and which ends are open
  phone,    \* where the serve loop of the phone is
  pairing,  \* "active", "revoked" or "expired"
  event,    \* events of the phone
  slot,     \* agent_idempotency of the phone
  faults    \* faults so far

hostVars == <<host, store, channel, worker, call, attempts, record, told>>
phoneVars == <<phone, pairing, event, slot>>
vars == <<hostVars, phoneVars, conn, faults>>

NoCall == [id |-> 0]
NoRecord == [known |-> FALSE]
NoSlot == [known |-> FALSE]
Idle == [at |-> "idle"]
Closed == [open |-> FALSE, conn |-> 0, sequence |-> 0]

\* The serve loop at a place where it has no connection.
At(place, listener) ==
  [at |-> place, listener |-> listener, conn |-> 0, expected |-> 0, frame |-> "none",
   code |-> "none", event |-> 0]

Init ==
  /\ host = "down" /\ store = "poisoned" /\ channel = Closed /\ worker = Idle
  /\ call = NoCall /\ attempts = 0
  /\ record = [k \in Keys |-> NoRecord]
  /\ told = [k \in Keys |-> {}]
  /\ conn = <<>>
  /\ phone = At("loop", "none") /\ pairing = "active"
  /\ event = <<>>
  /\ slot = [k \in Keys |-> NoSlot]
  /\ faults = 0

Fault == faults < MaxFaults /\ faults' = faults + 1

-----------------------------------------------------------------------------
(* Lines.                                                                  *)

\* A line that is written to a connection that has broken is lost.
Written(i, way, line) ==
  conn' = [conn EXCEPT ![i][way] = IF conn[i].broken THEN @ ELSE Append(@, line)]

\* The proofs of a hello are those of the pairing secret, which a listener that is
\* closed has cleared.
ClientHello == [type |-> "client_hello"]
ServerHello(i) == [type |-> "server_hello", session |-> i]
HelloFits(line, listener) == line = ClientHello /\ listener = "open"
ServerHelloFits(line, i) == line = ServerHello(i)

RequestFrame(request) ==
  [type |-> "request", session |-> channel.conn, sequence |-> channel.sequence + 1,
   request |-> request]
RequestFits(frame) ==
  /\ frame.type = "request"
  /\ frame.session = phone.conn /\ frame.sequence = phone.expected

ResponseFrame(frame, code, e) ==
  [type |-> "response", session |-> frame.session, sequence |-> frame.sequence,
   id |-> frame.request.id, code |-> code, event |-> e]
AnswerFits(frame) == frame.id = worker.request.id
ResponseFits(frame) ==
  /\ frame.type = "response"
  /\ frame.session = channel.conn /\ frame.sequence = channel.sequence
  /\ AnswerFits(frame)

-----------------------------------------------------------------------------
(* The host connects.                                                      *)

\* The server socket of the phone is open, with room for one who waits.
Listening ==
  \/ phone.at = "accept"
  \/ phone.at \in {"serve", "handle", "reply"} /\ phone.listener = "open"

\* The server is started: it opens a connection and says hello.  Where nobody listens
\* it exits at once.
Connect ==
  /\ host = "down" /\ Len(conn) < MaxConnections
  /\ Listening
  /\ host' = "connecting"
  /\ conn' = Append(conn, [up |-> <<ClientHello>>, down |-> <<>>, host |-> TRUE,
                           phone |-> TRUE, broken |-> FALSE, late |-> FALSE])
  /\ UNCHANGED <<store, channel, worker, call, attempts, record, told, phoneVars, faults>>

HostEnds(i) == conn' = [conn EXCEPT ![i].host = FALSE]

\* The server hello has come: AndroidLocalNodeStore is built over the channel.
Connected ==
  LET i == Len(conn)
  IN  /\ host = "connecting" /\ conn[i].down # <<>>
      /\ ServerHelloFits(Head(conn[i].down), i)
      /\ host' = "up" /\ store' = "open"
      /\ channel' = [open |-> TRUE, conn |-> i, sequence |-> 0]
      /\ conn' = [conn EXCEPT ![i].down = Tail(@)]
      /\ UNCHANGED <<worker, call, attempts, record, told, phoneVars, faults>>

\* No hello in time, or the end of the connection: the server exits.
ConnectFails ==
  /\ host = "connecting"
  /\ host' = "down"
  /\ HostEnds(Len(conn))
  /\ UNCHANGED <<store, channel, worker, call, attempts, record, told, phoneVars, faults>>

-----------------------------------------------------------------------------
(* A capture on the host.                                                  *)

Told(k, code, text, e) ==
  told' = [told EXCEPT ![k] = @ \cup {[code |-> code, text |-> text, event |-> e]}]

\* The server has answered the call before, and does so again.
Replay(c) ==
  /\ host = "up" /\ call = NoCall
  /\ record[c.key] # NoRecord /\ record[c.key].text = c.text
  /\ Told(c.key, "ok", c.text, record[c.key].event)
  /\ UNCHANGED <<host, store, channel, worker, call, attempts, record, phoneVars, conn, faults>>

\* create_event: the attempt becomes a request of its own.
CreateEvent(c) == [id |-> attempts + 1, key |-> c.key, text |-> c.text]

\* A new call becomes a request, and a thread is given it.  A poisoned store
\* refuses it as LOCAL_NODE_UNAVAILABLE.
Capture(c) ==
  /\ host = "up" /\ call = NoCall
  /\ record[c.key] = NoRecord
  /\ store = "open" /\ attempts < MaxAttempts
  /\ attempts' = attempts + 1
  /\ call' = CreateEvent(c)
  /\ worker' = [at |-> "start", request |-> call', abandoned |-> FALSE]
  /\ UNCHANGED <<host, store, channel, record, told, phoneVars, conn, faults>>

\* The request may have been cleared by its caller, who has given up.
Cleared == worker.abandoned

\* exchange, up to its wait.
WorkerSends ==
  /\ worker.at = "start" /\ channel.open
  /\ channel' = [channel EXCEPT !.sequence = @ + 1]
  /\ Written(channel.conn, "up", RequestFrame(worker.request))
  /\ worker' = [worker EXCEPT !.at = "wait"]
  /\ UNCHANGED <<host, store, call, attempts, record, told, phoneVars, faults>>

\* Mutant of ChannelEnds: the channel does not know that its socket is closed.
SocketEnds == UNCHANGED channel /\ HostEnds(channel.conn)

\* The channel is closed, with its socket.
ChannelEnds == channel' = [channel EXCEPT !.open = FALSE] /\ HostEnds(channel.conn)

\* _poison_channel: the channel is closed by a thread of its own.
Poison == store' = "poisoned"

\* The capture ends without a result.
GiveUp == call' = NoCall

\* exchange fails: its wait is over, the phone has closed its end, or the request
\* was cleared by a caller that has given up.
WorkerFails ==
  /\ \/ worker.at = "wait"
     \/ worker.at = "start" /\ (Cleared \/ ~channel.open)
  /\ ChannelEnds
  /\ worker' = Idle
  /\ IF worker.abandoned THEN UNCHANGED <<store, call>> ELSE Poison /\ GiveUp
  /\ UNCHANGED <<host, attempts, record, told, phoneVars, faults>>

\* The five seconds of _exchange_bounded: the thread is left to itself.
DeadlineExceeded ==
  /\ call # NoCall
  /\ worker' = [worker EXCEPT !.abandoned = TRUE]
  /\ Poison /\ GiveUp
  /\ UNCHANGED <<host, channel, attempts, record, told, phoneVars, conn, faults>>

\* The thread that closes a poisoned channel has to wait for the one that exchanges.
ChannelCloses ==
  /\ host = "up" /\ store = "poisoned" /\ channel.open /\ worker.at # "wait"
  /\ ChannelEnds
  /\ UNCHANGED <<host, store, worker, call, attempts, record, told, phoneVars, faults>>

\* One save writes the record of the call, and the agent is answered, if it is still
\* there.
Finish(frame) ==
  /\ record' = [record EXCEPT ![call.key] = [text |-> call.text, event |-> frame.event]]
  /\ Told(call.key, "ok", call.text, frame.event) \/ UNCHANGED told
  /\ UNCHANGED store

\* What the answer of the phone means for the capture.
Outcome(frame) ==
  /\ GiveUp
  /\ \/ frame.code = "ok" /\ Finish(frame)
     \/ /\ frame.code \in {"conflict", "expired"}
        /\ Told(call.key, frame.code, call.text, frame.event)
        /\ UNCHANGED <<record, store>>
     \/ frame.code = "unavailable" /\ Poison /\ UNCHANGED <<record, told>>

\* A line has come.  One that nobody waits for any more is dropped.
WorkerReceives ==
  LET i == channel.conn
      frame == Head(conn[i].down)
  IN  /\ worker.at = "wait" /\ conn[i].down # <<>>
      /\ ResponseFits(frame)
      /\ conn' = [conn EXCEPT ![i].down = Tail(@)]
      /\ worker' = Idle
      /\ IF worker.abandoned THEN UNCHANGED <<call, record, told, store>> ELSE Outcome(frame)
      /\ UNCHANGED <<host, channel, attempts, phoneVars, faults>>

\* The server stops.  What it wrote is still on its way.
HostStops ==
  /\ host = "up"
  /\ host' = "down" /\ store' = "poisoned"
  /\ channel' = Closed /\ worker' = Idle /\ GiveUp
  /\ HostEnds(channel.conn)
  /\ UNCHANGED <<attempts, record, told, phoneVars, faults>>

-----------------------------------------------------------------------------
(* The phone.                                                              *)

\* Mutant of MayServe: the loop goes on after it was closed.
MayServeOn == pairing # "expired"

MayServe == pairing = "active"

\* serveLoop makes a listener ...
BuildListener ==
  /\ phone.at = "loop"
  /\ phone' = IF MayServe THEN At("built", "open") ELSE At("stopped", "none")
  /\ UNCHANGED <<hostVars, pairing, event, slot, conn, faults>>

\* ... lets close() know of it ...
PublishListener ==
  /\ phone.at = "built"
  /\ phone' = [phone EXCEPT !.at = "published"]
  /\ UNCHANGED <<hostVars, pairing, event, slot, conn, faults>>

\* ... and has it serve one connection, unless it is closed.
UseListener ==
  /\ phone.at = "published"
  /\ phone' = IF phone.listener = "open" THEN [phone EXCEPT !.at = "bind"] ELSE At("loop", "none")
  /\ UNCHANGED <<hostVars, pairing, event, slot, conn, faults>>

Bind ==
  /\ phone.at = "bind"
  /\ phone' = [phone EXCEPT !.at = "accept"]
  /\ UNCHANGED <<hostVars, pairing, event, slot, conn, faults>>

\* The listener closes its connection and its server socket, and so resets the
\* connections that wait to be accepted.
PhoneEnds == conn' = [i \in DOMAIN conn |-> [conn[i] EXCEPT !.phone = FALSE]]

\* A connection is accepted, and its hello answered if it proves the pairing.
Accept(i) ==
  /\ phone.at = "accept"
  /\ conn[i].phone /\ conn[i].up # <<>>
  /\ IF HelloFits(Head(conn[i].up), phone.listener)
     THEN /\ phone' = [phone EXCEPT !.at = "serve", !.conn = i, !.expected = 1]
          /\ conn' = [conn EXCEPT ![i].up = Tail(@), ![i].late = pairing = "revoked",
                                  ![i].down = IF conn[i].broken THEN @
                                              ELSE Append(@, ServerHello(i))]
     ELSE phone' = At("loop", "none") /\ PhoneEnds
  /\ UNCHANGED <<hostVars, pairing, event, slot, faults>>

\* A line is read.
ReadFrame ==
  LET i == phone.conn
      frame == Head(conn[i].up)
  IN  /\ phone.at = "serve" /\ conn[i].up # <<>>
      /\ RequestFits(frame)
      /\ conn' = [conn EXCEPT ![i].up = Tail(@)]
      /\ phone' = [phone EXCEPT !.at = "handle", !.frame = frame]
      /\ UNCHANGED <<hostVars, pairing, event, slot, faults>>

\* Mutant of ReadEnds: a read waits for as long as the connection is there.
ReadEndsAtEnd ==
  LET i == phone.conn
  IN  /\ phone.at = "serve" /\ conn[i].up = <<>>
      /\ ~conn[i].host /\ ~conn[i].broken
      /\ phone' = At("loop", "none")
      /\ PhoneEnds
      /\ UNCHANGED <<hostVars, pairing, event, slot, faults>>

\* The host has closed its end, or five seconds have passed without a line, the host
\* being silent or out of reach, or the line is not what has to come.
ReadEnds ==
  LET i == phone.conn
  IN  /\ phone.at = "serve"
      /\ conn[i].up # <<>> => ~RequestFits(Head(conn[i].up))
      /\ phone' = At("loop", "none")
      /\ PhoneEnds
      /\ UNCHANGED <<hostVars, pairing, event, slot, faults>>

\* The payload holds the time of the attempt, and no two attempts have the same.
Digest(request) == <<request.text, request.id>>

Replied(code, e) ==
  phone' = [phone EXCEPT !.at = "reply", !.code = code, !.event = e]

\* Mutant of Applies: a record is found only by the payload it was made for.
AppliesTo(request) ==
  slot[request.key] # NoSlot => slot[request.key].digest # Digest(request)

\* No request has used the slot.
Applies(request) == slot[request.key] = NoSlot

\* Mutant of Rollback: the failure of the transaction goes unnoticed.
RollbackUnseen(request) == Replied("ok", Len(event) + 1)

\* The transaction failed and left nothing.
Rollback(request) == Replied("unavailable", 0)

\* The endpoint, and resolveAgentIdempotency: in one transaction the event and the
\* record of its slot, or what the record says.
Handle ==
  LET request == phone.frame.request
      prior == slot[request.key]
      e == Len(event) + 1
  IN  /\ phone.at = "handle"
      /\ \/ /\ pairing = "expired"
            /\ Replied("expired", 0)
            /\ UNCHANGED <<event, slot, faults>>
         \/ /\ pairing # "expired" /\ ~Applies(request)
            /\ IF prior.digest = Digest(request) THEN Replied("ok", prior.event)
               ELSE Replied("conflict", 0)
            /\ UNCHANGED <<event, slot, faults>>
         \/ /\ pairing # "expired" /\ Applies(request)
            /\ event' = Append(event, [key |-> request.key, text |-> request.text])
            /\ slot' = [slot EXCEPT ![request.key] = [digest |-> Digest(request), event |-> e]]
            /\ Replied("ok", e)
            /\ UNCHANGED faults
         \/ /\ pairing # "expired" /\ Applies(request)
            /\ Fault
            /\ Rollback(request)
            /\ UNCHANGED <<event, slot>>
      /\ UNCHANGED <<hostVars, pairing, conn>>

\* The answer is written, and the next line has the next number; to an end that is
\* closed it cannot be written.
WriteFrame ==
  LET i == phone.conn
  IN  /\ phone.at = "reply"
      /\ \/ /\ conn[i].phone
            /\ Written(i, "down", ResponseFrame(phone.frame, phone.code, phone.event))
            /\ phone' = [At("serve", phone.listener) EXCEPT !.conn = i,
                                                            !.expected = phone.expected + 1]
         \/ /\ ~conn[i].phone \/ ~conn[i].host
            /\ phone' = At("loop", "none")
            /\ PhoneEnds
      /\ UNCHANGED <<hostVars, pairing, event, slot, faults>>

\* AgentLocalNodeRuntime.close, as its user revokes the pairing: the listener it
\* knows of is closed, with the sockets that has.  A request that is being handled
\* is handled to its end.
Revoke ==
  /\ pairing = "active" /\ phone.at # "down"
  /\ pairing' = "revoked"
  /\ phone' = CASE phone.at \in {"accept", "serve"} -> At("loop", "none")
                [] phone.at \in {"published", "bind", "handle", "reply"} ->
                     [phone EXCEPT !.listener = "closed"]
                [] OTHER -> phone
  /\ PhoneEnds
  /\ UNCHANGED <<hostVars, event, slot, faults>>

Expire ==
  /\ pairing = "active"
  /\ pairing' = "expired"
  /\ UNCHANGED <<hostVars, phone, event, slot, conn, faults>>

-----------------------------------------------------------------------------
(* Faults.                                                                 *)

\* The app stops, or is started again; what it has not committed is gone.
PhoneStops ==
  /\ Fault
  /\ phone.at # "down"
  /\ phone' = At("down", "none")
  /\ PhoneEnds
  /\ UNCHANGED <<hostVars, pairing, event, slot>>

PhoneStarts ==
  /\ phone.at = "down"
  /\ phone' = At("loop", "none")
  /\ UNCHANGED <<hostVars, pairing, event, slot, conn, faults>>

\* The network is gone: nothing arrives any more, not even the end.
Break(i) ==
  /\ Fault
  /\ ~conn[i].broken /\ (conn[i].host \/ conn[i].phone)
  /\ conn' = [conn EXCEPT ![i].broken = TRUE, ![i].up = <<>>, ![i].down = <<>>]
  /\ UNCHANGED <<hostVars, phoneVars>>

HostStep ==
  \/ Connect \/ Connected \/ ConnectFails
  \/ WorkerSends \/ WorkerFails \/ WorkerReceives
  \/ DeadlineExceeded \/ ChannelCloses \/ HostStops

PhoneStep ==
  \/ BuildListener \/ PublishListener \/ UseListener \/ Bind
  \/ \E i \in DOMAIN conn : Accept(i)
  \/ ReadFrame \/ ReadEnds \/ Handle \/ WriteFrame \/ PhoneStarts

Next ==
  \/ \E c \in Calls : Capture(c) \/ Replay(c)
  \/ HostStep \/ PhoneStep
  \/ Revoke \/ Expire \/ PhoneStops
  \/ \E i \in DOMAIN conn : Break(i)

Spec == Init /\ [][Next]_vars

\* The threads of both processes go on, and timers run out.
FairSpec == Spec /\ WF_vars(PhoneStep) /\ WF_vars(DeadlineExceeded)
                 /\ WF_vars(WorkerSends \/ WorkerFails \/ WorkerReceives)

-----------------------------------------------------------------------------
(* Properties.                                                             *)

\* Every variable has its type.
TypeOK ==
  /\ host \in {"down", "connecting", "up"} /\ store \in {"open", "poisoned"}
  /\ host # "up" => ~channel.open /\ worker = Idle /\ call = NoCall
  /\ call # NoCall => worker.at # "idle" /\ worker.request = call
  /\ channel.open => channel.conn \in DOMAIN conn /\ conn[channel.conn].host
  /\ phone.at \in {"down", "loop", "built", "published", "bind", "accept", "serve", "handle",
                   "reply", "stopped"}
  /\ phone.conn \in 0..Len(conn)
  /\ attempts \in 0..MaxAttempts /\ faults \in 0..MaxFaults
  /\ \A k \in Keys : slot[k] # NoSlot => slot[k].event \in DOMAIN event

\* An event and the record of its slot are stored together: a slot has one event,
\* however often the call was sent, and however the connections of its attempts
\* ended.
OneEventPerSlot ==
  /\ \A e \in DOMAIN event : slot[event[e].key] # NoSlot /\ slot[event[e].key].event = e
  /\ \A k \in Keys : slot[k] # NoSlot => event[slot[k].event].key = k

Durable(k, text, e) == slot[k] # NoSlot /\ slot[k].event = e /\ event[e].text = text

\* Whatever the server has recorded or told, the phone has made durable with that
\* text; and who is told of a conflict has not lost what he sent before.
ToldIsDurable ==
  /\ \A k \in Keys : record[k] # NoRecord => Durable(k, record[k].text, record[k].event)
  /\ \A k \in Keys : \A answer \in told[k] :
       /\ answer.code = "ok" => Durable(k, answer.text, answer.event)
       /\ answer.code = "conflict" => slot[k] # NoSlot

\* After its pairing is revoked the phone serves one connection at the most: that of
\* a listener which was made but not known when close() looked for it.
RevokedServesAtMostOne == Cardinality({i \in DOMAIN conn : conn[i].late}) <= 1

\* A connection that its host has left holds the phone only for a while, even if the
\* phone is never told of its end: others can connect.
PhoneLetsGo ==
  \A i \in 1..MaxConnections :
    (i \in DOMAIN conn /\ phone.conn = i /\ ~conn[i].host) ~> phone.conn # i

-----------------------------------------------------------------------------
(* What agents are promised.                                               *)

\* What the captures of a slot have made: the events that bear its key.
MadeUnder(k) == {<<e, event[e].text>> : e \in {f \in DOMAIN event : event[f].key = k}}
AnsweredUnder(k) == {<<a.event, a.text>> : a \in {t \in told[k] : t.code = "ok"}}

Promise == INSTANCE CapturePromise
  WITH Slots <- Keys,
       made <- [k \in Keys |-> MadeUnder(k)],
       answered <- [k \in Keys |-> AnsweredUnder(k)],
       gone <- {}

\* Server, network and phone keep what a store promises an agent: a lost, late or
\* repeated answer, a broken connection or a restart do not show, a slot makes one
\* event, and an answer is of that event and its text.  Nothing is taken back.
ImplementsPromise == Promise!PromiseSpec

=============================================================================
