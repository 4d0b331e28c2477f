--------------------------- MODULE SyncSimulation ---------------------------
(***************************************************************************)
(* Peers of the sync protocol and the harness that carries their           *)
(* envelopes: any envelope may be delivered to any peer, late, early, more *)
(* than once or never, a peer may be offline while it is sent to, and the  *)
(* harness collects the receipts that prove a deletion and judges the      *)
(* outcome.                                                                *)
(***************************************************************************)
EXTENDS SyncPeer

CONSTANTS
  Roaming,   \* peers that may go offline
  MaxQueue   \* bound: envelopes that wait for a peer to come online

ASSUME RoamingAssumption == Roaming \subseteq Peers
ASSUME MaxQueueAssumption == MaxQueue \in Nat

VARIABLES
  offline,   \* peers that are offline
  queue,     \* per peer: envelopes sent while it was offline
  required,  \* per event: the peers the proof of its deletion asks for
  receipts   \* per event: the peers that have acknowledged a tombstone

simVars == <<offline, queue, required, receipts>>
vars == <<peerVars, simVars>>

Init ==
  /\ PeerInit
  /\ offline = {}
  /\ queue = [p \in Peers |-> {}]
  /\ required = [v \in Events |-> {}]
  /\ receipts = [v \in Events |-> {}]

\* _track_tombstone: applied semantics or a duplicate count as an acknowledgement.
Track(p, e) ==
  IF e.content.op # "tombstone" THEN UNCHANGED <<required, receipts>>
  ELSE /\ required' = AddAt(required, e.content.object, e.content.required)
       /\ receipts' = IF ReceiptApplied(p, e) \/ IsDuplicate(p, e)
                      THEN AddAt(receipts, e.content.object, {p}) ELSE receipts

\* A caller emits; the peer receives its own envelope at once, online or not.
LocalEmit(c) ==
  /\ \E key \in KeysOf(c) : LET e == EnvelopeOf(c, key) IN Emit(e) /\ Track(c.peer, e)
  /\ UNCHANGED <<offline, queue>>

\* Delivery to a peer that is online, the first one or another.
Deliver(p, e) ==
  /\ draining = None
  /\ p \notin offline
  /\ Receive(p, e)
  /\ Track(p, e)
  /\ UNCHANGED <<outbox, expired, offline, queue>>

DeliverOffline(p, e) ==
  /\ draining = None
  /\ p \in offline
  /\ Cardinality(queue[p]) < MaxQueue
  /\ queue' = AddAt(queue, p, {e})
  /\ UNCHANGED <<peerVars, offline, required, receipts>>

\* replay_offline delivers what was queued, forwards or in reverse; deliveries
\* that come between two of its own are deliveries the harness could have made
\* before or after it.
Replay(p, e) ==
  /\ draining = None
  /\ p \notin offline /\ e \in queue[p]
  /\ queue' = [queue EXCEPT ![p] = @ \ {e}]
  /\ Receive(p, e)
  /\ Track(p, e)
  /\ UNCHANGED <<outbox, expired, offline>>

SetOnline(p, online) ==
  /\ draining = None
  /\ p \in Roaming
  /\ offline' = IF online THEN offline \ {p} ELSE offline \cup {p}
  /\ UNCHANGED <<peerVars, queue, required, receipts>>

Next ==
  \/ \E c \in Calls : LocalEmit(c)
  \/ \E p \in Peers :
    \/ \E e \in Emitted : Deliver(p, e) \/ DeliverOffline(p, e)
    \/ \E e \in queue[p] : Replay(p, e)
    \/ \E online \in BOOLEAN : SetOnline(p, online)
    \/ \E o \in Peers : \/ Expire(p, o) /\ UNCHANGED simVars
                        \/ Drain(p, o) /\ UNCHANGED simVars
                        \/ EndOfDrain(p, o) /\ UNCHANGED simVars

Spec == Init /\ [][Next]_vars

-----------------------------------------------------------------------------
(* The outcome the harness reports: evaluate.                              *)

Converged == \A p, q \in Peers : Snapshot(p) = Snapshot(q)

ProofIncomplete == \E v \in Events : ~(required[v] \subseteq receipts[v])

InConflict == \E p \in Peers : \E v \in EventIds(p) : Projection(p, v).state = "conflict"

SomePartial == \E p \in Peers : IsPartial(p) \/ p \in offline \/ queue[p] # {}

Outcome ==
  CASE ProofIncomplete -> "proof_incomplete"
    [] ~ProofIncomplete /\ InConflict -> "conflict"
    [] ~ProofIncomplete /\ ~InConflict /\ (~Converged \/ SomePartial) -> "partial"
    [] OTHER -> "convergence"

-----------------------------------------------------------------------------
(* Properties.                                                             *)

\* Every variable has its type.
TypeOK ==
  /\ outbox \in [Peers -> Seq(Envelope)]
  /\ cursor \in [Peers -> [Peers -> Nat]]
  /\ seen \in [Peers -> SUBSET Envelope]
  /\ pending \in [Peers -> SUBSET [env : Envelope, preapplied : BOOLEAN]]
  /\ quarantine \in [Peers -> SUBSET Envelope]
  /\ keys \in [Peers -> SUBSET [key : Keys, device : Peers, content : Content]]
  /\ revisions \in [Peers -> SUBSET Envelope]
  /\ tombstones \in [Peers -> SUBSET Envelope]
  /\ expired \in [Peers -> SUBSET Peers]
  /\ draining \in {None} \cup (Peers \X Peers)
  /\ offline \subseteq Peers
  /\ queue \in [Peers -> SUBSET Envelope]
  /\ required \in [Events -> SUBSET Peers]
  /\ receipts \in [Events -> SUBSET Peers]

\* Sequences of an origin that a peer has recorded and can read.
ReadSequences(p, o) ==
  {e.seq : e \in {d \in seen[p] : d.device = o /\ d.schema \in Supported[p]}}

\* Between two calls the cursor of an origin stands exactly where its gapless
\* prefix ends, whatever order, repetition or quarantine brought: nothing is
\* passed over, and exactly what lies beyond a gap is kept waiting.
CursorIsGaplessPrefix ==
  draining = None => \A p, o \in Peers :
    /\ 1..cursor[p][o] \subseteq ReadSequences(p, o)
    /\ cursor[p][o] + 1 \notin ReadSequences(p, o)
    /\ {w.env.seq : w \in {x \in pending[p] : x.env.device = o}}
         = {n \in ReadSequences(p, o) : n > cursor[p][o]}

\* No envelope is judged twice: one that took effect ahead of its gap is not
\* applied again when the gap closes, nor is one that was delivered again.
JudgedOnce ==
  \A p \in Peers : \A a, b \in audit[p] : a[1] = b[1] => a = b

\* Two peers that have read the same envelopes show the same events, in
\* whatever order they came, unless one of them says why not.
DivergenceIsExplained ==
  draining = None => \A p, q \in Peers :
    seen[p] = seen[q] /\ ~IsPartial(p) /\ ~IsPartial(q) => Snapshot(p) = Snapshot(q)

\* An outcome of convergence means that every deletion some peer was told of is
\* shown as a deletion by every peer.
ConvergenceMeansDeleted ==
  draining = None /\ Outcome = "convergence" =>
    \A p, q \in Peers : \A e \in seen[p] :
      e.content.op = "tombstone" => e.content.object \in Tombstoned(q)

\* The value of a field in the gapless ancestry, by definition: the newest
\* generation that writes the field decides; its values are all kept, and until
\* they agree the field shows what the last generation that agreed has written.
Depth(R) == CHOOSE n \in 0..Cardinality(R) :
              /\ Generation(R, n) = {}
              /\ \A b \in 0..(n - 1) : Generation(R, b) # {}
Ancestry(R) == 0..(Depth(R) - 1)
Newest(R, f, B) == IF B = {} THEN {} ELSE Written(Generation(R, Max(B)), f)

\* The merge of a peer loses no alternative and lets none win by its order.
MergeIsByGeneration ==
  \A p \in Peers : \A v \in EventIds(p) \ Tombstoned(p) :
    LET R == RevisionsOf(p, v)
        m == Merged(R)
    IN  /\ m.revision = Depth(R)
        /\ m.gaps = Bases(R) \ Ancestry(R)
        /\ \A f \in Fields :
             LET written(b) == Written(Generation(R, b), f)
                 agreed == Newest(R, f, {b \in Ancestry(R) : Cardinality(written(b)) = 1})
                 last == Newest(R, f, {b \in Ancestry(R) : written(b) # {}})
             IN  /\ m.fields[f] = agreed
                 /\ m.conflicts[f] = IF Cardinality(last) > 1 THEN last ELSE {}

\* An event a peer shows as deleted stays deleted: no later, earlier or repeated
\* revision brings it back.
DeletedStaysDeleted ==
  [][\A p \in Peers : \A v \in Events :
       (v \in EventIds(p) /\ Projection(p, v).state = "deleted")
         => (v \in EventIds(p)' /\ Projection(p, v)'.state = "deleted")]_vars

\* Once a device is revoked for a peer nothing of it is applied there any more,
\* not even what was buffered before the revocation.
RevokedStaysOut ==
  [][\A p, o \in Peers : o \in revoked[p] =>
       \A e \in (revisions'[p] \cup tombstones'[p]) \ (revisions[p] \cup tombstones[p]) :
         e.device # o]_vars

\* The protocol document: while a peer has not applied the tombstone the proof of
\* the deletion is incomplete.
ProofMeansApplied ==
  draining = None => \A v \in Events :
    required[v] \subseteq receipts[v] => \A p \in required[v] : v \in Tombstoned(p)

=============================================================================
