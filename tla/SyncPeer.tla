------------------------------ MODULE SyncPeer ------------------------------
(***************************************************************************)
(* A peer of the sync protocol: what it does with an envelope it receives  *)
(* (in order, early, twice, from another space, in a schema it does not    *)
(* know, from a device that is revoked or expired), and the projection of  *)
(* the events it has applied.                                              *)
(*                                                                         *)
(* Receiving is synchronous.  The loop that drains what waited behind a    *)
(* gap is cut into one step per envelope, and nothing else happens while   *)
(* "draining" names the peer and the origin it is busy with.               *)
(***************************************************************************)
EXTENDS Integers, FiniteSets, Sequences, SequencesExt

CONSTANTS
  Peers,        \* devices, each of them a peer
  Events,       \* event ids
  Fields,       \* fields a revision may change
  Values,       \* their values
  SharedKeys,   \* idempotency keys that callers choose themselves
  Schemas,      \* schema versions
  Supported,    \* schema versions a peer supports
  Calls,        \* the calls of emit a caller may make
  Strays,       \* envelopes from outside the peers' outboxes
  Lapsing,      \* peer and device pairs whose authorization may expire
  MaxEmit       \* bound: how many envelopes each peer emits

\* One record for all operations.  "object" is the event of a revision or of a
\* tombstone, or the device of a revocation; "changes" a finite set of
\* field-value pairs; "required" the peers a tombstone's proof asks for.
Content == [op : {"append_revision", "tombstone", "grant_revocation", "deletion_ack",
                  "raw_manifest"},
            object : Events \cup Peers, base : Nat,
            changes : {C \in SUBSET (Fields \X Values) : IsFiniteSet(C)},
            required : SUBSET Peers]

Keys == SharedKeys \cup (Peers \X Nat)

Envelope == [device : Peers, seq : Nat \ {0}, foreign : BOOLEAN, schema : Schemas,
             key : Keys, content : Content]

\* A call names the peer, the content, the schema, and a key unless it is left to
\* the peer.
Call == [peer : Peers, content : Content, schema : Schemas, keys : SUBSET SharedKeys]

ASSUME CallsAssumption == Calls \subseteq Call
ASSUME StraysAssumption == Strays \subseteq Envelope
ASSUME SupportedAssumption == Supported \in [Peers -> SUBSET Schemas]
ASSUME LapsingAssumption == Lapsing \subseteq Peers \X Peers
ASSUME MaxEmitAssumption == MaxEmit \in [Peers -> Nat]

VARIABLES
  outbox,      \* envelopes a peer has emitted, in order
  cursor,      \* per peer and origin: the last sequence of the origin that is done
  seen,        \* envelopes whose sequence and digest a peer has recorded
  pending,     \* early envelopes, and whether their semantics were applied already
  quarantine,  \* envelopes in a schema the peer does not know
  keys,        \* idempotency records: key, device and content
  revisions,   \* revision envelopes a peer has applied
  tombstones,  \* tombstone envelopes a peer has applied
  revoked,     \* devices a peer holds as revoked
  expired,     \* devices whose authorization has expired for a peer
  reasons,     \* security reasons a peer has recorded
  audit,       \* envelopes a peer has judged, with the verdict
  draining     \* the peer and the origin being drained, or None

peerVars == <<outbox, cursor, seen, pending, quarantine, keys, revisions, tombstones,
              revoked, expired, reasons, audit, draining>>

None == <<>>

PeerInit ==
  /\ outbox = [p \in Peers |-> <<>>]
  /\ cursor = [p \in Peers |-> [o \in Peers |-> 0]]
  /\ seen = [p \in Peers |-> {}]
  /\ pending = [p \in Peers |-> {}]
  /\ quarantine = [p \in Peers |-> {}]
  /\ keys = [p \in Peers |-> {}]
  /\ revisions = [p \in Peers |-> {}]
  /\ tombstones = [p \in Peers |-> {}]
  /\ revoked = [p \in Peers |-> {}]
  /\ expired = [p \in Peers |-> {}]
  /\ reasons = [p \in Peers |-> {}]
  /\ audit = [p \in Peers |-> {}]
  /\ draining = None

-----------------------------------------------------------------------------
(* Judging an envelope: _apply_semantics.                                  *)

IsPriority(e) == e.content.op \in {"grant_revocation", "tombstone", "deletion_ack"}

\* The idempotency digest covers device and content, not the sequence.
KeyRecord(e) == [key |-> e.key, device |-> e.device, content |-> e.content]

Tombstoned(p) == {e.content.object : e \in tombstones[p]}

\* What becomes of an envelope under a key that is new.
VerdictOnContent(p, c) ==
  CASE c.op = "tombstone" -> "TOMBSTONE_APPLIED"
    [] c.op = "grant_revocation" -> "REVOCATION_APPLIED"
    [] c.op = "append_revision" /\ c.object \in Tombstoned(p) -> "TOMBSTONE_PRECEDENCE"
    [] c.op = "append_revision" /\ c.object \notin Tombstoned(p) ->
         IF c.changes = {} THEN "INVALID_REVISION_PAYLOAD" ELSE "REVISION_APPLIED"
    [] OTHER -> "ACCEPTED_NO_PROJECTION"

\* What becomes of an envelope of a device that is authorized.
VerdictOnKey(p, e) ==
  IF \E r \in keys[p] : r.key = e.key
  THEN IF KeyRecord(e) \in keys[p] THEN "IDEMPOTENT_REPLAY" ELSE "IDEMPOTENCY_CONFLICT"
  ELSE VerdictOnContent(p, e.content)

\* Mistake: what was buffered before a revocation is still taken.
VerdictIgnoringRevocation(p, e) ==
  IF e.device \in expired[p] THEN "AUTHORIZATION_EXPIRED" ELSE VerdictOnKey(p, e)

Verdict(p, e) ==
  IF e.device \in revoked[p] THEN "DEVICE_REVOKED"
  ELSE IF e.device \in expired[p] THEN "AUTHORIZATION_EXPIRED" ELSE VerdictOnKey(p, e)

Applied == {"TOMBSTONE_APPLIED", "REVOCATION_APPLIED", "REVISION_APPLIED",
            "ACCEPTED_NO_PROJECTION"}

\* Mistakes: a refusal that leaves no reason behind.
SuspiciousUnlessRevoked == {"AUTHORIZATION_EXPIRED", "IDEMPOTENCY_CONFLICT",
                            "INVALID_REVISION_PAYLOAD"}
SuspiciousUnlessConflict == {"DEVICE_REVOKED", "AUTHORIZATION_EXPIRED",
                             "INVALID_REVISION_PAYLOAD"}

\* Verdicts that leave a security reason behind.
Suspicious == {"DEVICE_REVOKED", "AUTHORIZATION_EXPIRED", "IDEMPOTENCY_CONFLICT",
               "INVALID_REVISION_PAYLOAD"}

\* Verdicts reached after the idempotency key was recorded.
PastKey == Applied \cup {"TOMBSTONE_PRECEDENCE", "INVALID_REVISION_PAYLOAD"}

AddAt(f, p, S) == [f EXCEPT ![p] = @ \cup S]

If(condition, x) == IF condition THEN {x} ELSE {}

\* Mistake: a revocation takes back the deletions the device has asked for.
ApplyVerdictForgetting(p, e, verdict) ==
  /\ keys' = AddAt(keys, p, If(verdict \in PastKey, KeyRecord(e)))
  /\ tombstones' = [tombstones EXCEPT ![p] =
                      {t \in @ : verdict # "REVOCATION_APPLIED"
                                 \/ t.device # e.content.object}
                        \cup If(verdict = "TOMBSTONE_APPLIED", e)]
  /\ revoked' = AddAt(revoked, p, If(verdict = "REVOCATION_APPLIED", e.content.object))
  /\ revisions' = AddAt(revisions, p, If(verdict = "REVISION_APPLIED", e))
  /\ reasons' = AddAt(reasons, p, If(verdict \in Suspicious, <<verdict, e.device>>))
  /\ audit' = AddAt(audit, p, {<<e, verdict>>})

ApplyVerdict(p, e, verdict) ==
  /\ keys' = AddAt(keys, p, If(verdict \in PastKey, KeyRecord(e)))
  /\ tombstones' = AddAt(tombstones, p, If(verdict = "TOMBSTONE_APPLIED", e))
  /\ revoked' = AddAt(revoked, p, If(verdict = "REVOCATION_APPLIED", e.content.object))
  /\ revisions' = AddAt(revisions, p, If(verdict = "REVISION_APPLIED", e))
  /\ reasons' = AddAt(reasons, p, If(verdict \in Suspicious, <<verdict, e.device>>))
  /\ audit' = AddAt(audit, p, {<<e, verdict>>})

ApplySemantics(p, e) == ApplyVerdict(p, e, Verdict(p, e))

NoSemantics == UNCHANGED <<keys, tombstones, revoked, revisions>>

-----------------------------------------------------------------------------
(* Receiving an envelope: one disjunct per early return of receive.        *)

SeenAt(p, e) == {d \in seen[p] : d.device = e.device /\ d.seq = e.seq}
Expected(p, e) == cursor[p][e.device] + 1

IsDuplicate(p, e) == ~e.foreign /\ e \in seen[p]

\* Neither foreign nor seen nor in an unknown schema: the sequence decides.
IsFresh(p, e) ==
  /\ ~e.foreign
  /\ SeenAt(p, e) = {}
  /\ e.schema \in Supported[p]

\* Refused without a trace in sequence, cursor or gap: another space, or a
\* sequence that is known with another digest.
Refuse(p, e) ==
  /\ \/ e.foreign /\ audit' = AddAt(audit, p, {<<e, "SPACE_DENIED">>})
     \/ ~e.foreign /\ SeenAt(p, e) # {} /\ e \notin seen[p] /\ UNCHANGED audit
  /\ reasons' = AddAt(reasons, p, {<<"REFUSED", e.device>>})
  /\ NoSemantics
  /\ UNCHANGED <<seen, pending, quarantine, cursor, draining>>

Repeat(p, e) ==
  /\ IsDuplicate(p, e)
  /\ NoSemantics
  /\ UNCHANGED <<seen, pending, quarantine, cursor, draining, reasons, audit>>

\* An unknown schema takes its sequence and does not move the cursor.
Quarantine(p, e) ==
  /\ ~e.foreign /\ SeenAt(p, e) = {} /\ e.schema \notin Supported[p]
  /\ seen' = AddAt(seen, p, {e})
  /\ quarantine' = AddAt(quarantine, p, {e})
  /\ NoSemantics
  /\ UNCHANGED <<pending, cursor, draining, reasons, audit>>

\* A sequence below the cursor that was never seen.
RefuseStale(p, e) ==
  /\ IsFresh(p, e) /\ e.seq < Expected(p, e)
  /\ seen' = AddAt(seen, p, {e})
  /\ reasons' = AddAt(reasons, p, {<<"STALE_SEQUENCE", e.device>>})
  /\ NoSemantics
  /\ UNCHANGED <<pending, quarantine, cursor, draining, audit>>

\* An early envelope waits; a control envelope takes effect nevertheless.
Hold(p, e) ==
  /\ IsFresh(p, e) /\ e.seq > Expected(p, e)
  /\ seen' = AddAt(seen, p, {e})
  /\ pending' = AddAt(pending, p, {[env |-> e, preapplied |-> IsPriority(e)]})
  /\ IF IsPriority(e) THEN ApplySemantics(p, e)
     ELSE NoSemantics /\ UNCHANGED <<reasons, audit>>
  /\ UNCHANGED <<quarantine, cursor, draining>>

Take(p, e) ==
  /\ IsFresh(p, e) /\ e.seq = Expected(p, e)
  /\ seen' = AddAt(seen, p, {e})
  /\ ApplySemantics(p, e)
  /\ cursor' = [cursor EXCEPT ![p][e.device] = e.seq]
  /\ draining' = <<p, e.device>>
  /\ UNCHANGED <<pending, quarantine>>

Receive(p, e) ==
  \/ Refuse(p, e) \/ Repeat(p, e) \/ Quarantine(p, e)
  \/ RefuseStale(p, e) \/ Hold(p, e) \/ Take(p, e)

\* The receipt says that the semantics of the envelope were applied.
ReceiptApplied(p, e) ==
  /\ IsFresh(p, e)
  /\ e.seq = Expected(p, e) \/ (e.seq > Expected(p, e) /\ IsPriority(e))
  /\ Verdict(p, e) \in Applied

\* Mistake: the drain looks one sequence too far.
WaitingPastNext(p, o) ==
  {w \in pending[p] : w.env.device = o /\ w.env.seq = cursor[p][o] + 2}

Waiting(p, o) == {w \in pending[p] : w.env.device = o /\ w.env.seq = cursor[p][o] + 1}

\* Mistake: what took effect ahead of its gap is applied again.
DrainAgain(p, o) ==
  /\ draining = <<p, o>>
  /\ \E w \in Waiting(p, o) :
       /\ pending' = [pending EXCEPT ![p] = @ \ {w}]
       /\ ApplySemantics(p, w.env)
       /\ cursor' = [cursor EXCEPT ![p][o] = w.env.seq]
  /\ UNCHANGED <<outbox, seen, quarantine, expired, draining>>

\* One turn of _drain: the next envelope of the origin, if it waits.
Drain(p, o) ==
  /\ draining = <<p, o>>
  /\ \E w \in Waiting(p, o) :
       /\ pending' = [pending EXCEPT ![p] = @ \ {w}]
       /\ IF w.preapplied THEN NoSemantics /\ UNCHANGED <<reasons, audit>>
          ELSE ApplySemantics(p, w.env)
       /\ cursor' = [cursor EXCEPT ![p][o] = w.env.seq]
  /\ UNCHANGED <<outbox, seen, quarantine, expired, draining>>

EndOfDrain(p, o) ==
  /\ draining = <<p, o>>
  /\ Waiting(p, o) = {}
  /\ draining' = None
  /\ UNCHANGED <<outbox, cursor, seen, pending, quarantine, keys, revisions, tombstones,
                 revoked, expired, reasons, audit>>

\* Mistake: the sequence starts from zero.
EnvelopeFromZero(c, key) ==
  [device |-> c.peer, seq |-> Len(outbox[c.peer]), foreign |-> FALSE,
   schema |-> c.schema, key |-> key, content |-> c.content]

\* The envelope a call makes, under the caller's key or one of the peer's own.
EnvelopeOf(c, key) ==
  [device |-> c.peer, seq |-> Len(outbox[c.peer]) + 1, foreign |-> FALSE,
   schema |-> c.schema, key |-> key, content |-> c.content]

KeysOf(c) == IF c.keys # {} THEN c.keys ELSE {<<c.peer, Len(outbox[c.peer]) + 1>>}

\* The peer appends the envelope to its outbox and receives it itself.
Emit(e) ==
  /\ draining = None
  /\ e.seq <= MaxEmit[e.device]
  /\ outbox' = [outbox EXCEPT ![e.device] = Append(@, e)]
  /\ Receive(e.device, e)
  /\ UNCHANGED expired

\* The clock passes the expiry set for a device.
Expire(p, o) ==
  /\ draining = None
  /\ <<p, o>> \in Lapsing
  /\ expired' = AddAt(expired, p, {o})
  /\ UNCHANGED <<outbox, cursor, seen, pending, quarantine, keys, revisions, tombstones,
                 revoked, reasons, audit, draining>>

Emitted == Strays \cup UNION {ToSet(outbox[p]) : p \in Peers}

-----------------------------------------------------------------------------
(* The projection of an event: _project_event.                             *)

RevisionsOf(p, v) == {e \in revisions[p] : e.content.object = v}
Generation(R, b) == {e \in R : e.content.base = b}

Bases(R) == {e.content.base : e \in R}

\* What a generation writes to a field.
Written(G, f) == {w[2] : w \in {x \in UNION {e.content.changes : e \in G} : x[1] = f}}

\* Mistake: a field that agrees again keeps its old alternatives.
MergeKeepingConflicts(R, acc, b) ==
  IF b # acc.revision THEN [acc EXCEPT !.gaps = @ \cup {b}]
  ELSE [revision |-> acc.revision + 1,
        gaps |-> acc.gaps,
        fields |-> [f \in Fields |->
          IF Cardinality(Written(Generation(R, b), f)) = 1
          THEN Written(Generation(R, b), f) ELSE acc.fields[f]],
        conflicts |-> [f \in Fields |->
          IF Cardinality(Written(Generation(R, b), f)) > 1
          THEN Written(Generation(R, b), f) ELSE acc.conflicts[f]]]

\* One generation is merged field by field: a single value settles the field,
\* several are kept as alternatives; a base that is not the current revision is
\* a gap in the ancestry.
Merge(R, acc, b) ==
  IF b # acc.revision THEN [acc EXCEPT !.gaps = @ \cup {b}]
  ELSE [revision |-> acc.revision + 1,
        gaps |-> acc.gaps,
        fields |-> [f \in Fields |->
          IF Cardinality(Written(Generation(R, b), f)) = 1
          THEN Written(Generation(R, b), f) ELSE acc.fields[f]],
        conflicts |-> [f \in Fields |->
          CASE Cardinality(Written(Generation(R, b), f)) = 0 -> acc.conflicts[f]
            [] Cardinality(Written(Generation(R, b), f)) = 1 -> {}
            [] OTHER -> Written(Generation(R, b), f)]]

Unwritten == [revision |-> 0, gaps |-> {}, fields |-> [f \in Fields |-> {}],
              conflicts |-> [f \in Fields |-> {}]]

\* The generations in ascending order of their bases: what is below the greatest base
\* is merged before it.
Merged(R) == MapThenFoldSet(LAMBDA b, acc : Merge(R, acc, b), Unwritten,
                            LAMBDA b : b, Max, Bases(R))

Projection(p, v) ==
  LET m == Merged(RevisionsOf(p, v))
      dead == {e \in tombstones[p] : e.content.object = v}
  IN  IF dead # {}
      THEN [state |-> "deleted", merged |-> Unwritten, ids |-> {},
            tombstones |-> Cardinality(dead)]
      ELSE [state |-> IF \E f \in Fields : m.conflicts[f] # {} THEN "conflict"
                      ELSE "active",
            merged |-> m, ids |-> RevisionsOf(p, v), tombstones |-> 0]

EventIds(p) == {e.content.object : e \in revisions[p] \cup tombstones[p]}

Snapshot(p) == [events |-> [v \in EventIds(p) |-> Projection(p, v)],
                revoked |-> revoked[p]]

\* partial_reasons of the peer itself.
IsPartial(p) ==
  \/ reasons[p] # {}
  \/ pending[p] # {}
  \/ quarantine[p] # {}
  \/ \E v \in EventIds(p) : Projection(p, v).merged.gaps # {}

=============================================================================
