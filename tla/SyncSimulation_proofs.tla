------------------------ MODULE SyncSimulation_proofs ------------------------
(* Proofs about SyncSimulation, for every number of peers, events and envelopes. *)
EXTENDS SyncSimulation, FiniteSetTheorems, WellFoundedInduction, TLAPS

USE CallsAssumption, StraysAssumption, RoamingAssumption

\* The verdicts of judging an envelope, and the other reasons to refuse one.
Verdicts == Applied \cup Suspicious
              \cup {"TOMBSTONE_PRECEDENCE", "IDEMPOTENT_REPLAY", "SPACE_DENIED", "REFUSED",
                    "STALE_SEQUENCE"}

\* The types, with those of the variables that only judging reads and writes.
Typed ==
  /\ TypeOK
  /\ revoked \in [Peers -> SUBSET (Events \cup Peers)]
  /\ reasons \in [Peers -> SUBSET (Verdicts \X Peers)]
  /\ audit \in [Peers -> SUBSET (Envelope \X Verdicts)]

-----------------------------------------------------------------------------
(* Types.                                                                  *)

\* A set is added at one place.
LEMMA AddAtType ==
  ASSUME NEW A, NEW B, NEW f \in [A -> SUBSET B], NEW x, NEW S \in SUBSET B
  PROVE  /\ AddAt(f, x, S) \in [A -> SUBSET B]
         /\ \A y \in A : AddAt(f, x, S)[y] = IF y = x THEN f[y] \cup S ELSE f[y]
  BY DEF AddAt

\* The fields of an envelope.
LEMMA EnvelopeFields ==
  ASSUME NEW e \in Envelope
  PROVE  /\ e.device \in Peers /\ e.seq \in Nat /\ e.seq > 0 /\ e.foreign \in BOOLEAN
         /\ e.key \in Keys /\ e.content \in Content
         /\ e.content.object \in Events \cup Peers /\ e.content.required \in SUBSET Peers
         /\ KeyRecord(e) \in [key : Keys, device : Peers, content : Content]
<1>1. /\ e.device \in Peers /\ e.seq \in Nat \ {0} /\ e.foreign \in BOOLEAN
      /\ e.key \in Keys /\ e.content \in Content
  BY DEF Envelope
<1>2. e.content.object \in Events \cup Peers /\ e.content.required \in SUBSET Peers
  BY <1>1 DEF Content
<1> QED
  BY <1>1, <1>2 DEF KeyRecord

\* A verdict is a string.
LEMMA VerdictType ==
  ASSUME NEW p, NEW e PROVE Verdict(p, e) \in Verdicts
<1>1. VerdictOnContent(p, e.content) \in Verdicts
  BY DEF VerdictOnContent, Verdicts, Applied, Suspicious
<1>2. VerdictOnKey(p, e) \in Verdicts
  BY <1>1 DEF VerdictOnKey, Verdicts, Suspicious
<1> QED
  BY <1>2 DEF Verdict, Verdicts, Suspicious

\* What judging an envelope reads and writes has its type.
JudgedTypes ==
  /\ keys \in [Peers -> SUBSET [key : Keys, device : Peers, content : Content]]
  /\ revisions \in [Peers -> SUBSET Envelope]
  /\ tombstones \in [Peers -> SUBSET Envelope]
  /\ revoked \in [Peers -> SUBSET (Events \cup Peers)]
  /\ reasons \in [Peers -> SUBSET (Verdicts \X Peers)]
  /\ audit \in [Peers -> SUBSET (Envelope \X Verdicts)]

\* What applying a verdict adds, peer by peer.
LEMMA VerdictAdds ==
  ASSUME JudgedTypes, NEW p \in Peers, NEW e \in Envelope, NEW verdict \in Verdicts,
         ApplyVerdict(p, e, verdict)
  PROVE  /\ JudgedTypes'
         /\ \A q \in Peers \ {p} :
              /\ keys'[q] = keys[q] /\ revisions'[q] = revisions[q]
              /\ tombstones'[q] = tombstones[q] /\ revoked'[q] = revoked[q]
              /\ reasons'[q] = reasons[q] /\ audit'[q] = audit[q]
         /\ keys'[p] = keys[p] \cup If(verdict \in PastKey, KeyRecord(e))
         /\ revisions'[p] = revisions[p] \cup If(verdict = "REVISION_APPLIED", e)
         /\ tombstones'[p] = tombstones[p] \cup If(verdict = "TOMBSTONE_APPLIED", e)
         /\ revoked'[p] = revoked[p] \cup If(verdict = "REVOCATION_APPLIED", e.content.object)
         /\ reasons'[p] = reasons[p] \cup If(verdict \in Suspicious, <<verdict, e.device>>)
         /\ audit'[p] = audit[p] \cup {<<e, verdict>>}
<1>1. ASSUME NEW c, NEW B, NEW x \in B PROVE If(c, x) \in SUBSET B
  BY DEF If
<1>2. /\ keys' = AddAt(keys, p, If(verdict \in PastKey, KeyRecord(e)))
      /\ revisions' = AddAt(revisions, p, If(verdict = "REVISION_APPLIED", e))
      /\ tombstones' = AddAt(tombstones, p, If(verdict = "TOMBSTONE_APPLIED", e))
      /\ revoked' = AddAt(revoked, p, If(verdict = "REVOCATION_APPLIED", e.content.object))
      /\ reasons' = AddAt(reasons, p, If(verdict \in Suspicious, <<verdict, e.device>>))
      /\ audit' = AddAt(audit, p, {<<e, verdict>>})
  BY DEF ApplyVerdict
<1>3. /\ KeyRecord(e) \in [key : Keys, device : Peers, content : Content]
      /\ e.content.object \in Events \cup Peers /\ <<verdict, e.device>> \in Verdicts \X Peers
      /\ {<<e, verdict>>} \in SUBSET (Envelope \X Verdicts)
  BY EnvelopeFields
<1>4. /\ keys' \in [Peers -> SUBSET [key : Keys, device : Peers, content : Content]]
      /\ keys'[p] = keys[p] \cup If(verdict \in PastKey, KeyRecord(e))
      /\ \A q \in Peers \ {p} : keys'[q] = keys[q]
  BY <1>1, <1>2, <1>3 DEF JudgedTypes, AddAt
<1>5. /\ revisions' \in [Peers -> SUBSET Envelope]
      /\ revisions'[p] = revisions[p] \cup If(verdict = "REVISION_APPLIED", e)
      /\ \A q \in Peers \ {p} : revisions'[q] = revisions[q]
  BY <1>1, <1>2 DEF JudgedTypes, AddAt
<1>6. /\ tombstones' \in [Peers -> SUBSET Envelope]
      /\ tombstones'[p] = tombstones[p] \cup If(verdict = "TOMBSTONE_APPLIED", e)
      /\ \A q \in Peers \ {p} : tombstones'[q] = tombstones[q]
  BY <1>1, <1>2 DEF JudgedTypes, AddAt
<1>7. /\ revoked' \in [Peers -> SUBSET (Events \cup Peers)]
      /\ revoked'[p] = revoked[p] \cup If(verdict = "REVOCATION_APPLIED", e.content.object)
      /\ \A q \in Peers \ {p} : revoked'[q] = revoked[q]
  BY <1>1, <1>2, <1>3 DEF JudgedTypes, AddAt
<1>8. /\ reasons' \in [Peers -> SUBSET (Verdicts \X Peers)]
      /\ reasons'[p] = reasons[p] \cup If(verdict \in Suspicious, <<verdict, e.device>>)
      /\ \A q \in Peers \ {p} : reasons'[q] = reasons[q]
  <2>1. If(verdict \in Suspicious, <<verdict, e.device>>) \in SUBSET (Verdicts \X Peers)
    BY <1>3 DEF If
  <2> QED
    BY <1>2, <2>1 DEF JudgedTypes, AddAt
<1>9. /\ audit' \in [Peers -> SUBSET (Envelope \X Verdicts)]
      /\ audit'[p] = audit[p] \cup {<<e, verdict>>}
      /\ \A q \in Peers \ {p} : audit'[q] = audit[q]
  BY <1>2, <1>3 DEF JudgedTypes, AddAt
<1> QED
  BY <1>4, <1>5, <1>6, <1>7, <1>8, <1>9 DEF JudgedTypes

\* What receiving an envelope reads and writes has its type.
PeerTypes ==
  /\ JudgedTypes
  /\ cursor \in [Peers -> [Peers -> Nat]]
  /\ seen \in [Peers -> SUBSET Envelope]
  /\ pending \in [Peers -> SUBSET [env : Envelope, preapplied : BOOLEAN]]
  /\ quarantine \in [Peers -> SUBSET Envelope]
  /\ draining \in {None} \cup (Peers \X Peers)

\* An envelope that is judged, and one whose semantics are not applied, keep the types.
LEMMA JudgingTypes ==
  ASSUME JudgedTypes, NEW p \in Peers, NEW e \in Envelope,
         ApplySemantics(p, e) \/ (NoSemantics /\ UNCHANGED <<reasons, audit>>)
  PROVE  JudgedTypes'
<1>1. ASSUME ApplySemantics(p, e) PROVE JudgedTypes'
  BY <1>1, VerdictAdds, VerdictType DEF ApplySemantics
<1>2. ASSUME NoSemantics /\ UNCHANGED <<reasons, audit>> PROVE JudgedTypes'
  BY <1>2 DEF NoSemantics, JudgedTypes
<1> QED
  BY <1>1, <1>2

\* Receiving an envelope keeps the types.
LEMMA ReceiveTypes ==
  ASSUME PeerTypes, NEW p \in Peers, NEW e \in Envelope, Receive(p, e)
  PROVE  PeerTypes'
<1>0. e.device \in Peers /\ e.seq \in Nat /\ IsPriority(e) \in BOOLEAN
  BY EnvelopeFields DEF IsPriority
<1>1. CASE Refuse(p, e)
  <2>1. /\ <<"REFUSED", e.device>> \in Verdicts \X Peers
        /\ <<e, "SPACE_DENIED">> \in Envelope \X Verdicts
    BY <1>0 DEF Verdicts
  <2>2. reasons' \in [Peers -> SUBSET (Verdicts \X Peers)]
    BY <1>1, <2>1 DEF Refuse, AddAt, PeerTypes, JudgedTypes
  <2>3. audit' \in [Peers -> SUBSET (Envelope \X Verdicts)]
    BY <1>1, <2>1 DEF Refuse, AddAt, PeerTypes, JudgedTypes
  <2> QED
    BY <1>1, <2>2, <2>3 DEF Refuse, NoSemantics, PeerTypes, JudgedTypes
<1>2. CASE Repeat(p, e)
  BY <1>2 DEF Repeat, NoSemantics, PeerTypes, JudgedTypes
<1>3. CASE Quarantine(p, e)
  <2>1. /\ seen' \in [Peers -> SUBSET Envelope] /\ quarantine' \in [Peers -> SUBSET Envelope]
        /\ UNCHANGED <<pending, cursor, draining, reasons, audit>> /\ NoSemantics
    BY <1>3 DEF Quarantine, AddAt, PeerTypes
  <2> QED
    BY <2>1 DEF NoSemantics, PeerTypes, JudgedTypes
<1>4. CASE RefuseStale(p, e)
  <2>1. <<"STALE_SEQUENCE", e.device>> \in Verdicts \X Peers
    BY <1>0 DEF Verdicts
  <2>2. reasons' \in [Peers -> SUBSET (Verdicts \X Peers)]
    BY <1>4, <2>1 DEF RefuseStale, AddAt, PeerTypes, JudgedTypes
  <2>3. seen' \in [Peers -> SUBSET Envelope]
    BY <1>4 DEF RefuseStale, AddAt, PeerTypes
  <2> QED
    BY <1>4, <2>2, <2>3 DEF RefuseStale, NoSemantics, PeerTypes, JudgedTypes
<1>5. CASE Hold(p, e)
  <2>1. JudgedTypes'
    BY <1>5, JudgingTypes DEF Hold, PeerTypes
  <2>2. [env |-> e, preapplied |-> IsPriority(e)] \in [env : Envelope, preapplied : BOOLEAN]
    BY <1>0
  <2>3. pending' \in [Peers -> SUBSET [env : Envelope, preapplied : BOOLEAN]]
    BY <1>5, <2>2 DEF Hold, AddAt, PeerTypes
  <2>4. seen' \in [Peers -> SUBSET Envelope]
    BY <1>5 DEF Hold, AddAt, PeerTypes
  <2> QED
    BY <1>5, <2>1, <2>3, <2>4 DEF Hold, PeerTypes
<1>6. CASE Take(p, e)
  <2>1. JudgedTypes'
    BY <1>6, JudgingTypes DEF Take, PeerTypes
  <2>2. seen' \in [Peers -> SUBSET Envelope]
    BY <1>6 DEF Take, AddAt, PeerTypes
  <2>3. cursor' \in [Peers -> [Peers -> Nat]]
    BY <1>0, <1>6 DEF Take, PeerTypes
  <2> QED
    BY <1>0, <1>6, <2>1, <2>2, <2>3 DEF Take, PeerTypes
<1> QED
  BY <1>1, <1>2, <1>3, <1>4, <1>5, <1>6 DEF Receive

\* A turn of the drain keeps the types.
LEMMA DrainTypes ==
  ASSUME PeerTypes, NEW p \in Peers, NEW o \in Peers, Drain(p, o) \/ EndOfDrain(p, o)
  PROVE  PeerTypes'
<1>1. CASE Drain(p, o)
  <2>1. PICK w \in Waiting(p, o) :
          /\ pending' = [pending EXCEPT ![p] = @ \ {w}]
          /\ IF w.preapplied THEN NoSemantics /\ UNCHANGED <<reasons, audit>>
             ELSE ApplySemantics(p, w.env)
          /\ cursor' = [cursor EXCEPT ![p][o] = w.env.seq]
    BY <1>1 DEF Drain
  <2>2. w.env \in Envelope /\ w.env.seq \in Nat
    BY EnvelopeFields DEF Waiting, PeerTypes
  <2>3. JudgedTypes'
    BY <2>1, <2>2, JudgingTypes DEF PeerTypes
  <2>4. pending' \in [Peers -> SUBSET [env : Envelope, preapplied : BOOLEAN]]
    BY <2>1 DEF PeerTypes
  <2>5. cursor' \in [Peers -> [Peers -> Nat]]
    BY <2>1, <2>2 DEF PeerTypes
  <2> QED
    BY <1>1, <2>3, <2>4, <2>5 DEF Drain, PeerTypes
<1>2. CASE EndOfDrain(p, o)
  BY <1>2 DEF EndOfDrain, PeerTypes, JudgedTypes
<1> QED
  BY <1>1, <1>2

\* The harness keeps the types of what it tracks.
LEMMA TrackTypes ==
  ASSUME Typed, NEW p \in Peers, NEW e \in Envelope, Track(p, e)
  PROVE  required' \in [Events -> SUBSET Peers] /\ receipts' \in [Events -> SUBSET Peers]
<1>1. e.content.required \in SUBSET Peers /\ {p} \in SUBSET Peers
  BY EnvelopeFields
<1>2. required \in [Events -> SUBSET Peers] /\ receipts \in [Events -> SUBSET Peers]
  BY DEF Typed, TypeOK
<1>3. CASE e.content.op # "tombstone"
  BY <1>2, <1>3 DEF Track
<1>4. CASE e.content.op = "tombstone"
  <2>1. /\ required' = AddAt(required, e.content.object, e.content.required)
        /\ \/ receipts' = AddAt(receipts, e.content.object, {p})
           \/ receipts' = receipts
    BY <1>4 DEF Track
  <2> QED
    BY <1>1, <1>2, <2>1 DEF AddAt
<1> QED
  BY <1>3, <1>4

\* Everything that is emitted is an envelope, and so is what a call makes.
LEMMA EmittedTypes ==
  ASSUME Typed
  PROVE  /\ Emitted \subseteq Envelope
         /\ \A c \in Calls : \A key \in KeysOf(c) : EnvelopeOf(c, key) \in Envelope
<1>1. ASSUME NEW p \in Peers PROVE ToSet(outbox[p]) \subseteq Envelope
  BY DEF ToSet, Typed, TypeOK
<1>2. ASSUME NEW c \in Calls, NEW key \in KeysOf(c) PROVE EnvelopeOf(c, key) \in Envelope
  <2>1. /\ c.peer \in Peers /\ c.content \in Content /\ c.schema \in Schemas
        /\ c.keys \in SUBSET SharedKeys
    BY DEF Call
  <2>2. Len(outbox[c.peer]) \in Nat
    BY <2>1 DEF Typed, TypeOK
  <2>3. key \in Keys
    BY <2>1, <2>2 DEF KeysOf, Keys
  <2> QED
    BY <2>1, <2>2, <2>3 DEF EnvelopeOf, Envelope
<1> QED
  BY <1>1, <1>2 DEF Emitted

\* What a step does to the peers: nothing but an expiry, or one call of receive on an
\* envelope, or a turn of the drain.
LEMMA StepsOfPeers ==
  ASSUME Typed, [Next]_vars
  PROVE  \/ UNCHANGED <<cursor, seen, pending, quarantine, keys, revisions, tombstones,
                        revoked, reasons, audit, draining>>
         \/ draining = None /\ \E p \in Peers, e \in Envelope : Receive(p, e)
         \/ \E p, o \in Peers : Drain(p, o) \/ EndOfDrain(p, o)
<1>1. ASSUME NEW c \in Calls, LocalEmit(c)
      PROVE  draining = None /\ \E p \in Peers, e \in Envelope : Receive(p, e)
  <2>1. PICK key \in KeysOf(c) : Emit(EnvelopeOf(c, key))
    BY <1>1 DEF LocalEmit
  <2> DEFINE e == EnvelopeOf(c, key)
  <2>2. e \in Envelope
    BY EmittedTypes
  <2> HIDE DEF e
  <2>3. draining = None /\ Receive(e.device, e)
    BY <2>1 DEF Emit, e
  <2> QED
    BY <2>2, <2>3, EnvelopeFields
<1>2. ASSUME NEW p \in Peers, NEW e \in Emitted, Deliver(p, e)
      PROVE  draining = None /\ \E q \in Peers, d \in Envelope : Receive(q, d)
  BY <1>2, EmittedTypes DEF Deliver
<1>3. ASSUME NEW p \in Peers, NEW e \in queue[p], Replay(p, e)
      PROVE  draining = None /\ \E q \in Peers, d \in Envelope : Receive(q, d)
  <2>1. e \in Envelope
    BY DEF Typed, TypeOK
  <2> QED
    BY <1>3, <2>1 DEF Replay
<1>4. ASSUME \/ \E p \in Peers : \/ \E e \in Emitted : DeliverOffline(p, e)
                                 \/ \E online \in BOOLEAN : SetOnline(p, online)
                                 \/ \E o \in Peers : Expire(p, o)
             \/ UNCHANGED vars
      PROVE  UNCHANGED <<cursor, seen, pending, quarantine, keys, revisions, tombstones,
                         revoked, reasons, audit, draining>>
  BY <1>4 DEF DeliverOffline, SetOnline, Expire, peerVars, vars
<1> QED
  BY <1>1, <1>2, <1>3, <1>4 DEF Next

\* What a step does beside the peers has its type.
OtherTypes ==
  /\ outbox \in [Peers -> Seq(Envelope)]
  /\ expired \in [Peers -> SUBSET Peers]
  /\ offline \subseteq Peers
  /\ queue \in [Peers -> SUBSET Envelope]
  /\ required \in [Events -> SUBSET Peers]
  /\ receipts \in [Events -> SUBSET Peers]

\* Every step keeps those types.
LEMMA StepKeepsOtherTypes ==
  ASSUME Typed, [Next]_vars
  PROVE  OtherTypes'
<1>0. OtherTypes
  BY DEF Typed, TypeOK, OtherTypes
<1>1. ASSUME NEW c \in Calls, LocalEmit(c) PROVE OtherTypes'
  <2>1. PICK key \in KeysOf(c) : Emit(EnvelopeOf(c, key)) /\ Track(c.peer, EnvelopeOf(c, key))
    BY <1>1 DEF LocalEmit
  <2> DEFINE e == EnvelopeOf(c, key)
  <2>2. e \in Envelope /\ c.peer \in Peers
    BY EmittedTypes DEF Call
  <2> HIDE DEF e
  <2>3. Emit(e) /\ Track(c.peer, e)
    BY <2>1 DEF e
  <2>4. required' \in [Events -> SUBSET Peers] /\ receipts' \in [Events -> SUBSET Peers]
    BY <2>2, <2>3, TrackTypes
  <2>5. outbox' \in [Peers -> Seq(Envelope)]
    <3>1. outbox' = [outbox EXCEPT ![e.device] = Append(@, e)] /\ e.device \in Peers
      BY <2>2, <2>3, EnvelopeFields DEF Emit
    <3>2. outbox \in [Peers -> Seq(Envelope)]
      BY <1>0 DEF OtherTypes
    <3> QED
      BY <2>2, <3>1, <3>2
  <2> QED
    BY <1>0, <1>1, <2>3, <2>4, <2>5 DEF LocalEmit, Emit, OtherTypes
<1>2. ASSUME NEW p \in Peers, NEW e \in Emitted, Deliver(p, e) PROVE OtherTypes'
  <2>1. required' \in [Events -> SUBSET Peers] /\ receipts' \in [Events -> SUBSET Peers]
    BY <1>2, EmittedTypes, TrackTypes DEF Deliver
  <2> QED
    BY <1>0, <1>2, <2>1 DEF Deliver, OtherTypes
<1>3. ASSUME NEW p \in Peers, NEW e \in Emitted, DeliverOffline(p, e) PROVE OtherTypes'
  <2>1. queue' \in [Peers -> SUBSET Envelope]
    BY <1>0, <1>3, EmittedTypes DEF DeliverOffline, AddAt, OtherTypes
  <2> QED
    BY <1>0, <1>3, <2>1 DEF DeliverOffline, peerVars, OtherTypes
<1>4. ASSUME NEW p \in Peers, NEW e \in queue[p], Replay(p, e) PROVE OtherTypes'
  <2>1. e \in Envelope
    BY <1>0 DEF OtherTypes
  <2>2. required' \in [Events -> SUBSET Peers] /\ receipts' \in [Events -> SUBSET Peers]
    BY <1>4, <2>1, TrackTypes DEF Replay
  <2>3. queue' \in [Peers -> SUBSET Envelope]
    BY <1>0, <1>4 DEF Replay, OtherTypes
  <2> QED
    BY <1>0, <1>4, <2>2, <2>3 DEF Replay, OtherTypes
<1>5. ASSUME NEW p \in Peers, NEW online \in BOOLEAN, SetOnline(p, online) PROVE OtherTypes'
  BY <1>0, <1>5 DEF SetOnline, peerVars, OtherTypes
<1>6. ASSUME NEW p \in Peers, NEW o \in Peers, Expire(p, o) /\ UNCHANGED simVars
      PROVE  OtherTypes'
  <2>1. expired' \in [Peers -> SUBSET Peers]
    BY <1>0, <1>6 DEF Expire, AddAt, OtherTypes
  <2> QED
    BY <1>0, <1>6, <2>1 DEF Expire, simVars, OtherTypes
<1>7. ASSUME NEW p \in Peers, NEW o \in Peers, Drain(p, o) \/ EndOfDrain(p, o),
             UNCHANGED simVars
      PROVE  OtherTypes'
  BY <1>0, <1>7 DEF Drain, EndOfDrain, simVars, OtherTypes
<1>8. CASE UNCHANGED vars
  BY <1>0, <1>8 DEF vars, peerVars, simVars, OtherTypes
<1>9. CASE Next
  BY <1>1, <1>2, <1>3, <1>4, <1>5, <1>6, <1>7, <1>9 DEF Next
<1> QED
  BY <1>8, <1>9

\* Every step keeps the types.
LEMMA StepKeepsTypes ==
  ASSUME Typed, [Next]_vars
  PROVE  Typed'
<1>1. PeerTypes
  BY DEF Typed, TypeOK, PeerTypes, JudgedTypes
<1>2. PeerTypes'
  <2>1. CASE UNCHANGED <<cursor, seen, pending, quarantine, keys, revisions, tombstones,
                         revoked, reasons, audit, draining>>
    BY <1>1, <2>1 DEF PeerTypes, JudgedTypes
  <2> QED
    BY <1>1, <2>1, StepsOfPeers, ReceiveTypes, DrainTypes
<1>3. OtherTypes'
  BY StepKeepsOtherTypes
<1> QED
  BY <1>2, <1>3 DEF Typed, TypeOK, PeerTypes, JudgedTypes, OtherTypes

\* The types hold at the start.
LEMMA InitTypes == Init => Typed
  BY DEF Init, PeerInit, Typed, TypeOK

\* Every variable has its type in every reachable state.
THEOREM TypesHold == Spec => []TypeOK
<1>1. Typed /\ [Next]_vars => Typed'
  BY StepKeepsTypes
<1>2. Typed => TypeOK
  BY DEF Typed
<1> QED
  BY <1>1, <1>2, InitTypes, PTL DEF Spec

-----------------------------------------------------------------------------
(* What was applied: nothing of a revoked device, and for good if it was a    *)
(* deletion.                                                                   *)

\* The envelopes a step applies at a peer are those of one verdict.
LEMMA SemanticsOfStep ==
  ASSUME Typed, [Next]_vars
  PROVE  NoSemantics \/ \E p \in Peers, e \in Envelope : ApplySemantics(p, e)
<1>1. ASSUME NEW p \in Peers, NEW e \in Envelope, Receive(p, e)
      PROVE  NoSemantics \/ ApplySemantics(p, e)
  BY <1>1 DEF Receive, Refuse, Repeat, Quarantine, RefuseStale, Hold, Take
<1>2. ASSUME NEW p \in Peers, NEW o \in Peers, Drain(p, o)
      PROVE  NoSemantics \/ \E e \in Envelope : ApplySemantics(p, e)
  <2>1. PICK w \in Waiting(p, o) : NoSemantics \/ ApplySemantics(p, w.env)
    BY <1>2 DEF Drain
  <2>2. w.env \in Envelope
    BY DEF Waiting, Typed, TypeOK
  <2> QED
    BY <2>1, <2>2
<1>3. ASSUME NEW p \in Peers, NEW o \in Peers, EndOfDrain(p, o) PROVE NoSemantics
  BY <1>3 DEF EndOfDrain, NoSemantics
<1> QED
  BY <1>1, <1>2, <1>3, StepsOfPeers DEF NoSemantics

\* A step adds to the applied envelopes of a peer, and nothing of a revoked device.
LEMMA AppliedGrows ==
  ASSUME Typed, [Next]_vars, NEW p \in Peers
  PROVE  /\ tombstones[p] \subseteq tombstones'[p]
         /\ \A o \in revoked[p] :
              \A e \in (revisions'[p] \cup tombstones'[p])
                         \ (revisions[p] \cup tombstones[p]) : e.device # o
<1>1. CASE NoSemantics
  BY <1>1 DEF NoSemantics
<1>2. ASSUME NEW q \in Peers, NEW d \in Envelope, ApplySemantics(q, d)
      PROVE  /\ tombstones[p] \subseteq tombstones'[p]
             /\ \A o \in revoked[p] :
                  \A e \in (revisions'[p] \cup tombstones'[p])
                             \ (revisions[p] \cup tombstones[p]) : e.device # o
  <2> DEFINE judgement == Verdict(q, d)
  <2>1. /\ \A r \in Peers \ {q} : revisions'[r] = revisions[r] /\ tombstones'[r] = tombstones[r]
        /\ revisions'[q] = revisions[q] \cup If(judgement = "REVISION_APPLIED", d)
        /\ tombstones'[q] = tombstones[q] \cup If(judgement = "TOMBSTONE_APPLIED", d)
    <3>1. JudgedTypes
      BY DEF Typed, TypeOK, JudgedTypes
    <3>2. ApplyVerdict(q, d, judgement) /\ judgement \in Verdicts
      BY <1>2, VerdictType DEF ApplySemantics
    <3> HIDE DEF judgement
    <3> QED
      BY <3>1, <3>2, VerdictAdds DEF If
  <2>2. d.device \in revoked[q] => judgement = "DEVICE_REVOKED"
    BY DEF Verdict
  <2> HIDE DEF judgement
  <2> QED
    BY <2>1, <2>2 DEF If
<1> QED
  BY <1>1, <1>2, SemanticsOfStep

\* A step leaves what was deleted deleted.
DeletedStep ==
  \A p \in Peers : \A v \in Events :
    (v \in EventIds(p) /\ Projection(p, v).state = "deleted")
      => (v \in EventIds(p)' /\ Projection(p, v)'.state = "deleted")

\* No later, earlier or repeated revision brings a deleted event back.
THEOREM DeletionsStay == Spec => DeletedStaysDeleted
<1>1. Typed /\ [Next]_vars => Typed'
  BY StepKeepsTypes
<1>2. Typed /\ [Next]_vars => DeletedStep
  <2> SUFFICES ASSUME Typed, [Next]_vars, NEW p \in Peers, NEW v \in Events,
                      v \in EventIds(p), Projection(p, v).state = "deleted"
               PROVE  v \in EventIds(p)' /\ Projection(p, v)'.state = "deleted"
    BY DEF DeletedStep
  <2>1. PICK e \in tombstones[p] : e.content.object = v
    BY DEF Projection
  <2>2. e \in tombstones'[p]
    BY <2>1, AppliedGrows
  <2>3. v \in EventIds(p)'
    BY <2>1, <2>2 DEF EventIds
  <2>4. Projection(p, v)'.state = "deleted"
    BY <2>1, <2>2 DEF Projection
  <2> QED
    BY <2>3, <2>4
<1> QED
  BY <1>1, <1>2, InitTypes, PTL DEF Spec, DeletedStaysDeleted, DeletedStep

\* A step applies nothing of a revoked device.
RevokedStep ==
  \A p, o \in Peers : o \in revoked[p] =>
    \A e \in (revisions'[p] \cup tombstones'[p]) \ (revisions[p] \cup tombstones[p]) :
      e.device # o

\* Nothing of a revoked device is applied, not even what was buffered before.
THEOREM RevocationsHold == Spec => RevokedStaysOut
<1>1. Typed /\ [Next]_vars => Typed'
  BY StepKeepsTypes
<1>2. Typed /\ [Next]_vars => RevokedStep
  BY AppliedGrows DEF RevokedStep
<1> QED
  BY <1>1, <1>2, InitTypes, PTL DEF Spec, RevokedStaysOut, RevokedStep

-----------------------------------------------------------------------------
(* What a step does to one peer.                                           *)

\* Nothing happens to a peer.
Unmoved(q) ==
  /\ cursor'[q] = cursor[q] /\ seen'[q] = seen[q] /\ pending'[q] = pending[q]
  /\ quarantine'[q] = quarantine[q] /\ keys'[q] = keys[q]
  /\ revisions'[q] = revisions[q] /\ tombstones'[q] = tombstones[q]
  /\ revoked'[q] = revoked[q] /\ reasons'[q] = reasons[q] /\ audit'[q] = audit[q]

\* An envelope is judged at a peer, or it is not.
JudgedAt(p, e) ==
  LET verdict == Verdict(p, e)
  IN  /\ keys'[p] = keys[p] \cup (IF verdict \in PastKey THEN {KeyRecord(e)} ELSE {})
      /\ revisions'[p] = revisions[p] \cup (IF verdict = "REVISION_APPLIED" THEN {e} ELSE {})
      /\ tombstones'[p] = tombstones[p] \cup (IF verdict = "TOMBSTONE_APPLIED" THEN {e} ELSE {})
      /\ revoked'[p] = revoked[p] \cup (IF verdict = "REVOCATION_APPLIED"
                                        THEN {e.content.object} ELSE {})
      /\ reasons'[p] = reasons[p] \cup (IF verdict \in Suspicious
                                        THEN {<<verdict, e.device>>} ELSE {})
      /\ audit'[p] = audit[p] \cup {<<e, verdict>>}

NotJudgedAt(p) ==
  /\ keys'[p] = keys[p] /\ revisions'[p] = revisions[p] /\ tombstones'[p] = tombstones[p]
  /\ revoked'[p] = revoked[p] /\ reasons'[p] = reasons[p] /\ audit'[p] = audit[p]

\* What the semantics of an envelope do, peer by peer.
LEMMA SemanticsAt ==
  ASSUME PeerTypes, NEW p \in Peers, NEW e \in Envelope, ApplySemantics(p, e)
  PROVE  /\ JudgedAt(p, e)
         /\ \A q \in Peers \ {p} :
              /\ keys'[q] = keys[q] /\ revisions'[q] = revisions[q]
              /\ tombstones'[q] = tombstones[q] /\ revoked'[q] = revoked[q]
              /\ reasons'[q] = reasons[q] /\ audit'[q] = audit[q]
<1>1. JudgedTypes
  BY DEF PeerTypes
<1>2. PICK judgement \in Verdicts : judgement = Verdict(p, e)
  BY VerdictType
<1>3. ApplyVerdict(p, e, judgement)
  BY <1>2 DEF ApplySemantics
<1>4. /\ keys'[p] = keys[p] \cup (IF judgement \in PastKey THEN {KeyRecord(e)} ELSE {})
      /\ revisions'[p] = revisions[p] \cup (IF judgement = "REVISION_APPLIED" THEN {e} ELSE {})
      /\ tombstones'[p] = tombstones[p] \cup (IF judgement = "TOMBSTONE_APPLIED" THEN {e} ELSE {})
      /\ revoked'[p] = revoked[p] \cup (IF judgement = "REVOCATION_APPLIED"
                                        THEN {e.content.object} ELSE {})
      /\ reasons'[p] = reasons[p] \cup (IF judgement \in Suspicious
                                        THEN {<<judgement, e.device>>} ELSE {})
      /\ audit'[p] = audit[p] \cup {<<e, judgement>>}
  BY <1>1, <1>3, VerdictAdds DEF If
<1>5. \A q \in Peers \ {p} :
        /\ keys'[q] = keys[q] /\ revisions'[q] = revisions[q]
        /\ tombstones'[q] = tombstones[q] /\ revoked'[q] = revoked[q]
        /\ reasons'[q] = reasons[q] /\ audit'[q] = audit[q]
  BY <1>1, <1>3, VerdictAdds DEF If
<1> QED
  BY <1>2, <1>4, <1>5 DEF JudgedAt

\* What an envelope that waits or is taken does to the peer that receives it.
LEMMA HoldAt ==
  ASSUME PeerTypes, NEW p \in Peers, NEW e \in Envelope, Hold(p, e)
  PROVE  /\ \A q \in Peers \ {p} : Unmoved(q)
         /\ draining' = draining /\ cursor'[p] = cursor[p] /\ quarantine'[p] = quarantine[p]
         /\ seen'[p] = seen[p] \cup {e}
         /\ pending'[p] = pending[p] \cup {[env |-> e, preapplied |-> IsPriority(e)]}
         /\ IF IsPriority(e) THEN JudgedAt(p, e) ELSE NotJudgedAt(p)
<1>1. /\ seen' = AddAt(seen, p, {e}) /\ UNCHANGED <<quarantine, cursor, draining>>
      /\ pending' = AddAt(pending, p, {[env |-> e, preapplied |-> IsPriority(e)]})
      /\ IF IsPriority(e) THEN ApplySemantics(p, e) ELSE NoSemantics /\ UNCHANGED <<reasons, audit>>
  BY DEF Hold
<1>2. /\ seen'[p] = seen[p] \cup {e} /\ \A q \in Peers \ {p} : seen'[q] = seen[q]
      /\ pending'[p] = pending[p] \cup {[env |-> e, preapplied |-> IsPriority(e)]}
      /\ \A q \in Peers \ {p} : pending'[q] = pending[q]
  BY <1>1 DEF AddAt, PeerTypes
<1>3. CASE IsPriority(e)
  BY <1>1, <1>2, <1>3, SemanticsAt DEF Unmoved
<1>4. CASE ~IsPriority(e)
  BY <1>1, <1>2, <1>4 DEF Unmoved, NotJudgedAt, NoSemantics
<1> QED
  BY <1>3, <1>4

\* The same of the envelope that was expected.
LEMMA TakeAt ==
  ASSUME PeerTypes, NEW p \in Peers, NEW e \in Envelope, Take(p, e)
  PROVE  /\ \A q \in Peers \ {p} : Unmoved(q)
         /\ draining' = <<p, e.device>> /\ quarantine'[p] = quarantine[p]
         /\ cursor'[p][e.device] = e.seq
         /\ \A o \in Peers \ {e.device} : cursor'[p][o] = cursor[p][o]
         /\ seen'[p] = seen[p] \cup {e} /\ pending'[p] = pending[p]
         /\ JudgedAt(p, e)
<1>1. /\ seen' = AddAt(seen, p, {e}) /\ ApplySemantics(p, e) /\ UNCHANGED <<pending, quarantine>>
      /\ cursor' = [cursor EXCEPT ![p][e.device] = e.seq] /\ draining' = <<p, e.device>>
  BY DEF Take
<1>2. e.device \in Peers
  BY EnvelopeFields
<1>3. /\ seen'[p] = seen[p] \cup {e} /\ \A q \in Peers \ {p} : seen'[q] = seen[q]
      /\ cursor'[p][e.device] = e.seq /\ \A q \in Peers \ {p} : cursor'[q] = cursor[q]
      /\ \A o \in Peers \ {e.device} : cursor'[p][o] = cursor[p][o]
  BY <1>1, <1>2 DEF AddAt, PeerTypes
<1> QED
  BY <1>1, <1>3, SemanticsAt DEF Unmoved

\* The same of an envelope that is refused, repeated, in quarantine or stale: none
\* of them is judged.
LEMMA SetAsideAt ==
  ASSUME PeerTypes, NEW p \in Peers, NEW e \in Envelope,
         Refuse(p, e) \/ Repeat(p, e) \/ Quarantine(p, e) \/ RefuseStale(p, e)
  PROVE  /\ \A q \in Peers \ {p} : Unmoved(q)
         /\ draining' = draining /\ cursor'[p] = cursor[p] /\ pending'[p] = pending[p]
         /\ NoSemantics /\ reasons[p] \subseteq reasons'[p]
         /\ \/ /\ seen'[p] = seen[p] /\ quarantine'[p] = quarantine[p]
               /\ audit'[p] = audit[p]
            \/ /\ seen'[p] = seen[p] /\ quarantine'[p] = quarantine[p]
               /\ e.foreign /\ audit'[p] = audit[p] \cup {<<e, "SPACE_DENIED">>}
            \/ /\ ~e.foreign /\ SeenAt(p, e) = {} /\ seen'[p] = seen[p] \cup {e}
               /\ audit'[p] = audit[p]
               /\ \/ e.schema \notin Supported[p] /\ quarantine'[p] = quarantine[p] \cup {e}
                  \/ e.schema \in Supported[p] /\ e.seq <= cursor[p][e.device]
                     /\ quarantine'[p] = quarantine[p] /\ reasons'[p] # {}
<1>1. CASE Refuse(p, e)
  <2>1. /\ NoSemantics /\ UNCHANGED <<seen, pending, quarantine, cursor, draining>>
        /\ \/ e.foreign /\ audit' = AddAt(audit, p, {<<e, "SPACE_DENIED">>})
           \/ UNCHANGED audit
        /\ reasons' = AddAt(reasons, p, {<<"REFUSED", e.device>>})
    BY <1>1 DEF Refuse
  <2>2. /\ reasons[p] \subseteq reasons'[p] /\ \A q \in Peers \ {p} : reasons'[q] = reasons[q]
        /\ \A q \in Peers \ {p} : audit'[q] = audit[q]
        /\ \/ audit'[p] = audit[p]
           \/ e.foreign /\ audit'[p] = audit[p] \cup {<<e, "SPACE_DENIED">>}
    <3>1. reasons[p] \subseteq reasons'[p] /\ \A q \in Peers \ {p} : reasons'[q] = reasons[q]
      BY <2>1 DEF AddAt, PeerTypes, JudgedTypes
    <3>2. CASE e.foreign /\ audit' = AddAt(audit, p, {<<e, "SPACE_DENIED">>})
      <4>1. /\ audit'[p] = audit[p] \cup {<<e, "SPACE_DENIED">>}
            /\ \A q \in Peers \ {p} : audit'[q] = audit[q]
        BY <3>2 DEF AddAt, PeerTypes, JudgedTypes
      <4>2. e.foreign
        BY <3>2
      <4> QED
        BY <3>1, <4>1, <4>2
    <3>3. CASE UNCHANGED audit
      BY <3>1, <3>3
    <3> QED
      BY <2>1, <3>2, <3>3
  <2> QED
    BY <2>1, <2>2 DEF Unmoved, NoSemantics
<1>2. CASE Repeat(p, e)
  BY <1>2 DEF Repeat, Unmoved, NoSemantics
<1>3. CASE Quarantine(p, e)
  <2>1. /\ NoSemantics /\ UNCHANGED <<pending, cursor, draining, reasons, audit>>
        /\ ~e.foreign /\ SeenAt(p, e) = {} /\ e.schema \notin Supported[p]
        /\ seen' = AddAt(seen, p, {e}) /\ quarantine' = AddAt(quarantine, p, {e})
    BY <1>3 DEF Quarantine
  <2>2. /\ seen'[p] = seen[p] \cup {e} /\ \A q \in Peers \ {p} : seen'[q] = seen[q]
        /\ quarantine'[p] = quarantine[p] \cup {e}
        /\ \A q \in Peers \ {p} : quarantine'[q] = quarantine[q]
    BY <2>1 DEF AddAt, PeerTypes
  <2> QED
    BY <2>1, <2>2 DEF Unmoved, NoSemantics
<1>4. CASE RefuseStale(p, e)
  <2>1. /\ NoSemantics /\ UNCHANGED <<pending, quarantine, cursor, draining, audit>>
        /\ ~e.foreign /\ SeenAt(p, e) = {} /\ e.schema \in Supported[p]
        /\ e.seq < cursor[p][e.device] + 1
        /\ seen' = AddAt(seen, p, {e})
        /\ reasons' = AddAt(reasons, p, {<<"STALE_SEQUENCE", e.device>>})
    BY <1>4 DEF RefuseStale, IsFresh, Expected
  <2>2. /\ seen'[p] = seen[p] \cup {e} /\ \A q \in Peers \ {p} : seen'[q] = seen[q]
        /\ reasons'[p] = reasons[p] \cup {<<"STALE_SEQUENCE", e.device>>}
        /\ \A q \in Peers \ {p} : reasons'[q] = reasons[q]
    BY <2>1 DEF AddAt, PeerTypes, JudgedTypes
  <2>3. e.seq <= cursor[p][e.device]
    BY <2>1, EnvelopeFields DEF PeerTypes
  <2> QED
    BY <2>1, <2>2, <2>3 DEF Unmoved, NoSemantics
<1> QED
  BY <1>1, <1>2, <1>3, <1>4

\* The same of a turn of the drain.
LEMMA DrainAt ==
  ASSUME PeerTypes, NEW p \in Peers, NEW o \in Peers, Drain(p, o)
  PROVE  /\ draining = <<p, o>> /\ draining' = <<p, o>>
         /\ \A q \in Peers \ {p} : Unmoved(q)
         /\ seen'[p] = seen[p] /\ quarantine'[p] = quarantine[p]
         /\ \A r \in Peers \ {o} : cursor'[p][r] = cursor[p][r]
         /\ \E w \in pending[p] :
              /\ w.env \in Envelope /\ w.env.device = o /\ w.env.seq = cursor[p][o] + 1
              /\ pending'[p] = pending[p] \ {w} /\ cursor'[p][o] = w.env.seq
              /\ \/ w.preapplied = TRUE /\ NotJudgedAt(p)
                 \/ w.preapplied = FALSE /\ JudgedAt(p, w.env)
<1>1. PICK w \in Waiting(p, o) :
        /\ pending' = [pending EXCEPT ![p] = @ \ {w}]
        /\ IF w.preapplied THEN NoSemantics /\ UNCHANGED <<reasons, audit>>
           ELSE ApplySemantics(p, w.env)
        /\ cursor' = [cursor EXCEPT ![p][o] = w.env.seq]
  BY DEF Drain
<1>2. /\ w \in pending[p] /\ w.env \in Envelope /\ w.preapplied \in BOOLEAN
      /\ w.env.device = o /\ w.env.seq = cursor[p][o] + 1
  BY DEF Waiting, PeerTypes
<1>3. /\ pending'[p] = pending[p] \ {w} /\ \A q \in Peers \ {p} : pending'[q] = pending[q]
      /\ cursor'[p][o] = w.env.seq /\ \A q \in Peers \ {p} : cursor'[q] = cursor[q]
      /\ \A r \in Peers \ {o} : cursor'[p][r] = cursor[p][r]
  BY <1>1 DEF PeerTypes
<1>4. UNCHANGED <<seen, quarantine, draining>> /\ draining = <<p, o>>
  BY DEF Drain
<1>5. CASE w.preapplied = TRUE
  <2>1. NoSemantics /\ UNCHANGED <<reasons, audit>>
    BY <1>1, <1>5
  <2>2. NotJudgedAt(p) /\ \A q \in Peers \ {p} : Unmoved(q)
    BY <1>3, <1>4, <2>1 DEF NoSemantics, NotJudgedAt, Unmoved
  <2> QED
    BY <1>2, <1>3, <1>4, <1>5, <2>2
<1>6. CASE w.preapplied = FALSE
  <2>1. ApplySemantics(p, w.env)
    BY <1>1, <1>6
  <2>2. JudgedAt(p, w.env) /\ \A q \in Peers \ {p} : Unmoved(q)
    BY <1>2, <1>3, <1>4, <2>1, SemanticsAt DEF Unmoved
  <2> QED
    BY <1>2, <1>3, <1>4, <1>6, <2>2
<1> QED
  BY <1>2, <1>5, <1>6

-----------------------------------------------------------------------------
(* The cursor, what waits, and what was judged.                            *)

\* A sequence of a device is recorded for one envelope, of the peer's own space.
SeenOnce(p) ==
  /\ \A e \in seen[p] : e.foreign = FALSE
  /\ \A d, e \in seen[p] : d.device = e.device /\ d.seq = e.seq => d = e

\* What waits was recorded and can be read; it took effect if it is a control
\* envelope.
WaitsKnown(p) ==
  \A w \in pending[p] : /\ w.env \in seen[p] /\ w.env.schema \in Supported[p]
                        /\ w.preapplied = TRUE <=> IsPriority(w.env)

\* What was judged was recorded, and waits only if it took effect already.
AuditKnown(p) ==
  \A a \in audit[p] :
    \/ a[1].foreign = TRUE /\ a[2] = "SPACE_DENIED"
    \/ /\ a[1] \in seen[p]
       /\ \A w \in pending[p] : w.env = a[1] => w.preapplied = TRUE

\* No envelope has two verdicts.
OneVerdict(p) == \A a, b \in audit[p] : a[1] = b[1] => a = b

\* The cursor of an origin, what is read up to it, and what waits beyond it.
Gapless(p, o) ==
  LET Read == {e \in seen[p] : e.device = o /\ e.schema \in Supported[p]}
  IN  /\ \A n \in 1..cursor[p][o] : \E e \in Read : e.seq = n
      /\ \A w \in pending[p] : w.env.device = o => w.env.seq > cursor[p][o]
      /\ \A e \in Read : e.seq > cursor[p][o] => \E w \in pending[p] : w.env = e
      /\ draining # <<p, o>> => \A e \in Read : e.seq # cursor[p][o] + 1

PeerIsSound(p) ==
  /\ SeenOnce(p) /\ WaitsKnown(p) /\ AuditKnown(p) /\ OneVerdict(p)
  /\ \A o \in Peers : Gapless(p, o)

\* Nothing happens to the soundness of a peer that nothing happens to.
LEMMA UnmovedStaysSound ==
  ASSUME NEW q \in Peers, PeerIsSound(q), Unmoved(q),
         \A o \in Peers : draining = <<q, o>> => draining' = <<q, o>>
  PROVE  PeerIsSound(q)'
<1>1. /\ SeenOnce(q)' /\ WaitsKnown(q)' /\ AuditKnown(q)' /\ OneVerdict(q)'
  BY DEF PeerIsSound, Unmoved, SeenOnce, WaitsKnown, AuditKnown, OneVerdict
<1>2. ASSUME NEW o \in Peers PROVE Gapless(q, o)'
  <2>1. Gapless(q, o)
    BY DEF PeerIsSound
  <2> QED
    BY <2>1 DEF Gapless, Unmoved
<1> QED
  BY <1>1, <1>2 DEF PeerIsSound

\* An envelope that is judged for the first time has one verdict.
LEMMA JudgedHasOneVerdict ==
  ASSUME NEW p \in Peers, OneVerdict(p), NEW e, JudgedAt(p, e),
         \A a \in audit[p] : a[1] # e
  PROVE  /\ OneVerdict(p)'
         /\ \A a \in audit'[p] : a \in audit[p] \/ a[1] = e
<1>1. audit'[p] = audit[p] \cup {<<e, Verdict(p, e)>>}
  BY DEF JudgedAt
<1> QED
  BY <1>1 DEF OneVerdict

\* What a fresh envelope is: new, and neither judged nor waiting.
LEMMA FreshIsNew ==
  ASSUME PeerTypes, NEW p \in Peers, PeerIsSound(p), NEW e \in Envelope, IsFresh(p, e)
  PROVE  /\ e.foreign = FALSE /\ e.schema \in Supported[p] /\ e \notin seen[p]
         /\ \A d \in seen[p] : d.device = e.device => d.seq # e.seq
         /\ \A w \in pending[p] : w.env # e
         /\ \A a \in audit[p] : a[1] # e
<1>1. e.foreign = FALSE /\ e.schema \in Supported[p] /\ SeenAt(p, e) = {}
  BY EnvelopeFields DEF IsFresh
<1>2. \A d \in seen[p] : d.device = e.device => d.seq # e.seq
  BY <1>1 DEF SeenAt
<1>3. e \notin seen[p]
  BY <1>2
<1> QED
  BY <1>1, <1>2, <1>3 DEF PeerIsSound, WaitsKnown, AuditKnown

\* A peer that lets an envelope wait stays sound.
LEMMA HoldStaysSound ==
  ASSUME PeerTypes, NEW p \in Peers, PeerIsSound(p), draining = None,
         NEW e \in Envelope, Hold(p, e)
  PROVE  PeerIsSound(p)'
<1>1. /\ draining' = draining /\ cursor'[p] = cursor[p] /\ seen'[p] = seen[p] \cup {e}
      /\ pending'[p] = pending[p] \cup {[env |-> e, preapplied |-> IsPriority(e)]}
      /\ IF IsPriority(e) THEN JudgedAt(p, e) ELSE NotJudgedAt(p)
  BY HoldAt
<1>2. IsFresh(p, e) /\ e.seq > cursor[p][e.device] + 1
  BY DEF Hold, Expected
<1>3. /\ e.foreign = FALSE /\ e.schema \in Supported[p] /\ e \notin seen[p]
      /\ \A d \in seen[p] : d.device = e.device => d.seq # e.seq
      /\ \A w \in pending[p] : w.env # e
      /\ \A a \in audit[p] : a[1] # e
  BY <1>2, FreshIsNew
<1>4. e.device \in Peers /\ e.seq \in Nat /\ cursor[p][e.device] \in Nat
  BY EnvelopeFields DEF PeerTypes
<1>5. SeenOnce(p)'
  BY <1>1, <1>3 DEF PeerIsSound, SeenOnce
<1>6. WaitsKnown(p)'
  BY <1>1, <1>3 DEF PeerIsSound, WaitsKnown
<1>7. AuditKnown(p)' /\ OneVerdict(p)'
  <2>1. CASE IsPriority(e)
    <3>1. /\ OneVerdict(p)'
          /\ \A a \in audit'[p] : a \in audit[p] \/ a[1] = e
      BY <1>1, <1>3, <2>1, JudgedHasOneVerdict DEF PeerIsSound
    <3> QED
      BY <1>1, <1>3, <2>1, <3>1 DEF PeerIsSound, AuditKnown
  <2>2. CASE ~IsPriority(e)
    BY <1>1, <1>3, <2>2 DEF PeerIsSound, AuditKnown, OneVerdict, NotJudgedAt
  <2> QED
    BY <2>1, <2>2
<1>8. ASSUME NEW o \in Peers PROVE Gapless(p, o)'
  <2>1. Gapless(p, o) /\ cursor[p][o] \in Nat
    BY DEF PeerIsSound, PeerTypes
  <2>2. \A w \in pending'[p] : w \in pending[p] \/ w.env = e
    BY <1>1
  <2>3. \E w \in pending'[p] : w.env = e
    <3>1. [env |-> e, preapplied |-> IsPriority(e)] \in pending'[p]
      BY <1>1
    <3> QED
      BY <3>1
  <2>4. draining # <<p, o>>
    BY DEF None
  <2> QED
    BY <1>1, <1>2, <1>3, <1>4, <2>1, <2>2, <2>3, <2>4 DEF Gapless
<1> QED
  BY <1>5, <1>6, <1>7, <1>8 DEF PeerIsSound

\* A peer that takes the expected envelope stays sound.
LEMMA TakeStaysSound ==
  ASSUME PeerTypes, NEW p \in Peers, PeerIsSound(p), draining = None,
         NEW e \in Envelope, Take(p, e)
  PROVE  PeerIsSound(p)'
<1>1. /\ draining' = <<p, e.device>> /\ cursor'[p][e.device] = e.seq
      /\ \A o \in Peers \ {e.device} : cursor'[p][o] = cursor[p][o]
      /\ seen'[p] = seen[p] \cup {e} /\ pending'[p] = pending[p]
      /\ JudgedAt(p, e)
  BY TakeAt
<1>2. IsFresh(p, e) /\ e.seq = cursor[p][e.device] + 1
  BY DEF Take, Expected
<1>3. /\ e.foreign = FALSE /\ e.schema \in Supported[p] /\ e \notin seen[p]
      /\ \A d \in seen[p] : d.device = e.device => d.seq # e.seq
      /\ \A w \in pending[p] : w.env # e
      /\ \A a \in audit[p] : a[1] # e
  BY <1>2, FreshIsNew
<1>4. e.device \in Peers /\ e.seq \in Nat /\ cursor[p][e.device] \in Nat
  BY EnvelopeFields DEF PeerTypes
<1>5. SeenOnce(p)'
  BY <1>1, <1>3 DEF PeerIsSound, SeenOnce
<1>6. WaitsKnown(p)'
  BY <1>1 DEF PeerIsSound, WaitsKnown
<1>7. AuditKnown(p)' /\ OneVerdict(p)'
  <2>1. /\ OneVerdict(p)'
        /\ \A a \in audit'[p] : a \in audit[p] \/ a[1] = e
    BY <1>1, <1>3, JudgedHasOneVerdict DEF PeerIsSound
  <2> QED
    BY <1>1, <1>3, <2>1 DEF PeerIsSound, AuditKnown
<1>8. ASSUME NEW o \in Peers PROVE Gapless(p, o)'
  <2>1. Gapless(p, o) /\ cursor[p][o] \in Nat /\ draining # <<p, o>>
    BY DEF PeerIsSound, PeerTypes, None
  <2>2. \A w \in pending[p] : w.env \in seen[p] /\ w.env.schema \in Supported[p]
    BY DEF PeerIsSound, WaitsKnown
  <2>3. \A d \in seen[p] : d.seq \in Nat
    BY EnvelopeFields DEF PeerTypes
  <2>4. CASE o # e.device
    <3>1. cursor'[p][o] = cursor[p][o] /\ draining' # <<p, o>>
      BY <1>1, <2>4
    <3> QED
      BY <1>1, <2>1, <2>4, <3>1 DEF Gapless
  <2>5. CASE o = e.device
    BY <1>1, <1>2, <1>3, <1>4, <2>1, <2>2, <2>3, <2>5 DEF Gapless
  <2> QED
    BY <2>4, <2>5
<1> QED
  BY <1>5, <1>6, <1>7, <1>8 DEF PeerIsSound

\* A peer that sets an envelope aside stays sound.
LEMMA SetAsideStaysSound ==
  ASSUME PeerTypes, NEW p \in Peers, PeerIsSound(p), draining = None, NEW e \in Envelope,
         Refuse(p, e) \/ Repeat(p, e) \/ Quarantine(p, e) \/ RefuseStale(p, e)
  PROVE  PeerIsSound(p)'
<1>1. /\ draining' = draining /\ cursor'[p] = cursor[p] /\ pending'[p] = pending[p]
      /\ \/ seen'[p] = seen[p] /\ audit'[p] = audit[p]
         \/ /\ seen'[p] = seen[p] /\ e.foreign
            /\ audit'[p] = audit[p] \cup {<<e, "SPACE_DENIED">>}
         \/ /\ ~e.foreign /\ SeenAt(p, e) = {} /\ seen'[p] = seen[p] \cup {e}
            /\ audit'[p] = audit[p]
            /\ e.schema \notin Supported[p] \/ e.seq <= cursor[p][e.device]
  BY SetAsideAt
<1>2. e.foreign \in BOOLEAN /\ e.device \in Peers /\ e.seq \in Nat
  BY EnvelopeFields
<1>3. CASE seen'[p] = seen[p] /\ audit'[p] = audit[p]
  <2>1. SeenOnce(p)' /\ WaitsKnown(p)' /\ AuditKnown(p)' /\ OneVerdict(p)'
    BY <1>1, <1>3 DEF PeerIsSound, SeenOnce, WaitsKnown, AuditKnown, OneVerdict
  <2>2. \A o \in Peers : Gapless(p, o)'
    BY <1>1, <1>3 DEF PeerIsSound, Gapless
  <2> QED
    BY <2>1, <2>2 DEF PeerIsSound
<1>4. CASE /\ seen'[p] = seen[p] /\ e.foreign
           /\ audit'[p] = audit[p] \cup {<<e, "SPACE_DENIED">>}
  <2>1. SeenOnce(p)' /\ WaitsKnown(p)'
    BY <1>1, <1>4 DEF PeerIsSound, SeenOnce, WaitsKnown
  <2>2. AuditKnown(p)'
    BY <1>1, <1>2, <1>4 DEF PeerIsSound, AuditKnown
  <2>3. OneVerdict(p)'
    <3>1. \A a \in audit[p] : a[1] = e => a = <<e, "SPACE_DENIED">>
      <4> SUFFICES ASSUME NEW a \in audit[p], a[1] = e PROVE a = <<e, "SPACE_DENIED">>
        OBVIOUS
      <4>1. a[2] = "SPACE_DENIED"
        BY <1>4 DEF PeerIsSound, AuditKnown, SeenOnce
      <4>2. a \in Envelope \X Verdicts
        BY DEF PeerTypes, JudgedTypes
      <4> QED
        BY <4>1, <4>2
    <3> QED
      BY <1>4, <3>1 DEF PeerIsSound, OneVerdict
  <2>4. \A o \in Peers : Gapless(p, o)'
    BY <1>1, <1>4 DEF PeerIsSound, Gapless
  <2> QED
    BY <2>1, <2>2, <2>3, <2>4 DEF PeerIsSound
<1>5. CASE /\ ~e.foreign /\ SeenAt(p, e) = {} /\ seen'[p] = seen[p] \cup {e}
           /\ audit'[p] = audit[p]
           /\ e.schema \notin Supported[p] \/ e.seq <= cursor[p][e.device]
  <2>1. /\ e.foreign = FALSE /\ \A d \in seen[p] : d.device = e.device => d.seq # e.seq
    BY <1>2, <1>5 DEF SeenAt
  <2>2. SeenOnce(p)' /\ WaitsKnown(p)' /\ AuditKnown(p)' /\ OneVerdict(p)'
    BY <1>1, <1>5, <2>1 DEF PeerIsSound, SeenOnce, WaitsKnown, AuditKnown, OneVerdict
  <2>3. ASSUME NEW o \in Peers PROVE Gapless(p, o)'
    <3>1. Gapless(p, o) /\ cursor[p][o] \in Nat
      BY DEF PeerIsSound, PeerTypes
    <3>2. e.device = o /\ e.schema \in Supported[p] => ~(e.seq > cursor[p][o])
      BY <1>2, <1>5, <3>1
    <3>3. e.device = o /\ e.schema \in Supported[p] => e.seq # cursor[p][o] + 1
      BY <1>2, <3>1, <3>2
    <3> QED
      BY <1>1, <1>5, <3>1, <3>2, <3>3 DEF Gapless
  <2> QED
    BY <2>2, <2>3 DEF PeerIsSound
<1> QED
  BY <1>1, <1>3, <1>4, <1>5

\* A peer stays sound through a turn of the drain.
LEMMA DrainStaysSound ==
  ASSUME PeerTypes, NEW p \in Peers, PeerIsSound(p), NEW o \in Peers, Drain(p, o)
  PROVE  PeerIsSound(p)'
<1>0. \A r \in Peers \ {o} : cursor'[p][r] = cursor[p][r]
  <2>1. PICK n : cursor' = [cursor EXCEPT ![p][o] = n]
    BY DEF Drain
  <2> QED
    BY <2>1 DEF PeerTypes
<1>1. PICK w \in pending[p] :
        /\ w.env \in Envelope /\ w.env.device = o /\ w.env.seq = cursor[p][o] + 1
        /\ pending'[p] = pending[p] \ {w} /\ cursor'[p][o] = w.env.seq
        /\ \/ w.preapplied = TRUE /\ NotJudgedAt(p)
           \/ w.preapplied = FALSE /\ JudgedAt(p, w.env)
  BY DrainAt
<1>2. /\ draining = <<p, o>> /\ draining' = <<p, o>> /\ seen'[p] = seen[p]
      /\ \A r \in Peers \ {o} : cursor'[p][r] = cursor[p][r]
  BY <1>0 DEF Drain
<1>3. /\ w.env \in seen[p] /\ w.env.schema \in Supported[p]
      /\ w.preapplied = TRUE <=> IsPriority(w.env)
  BY DEF PeerIsSound, WaitsKnown
<1>4. \A x \in pending[p] :
        x.env.device = o /\ x.env.seq = w.env.seq => x = w
  <2> SUFFICES ASSUME NEW x \in pending[p], x.env.device = o, x.env.seq = w.env.seq
               PROVE  x = w
    OBVIOUS
  <2>1. x.env \in seen[p] /\ (x.preapplied = TRUE <=> IsPriority(x.env))
    BY DEF PeerIsSound, WaitsKnown
  <2>2. x.env = w.env
    BY <1>1, <1>3, <2>1 DEF PeerIsSound, SeenOnce
  <2>3. /\ x \in [env : Envelope, preapplied : BOOLEAN]
        /\ w \in [env : Envelope, preapplied : BOOLEAN]
    BY DEF PeerTypes
  <2> QED
    BY <1>3, <2>1, <2>2, <2>3
<1>5. SeenOnce(p)' /\ WaitsKnown(p)'
  BY <1>1, <1>2 DEF PeerIsSound, SeenOnce, WaitsKnown
<1>6. AuditKnown(p)' /\ OneVerdict(p)'
  <2>1. CASE w.preapplied = TRUE /\ NotJudgedAt(p)
    BY <1>1, <1>2, <2>1 DEF PeerIsSound, AuditKnown, OneVerdict, NotJudgedAt
  <2>2. CASE w.preapplied = FALSE /\ JudgedAt(p, w.env)
    <3>1. \A a \in audit[p] : a[1] # w.env
      BY <1>3, <2>2 DEF PeerIsSound, AuditKnown, SeenOnce
    <3>2. /\ OneVerdict(p)'
          /\ \A a \in audit'[p] : a \in audit[p] \/ a[1] = w.env
      BY <2>2, <3>1, JudgedHasOneVerdict DEF PeerIsSound
    <3>3. \A x \in pending'[p] : x \in pending[p] /\ x.env # w.env
      BY <1>1, <1>4
    <3> QED
      BY <1>2, <1>3, <3>2, <3>3 DEF PeerIsSound, AuditKnown
  <2> QED
    BY <1>1, <2>1, <2>2
<1>7. ASSUME NEW r \in Peers PROVE Gapless(p, r)'
  <2>1. Gapless(p, r) /\ cursor[p][r] \in Nat
    BY DEF PeerIsSound, PeerTypes
  <2>2. CASE r # o
    <3>1. cursor'[p][r] = cursor[p][r] /\ draining # <<p, r>>
      BY <1>2, <2>2
    <3>2. \A x \in pending[p] : x.env.device = r => x \in pending'[p]
      BY <1>1, <2>2
    <3> QED
      BY <1>1, <1>2, <2>1, <3>1, <3>2 DEF Gapless
  <2>3. CASE r = o
    <3>1. \A x \in pending[p] : x.env.device = o /\ x.env.seq # w.env.seq => x \in pending'[p]
      BY <1>1
    <3>2. \A x \in pending'[p] : x \in pending[p] /\ (x.env.device = o => x.env.seq # w.env.seq)
      BY <1>1, <1>4
    <3>3. \A d \in seen[p] : d.seq \in Nat
      BY EnvelopeFields DEF PeerTypes
    <3>4. \A n \in 1..cursor'[p][o] : n \in 1..cursor[p][o] \/ n = w.env.seq
      BY <1>1, <2>1, <2>3
    <3>5. \A n \in 1..cursor'[p][o] :
            \E d \in seen[p] : d.device = o /\ d.schema \in Supported[p] /\ d.seq = n
      BY <1>1, <1>3, <2>1, <2>3, <3>4 DEF Gapless
    <3>6. \A x \in pending'[p] : x.env.device = o => x.env.seq > cursor'[p][o]
      <4> SUFFICES ASSUME NEW x \in pending'[p], x.env.device = o
                   PROVE  x.env.seq > cursor'[p][o]
        OBVIOUS
      <4>1. /\ x.env.seq \in Nat /\ x.env.seq > cursor[p][o] /\ x.env.seq # w.env.seq
        BY <2>1, <2>3, <3>2, <3>3 DEF PeerIsSound, WaitsKnown, Gapless
      <4> QED
        BY <1>1, <2>1, <2>3, <4>1
    <3>7. \A d \in seen[p] :
            d.device = o /\ d.schema \in Supported[p] /\ d.seq > cursor'[p][o]
              => \E x \in pending'[p] : x.env = d
      <4> SUFFICES ASSUME NEW d \in seen[p], d.device = o, d.schema \in Supported[p],
                          d.seq > cursor'[p][o]
                   PROVE  \E x \in pending'[p] : x.env = d
        OBVIOUS
      <4>1. d.seq > cursor[p][o] /\ d.seq # w.env.seq
        BY <1>1, <2>1, <2>3, <3>3
      <4>2. PICK x \in pending[p] : x.env = d
        BY <2>1, <2>3, <4>1 DEF Gapless
      <4> QED
        BY <3>1, <4>1, <4>2
    <3> QED
      BY <1>2, <2>3, <3>5, <3>6, <3>7 DEF Gapless
  <2> QED
    BY <2>2, <2>3
<1> QED
  BY <1>5, <1>6, <1>7 DEF PeerIsSound

\* A peer stays sound when it has drained what waited.
LEMMA EndOfDrainStaysSound ==
  ASSUME PeerTypes, NEW p \in Peers, PeerIsSound(p), NEW o \in Peers, EndOfDrain(p, o)
  PROVE  PeerIsSound(p)'
<1>1. /\ draining = <<p, o>> /\ Waiting(p, o) = {}
      /\ UNCHANGED <<cursor, seen, pending, audit>>
  BY DEF EndOfDrain
<1>2. SeenOnce(p)' /\ WaitsKnown(p)' /\ AuditKnown(p)' /\ OneVerdict(p)'
  BY <1>1 DEF PeerIsSound, SeenOnce, WaitsKnown, AuditKnown, OneVerdict
<1>3. ASSUME NEW r \in Peers PROVE Gapless(p, r)'
  <2>1. Gapless(p, r) /\ cursor[p][r] \in Nat
    BY DEF PeerIsSound, PeerTypes
  <2>2. CASE r # o
    BY <1>1, <2>1, <2>2 DEF Gapless
  <2>3. CASE r = o
    <3>1. \A d \in seen[p] : d.device = o /\ d.schema \in Supported[p] => d.seq # cursor[p][o] + 1
      <4> SUFFICES ASSUME NEW d \in seen[p], d.device = o, d.schema \in Supported[p],
                          d.seq = cursor[p][o] + 1
                   PROVE  FALSE
        OBVIOUS
      <4>1. d.seq > cursor[p][o]
        BY <2>1, <2>3
      <4>2. PICK w \in pending[p] : w.env = d
        BY <2>1, <2>3, <4>1 DEF Gapless
      <4> QED
        BY <1>1, <4>2 DEF Waiting
    <3> QED
      BY <1>1, <2>1, <2>3, <3>1 DEF Gapless
  <2> QED
    BY <2>2, <2>3
<1> QED
  BY <1>2, <1>3 DEF PeerIsSound

\* Every peer is sound: the inductive invariant.
SimulationIsSound == Typed /\ \A p \in Peers : PeerIsSound(p)

\* Every step keeps the inductive invariant.
LEMMA StepIsSound ==
  ASSUME SimulationIsSound, [Next]_vars
  PROVE  SimulationIsSound'
<1>1. Typed' /\ PeerTypes
  BY StepKeepsTypes DEF SimulationIsSound, Typed, TypeOK, PeerTypes, JudgedTypes
<1> SUFFICES ASSUME NEW q \in Peers PROVE PeerIsSound(q)'
  BY <1>1 DEF SimulationIsSound
<1>2. PeerIsSound(q)
  BY DEF SimulationIsSound
<1>3. CASE UNCHANGED <<cursor, seen, pending, quarantine, keys, revisions, tombstones,
                       revoked, reasons, audit, draining>>
  <2>1. Unmoved(q) /\ draining' = draining
    BY <1>3 DEF Unmoved
  <2> QED
    BY <1>2, <2>1, UnmovedStaysSound
<1>4. ASSUME draining = None, NEW p \in Peers, NEW e \in Envelope, Receive(p, e)
      PROVE  PeerIsSound(q)'
  <2>1. \A o \in Peers : draining # <<q, o>>
    BY <1>4 DEF None
  <2>2. CASE q = p
    BY <1>1, <1>2, <1>4, <2>2, HoldStaysSound, TakeStaysSound, SetAsideStaysSound DEF Receive
  <2>3. CASE q # p
    <3>1. Unmoved(q)
      BY <1>1, <1>4, <2>3, HoldAt, TakeAt, SetAsideAt DEF Receive
    <3> QED
      BY <1>2, <2>1, <3>1, UnmovedStaysSound
  <2> QED
    BY <2>2, <2>3
<1>5. ASSUME NEW p \in Peers, NEW o \in Peers, Drain(p, o) PROVE PeerIsSound(q)'
  <2>1. CASE q = p
    BY <1>1, <1>2, <1>5, <2>1, DrainStaysSound
  <2>2. CASE q # p
    <3>1. Unmoved(q)
      BY <1>1, <1>5, <2>2, DrainAt
    <3>2. draining' = draining
      BY <1>5 DEF Drain
    <3> QED
      BY <1>2, <3>1, <3>2, UnmovedStaysSound
  <2> QED
    BY <2>1, <2>2
<1>6. ASSUME NEW p \in Peers, NEW o \in Peers, EndOfDrain(p, o) PROVE PeerIsSound(q)'
  <2>1. CASE q = p
    BY <1>1, <1>2, <1>6, <2>1, EndOfDrainStaysSound
  <2>2. CASE q # p
    <3>1. Unmoved(q) /\ draining = <<p, o>>
      BY <1>6 DEF EndOfDrain, Unmoved
    <3>2. \A r \in Peers : draining # <<q, r>>
      BY <2>2, <3>1
    <3> QED
      BY <1>2, <3>1, <3>2, UnmovedStaysSound
  <2> QED
    BY <2>1, <2>2
<1> QED
  BY <1>3, <1>4, <1>5, <1>6, StepsOfPeers DEF SimulationIsSound

\* The inductive invariant holds at the start.
LEMMA InitIsSound == Init => SimulationIsSound
<1> SUFFICES ASSUME Init, NEW p \in Peers PROVE PeerIsSound(p)
  BY InitTypes DEF SimulationIsSound
<1>1. SeenOnce(p) /\ WaitsKnown(p) /\ AuditKnown(p) /\ OneVerdict(p)
  BY DEF Init, PeerInit, SeenOnce, WaitsKnown, AuditKnown, OneVerdict
<1>2. ASSUME NEW o \in Peers PROVE Gapless(p, o)
  BY DEF Init, PeerInit, Gapless
<1> QED
  BY <1>1, <1>2 DEF PeerIsSound

\* Every peer is sound in every reachable state.
THEOREM PeerSoundness == Spec => []SimulationIsSound
<1>1. SimulationIsSound /\ [Next]_vars => SimulationIsSound'
  BY StepIsSound
<1> QED
  BY <1>1, InitIsSound, PTL DEF Spec

\* No envelope is judged twice.
THEOREM EnvelopesAreJudgedOnce == Spec => []JudgedOnce
<1>1. SimulationIsSound => JudgedOnce
  BY DEF SimulationIsSound, PeerIsSound, OneVerdict, JudgedOnce
<1> QED
  BY <1>1, PeerSoundness, PTL

\* Between two calls the cursor stands where the gapless prefix ends, and exactly
\* what lies beyond a gap waits.
THEOREM CursorsAreGapless == Spec => []CursorIsGaplessPrefix
<1>1. SimulationIsSound => CursorIsGaplessPrefix
  <2> SUFFICES ASSUME SimulationIsSound, draining = None, NEW p \in Peers, NEW o \in Peers
               PROVE  /\ 1..cursor[p][o] \subseteq ReadSequences(p, o)
                      /\ cursor[p][o] + 1 \notin ReadSequences(p, o)
                      /\ {w.env.seq : w \in {x \in pending[p] : x.env.device = o}}
                           = {n \in ReadSequences(p, o) : n > cursor[p][o]}
    BY DEF CursorIsGaplessPrefix
  <2> DEFINE Read == {e \in seen[p] : e.device = o /\ e.schema \in Supported[p]}
  <2>1. /\ \A n \in 1..cursor[p][o] : \E e \in Read : e.seq = n
        /\ \A w \in pending[p] : w.env.device = o => w.env.seq > cursor[p][o]
        /\ \A e \in Read : e.seq > cursor[p][o] => \E w \in pending[p] : w.env = e
        /\ \A e \in Read : e.seq # cursor[p][o] + 1
    BY DEF SimulationIsSound, PeerIsSound, Gapless, None
  <2>2. \A w \in pending[p] : w.env.device = o => w.env \in Read
    BY DEF SimulationIsSound, PeerIsSound, WaitsKnown
  <2>3. ReadSequences(p, o) = {e.seq : e \in Read}
    BY DEF ReadSequences
  <2>4. \A e \in Read : e.device = o
    OBVIOUS
  <2> HIDE DEF Read
  <2> QED
    BY <2>1, <2>2, <2>3, <2>4
<1> QED
  BY <1>1, PeerSoundness, PTL

-----------------------------------------------------------------------------
(* What a peer shows is told by what it has read.                          *)

\* A key is recorded of what took effect: a tombstone, a revocation, or a revision
\* unless its event was deleted before.
KeysTell(p) ==
  \A r \in keys[p] :
    /\ r.content.op = "tombstone" => \E e \in tombstones[p] : KeyRecord(e) = r
    /\ r.content.op = "grant_revocation" => r.content.object \in revoked[p]
    /\ r.content.op = "append_revision" =>
         \/ r.content.object \in Tombstoned(p)
         \/ \E e \in revisions[p] : KeyRecord(e) = r

\* What took effect was read, a revision in its turn, and a tombstone once.
AppliedTell(p) ==
  /\ \A e \in tombstones[p] : /\ e \in seen[p] /\ e.content.op = "tombstone"
                              /\ KeyRecord(e) \in keys[p]
  /\ \A e \in revisions[p] : /\ e \in seen[p] /\ e.content.op = "append_revision"
                             /\ KeyRecord(e) \in keys[p]
                             /\ e.seq <= cursor[p][e.device]
  /\ \A v \in revoked[p] :
       \E e \in seen[p] : e.content.op = "grant_revocation" /\ e.content.object = v
  /\ \A d, e \in tombstones[p] : KeyRecord(d) = KeyRecord(e) => d = e

\* What was read took effect under its key, unless it still waits or is in quarantine.
SeenTell(p) ==
  \A e \in seen[p] :
    IF e.schema \in Supported[p]
    THEN \/ KeyRecord(e) \in keys[p]
         \/ \E w \in pending[p] : w.env = e /\ w.preapplied = FALSE
    ELSE e \in quarantine[p]

\* Of the envelopes under one key it is the first whose revision is applied.
FirstWins(p) ==
  \A e \in revisions[p], d \in seen[p] :
    d.schema \in Supported[p] /\ KeyRecord(d) = KeyRecord(e) => e.seq <= d.seq

Accounts(p) == KeysTell(p) /\ AppliedTell(p) /\ SeenTell(p) /\ FirstWins(p)

\* A peer that has recorded no reason accounts for all that it has read.
PeerAccounts(p) == IsFiniteSet(seen[p]) /\ (reasons[p] = {} => Accounts(p))

\* What becomes of an envelope that is judged and leaves no reason behind.
LEMMA JudgedWithoutReason ==
  ASSUME NEW p \in Peers, NEW e, JudgedAt(p, e), reasons'[p] = {}
  PROVE  /\ reasons[p] = {}
         /\ \/ /\ KeyRecord(e) \in keys[p] /\ keys'[p] = keys[p]
               /\ tombstones'[p] = tombstones[p] /\ revoked'[p] = revoked[p]
               /\ revisions'[p] = revisions[p]
            \/ /\ KeyRecord(e) \notin keys[p] /\ keys'[p] = keys[p] \cup {KeyRecord(e)}
               /\ \/ /\ e.content.op = "tombstone" /\ tombstones'[p] = tombstones[p] \cup {e}
                     /\ revoked'[p] = revoked[p] /\ revisions'[p] = revisions[p]
                  \/ /\ e.content.op = "grant_revocation" /\ tombstones'[p] = tombstones[p]
                     /\ revoked'[p] = revoked[p] \cup {e.content.object}
                     /\ revisions'[p] = revisions[p]
                  \/ /\ e.content.op = "append_revision" /\ tombstones'[p] = tombstones[p]
                     /\ revoked'[p] = revoked[p]
                     /\ \/ revisions'[p] = revisions[p] \cup {e}
                        \/ /\ e.content.object \in Tombstoned(p)
                           /\ revisions'[p] = revisions[p]
                  \/ /\ e.content.op \notin {"tombstone", "grant_revocation", "append_revision"}
                     /\ tombstones'[p] = tombstones[p] /\ revoked'[p] = revoked[p]
                     /\ revisions'[p] = revisions[p]
<1>1. PICK judgement : judgement = Verdict(p, e)
  OBVIOUS
<1>2. /\ keys'[p] = keys[p] \cup (IF judgement \in PastKey THEN {KeyRecord(e)} ELSE {})
      /\ revisions'[p] = revisions[p] \cup (IF judgement = "REVISION_APPLIED" THEN {e} ELSE {})
      /\ tombstones'[p] = tombstones[p] \cup (IF judgement = "TOMBSTONE_APPLIED" THEN {e} ELSE {})
      /\ revoked'[p] = revoked[p] \cup (IF judgement = "REVOCATION_APPLIED"
                                        THEN {e.content.object} ELSE {})
      /\ reasons'[p] = reasons[p] \cup (IF judgement \in Suspicious
                                        THEN {<<judgement, e.device>>} ELSE {})
  BY <1>1 DEF JudgedAt
<1>3. reasons[p] = {} /\ judgement \notin Suspicious
  BY <1>2
<1>4. judgement = VerdictOnKey(p, e)
  BY <1>1, <1>3 DEF Verdict, Suspicious
<1>5. KeyRecord(e).key = e.key
  BY DEF KeyRecord
<1>6. CASE \E r \in keys[p] : r.key = e.key
  <2>1. KeyRecord(e) \in keys[p] /\ judgement = "IDEMPOTENT_REPLAY"
    BY <1>3, <1>4, <1>6 DEF VerdictOnKey, Suspicious
  <2> QED
    BY <1>2, <1>3, <2>1 DEF PastKey, Applied
<1>7. CASE ~\E r \in keys[p] : r.key = e.key
  <2>1. KeyRecord(e) \notin keys[p]
    BY <1>5, <1>7
  <2>2. judgement = VerdictOnContent(p, e.content)
    BY <1>4, <1>7 DEF VerdictOnKey
  <2>3. CASE e.content.op = "tombstone"
    <3>1. judgement = "TOMBSTONE_APPLIED"
      BY <2>2, <2>3 DEF VerdictOnContent
    <3> QED
      BY <1>2, <1>3, <2>1, <2>3, <3>1 DEF PastKey, Applied
  <2>4. CASE e.content.op = "grant_revocation"
    <3>1. judgement = "REVOCATION_APPLIED"
      BY <2>2, <2>4 DEF VerdictOnContent
    <3> QED
      BY <1>2, <1>3, <2>1, <2>4, <3>1 DEF PastKey, Applied
  <2>5. CASE e.content.op = "append_revision"
    <3>1. \/ judgement = "TOMBSTONE_PRECEDENCE" /\ e.content.object \in Tombstoned(p)
          \/ judgement = "REVISION_APPLIED"
      BY <1>3, <2>2, <2>5 DEF VerdictOnContent, Suspicious
    <3> QED
      BY <1>2, <1>3, <2>1, <2>5, <3>1 DEF PastKey, Applied
  <2>6. CASE e.content.op \notin {"tombstone", "grant_revocation", "append_revision"}
    <3>1. judgement = "ACCEPTED_NO_PROJECTION"
      BY <2>2, <2>6 DEF VerdictOnContent
    <3> QED
      BY <1>2, <1>3, <2>1, <2>6, <3>1 DEF PastKey, Applied
  <2> QED
    BY <2>3, <2>4, <2>5, <2>6
<1> QED
  BY <1>6, <1>7

\* What is recorded of a peer that only reads more goes on telling.
LEMMA NotJudgedGoesOn ==
  ASSUME NEW p \in Peers, KeysTell(p), AppliedTell(p), NotJudgedAt(p),
         PeerTypes, PeerTypes',
         seen[p] \subseteq seen'[p], \A o \in Peers : cursor[p][o] <= cursor'[p][o]
  PROVE  KeysTell(p)' /\ AppliedTell(p)'
<1>1. KeysTell(p)'
  BY DEF KeysTell, Tombstoned, NotJudgedAt
<1>2. \A e \in revisions[p] :
        /\ e.device \in Peers /\ e.seq \in Nat
        /\ cursor[p][e.device] \in Nat /\ cursor'[p][e.device] \in Nat
  BY EnvelopeFields DEF PeerTypes, JudgedTypes
<1>3. \A e \in revisions[p] : e.seq <= cursor[p][e.device] => e.seq <= cursor'[p][e.device]
  BY <1>2
<1>4. AppliedTell(p)'
  BY <1>3 DEF AppliedTell, NotJudgedAt
<1> QED
  BY <1>1, <1>4

\* So does what is recorded of a peer that judges an envelope, if it takes revisions
\* in their turn; the envelope is then under a key.
LEMMA JudgedGoesOn ==
  ASSUME NEW p \in Peers, KeysTell(p), AppliedTell(p), NEW e \in Envelope, JudgedAt(p, e),
         reasons'[p] = {}, PeerTypes, PeerTypes',
         seen[p] \subseteq seen'[p], \A o \in Peers : cursor[p][o] <= cursor'[p][o],
         e \in seen'[p],
         e.content.op = "append_revision" => e.seq <= cursor'[p][e.device]
  PROVE  /\ KeysTell(p)' /\ AppliedTell(p)'
         /\ KeyRecord(e) \in keys'[p] /\ keys[p] \subseteq keys'[p]
         /\ \A d \in revisions'[p] :
              \/ d \in revisions[p]
              \/ d = e /\ KeyRecord(e) \notin keys[p] /\ e.content.op = "append_revision"
<1>1. \A d \in revisions[p] :
        /\ d.device \in Peers /\ d.seq \in Nat
        /\ cursor[p][d.device] \in Nat /\ cursor'[p][d.device] \in Nat
  BY EnvelopeFields DEF PeerTypes, JudgedTypes
<1>2. \A d \in revisions[p] : d.seq <= cursor[p][d.device] => d.seq <= cursor'[p][d.device]
  BY <1>1
<1>3. KeyRecord(e).content = e.content
  BY DEF KeyRecord
<1>4. CASE /\ KeyRecord(e) \in keys[p] /\ keys'[p] = keys[p]
           /\ tombstones'[p] = tombstones[p] /\ revoked'[p] = revoked[p]
           /\ revisions'[p] = revisions[p]
  <2>1. KeysTell(p)'
    BY <1>4 DEF KeysTell, Tombstoned
  <2>2. AppliedTell(p)'
    BY <1>2, <1>4 DEF AppliedTell
  <2> QED
    BY <1>4, <2>1, <2>2
<1>5. ASSUME KeyRecord(e) \notin keys[p], keys'[p] = keys[p] \cup {KeyRecord(e)},
             e.content.op = "tombstone", tombstones'[p] = tombstones[p] \cup {e},
             revoked'[p] = revoked[p], revisions'[p] = revisions[p]
      PROVE  KeysTell(p)' /\ AppliedTell(p)'
  <2>1. KeysTell(p)'
    BY <1>3, <1>5 DEF KeysTell, Tombstoned
  <2>2. AppliedTell(p)'
    BY <1>2, <1>5 DEF AppliedTell
  <2> QED
    BY <2>1, <2>2
<1>6. ASSUME KeyRecord(e) \notin keys[p], keys'[p] = keys[p] \cup {KeyRecord(e)},
             e.content.op = "grant_revocation", tombstones'[p] = tombstones[p],
             revoked'[p] = revoked[p] \cup {e.content.object}, revisions'[p] = revisions[p]
      PROVE  KeysTell(p)' /\ AppliedTell(p)'
  <2>1. KeysTell(p)'
    BY <1>3, <1>6 DEF KeysTell, Tombstoned
  <2>2. AppliedTell(p)'
    BY <1>2, <1>6 DEF AppliedTell
  <2> QED
    BY <2>1, <2>2
<1>7. ASSUME KeyRecord(e) \notin keys[p], keys'[p] = keys[p] \cup {KeyRecord(e)},
             e.content.op = "append_revision", tombstones'[p] = tombstones[p],
             revoked'[p] = revoked[p], revisions'[p] = revisions[p] \cup {e}
      PROVE  KeysTell(p)' /\ AppliedTell(p)'
  <2>1. KeysTell(p)'
    BY <1>3, <1>7 DEF KeysTell, Tombstoned
  <2>2. AppliedTell(p)'
    BY <1>2, <1>7 DEF AppliedTell
  <2> QED
    BY <2>1, <2>2
<1>8. ASSUME KeyRecord(e) \notin keys[p], keys'[p] = keys[p] \cup {KeyRecord(e)},
             \/ e.content.op = "append_revision" /\ e.content.object \in Tombstoned(p)
             \/ e.content.op \notin {"tombstone", "grant_revocation", "append_revision"},
             tombstones'[p] = tombstones[p], revoked'[p] = revoked[p],
             revisions'[p] = revisions[p]
      PROVE  KeysTell(p)' /\ AppliedTell(p)'
  <2>1. KeysTell(p)'
    BY <1>3, <1>8 DEF KeysTell, Tombstoned
  <2>2. AppliedTell(p)'
    BY <1>2, <1>8 DEF AppliedTell
  <2> QED
    BY <2>1, <2>2
<1> QED
  BY <1>4, <1>5, <1>6, <1>7, <1>8, JudgedWithoutReason

\* A peer that nothing happens to goes on accounting.
LEMMA UnmovedAccounts ==
  ASSUME NEW q \in Peers, PeerAccounts(q), Unmoved(q)
  PROVE  PeerAccounts(q)'
<1> SUFFICES ASSUME reasons'[q] = {} PROVE Accounts(q)'
  BY DEF PeerAccounts, Unmoved
<1>1. Accounts(q)
  BY DEF PeerAccounts, Unmoved
<1>2. KeysTell(q)' /\ AppliedTell(q)'
  BY <1>1 DEF Accounts, KeysTell, AppliedTell, Tombstoned, Unmoved
<1>3. SeenTell(q)' /\ FirstWins(q)'
  BY <1>1 DEF Accounts, SeenTell, FirstWins, Unmoved
<1> QED
  BY <1>2, <1>3 DEF Accounts

\* A judged envelope leaves the reasons that were there.
LEMMA ReasonsGrow ==
  ASSUME NEW p \in Peers, NEW e, JudgedAt(p, e) \/ NotJudgedAt(p)
  PROVE  reasons[p] \subseteq reasons'[p]
  BY DEF JudgedAt, NotJudgedAt

\* A peer that lets an envelope wait goes on accounting.
LEMMA HoldAccounts ==
  ASSUME PeerTypes, PeerTypes', NEW p \in Peers, PeerIsSound(p), PeerAccounts(p),
         NEW e \in Envelope, Hold(p, e)
  PROVE  PeerAccounts(p)'
<1>1. /\ cursor'[p] = cursor[p] /\ seen'[p] = seen[p] \cup {e}
      /\ pending'[p] = pending[p] \cup {[env |-> e, preapplied |-> IsPriority(e)]}
      /\ quarantine'[p] = quarantine[p]
      /\ IF IsPriority(e) THEN JudgedAt(p, e) ELSE NotJudgedAt(p)
  BY HoldAt
<1>2. IsFresh(p, e) /\ e.seq > cursor[p][e.device] + 1
  BY DEF Hold, Expected
<1>3. e.schema \in Supported[p] /\ e.device \in Peers /\ e.seq \in Nat
      /\ cursor[p][e.device] \in Nat
  BY <1>2, EnvelopeFields DEF IsFresh, PeerTypes
<1>4. IsFiniteSet(seen'[p])
  <2>1. IsFiniteSet(seen[p] \cup {e})
    BY FS_AddElement DEF PeerAccounts
  <2>2. seen'[p] = seen[p] \cup {e}
    BY <1>1
  <2> QED
    BY <2>1, <2>2
<1> SUFFICES ASSUME reasons'[p] = {} PROVE Accounts(p)'
  BY <1>4 DEF PeerAccounts
<1>5. Accounts(p)
  BY <1>1, ReasonsGrow DEF PeerAccounts
<1>6. /\ KeysTell(p)' /\ AppliedTell(p)' /\ keys[p] \subseteq keys'[p]
      /\ revisions'[p] \subseteq revisions[p]
      /\ IsPriority(e) => KeyRecord(e) \in keys'[p]
  <2>1. \A o \in Peers : cursor[p][o] <= cursor'[p][o]
    BY <1>1 DEF PeerTypes
  <2>2. CASE IsPriority(e)
    <3>1. e.content.op # "append_revision"
      BY <2>2 DEF IsPriority
    <3> QED
      BY <1>1, <1>5, <2>1, <2>2, <3>1, JudgedGoesOn DEF Accounts
  <2>3. CASE ~IsPriority(e)
    <3>1. NotJudgedAt(p)
      BY <1>1, <2>3
    <3>2. KeysTell(p)' /\ AppliedTell(p)'
      BY <1>1, <1>5, <2>1, <3>1, NotJudgedGoesOn DEF Accounts
    <3> QED
      BY <2>3, <3>1, <3>2 DEF NotJudgedAt
  <2> QED
    BY <2>2, <2>3
<1>7. SeenTell(p)'
  <2>1. \E w \in pending'[p] : w.env = e /\ w.preapplied = IsPriority(e)
    <3>1. [env |-> e, preapplied |-> IsPriority(e)] \in pending'[p]
      BY <1>1
    <3> QED
      BY <3>1
  <2>2. IsPriority(e) \in BOOLEAN
    BY DEF IsPriority
  <2>3. ~IsPriority(e) => \E w \in pending'[p] : w.env = e /\ w.preapplied = FALSE
    BY <2>1, <2>2
  <2>4. \A w \in pending[p] : w \in pending'[p]
    BY <1>1
  <2> QED
    BY <1>1, <1>3, <1>5, <1>6, <2>3, <2>4 DEF Accounts, SeenTell
<1>8. FirstWins(p)'
  <2> SUFFICES ASSUME NEW x \in revisions[p], KeyRecord(e) = KeyRecord(x)
               PROVE  x.seq <= e.seq
    BY <1>1, <1>5, <1>6 DEF Accounts, FirstWins
  <2>1. x.device = e.device
    BY DEF KeyRecord
  <2>2. x.seq \in Nat /\ x.seq <= cursor[p][x.device]
    BY <1>5, EnvelopeFields DEF Accounts, AppliedTell, PeerTypes, JudgedTypes
  <2> QED
    BY <1>2, <1>3, <2>1, <2>2
<1> QED
  BY <1>6, <1>7, <1>8 DEF Accounts

\* A peer that takes the expected envelope goes on accounting.
LEMMA TakeAccounts ==
  ASSUME PeerTypes, PeerTypes', NEW p \in Peers, PeerIsSound(p), PeerAccounts(p),
         NEW e \in Envelope, Take(p, e)
  PROVE  PeerAccounts(p)'
<1>1. /\ cursor'[p][e.device] = e.seq
      /\ \A o \in Peers \ {e.device} : cursor'[p][o] = cursor[p][o]
      /\ seen'[p] = seen[p] \cup {e} /\ pending'[p] = pending[p]
      /\ quarantine'[p] = quarantine[p] /\ JudgedAt(p, e)
  BY TakeAt
<1>2. IsFresh(p, e) /\ e.seq = cursor[p][e.device] + 1
  BY DEF Take, Expected
<1>3. e.schema \in Supported[p] /\ e.device \in Peers /\ e.seq \in Nat
      /\ cursor[p][e.device] \in Nat
  BY <1>2, EnvelopeFields DEF IsFresh, PeerTypes
<1>4. IsFiniteSet(seen'[p])
  <2>1. IsFiniteSet(seen[p] \cup {e})
    BY FS_AddElement DEF PeerAccounts
  <2>2. seen'[p] = seen[p] \cup {e}
    BY <1>1
  <2> QED
    BY <2>1, <2>2
<1> SUFFICES ASSUME reasons'[p] = {} PROVE Accounts(p)'
  BY <1>4 DEF PeerAccounts
<1>5. Accounts(p)
  BY <1>1, ReasonsGrow DEF PeerAccounts
<1>6. /\ KeysTell(p)' /\ AppliedTell(p)'
      /\ KeyRecord(e) \in keys'[p] /\ keys[p] \subseteq keys'[p]
      /\ \A d \in revisions'[p] :
           d \in revisions[p] \/ (d = e /\ KeyRecord(e) \notin keys[p])
  <2>1. \A o \in Peers : cursor[p][o] <= cursor'[p][o]
    BY <1>1, <1>2, <1>3 DEF PeerTypes
  <2>2. e.seq <= cursor'[p][e.device]
    BY <1>1, <1>3
  <2> QED
    BY <1>1, <1>5, <2>1, <2>2, JudgedGoesOn DEF Accounts
<1>7. SeenTell(p)'
  BY <1>1, <1>3, <1>5, <1>6 DEF Accounts, SeenTell
<1>8. FirstWins(p)'
  <2> SUFFICES ASSUME NEW x \in revisions'[p], NEW d \in seen'[p],
                      d.schema \in Supported[p], KeyRecord(d) = KeyRecord(x)
               PROVE  x.seq <= d.seq
    BY DEF FirstWins
  <2>0. d.device = x.device /\ d \in Envelope
    BY DEF KeyRecord, PeerTypes
  <2>1. d.seq \in Nat /\ (d \in seen[p] => d.seq \in Nat)
    BY <2>0, EnvelopeFields
  <2>2. CASE x \in revisions[p] /\ d \in seen[p]
    BY <1>5, <2>2 DEF Accounts, FirstWins
  <2>3. CASE x \in revisions[p] /\ d = e
    <3>1. x.seq \in Nat /\ x.seq <= cursor[p][x.device]
      BY <1>5, <2>3, EnvelopeFields DEF Accounts, AppliedTell, PeerTypes, JudgedTypes
    <3> QED
      BY <1>2, <1>3, <2>0, <2>3, <3>1
  <2>4. CASE x = e /\ KeyRecord(e) \notin keys[p] /\ d \in seen[p]
    <3>1. PICK w \in pending[p] : w.env = d
      BY <1>5, <2>4 DEF Accounts, SeenTell
    <3>2. d.seq > cursor[p][d.device]
      BY <1>3, <2>0, <2>4, <3>1 DEF PeerIsSound, Gapless
    <3> QED
      BY <1>2, <1>3, <2>0, <2>1, <2>4, <3>2
  <2>5. CASE x = e /\ d = e
    BY <1>3, <2>5
  <2> QED
    BY <1>1, <1>6, <2>2, <2>3, <2>4, <2>5
<1> QED
  BY <1>6, <1>7, <1>8 DEF Accounts

\* A peer that sets an envelope aside goes on accounting.
LEMMA SetAsideAccounts ==
  ASSUME PeerTypes, PeerTypes', NEW p \in Peers, PeerAccounts(p), NEW e \in Envelope,
         Refuse(p, e) \/ Repeat(p, e) \/ Quarantine(p, e) \/ RefuseStale(p, e)
  PROVE  PeerAccounts(p)'
<1>1. /\ cursor'[p] = cursor[p] /\ pending'[p] = pending[p]
      /\ NoSemantics /\ reasons[p] \subseteq reasons'[p]
      /\ \/ seen'[p] = seen[p] /\ quarantine'[p] = quarantine[p]
         \/ /\ seen'[p] = seen[p] \cup {e}
            /\ \/ e.schema \notin Supported[p] /\ quarantine'[p] = quarantine[p] \cup {e}
               \/ reasons'[p] # {}
  BY SetAsideAt
<1>2. IsFiniteSet(seen'[p])
  BY <1>1, FS_AddElement DEF PeerAccounts
<1> SUFFICES ASSUME reasons'[p] = {} PROVE Accounts(p)'
  BY <1>2 DEF PeerAccounts
<1>3. Accounts(p)
  BY <1>1 DEF PeerAccounts
<1>4. /\ keys'[p] = keys[p] /\ revisions'[p] = revisions[p]
      /\ tombstones'[p] = tombstones[p] /\ revoked'[p] = revoked[p]
      /\ \/ seen'[p] = seen[p] /\ quarantine'[p] = quarantine[p]
         \/ /\ seen'[p] = seen[p] \cup {e} /\ e.schema \notin Supported[p]
            /\ quarantine'[p] = quarantine[p] \cup {e}
  BY <1>1 DEF NoSemantics
<1>5. KeysTell(p)' /\ AppliedTell(p)'
  BY <1>1, <1>3, <1>4 DEF Accounts, KeysTell, AppliedTell, Tombstoned
<1>6. SeenTell(p)'
  BY <1>1, <1>3, <1>4 DEF Accounts, SeenTell
<1>7. FirstWins(p)'
  BY <1>3, <1>4 DEF Accounts, FirstWins
<1> QED
  BY <1>5, <1>6, <1>7 DEF Accounts

\* A peer goes on accounting through a turn of the drain.
LEMMA DrainAccounts ==
  ASSUME PeerTypes, PeerTypes', NEW p \in Peers, PeerIsSound(p), PeerAccounts(p),
         NEW o \in Peers, Drain(p, o)
  PROVE  PeerAccounts(p)'
<1>1. \A r \in Peers \ {o} : cursor'[p][r] = cursor[p][r]
  <2>1. PICK n : cursor' = [cursor EXCEPT ![p][o] = n]
    BY DEF Drain
  <2> QED
    BY <2>1 DEF PeerTypes
<1>2. seen' = seen /\ quarantine' = quarantine
  BY DEF Drain
<1>3. PICK w \in pending[p] :
        /\ w.env \in Envelope /\ w.env.device = o /\ w.env.seq = cursor[p][o] + 1
        /\ pending'[p] = pending[p] \ {w} /\ cursor'[p][o] = w.env.seq
        /\ \/ w.preapplied = TRUE /\ NotJudgedAt(p)
           \/ w.preapplied = FALSE /\ JudgedAt(p, w.env)
  BY DrainAt
<1> DEFINE e == w.env
<1> SUFFICES ASSUME reasons'[p] = {} PROVE Accounts(p)'
  BY <1>2 DEF PeerAccounts
<1>4. Accounts(p)
  BY <1>3, ReasonsGrow DEF PeerAccounts
<1>5. /\ cursor[p][o] \in Nat /\ e.seq \in Nat /\ e \in seen[p]
      /\ e.schema \in Supported[p] /\ (w.preapplied = TRUE <=> IsPriority(e))
  BY <1>3, EnvelopeFields DEF PeerTypes, PeerIsSound, WaitsKnown
<1>6. /\ KeysTell(p)' /\ AppliedTell(p)' /\ keys[p] \subseteq keys'[p]
      /\ w.preapplied = FALSE => KeyRecord(e) \in keys'[p]
      /\ \A d \in revisions'[p] :
           d \in revisions[p] \/ (d = e /\ KeyRecord(e) \notin keys[p])
  <2>1. \A r \in Peers : cursor[p][r] <= cursor'[p][r]
    <3>1. cursor[p][o] <= cursor'[p][o]
      BY <1>3, <1>5
    <3>2. \A r \in Peers : cursor[p][r] \in Nat
      BY DEF PeerTypes
    <3>3. \A r \in Peers \ {o} : cursor[p][r] <= cursor'[p][r]
      BY <1>1, <3>2
    <3> QED
      BY <3>1, <3>3
  <2>2. CASE w.preapplied = TRUE /\ NotJudgedAt(p)
    <3>1. KeysTell(p)' /\ AppliedTell(p)'
      BY <1>2, <1>4, <2>1, <2>2, NotJudgedGoesOn DEF Accounts
    <3> QED
      BY <2>2, <3>1 DEF NotJudgedAt
  <2>3. CASE w.preapplied = FALSE /\ JudgedAt(p, e)
    <3>1. e.seq <= cursor'[p][e.device] /\ e \in seen'[p] /\ e \in Envelope
      BY <1>2, <1>3, <1>5
    <3> HIDE DEF e
    <3> QED
      BY <1>2, <1>4, <2>1, <2>3, <3>1, JudgedGoesOn DEF Accounts
  <2> QED
    BY <1>3, <2>2, <2>3
<1>7. SeenTell(p)'
  <2>1. \A x \in pending[p] : x \in pending'[p] \/ x = w
    BY <1>3
  <2> QED
    BY <1>2, <1>4, <1>6, <2>1 DEF Accounts, SeenTell
<1>8. FirstWins(p)'
  <2> SUFFICES ASSUME NEW x \in revisions'[p], NEW d \in seen[p],
                      d.schema \in Supported[p], KeyRecord(d) = KeyRecord(x)
               PROVE  x.seq <= d.seq
    BY <1>2 DEF FirstWins
  <2>1. d.device = x.device /\ d.seq \in Nat
    BY EnvelopeFields DEF KeyRecord, PeerTypes
  <2>2. CASE x \in revisions[p]
    BY <1>4, <2>2 DEF Accounts, FirstWins
  <2>3. CASE x = e /\ KeyRecord(e) \notin keys[p]
    <3>1. PICK y \in pending[p] : y.env = d
      BY <1>4, <2>3 DEF Accounts, SeenTell
    <3>2. d.seq > cursor[p][d.device]
      BY <1>3, <2>1, <2>3, <3>1 DEF PeerIsSound, Gapless
    <3> QED
      BY <1>3, <1>5, <2>1, <2>3, <3>2
  <2> QED
    BY <1>6, <2>2, <2>3
<1> QED
  BY <1>6, <1>7, <1>8 DEF Accounts

\* Every peer is sound and accounts for what it has read: the inductive invariant.
SimulationAccounts == SimulationIsSound /\ \A p \in Peers : PeerAccounts(p)

\* Every step keeps it.
LEMMA StepAccounts ==
  ASSUME SimulationAccounts, [Next]_vars
  PROVE  SimulationAccounts'
<1>1. SimulationIsSound /\ SimulationIsSound'
  BY StepIsSound DEF SimulationAccounts
<1>2. Typed /\ PeerTypes /\ PeerTypes'
  BY <1>1 DEF SimulationIsSound, Typed, TypeOK, PeerTypes, JudgedTypes
<1> SUFFICES ASSUME NEW q \in Peers PROVE PeerAccounts(q)'
  BY <1>1 DEF SimulationAccounts
<1>3. PeerAccounts(q) /\ PeerIsSound(q)
  BY DEF SimulationAccounts, SimulationIsSound
<1>4. CASE UNCHANGED <<cursor, seen, pending, quarantine, keys, revisions, tombstones,
                       revoked, reasons, audit, draining>>
  <2>1. Unmoved(q)
    BY <1>4 DEF Unmoved
  <2> QED
    BY <1>3, <2>1, UnmovedAccounts
<1>5. ASSUME NEW p \in Peers, NEW e \in Envelope, Receive(p, e) PROVE PeerAccounts(q)'
  <2>1. CASE q = p
    BY <1>2, <1>3, <1>5, <2>1, HoldAccounts, TakeAccounts, SetAsideAccounts DEF Receive
  <2>2. CASE q # p
    <3>1. Unmoved(q)
      BY <1>2, <1>5, <2>2, HoldAt, TakeAt, SetAsideAt DEF Receive
    <3> QED
      BY <1>3, <3>1, UnmovedAccounts
  <2> QED
    BY <2>1, <2>2
<1>6. ASSUME NEW p \in Peers, NEW o \in Peers, Drain(p, o) PROVE PeerAccounts(q)'
  <2>1. CASE q = p
    BY <1>2, <1>3, <1>6, <2>1, DrainAccounts
  <2>2. CASE q # p
    <3>1. Unmoved(q)
      BY <1>2, <1>6, <2>2, DrainAt
    <3> QED
      BY <1>3, <3>1, UnmovedAccounts
  <2> QED
    BY <2>1, <2>2
<1>7. ASSUME NEW p \in Peers, NEW o \in Peers, EndOfDrain(p, o) PROVE PeerAccounts(q)'
  <2>1. Unmoved(q)
    BY <1>7 DEF EndOfDrain, Unmoved
  <2> QED
    BY <1>3, <2>1, UnmovedAccounts
<1> QED
  BY <1>2, <1>4, <1>5, <1>6, <1>7, StepsOfPeers

\* It holds at the start.
LEMMA InitAccounts == Init => SimulationAccounts
<1> SUFFICES ASSUME Init, NEW p \in Peers PROVE PeerAccounts(p)
  BY InitIsSound DEF SimulationAccounts
<1>1. /\ seen[p] = {} /\ keys[p] = {} /\ revisions[p] = {} /\ tombstones[p] = {}
      /\ revoked[p] = {}
  BY DEF Init, PeerInit
<1>2. IsFiniteSet(seen[p])
  BY <1>1, FS_EmptySet
<1>3. Accounts(p)
  BY <1>1 DEF Accounts, KeysTell, AppliedTell, SeenTell, FirstWins
<1> QED
  BY <1>2, <1>3 DEF PeerAccounts

\* Every peer accounts for what it has read, in every reachable state.
LEMMA PeersAccount == Spec => []SimulationAccounts
<1>1. SimulationAccounts /\ [Next]_vars => SimulationAccounts'
  BY StepAccounts
<1> QED
  BY <1>1, InitAccounts, PTL DEF Spec

-----------------------------------------------------------------------------
(* Peers that have read the same show the same.                            *)

\* What a peer that is not partial has read is all under its keys.
LEMMA NothingIsLeftOut ==
  ASSUME NEW p \in Peers, PeerAccounts(p), ~IsPartial(p)
  PROVE  /\ Accounts(p)
         /\ \A e \in seen[p] : e.schema \in Supported[p] /\ KeyRecord(e) \in keys[p]
<1>1. reasons[p] = {} /\ pending[p] = {} /\ quarantine[p] = {}
  BY DEF IsPartial
<1> QED
  BY <1>1 DEF PeerAccounts, Accounts, SeenTell

\* What one of two such peers has applied, the other has applied as well.
LEMMA AppliedByBoth ==
  ASSUME NEW p \in Peers, NEW q \in Peers, PeerAccounts(p), PeerAccounts(q),
         ~IsPartial(p), ~IsPartial(q), PeerIsSound(p), seen[p] = seen[q], PeerTypes
  PROVE  /\ revoked[p] \subseteq revoked[q]
         /\ \A e \in tombstones[p] : \E d \in tombstones[q] : KeyRecord(d) = KeyRecord(e)
         /\ Tombstoned(p) \subseteq Tombstoned(q)
         /\ EventIds(p) \subseteq EventIds(q)
         /\ \A v : v \notin Tombstoned(q) => RevisionsOf(p, v) \subseteq RevisionsOf(q, v)
<1>1. /\ Accounts(p) /\ Accounts(q)
      /\ \A e \in seen[p] : /\ e.schema \in Supported[p] /\ KeyRecord(e) \in keys[p]
                            /\ e.schema \in Supported[q] /\ KeyRecord(e) \in keys[q]
  BY NothingIsLeftOut
<1>2. \A e : /\ KeyRecord(e).content = e.content /\ KeyRecord(e).device = e.device
  BY DEF KeyRecord
<1>3. revoked[p] \subseteq revoked[q]
  <2> SUFFICES ASSUME NEW v \in revoked[p] PROVE v \in revoked[q]
    OBVIOUS
  <2>1. PICK e \in seen[p] : e.content.op = "grant_revocation" /\ e.content.object = v
    BY <1>1 DEF Accounts, AppliedTell
  <2>2. KeyRecord(e) \in keys[q] /\ KeyRecord(e).content = e.content
    BY <1>1, <1>2
  <2> QED
    BY <1>1, <2>1, <2>2 DEF Accounts, KeysTell
<1>4. ASSUME NEW e \in tombstones[p]
      PROVE  \E d \in tombstones[q] : KeyRecord(d) = KeyRecord(e)
  <2>1. /\ KeyRecord(e) \in keys[q] /\ KeyRecord(e).content = e.content
        /\ e.content.op = "tombstone"
    BY <1>1, <1>2 DEF Accounts, AppliedTell
  <2> QED
    BY <1>1, <2>1 DEF Accounts, KeysTell
<1>5. Tombstoned(p) \subseteq Tombstoned(q)
  <2> SUFFICES ASSUME NEW e \in tombstones[p] PROVE e.content.object \in Tombstoned(q)
    BY DEF Tombstoned
  <2>1. PICK d \in tombstones[q] : KeyRecord(d) = KeyRecord(e)
    BY <1>4
  <2>2. d.content = e.content
    BY <1>2, <2>1
  <2> QED
    BY <2>2 DEF Tombstoned
<1>6. ASSUME NEW e \in revisions[p], e.content.object \notin Tombstoned(q)
      PROVE  e \in revisions[q]
  <2>1. /\ e \in seen[p] /\ KeyRecord(e) \in keys[q] /\ KeyRecord(e).content = e.content
        /\ e.content.op = "append_revision"
    BY <1>1, <1>2 DEF Accounts, AppliedTell
  <2>2. PICK d \in revisions[q] : KeyRecord(d) = KeyRecord(e)
    BY <1>1, <1>6, <2>1 DEF Accounts, KeysTell
  <2>3. d \in seen[p] /\ d.device = e.device
    BY <1>1, <1>2, <2>2 DEF Accounts, AppliedTell
  <2>4. e.seq <= d.seq /\ d.seq <= e.seq
    BY <1>1, <2>1, <2>2, <2>3 DEF Accounts, FirstWins
  <2>5. e.seq \in Nat /\ d.seq \in Nat
    BY <2>1, <2>3, EnvelopeFields DEF PeerTypes
  <2>6. d = e
    BY <2>1, <2>3, <2>4, <2>5 DEF PeerIsSound, SeenOnce
  <2> QED
    BY <2>6
<1>7. EventIds(p) \subseteq EventIds(q)
  <2>1. ASSUME NEW e \in revisions[p] PROVE e.content.object \in EventIds(q)
    BY <1>6 DEF EventIds, Tombstoned
  <2>2. ASSUME NEW e \in tombstones[p] PROVE e.content.object \in EventIds(q)
    BY <1>5 DEF EventIds, Tombstoned
  <2> QED
    BY <2>1, <2>2 DEF EventIds
<1>8. \A v : v \notin Tombstoned(q) => RevisionsOf(p, v) \subseteq RevisionsOf(q, v)
  BY <1>6 DEF RevisionsOf
<1> QED
  BY <1>3, <1>4, <1>5, <1>7, <1>8

\* The tombstones of an event that a peer has applied.
Dead(p, v) == {e \in tombstones[p] : e.content.object = v}

\* They have applied as many tombstones of an event.
LEMMA AsManyTombstones ==
  ASSUME NEW p \in Peers, NEW q \in Peers, PeerAccounts(p), PeerAccounts(q),
         ~IsPartial(p), ~IsPartial(q), PeerIsSound(p), PeerIsSound(q), seen[p] = seen[q],
         PeerTypes, NEW v
  PROVE  Cardinality(Dead(p, v)) = Cardinality(Dead(q, v))
<1> DEFINE S == {e \in tombstones[p] : e.content.object = v}
           T == {e \in tombstones[q] : e.content.object = v}
           same == [e \in S |-> CHOOSE d \in T : KeyRecord(d) = KeyRecord(e)]
<1>1. /\ \A e \in tombstones[p] : \E d \in tombstones[q] : KeyRecord(d) = KeyRecord(e)
      /\ \A d \in tombstones[q] : \E e \in tombstones[p] : KeyRecord(e) = KeyRecord(d)
  BY AppliedByBoth
<1>2. \A d, e : KeyRecord(d) = KeyRecord(e) => d.content = e.content
  BY DEF KeyRecord
<1>3. /\ \A e \in S : \E d \in T : KeyRecord(d) = KeyRecord(e)
      /\ \A d \in T : \E e \in S : KeyRecord(e) = KeyRecord(d)
  BY <1>1, <1>2
<1>4. /\ \A d, e \in S : KeyRecord(d) = KeyRecord(e) => d = e
      /\ \A d, e \in T : KeyRecord(d) = KeyRecord(e) => d = e
      /\ S \subseteq seen[p]
  BY NothingIsLeftOut DEF Accounts, AppliedTell
<1>5. IsFiniteSet(S)
  BY <1>4, FS_Subset DEF PeerAccounts
<1> HIDE DEF S, T
<1>6. \A e \in S : same[e] \in T /\ KeyRecord(same[e]) = KeyRecord(e)
  BY <1>3
<1>7. same \in [S -> T]
  BY <1>6
<1> HIDE DEF same
<1>8. /\ \A d, e \in S : same[d] = same[e] => d = e
      /\ \A d \in T : \E e \in S : same[e] = d
  <2>1. ASSUME NEW d \in S, NEW e \in S, same[d] = same[e] PROVE d = e
    BY <1>4, <1>6, <2>1
  <2>2. ASSUME NEW d \in T PROVE \E e \in S : same[e] = d
    <3>1. PICK e \in S : KeyRecord(e) = KeyRecord(d)
      BY <1>3
    <3>2. same[e] = d
      BY <1>4, <1>6, <3>1
    <3> QED
      BY <3>2
  <2> QED
    BY <2>1, <2>2
<1>9. ExistsBijection(S, T)
  BY <1>7, <1>8 DEF ExistsBijection, Bijection, Injection, Surjection, IsInjective
<1> QED
  <2>1. Dead(p, v) = S /\ Dead(q, v) = T
    BY DEF Dead, S, T
  <2> QED
    BY <1>5, <1>9, <2>1, FS_Bijection

\* So they show the same.
LEMMA SameReadSameShown ==
  ASSUME NEW p \in Peers, NEW q \in Peers, SimulationAccounts, seen[p] = seen[q],
         ~IsPartial(p), ~IsPartial(q)
  PROVE  Snapshot(p) = Snapshot(q)
<1>1. /\ PeerAccounts(p) /\ PeerAccounts(q) /\ PeerIsSound(p) /\ PeerIsSound(q)
      /\ PeerTypes
  BY DEF SimulationAccounts, SimulationIsSound, Typed, TypeOK, PeerTypes, JudgedTypes
<1>2. /\ revoked[p] = revoked[q] /\ Tombstoned(p) = Tombstoned(q)
      /\ EventIds(p) = EventIds(q)
      /\ \A v : v \notin Tombstoned(p) => RevisionsOf(p, v) = RevisionsOf(q, v)
  <2>1. /\ revoked[p] \subseteq revoked[q] /\ Tombstoned(p) \subseteq Tombstoned(q)
        /\ EventIds(p) \subseteq EventIds(q)
        /\ \A v : v \notin Tombstoned(q) => RevisionsOf(p, v) \subseteq RevisionsOf(q, v)
    BY <1>1, AppliedByBoth
  <2>2. /\ revoked[q] \subseteq revoked[p] /\ Tombstoned(q) \subseteq Tombstoned(p)
        /\ EventIds(q) \subseteq EventIds(p)
        /\ \A v : v \notin Tombstoned(p) => RevisionsOf(q, v) \subseteq RevisionsOf(p, v)
    BY <1>1, AppliedByBoth
  <2>3. revoked[p] = revoked[q] /\ Tombstoned(p) = Tombstoned(q) /\ EventIds(p) = EventIds(q)
    BY <2>1, <2>2
  <2>4. ASSUME NEW v, v \notin Tombstoned(p) PROVE RevisionsOf(p, v) = RevisionsOf(q, v)
    <3>1. RevisionsOf(p, v) \subseteq RevisionsOf(q, v)
      BY <2>1, <2>3, <2>4
    <3>2. RevisionsOf(q, v) \subseteq RevisionsOf(p, v)
      BY <2>2, <2>4
    <3> QED
      BY <3>1, <3>2
  <2> QED
    BY <2>3, <2>4
<1>3. ASSUME NEW v PROVE Projection(p, v) = Projection(q, v)
  <2>1. /\ Dead(p, v) # {} <=> v \in Tombstoned(p)
        /\ Dead(q, v) # {} <=> v \in Tombstoned(q)
    BY DEF Dead, Tombstoned
  <2>2. CASE v \in Tombstoned(p)
    <3>1. Cardinality(Dead(p, v)) = Cardinality(Dead(q, v))
      BY <1>1, AsManyTombstones
    <3>2. Dead(p, v) # {} /\ Dead(q, v) # {}
      BY <1>2, <2>1, <2>2
    <3>3. Projection(p, v) = [state |-> "deleted", merged |-> Unwritten, ids |-> {},
                              tombstones |-> Cardinality(Dead(p, v))]
      BY <3>2 DEF Projection, Dead
    <3>4. Projection(q, v) = [state |-> "deleted", merged |-> Unwritten, ids |-> {},
                              tombstones |-> Cardinality(Dead(q, v))]
      BY <3>2 DEF Projection, Dead
    <3> QED
      BY <3>1, <3>3, <3>4
  <2>3. CASE v \notin Tombstoned(p)
    <3>1. Dead(p, v) = {} /\ Dead(q, v) = {}
      BY <1>2, <2>1, <2>3
    <3>2. RevisionsOf(p, v) = RevisionsOf(q, v)
      BY <1>2, <2>3
    <3> QED
      BY <3>1, <3>2 DEF Projection, Dead
  <2> QED
    BY <2>2, <2>3
<1>4. [v \in EventIds(p) |-> Projection(p, v)] = [v \in EventIds(q) |-> Projection(q, v)]
  BY <1>2, <1>3
<1> QED
  BY <1>2, <1>4 DEF Snapshot

\* Peers that have read the same envelopes, in whatever order, show the same events
\* unless one of them says why not.
THEOREM DivergencesAreExplained == Spec => []DivergenceIsExplained
<1>1. SimulationAccounts => DivergenceIsExplained
  BY SameReadSameShown DEF DivergenceIsExplained
<1> QED
  BY <1>1, PeersAccount, PTL

\* An event is shown as deleted by exactly the peers that hold a tombstone of it.
LEMMA ShownAsDeleted ==
  ASSUME NEW p \in Peers, NEW v
  PROVE  Projection(p, v).state = "deleted" <=> v \in Tombstoned(p)
<1> DEFINE dead == {e \in tombstones[p] : e.content.object = v}
<1>1. dead # {} <=> v \in Tombstoned(p)
  BY DEF Tombstoned
<1>2. CASE dead # {}
  BY <1>1, <1>2 DEF Projection
<1>3. CASE dead = {}
  <2>1. Projection(p, v).state \in {"conflict", "active"}
    BY <1>3 DEF Projection
  <2> QED
    BY <1>1, <1>3, <2>1
<1> QED
  BY <1>2, <1>3

\* An outcome of convergence means that every deletion some peer was told of is shown
\* by every peer.
THEOREM ConvergencesDelete == Spec => []ConvergenceMeansDeleted
<1>1. SimulationAccounts => ConvergenceMeansDeleted
  <2> SUFFICES ASSUME SimulationAccounts, Outcome = "convergence", NEW p \in Peers,
                      NEW q \in Peers, NEW e \in seen[p], e.content.op = "tombstone"
               PROVE  e.content.object \in Tombstoned(q)
    BY DEF ConvergenceMeansDeleted
  <2> DEFINE v == e.content.object
  <2>1. Converged /\ ~SomePartial
    BY DEF Outcome
  <2>2. ~IsPartial(p) /\ Snapshot(p) = Snapshot(q) /\ PeerAccounts(p)
    BY <2>1 DEF SomePartial, Converged, SimulationAccounts
  <2>3. Accounts(p) /\ KeyRecord(e) \in keys[p]
    BY <2>2, NothingIsLeftOut
  <2>4. v \in Tombstoned(p)
    <3>1. PICK d \in tombstones[p] : KeyRecord(d) = KeyRecord(e)
      <4>1. KeyRecord(e).content = e.content
        BY DEF KeyRecord
      <4> QED
        BY <2>3, <4>1 DEF Accounts, KeysTell
    <3>2. d.content = e.content
      BY <3>1 DEF KeyRecord
    <3> QED
      BY <3>2 DEF Tombstoned
  <2>5. [x \in EventIds(p) |-> Projection(p, x)] = [x \in EventIds(q) |-> Projection(q, x)]
    BY <2>2 DEF Snapshot
  <2>6. v \in EventIds(p)
    BY <2>4 DEF EventIds, Tombstoned
  <2> HIDE DEF v
  <2>7. v \in EventIds(q) /\ Projection(p, v) = Projection(q, v)
    BY <2>5, <2>6
  <2>8. v \in Tombstoned(q)
    BY <2>4, <2>7, ShownAsDeleted
  <2> QED
    BY <2>8 DEF v
<1> QED
  BY <1>1, PeersAccount, PTL

-----------------------------------------------------------------------------
(* Sets of numbers: the least, the greatest, and induction.                *)

Less == OpToRel(<, Nat)

\* A set of natural numbers has a least one.
LEMMA LeastNumber ==
  ASSUME NEW T, T \subseteq Nat, T # {}
  PROVE  \E x \in T : \A y \in T : x <= y
<1>1. IsWellFoundedOn(Less, Nat)
  BY NatLessThanWellFounded DEF Less
<1>2. PICK x \in T : \A y \in T : <<y, x>> \notin Less
  BY <1>1, WFMin
<1>3. ASSUME NEW y \in T PROVE x <= y
  <2>1. <<y, x>> \notin Less /\ x \in Nat /\ y \in Nat
    BY <1>2
  <2>2. ~(y < x)
    BY <2>1 DEF Less, OpToRel
  <2> QED
    BY <2>1, <2>2
<1> QED
  BY <1>3

\* What holds of zero, and of the next number whenever it holds of one, holds of all.
LEMMA Induction ==
  ASSUME NEW T, 0 \in T, \A n \in Nat : n \in T => n + 1 \in T
  PROVE  Nat \subseteq T
<1> SUFFICES ASSUME Nat \ T # {} PROVE FALSE
  OBVIOUS
<1>1. PICK x \in Nat \ T : \A y \in Nat \ T : x <= y
  BY LeastNumber
<1>2. x # 0 /\ x - 1 \in Nat
  BY <1>1
<1>3. x - 1 \in T
  BY <1>1, <1>2
<1>4. (x - 1) + 1 \in T
  BY <1>2, <1>3
<1> QED
  BY <1>1, <1>4

\* A set of numbers with a bound has a greatest one.
LEMMA GreatestNumber ==
  ASSUME NEW B, B \subseteq Nat, B # {}, \E n \in Nat : \A b \in B : b <= n
  PROVE  Max(B) \in B /\ \A b \in B : b <= Max(B)
<1>1. PICK T : T = {m \in Nat : \A b \in B : b <= m}
  OBVIOUS
<1>2. T \subseteq Nat /\ T # {}
  BY <1>1
<1>3. PICK u \in T : \A m \in T : u <= m
  BY <1>2, LeastNumber
<1>4. u \in Nat /\ \A b \in B : b \in Nat /\ b <= u
  BY <1>1, <1>3
<1>5. u \in B
  <2> SUFFICES ASSUME u \notin B PROVE FALSE
    OBVIOUS
  <2>1. \A b \in B : b <= u - 1
    BY <1>4
  <2>2. u - 1 \in Nat
    <3>1. PICK b \in B : b \in Nat /\ b <= u - 1
      BY <1>4, <2>1
    <3> QED
      BY <1>4, <3>1
  <2>3. u - 1 \in T
    BY <1>1, <2>1, <2>2
  <2> QED
    BY <1>3, <1>4, <2>2, <2>3
<1>6. \E x \in B : \A b \in B : x >= b
  BY <1>4, <1>5
<1>7. Max(B) \in B /\ \A b \in B : Max(B) >= b
  BY <1>6 DEF Max
<1> QED
  BY <1>7

\* The greatest number is the one that no other exceeds.
LEMMA GreatestIs ==
  ASSUME NEW B, B \subseteq Nat, NEW n \in B, \A b \in B : b <= n
  PROVE  Max(B) = n
<1>1. \A b \in B : b \in Nat
  OBVIOUS
<1>2. \E x \in B : \A b \in B : x >= b
  BY <1>1
<1>3. Max(B) \in B /\ \A b \in B : Max(B) >= b
  BY <1>2 DEF Max
<1>4. PICK x : x = Max(B)
  OBVIOUS
<1>5. x \in Nat /\ n \in Nat /\ x >= n /\ x <= n
  BY <1>1, <1>3, <1>4
<1> QED
  BY <1>4, <1>5

-----------------------------------------------------------------------------
(* The merge is a fold; these lemmas say that it goes through the          *)
(* generations one after the other, from the lowest base upwards.          *)

Turn(R, g, B) ==
  IF B = {} THEN Unwritten ELSE Merge(R, g[B \ {Max(B)}], Max(B))

\* What the generations in each subset of S merge to.
MergesOf(R, S, g) == g = [B \in SUBSET S |-> Turn(R, g, B)]

Below(S, k) == {s \in S : s < k}

\* The numbers below a number, and below the next.
LEMMA BelowNext ==
  ASSUME NEW S, S \subseteq Nat
  PROVE  /\ Below(S, 0) = {}
         /\ \A k \in Nat :
              /\ Below(S, k) \subseteq Nat /\ \A s \in Below(S, k) : s < k
              /\ k \in S => Below(S, k + 1) = Below(S, k) \cup {k}
              /\ k \notin S => Below(S, k + 1) = Below(S, k)
<1>1. ASSUME NEW s \in Below(S, 0) PROVE FALSE
  <2>1. s \in S /\ s < 0
    BY DEF Below
  <2> QED
    BY <2>1
<1>2. ASSUME NEW k \in Nat
      PROVE  Below(S, k) \subseteq Nat /\ \A s \in Below(S, k) : s < k
  BY DEF Below
<1>3. ASSUME NEW k \in Nat, NEW s
      PROVE  s \in Below(S, k + 1) <=> (s \in Below(S, k) \/ (s = k /\ s \in S))
  <2>1. s \in S => s \in Nat
    OBVIOUS
  <2>2. s \in S => (s < k + 1 <=> (s < k \/ s = k))
    BY <2>1
  <2>3. k \in S => k < k + 1
    OBVIOUS
  <2> QED
    BY <2>2, <2>3 DEF Below
<1>4. Below(S, 0) = {}
  BY <1>1
<1>5. ASSUME NEW k \in Nat, k \in S PROVE Below(S, k + 1) = Below(S, k) \cup {k}
  BY <1>3, <1>5
<1>6. ASSUME NEW k \in Nat, k \notin S PROVE Below(S, k + 1) = Below(S, k)
  BY <1>3, <1>6
<1> QED
  BY <1>2, <1>4, <1>5, <1>6

\* The definition of the fold.
LEMMA MergedIsFold ==
  ASSUME NEW R
  PROVE  Merged(R) = (CHOOSE g : MergesOf(R, Bases(R), g))[Bases(R)]
  BY Zenon DEF Merged, MapThenFoldSet, MergesOf, Turn

\* One base more, greater than all before it.
LEMMA MergesExtend ==
  ASSUME NEW R, NEW S, S \subseteq Nat, NEW k \in Nat, \A s \in S : s < k,
         NEW g, MergesOf(R, S, g)
  PROVE  \E h : MergesOf(R, S \cup {k}, h)
<1>1. PICK h : h = [B \in SUBSET (S \cup {k}) |->
                      IF k \in B THEN Merge(R, g[B \ {k}], k) ELSE g[B]]
  OBVIOUS
<1>2. ASSUME NEW B \in SUBSET (S \cup {k}) PROVE h[B] = Turn(R, h, B)
  <2>1. CASE k \in B
    <3>1. B \subseteq Nat /\ \A b \in B : b <= k
      OBVIOUS
    <3>2. Max(B) = k
      BY <2>1, <3>1, GreatestIs
    <3>3. B \ {k} \in SUBSET (S \cup {k}) /\ k \notin B \ {k}
      OBVIOUS
    <3>4. h[B \ {k}] = g[B \ {k}] /\ h[B] = Merge(R, g[B \ {k}], k)
      BY <1>1, <2>1, <3>3
    <3> QED
      BY <2>1, <3>2, <3>4 DEF Turn
  <2>2. CASE k \notin B
    <3>1. B \in SUBSET S
      BY <2>2
    <3>2. h[B] = g[B] /\ g[B] = Turn(R, g, B)
      BY <1>1, <2>2, <3>1 DEF MergesOf
    <3>3. CASE B = {}
      BY <3>2, <3>3 DEF Turn
    <3>4. CASE B # {}
      <4>1. PICK m : m = Max(B)
        OBVIOUS
      <4>2. B \ {m} \in SUBSET (S \cup {k}) /\ k \notin B \ {m}
        BY <2>2
      <4>3. h[B \ {m}] = g[B \ {m}]
        BY <1>1, <4>2
      <4> QED
        BY <3>2, <3>4, <4>1, <4>3 DEF Turn
    <3> QED
      BY <3>3, <3>4
  <2> QED
    BY <2>1, <2>2
<1>3. h = [B \in SUBSET (S \cup {k}) |-> Turn(R, h, B)]
  BY <1>1, <1>2
<1> QED
  BY <1>3 DEF MergesOf

\* The recursion of the fold has a solution.
LEMMA MergesExist ==
  ASSUME NEW R, NEW S, S \subseteq Nat, NEW n \in Nat, \A s \in S : s < n
  PROVE  \E g : MergesOf(R, S, g)
<1>1. PICK T : T = {k \in Nat : \E g : MergesOf(R, Below(S, k), g)}
  OBVIOUS
<1>2. 0 \in T
  <2>1. Below(S, 0) = {}
    BY BelowNext
  <2>2. PICK g : g = [B \in SUBSET {} |-> Unwritten]
    OBVIOUS
  <2>3. \A B \in SUBSET {} : Turn(R, g, B) = Unwritten
    BY DEF Turn
  <2>4. g = [B \in SUBSET {} |-> Turn(R, g, B)]
    BY <2>2, <2>3
  <2>5. MergesOf(R, Below(S, 0), g)
    BY <2>1, <2>4 DEF MergesOf
  <2> QED
    BY <1>1, <2>5
<1>3. ASSUME NEW k \in Nat, k \in T PROVE k + 1 \in T
  <2>1. PICK g : MergesOf(R, Below(S, k), g)
    BY <1>1, <1>3
  <2>2. Below(S, k) \subseteq Nat /\ \A s \in Below(S, k) : s < k
    BY BelowNext
  <2>3. CASE k \in S
    <3>1. Below(S, k + 1) = Below(S, k) \cup {k}
      BY <2>3, BelowNext
    <3>2. \E h : MergesOf(R, Below(S, k) \cup {k}, h)
      BY <2>1, <2>2, MergesExtend
    <3> QED
      BY <1>1, <3>1, <3>2
  <2>4. CASE k \notin S
    <3>1. Below(S, k + 1) = Below(S, k)
      BY <2>4, BelowNext
    <3> QED
      BY <1>1, <2>1, <3>1
  <2> QED
    BY <2>3, <2>4
<1>4. n \in T
  BY <1>2, <1>3, Induction
<1>5. Below(S, n) = S
  BY DEF Below
<1> QED
  BY <1>1, <1>4, <1>5

\* What is merged of the generations below each number.
LEMMA MergesStepwise ==
  ASSUME NEW R, Bases(R) \subseteq Nat, NEW n \in Nat, \A b \in Bases(R) : b < n
  PROVE  \E acc : /\ acc[0] = Unwritten /\ acc[n] = Merged(R)
                  /\ \A k \in Nat :
                       acc[k + 1] = IF k \in Bases(R) THEN Merge(R, acc[k], k) ELSE acc[k]
<1>1. PICK S : S = Bases(R)
  OBVIOUS
<1>2. PICK g : g = CHOOSE f : MergesOf(R, S, f)
  OBVIOUS
<1>3. MergesOf(R, S, g)
  BY <1>1, <1>2, MergesExist
<1>4. \A B \in SUBSET S : g[B] = Turn(R, g, B)
  BY <1>3 DEF MergesOf
<1>5. PICK acc : acc = [k \in Nat |-> g[Below(S, k)]]
  OBVIOUS
<1>6. acc[0] = Unwritten
  <2>1. Below(S, 0) = {}
    BY <1>1 DEF Below
  <2>2. g[{}] = Unwritten
    BY <1>4 DEF Turn
  <2> QED
    BY <1>5, <2>1, <2>2
<1>7. acc[n] = Merged(R)
  <2>1. Below(S, n) = S
    BY <1>1 DEF Below
  <2>2. Merged(R) = g[S]
    BY <1>1, <1>2, MergedIsFold
  <2> QED
    BY <1>5, <2>1, <2>2
<1>8. ASSUME NEW k \in Nat
      PROVE  acc[k + 1] = IF k \in S THEN Merge(R, acc[k], k) ELSE acc[k]
  <2>1. acc[k] = g[Below(S, k)] /\ acc[k + 1] = g[Below(S, k + 1)]
    BY <1>5
  <2>2. CASE k \in S
    <3>1. PICK B : B = Below(S, k + 1)
      OBVIOUS
    <3>2. B \subseteq Nat /\ k \in B /\ \A b \in B : b <= k
      BY <1>1, <2>2, <3>1 DEF Below
    <3>3. B \ {k} = Below(S, k)
      BY <1>1, <2>2, <3>1 DEF Below
    <3>4. Max(B) = k
      BY <3>2, GreatestIs
    <3>5. B \in SUBSET S
      BY <3>1 DEF Below
    <3>6. g[B] = Merge(R, g[Below(S, k)], k)
      BY <1>4, <3>2, <3>3, <3>4, <3>5 DEF Turn
    <3> QED
      BY <2>1, <2>2, <3>1, <3>6
  <2>3. CASE k \notin S
    <3>1. Below(S, k + 1) = Below(S, k)
      BY <1>1, <2>3 DEF Below
    <3> QED
      BY <2>1, <2>3, <3>1
  <2> QED
    BY <2>2, <2>3
<1> QED
  BY <1>1, <1>6, <1>7, <1>8

-----------------------------------------------------------------------------
(* What the merge yields, by generation.                                   *)

Agreeing(R, f, d) == {b \in 0..(d - 1) : Cardinality(Written(Generation(R, b), f)) = 1}
Writing(R, f, d) == {b \in 0..(d - 1) : Written(Generation(R, b), f) # {}}
Alternatives(W) == IF Cardinality(W) > 1 THEN W ELSE {}

\* What has been made of the generations below k: those up to the current revision are
\* merged, the others are gaps.
MergedBelow(R, k, m) ==
  /\ m = [revision |-> m.revision, gaps |-> m.gaps, fields |-> m.fields,
          conflicts |-> m.conflicts]
  /\ m.revision \in 0..k
  /\ \A b \in 0..(m.revision - 1) : b \in Bases(R)
  /\ m.revision < k => m.revision \notin Bases(R)
  /\ m.gaps = {b \in Bases(R) : m.revision <= b /\ b < k}
  /\ \A f \in Fields :
       /\ m.fields[f] = Newest(R, f, Agreeing(R, f, m.revision))
       /\ m.conflicts[f] = Alternatives(Newest(R, f, Writing(R, f, m.revision)))

\* A generation more is among those that count, or it is not.
LEMMA GenerationsGrow ==
  ASSUME NEW R, NEW f, NEW d \in Nat
  PROVE  LET W == Written(Generation(R, d), f)
         IN  /\ Newest(R, f, Agreeing(R, f, d + 1)) =
                  IF Cardinality(W) = 1 THEN W ELSE Newest(R, f, Agreeing(R, f, d))
             /\ Newest(R, f, Writing(R, f, d + 1)) =
                  IF W # {} THEN W ELSE Newest(R, f, Writing(R, f, d))
<1> DEFINE W == Written(Generation(R, d), f)
<1>1. 0..((d + 1) - 1) = (0..(d - 1)) \cup {d}
  OBVIOUS
<1>2. ASSUME NEW B, B \subseteq 0..(d - 1) PROVE Newest(R, f, B \cup {d}) = W
  <2>1. B \cup {d} \subseteq Nat /\ \A b \in B \cup {d} : b <= d
    BY <1>2
  <2>2. Max(B \cup {d}) = d
    BY <2>1, GreatestIs
  <2> QED
    BY <2>2 DEF Newest
<1>3. Newest(R, f, Agreeing(R, f, d + 1)) =
        IF Cardinality(W) = 1 THEN W ELSE Newest(R, f, Agreeing(R, f, d))
  <2>1. Agreeing(R, f, d) \subseteq 0..(d - 1)
    BY DEF Agreeing
  <2>2. CASE Cardinality(W) = 1
    <3>1. Agreeing(R, f, d + 1) = Agreeing(R, f, d) \cup {d}
      BY <1>1, <2>2 DEF Agreeing
    <3> QED
      BY <1>2, <2>1, <2>2, <3>1
  <2>3. CASE Cardinality(W) # 1
    <3>1. Agreeing(R, f, d + 1) = Agreeing(R, f, d)
      BY <1>1, <2>3 DEF Agreeing
    <3> QED
      BY <2>3, <3>1
  <2> QED
    BY <2>2, <2>3
<1>4. Newest(R, f, Writing(R, f, d + 1)) =
        IF W # {} THEN W ELSE Newest(R, f, Writing(R, f, d))
  <2>1. Writing(R, f, d) \subseteq 0..(d - 1)
    BY DEF Writing
  <2>2. CASE W # {}
    <3>1. Writing(R, f, d + 1) = Writing(R, f, d) \cup {d}
      BY <1>1, <2>2 DEF Writing
    <3> QED
      BY <1>2, <2>1, <2>2, <3>1
  <2>3. CASE W = {}
    <3>1. Writing(R, f, d + 1) = Writing(R, f, d)
      BY <1>1, <2>3 DEF Writing
    <3> QED
      BY <2>3, <3>1
  <2> QED
    BY <2>2, <2>3
<1> QED
  BY <1>3, <1>4

\* What finitely many revisions write to a field is finite.
LEMMA WrittenIsFinite ==
  ASSUME NEW R, R \subseteq Envelope, IsFiniteSet(R), NEW b, NEW f
  PROVE  IsFiniteSet(Written(Generation(R, b), f))
<1>1. PICK G : G = Generation(R, b)
  OBVIOUS
<1>2. IsFiniteSet(G) /\ G \subseteq Envelope
  <2>1. G \in SUBSET R
    BY <1>1 DEF Generation
  <2> QED
    BY <2>1, FS_Subset
<1>3. PICK C : C = {e.content.changes : e \in G}
  OBVIOUS
<1>4. IsFiniteSet(C)
  <2>1. PICK h : h = [e \in G |-> e.content.changes]
    OBVIOUS
  <2>2. h \in Surjection(G, C)
    BY <1>3, <2>1 DEF Surjection
  <2> QED
    BY <1>2, <2>2, FS_Surjection
<1>5. \A T \in C : IsFiniteSet(T)
  BY <1>2, <1>3 DEF Envelope, Content
<1>6. IsFiniteSet(UNION C)
  BY <1>4, <1>5, FS_UNION
<1>7. PICK D : D = {x \in UNION C : x[1] = f}
  OBVIOUS
<1>8. IsFiniteSet(D)
  <2>1. D \in SUBSET (UNION C)
    BY <1>7
  <2> QED
    BY <1>6, <2>1, FS_Subset
<1>9. PICK W : W = {w[2] : w \in D}
  OBVIOUS
<1>10. IsFiniteSet(W)
  <2>1. PICK h : h = [w \in D |-> w[2]]
    OBVIOUS
  <2>2. h \in Surjection(D, W)
    BY <1>9, <2>1 DEF Surjection
  <2> QED
    BY <1>8, <2>2, FS_Surjection
<1>11. W = Written(G, f)
  BY <1>3, <1>7, <1>9 DEF Written
<1> QED
  BY <1>1, <1>10, <1>11

\* One generation is merged: the next revision, a gap, or nothing if there is none.
LEMMA MergeOfGeneration ==
  ASSUME NEW R, R \subseteq Envelope, IsFiniteSet(R), NEW k \in Nat, NEW m,
         MergedBelow(R, k, m),
         NEW n, n = IF k \in Bases(R) THEN Merge(R, m, k) ELSE m
  PROVE  MergedBelow(R, k + 1, n)
<1>1. m.revision \in Nat /\ m.revision <= k
  BY DEF MergedBelow
<1>2. Bases(R) \subseteq Nat
  BY DEF Bases, Envelope, Content
<1>3. CASE k \notin Bases(R)
  <2>1. n = m
    BY <1>3
  <2>2. m.revision < k + 1 => m.revision \notin Bases(R)
    BY <1>1, <1>3 DEF MergedBelow
  <2>3. {b \in Bases(R) : m.revision <= b /\ b < k + 1} = {b \in Bases(R) : m.revision <= b /\ b < k}
    BY <1>2, <1>3
  <2> QED
    BY <1>1, <2>1, <2>2, <2>3 DEF MergedBelow
<1>4. CASE k \in Bases(R) /\ k # m.revision
  <2>1. n = [m EXCEPT !.gaps = @ \cup {k}]
    BY <1>4 DEF Merge
  <2>2. n = [revision |-> m.revision, gaps |-> m.gaps \cup {k}, fields |-> m.fields,
             conflicts |-> m.conflicts]
    BY <2>1 DEF MergedBelow
  <2>3. /\ n.revision = m.revision /\ n.gaps = m.gaps \cup {k}
        /\ n.fields = m.fields /\ n.conflicts = m.conflicts
    BY <2>2
  <2>4. {b \in Bases(R) : m.revision <= b /\ b < k + 1}
          = {b \in Bases(R) : m.revision <= b /\ b < k} \cup {k}
    BY <1>1, <1>2, <1>4
  <2>5. m.revision < k /\ m.revision \notin Bases(R)
    BY <1>1, <1>4 DEF MergedBelow
  <2> QED
    BY <1>1, <2>2, <2>3, <2>4, <2>5 DEF MergedBelow
<1>5. CASE k \in Bases(R) /\ k = m.revision
  <2> DEFINE W(f) == Written(Generation(R, k), f)
  <2>0. PICK F, C : /\ F = [f \in Fields |->
                              IF Cardinality(W(f)) = 1 THEN W(f) ELSE m.fields[f]]
                    /\ C = [f \in Fields |->
                              CASE Cardinality(W(f)) = 0 -> m.conflicts[f]
                                [] Cardinality(W(f)) = 1 -> {}
                                [] OTHER -> W(f)]
    OBVIOUS
  <2>1. n = [revision |-> k + 1, gaps |-> m.gaps, fields |-> F, conflicts |-> C]
    BY <1>5, <2>0 DEF Merge
  <2>2. \A b \in 0..k : b \in Bases(R)
    BY <1>1, <1>5 DEF MergedBelow
  <2>3. n.gaps = {} /\ {b \in Bases(R) : k + 1 <= b /\ b < k + 1} = {}
    <3>1. n.gaps = {b \in Bases(R) : k <= b /\ b < k}
      BY <1>5, <2>1 DEF MergedBelow
    <3> QED
      BY <1>2, <3>1
  <2>4. ASSUME NEW f \in Fields
        PROVE  /\ n.fields[f] = Newest(R, f, Agreeing(R, f, k + 1))
               /\ n.conflicts[f] = Alternatives(Newest(R, f, Writing(R, f, k + 1)))
    <3>1. PICK V : V = W(f)
      OBVIOUS
    <3>2. IsFiniteSet(V)
      BY <3>1, WrittenIsFinite
    <3>3. Cardinality(V) \in Nat /\ (Cardinality(V) = 0 <=> V = {})
      BY <3>2, FS_CardinalityType, FS_EmptySet
    <3>4. /\ n.fields[f] = IF Cardinality(V) = 1 THEN V ELSE m.fields[f]
          /\ n.conflicts[f] = IF Cardinality(V) = 0 THEN m.conflicts[f]
                              ELSE IF Cardinality(V) = 1 THEN {} ELSE V
      <4>1. n.fields[f] = F[f] /\ n.conflicts[f] = C[f]
        BY <2>1
      <4>2. F[f] = IF Cardinality(W(f)) = 1 THEN W(f) ELSE m.fields[f]
        BY <2>0
      <4>3. n.conflicts[f] = CASE Cardinality(W(f)) = 0 -> m.conflicts[f]
                               [] Cardinality(W(f)) = 1 -> {}
                               [] OTHER -> W(f)
        BY <2>0, <4>1
      <4>4. n.fields[f] = IF Cardinality(V) = 1 THEN V ELSE m.fields[f]
        BY <3>1, <4>1, <4>2
      <4>5. n.conflicts[f] = CASE Cardinality(V) = 0 -> m.conflicts[f]
                               [] Cardinality(V) = 1 -> {}
                               [] OTHER -> V
        BY <3>1, <4>3
      <4> QED
        BY <3>3, <4>4, <4>5
    <3>5. /\ m.fields[f] = Newest(R, f, Agreeing(R, f, k))
          /\ m.conflicts[f] = Alternatives(Newest(R, f, Writing(R, f, k)))
      BY <1>5 DEF MergedBelow
    <3>6. /\ Newest(R, f, Agreeing(R, f, k + 1)) =
               IF Cardinality(V) = 1 THEN V ELSE Newest(R, f, Agreeing(R, f, k))
          /\ Newest(R, f, Writing(R, f, k + 1)) =
               IF V # {} THEN V ELSE Newest(R, f, Writing(R, f, k))
      BY <3>1, GenerationsGrow
    <3>7. n.fields[f] = Newest(R, f, Agreeing(R, f, k + 1))
      BY <3>4, <3>5, <3>6
    <3>8. CASE V = {}
      BY <3>3, <3>4, <3>5, <3>6, <3>7, <3>8
    <3>9. CASE V # {}
      <4>1. Cardinality(V) # 0 /\ Newest(R, f, Writing(R, f, k + 1)) = V
        BY <3>3, <3>6, <3>9
      <4>2. Cardinality(V) = 1 \/ Cardinality(V) > 1
        BY <3>3, <4>1
      <4>3. n.conflicts[f] = IF Cardinality(V) > 1 THEN V ELSE {}
        BY <3>4, <4>1, <4>2
      <4> QED
        BY <3>7, <4>1, <4>3 DEF Alternatives
    <3> QED
      BY <3>8, <3>9
  <2>5. n.revision = k + 1
    BY <2>1
  <2>6. n = [revision |-> n.revision, gaps |-> n.gaps, fields |-> n.fields,
             conflicts |-> n.conflicts]
    BY <2>1
  <2> HIDE DEF W
  <2>7. \A b \in 0..((k + 1) - 1) : b \in Bases(R)
    BY <2>2
  <2> QED
    BY <1>1, <2>3, <2>4, <2>5, <2>6, <2>7 DEF MergedBelow
<1> QED
  BY <1>3, <1>4, <1>5

\* Finitely many numbers have a bound.
LEMMA FiniteIsBounded ==
  ASSUME NEW S, S \subseteq Nat, IsFiniteSet(S)
  PROVE  \E n \in Nat : \A s \in S : s < n
<1>1. PICK T : T = {c \in Nat : \A B \in SUBSET Nat :
                      IsFiniteSet(B) /\ Cardinality(B) = c =>
                        \E n \in Nat : \A b \in B : b < n}
  OBVIOUS
<1>2. 0 \in T
  <2>1. ASSUME NEW B \in SUBSET Nat, IsFiniteSet(B), Cardinality(B) = 0
        PROVE  \E n \in Nat : \A b \in B : b < n
    <3>1. B = {}
      BY <2>1, FS_EmptySet
    <3> QED
      BY <3>1
  <2> QED
    BY <1>1, <2>1
<1>3. ASSUME NEW c \in Nat, c \in T PROVE c + 1 \in T
  <2>1. ASSUME NEW B \in SUBSET Nat, IsFiniteSet(B), Cardinality(B) = c + 1
        PROVE  \E n \in Nat : \A b \in B : b < n
    <3>1. B # {}
      BY <2>1, FS_EmptySet
    <3>2. PICK x \in B : TRUE
      BY <3>1
    <3>3. IsFiniteSet(B \ {x}) /\ Cardinality(B \ {x}) = c
      <4>1. IsFiniteSet(B) /\ Cardinality(B) = c + 1 /\ x \in B
        BY <2>1, <3>2
      <4>2. IsFiniteSet(B \ {x}) /\ Cardinality(B \ {x}) = Cardinality(B) - 1
        BY <4>1, FS_RemoveElement
      <4> QED
        BY <4>1, <4>2
    <3>4. PICK n \in Nat : \A b \in B \ {x} : b < n
      BY <1>1, <1>3, <3>3
    <3>5. x \in Nat
      BY <3>2
    <3>6. PICK m \in Nat : m > x /\ m >= n
      <4>1. x + n + 1 \in Nat /\ x + n + 1 > x /\ x + n + 1 >= n
        BY <3>5
      <4> QED
        BY <4>1
    <3>7. \A b \in B : b < m
      BY <3>4, <3>5, <3>6
    <3> QED
      BY <3>7
  <2>2. \A B \in SUBSET Nat : IsFiniteSet(B) /\ Cardinality(B) = c + 1 =>
          \E n \in Nat : \A b \in B : b < n
    BY <2>1
  <2>3. PICK d \in Nat : d = c + 1
    OBVIOUS
  <2>4. d \in T
    BY <1>1, <2>2, <2>3
  <2> QED
    BY <2>3, <2>4
<1>4. Cardinality(S) \in T
  BY <1>2, <1>3, Induction, FS_CardinalityType
<1> QED
  BY <1>1, <1>4

\* The revisions that a merge is made of.
LEMMA BasesOfRevisions ==
  ASSUME NEW R, R \subseteq Envelope, IsFiniteSet(R)
  PROVE  /\ Bases(R) \subseteq Nat /\ IsFiniteSet(Bases(R))
         /\ Cardinality(Bases(R)) <= Cardinality(R)
         /\ \A b : Generation(R, b) # {} <=> b \in Bases(R)
<1>1. Bases(R) \subseteq Nat
  BY DEF Bases, Envelope, Content
<1>2. PICK h : h = [e \in R |-> e.content.base]
  OBVIOUS
<1>3. h \in Surjection(R, Bases(R))
  BY <1>2 DEF Surjection, Bases
<1>4. IsFiniteSet(Bases(R)) /\ Cardinality(Bases(R)) <= Cardinality(R)
  BY <1>3, FS_Surjection
<1>5. \A b : Generation(R, b) # {} <=> b \in Bases(R)
  BY DEF Generation, Bases
<1> QED
  BY <1>1, <1>4, <1>5

\* The depth of the gapless ancestry is what its definition chooses.
LEMMA DepthIs ==
  ASSUME NEW R, R \subseteq Envelope, IsFiniteSet(R),
         NEW d \in Nat, d \notin Bases(R), \A b \in 0..(d - 1) : b \in Bases(R)
  PROVE  Depth(R) = d
<1>1. d <= Cardinality(R)
  <2>1. 0..(d - 1) \in SUBSET Bases(R)
    OBVIOUS
  <2>2. Cardinality(0..(d - 1)) = d
    BY FS_Interval
  <2>3. Cardinality(0..(d - 1)) <= Cardinality(Bases(R))
    BY <2>1, BasesOfRevisions, FS_Subset
  <2>4. Cardinality(Bases(R)) \in Nat /\ Cardinality(R) \in Nat
    BY BasesOfRevisions, FS_CardinalityType
  <2> QED
    BY <2>2, <2>3, <2>4, BasesOfRevisions
<1>2. d \in 0..Cardinality(R)
  BY <1>1, FS_CardinalityType
<1>3. Generation(R, d) = {} /\ \A b \in 0..(d - 1) : Generation(R, b) # {}
  BY BasesOfRevisions
<1>4. PICK n : n = Depth(R)
  OBVIOUS
<1>5. n \in 0..Cardinality(R) /\ Generation(R, n) = {} /\ \A b \in 0..(n - 1) : Generation(R, b) # {}
  BY <1>2, <1>3, <1>4 DEF Depth
<1>6. n \in Nat
  BY <1>5
<1>7. ~(n < d) /\ ~(d < n)
  BY <1>3, <1>5, <1>6
<1> QED
  BY <1>4, <1>6, <1>7

\* The merge of any finite set of revisions, by generation.
LEMMA MergedByGeneration ==
  ASSUME NEW R, R \subseteq Envelope, IsFiniteSet(R)
  PROVE  LET m == Merged(R)
         IN  /\ m.revision = Depth(R) /\ Depth(R) \in Nat
             /\ m.gaps = Bases(R) \ (0..(Depth(R) - 1))
             /\ \A f \in Fields :
                  /\ m.fields[f] = Newest(R, f, Agreeing(R, f, Depth(R)))
                  /\ m.conflicts[f] = Alternatives(Newest(R, f, Writing(R, f, Depth(R))))
<1>1. Bases(R) \subseteq Nat /\ IsFiniteSet(Bases(R))
  BY BasesOfRevisions
<1>2. PICK n \in Nat : \A b \in Bases(R) : b < n
  BY <1>1, FiniteIsBounded
<1>3. PICK acc : /\ acc[0] = Unwritten /\ acc[n] = Merged(R)
                 /\ \A k \in Nat :
                      acc[k + 1] = IF k \in Bases(R) THEN Merge(R, acc[k], k) ELSE acc[k]
  BY <1>1, <1>2, MergesStepwise
<1>4. MergedBelow(R, 0, Unwritten)
  <2>1. ASSUME NEW f \in Fields
        PROVE  /\ Unwritten.fields[f] = Newest(R, f, Agreeing(R, f, 0))
               /\ Unwritten.conflicts[f] = Alternatives(Newest(R, f, Writing(R, f, 0)))
    <3>1. Unwritten.fields[f] = {} /\ Unwritten.conflicts[f] = {}
      BY DEF Unwritten
    <3>2. Agreeing(R, f, 0) = {} /\ Writing(R, f, 0) = {}
      BY DEF Agreeing, Writing
    <3>3. Newest(R, f, {}) = {} /\ Alternatives({}) = {}
      BY DEF Newest, Alternatives
    <3> QED
      BY <3>1, <3>2, <3>3
  <2>2. Unwritten.revision = 0 /\ Unwritten.gaps = {}
    BY DEF Unwritten
  <2>3. Unwritten = [revision |-> Unwritten.revision, gaps |-> Unwritten.gaps,
                     fields |-> Unwritten.fields, conflicts |-> Unwritten.conflicts]
    BY DEF Unwritten
  <2>4. {b \in Bases(R) : 0 <= b /\ b < 0} = {}
    BY <1>1
  <2> QED
    BY <2>1, <2>2, <2>3, <2>4 DEF MergedBelow
<1>5. PICK T : T = {k \in Nat : MergedBelow(R, k, acc[k])}
  OBVIOUS
<1>6. 0 \in T
  BY <1>3, <1>4, <1>5
<1>7. ASSUME NEW k \in Nat, k \in T PROVE k + 1 \in T
  <2>1. MergedBelow(R, k, acc[k])
    BY <1>5, <1>7
  <2>2. acc[k + 1] = IF k \in Bases(R) THEN Merge(R, acc[k], k) ELSE acc[k]
    BY <1>3
  <2>3. MergedBelow(R, k + 1, acc[k + 1])
    BY <2>1, <2>2, MergeOfGeneration
  <2> QED
    BY <1>5, <2>3
<1>8. n \in T
  BY <1>6, <1>7, Induction
<1>9. PICK m : m = Merged(R) /\ MergedBelow(R, n, m)
  BY <1>3, <1>5, <1>8
<1>10. m.revision \in Nat /\ m.revision <= n /\ m.revision \notin Bases(R)
       /\ \A b \in 0..(m.revision - 1) : b \in Bases(R)
  <2>1. n \notin Bases(R)
    BY <1>2
  <2>2. m.revision \in 0..n /\ (m.revision < n => m.revision \notin Bases(R))
        /\ \A b \in 0..(m.revision - 1) : b \in Bases(R)
    BY <1>9 DEF MergedBelow
  <2>3. m.revision = n \/ m.revision < n
    BY <2>2
  <2> QED
    BY <2>1, <2>2, <2>3
<1>11. Depth(R) = m.revision
  BY <1>10, DepthIs
<1>12. m.gaps = Bases(R) \ (0..(Depth(R) - 1))
  <2>1. m.gaps = {b \in Bases(R) : m.revision <= b /\ b < n}
    BY <1>9 DEF MergedBelow
  <2>2. \A b \in Bases(R) : (m.revision <= b /\ b < n) <=> b \notin 0..(m.revision - 1)
    BY <1>1, <1>2, <1>10
  <2> QED
    BY <1>11, <2>1, <2>2
<1>13. ASSUME NEW f \in Fields
       PROVE  /\ m.fields[f] = Newest(R, f, Agreeing(R, f, Depth(R)))
              /\ m.conflicts[f] = Alternatives(Newest(R, f, Writing(R, f, Depth(R))))
  BY <1>9, <1>11 DEF MergedBelow
<1> QED
  BY <1>9, <1>10, <1>11, <1>12, <1>13

\* A peer has applied finitely many revisions.
FinitelyMany == \A p \in Peers : IsFiniteSet(revisions[p])

\* Every step applies one revision at the most.
LEMMA RevisionsStayFinite ==
  ASSUME Typed, FinitelyMany, [Next]_vars
  PROVE  FinitelyMany'
<1> SUFFICES ASSUME NEW p \in Peers PROVE IsFiniteSet(revisions'[p])
  BY DEF FinitelyMany
<1>1. IsFiniteSet(revisions[p])
  BY DEF FinitelyMany
<1>2. CASE NoSemantics
  BY <1>1, <1>2 DEF NoSemantics
<1>3. ASSUME NEW q \in Peers, NEW d \in Envelope, ApplySemantics(q, d)
      PROVE  revisions'[p] = revisions[p] \/ revisions'[p] = revisions[p] \cup {d}
  <2>1. JudgedTypes
    BY DEF Typed, TypeOK, JudgedTypes
  <2>2. PICK judgement : judgement = Verdict(q, d)
    OBVIOUS
  <2>3. /\ \A r \in Peers \ {q} : revisions'[r] = revisions[r]
        /\ revisions'[q] = revisions[q] \cup If(judgement = "REVISION_APPLIED", d)
    <3>1. ApplyVerdict(q, d, judgement) /\ judgement \in Verdicts
      BY <1>3, <2>2, VerdictType DEF ApplySemantics
    <3> QED
      BY <2>1, <3>1, VerdictAdds DEF If
  <2>4. revisions'[q] = revisions[q] \/ revisions'[q] = revisions[q] \cup {d}
    BY <2>3 DEF If
  <2> QED
    BY <2>3, <2>4
<1>4. ASSUME NEW d, revisions'[p] = revisions[p] \cup {d} PROVE IsFiniteSet(revisions'[p])
  BY <1>1, <1>4, FS_AddElement
<1> QED
  BY <1>1, <1>2, <1>3, <1>4, SemanticsOfStep

\* The merge of a peer loses no alternative and lets none win by its order: whatever
\* was applied, it yields what the generations of the gapless ancestry define.
THEOREM MergesAreByGeneration == Spec => []MergeIsByGeneration
<1>1. Init => FinitelyMany
  BY FS_EmptySet DEF Init, PeerInit, FinitelyMany
<1>2. Typed /\ FinitelyMany /\ [Next]_vars => FinitelyMany'
  BY RevisionsStayFinite
<1>3. Typed /\ FinitelyMany => MergeIsByGeneration
  <2> SUFFICES ASSUME Typed, FinitelyMany, NEW p \in Peers, NEW v
               PROVE  LET R == RevisionsOf(p, v)
                          m == Merged(R)
                      IN  /\ m.revision = Depth(R)
                          /\ m.gaps = Bases(R) \ Ancestry(R)
                          /\ \A f \in Fields :
                               LET written(b) == Written(Generation(R, b), f)
                                   agreed == Newest(R, f, {b \in Ancestry(R) :
                                                             Cardinality(written(b)) = 1})
                                   last == Newest(R, f, {b \in Ancestry(R) : written(b) # {}})
                               IN  /\ m.fields[f] = agreed
                                   /\ m.conflicts[f] = IF Cardinality(last) > 1 THEN last ELSE {}
    BY DEF MergeIsByGeneration
  <2>1. PICK R : R = RevisionsOf(p, v)
    OBVIOUS
  <2>2. R \subseteq Envelope /\ IsFiniteSet(R)
    <3>1. revisions[p] \subseteq Envelope /\ IsFiniteSet(revisions[p])
      BY DEF Typed, TypeOK, FinitelyMany
    <3>2. R \in SUBSET revisions[p]
      BY <2>1 DEF RevisionsOf
    <3> QED
      BY <3>1, <3>2, FS_Subset
  <2>3. PICK m : m = Merged(R)
    OBVIOUS
  <2>4. /\ m.revision = Depth(R)
        /\ m.gaps = Bases(R) \ (0..(Depth(R) - 1))
        /\ \A f \in Fields :
             /\ m.fields[f] = Newest(R, f, Agreeing(R, f, Depth(R)))
             /\ m.conflicts[f] = Alternatives(Newest(R, f, Writing(R, f, Depth(R))))
    BY <2>2, <2>3, MergedByGeneration
  <2> QED
    BY <2>1, <2>3, <2>4 DEF Agreeing, Writing, Alternatives, Ancestry
<1>4. Typed /\ [Next]_vars => Typed'
  BY StepKeepsTypes
<1> QED
  BY <1>1, <1>2, <1>3, <1>4, InitTypes, PTL DEF Spec

=============================================================================
