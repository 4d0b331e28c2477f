------------------------- MODULE AgentMemory_proofs -------------------------
(* Proofs about AgentMemory and the HostStore under it, for every number of keys, *)
(* calls, grants and faults.                                                      *)
EXTENDS AgentMemory, FiniteSetTheorems, TLAPS

-----------------------------------------------------------------------------
(* The Event Core.                                                         *)

Objects == [type : {"none", "event", "revision", "feedback"}, id : Nat, revision : Nat]
Version == [state : {"active", "deleted"}, rests : Nat, by : Commands \X Keys]

Src(k) == slot[<<"source", k>>]
Acc(k) == slot[<<"accept", k>>]
App(k) == slot[<<"append", k>>]
Und(k) == slot[<<"undo", k>>]
Enq(k) == slot[<<"enqueue", k>>]

CoreTyped ==
  /\ source \in Seq({"active", "deleted"})
  /\ event \in Seq(Seq(Version))
  /\ job \in Seq(Objects)
  /\ DOMAIN slot = Commands \X Keys
  /\ \A k \in Keys : Src(k) \in {NoSlot} \cup
       [payload : {"create_event", "append_revision"}, result : DOMAIN source]

\* A source belongs to one key.
SourcesAgree ==
  \A j, k \in Keys :
    Src(j) # NoSlot /\ Src(k) # NoSlot /\ Src(j).result = Src(k).result => j = k

\* A slot names a revision.
Names(command, k, type, e, r) ==
  /\ slot[<<command, k>>] # NoSlot
  /\ slot[<<command, k>>].result = Object(type, e, r)

\* It is the one that was made under it, of the source of the same key if it is new.
Made(command, k, type, e, r) ==
  /\ Names(command, k, type, e, r)
  /\ e \in DOMAIN event /\ r \in DOMAIN event[e]
  /\ event[e][r].by = <<command, k>>

AcceptAgrees(k) ==
  Acc(k) # NoSlot =>
    /\ Src(k) # NoSlot /\ Src(k).payload = "create_event"
    /\ \E e \in Nat : /\ Made("accept", k, "event", e, 1)
                      /\ event[e][1].rests = Src(k).result

AppendAgrees(k) ==
  App(k) # NoSlot =>
    /\ Src(k) # NoSlot /\ Src(k).payload = "append_revision"
    /\ \E e, r \in Nat : /\ Made("append", k, "revision", e, r) /\ r > 1
                         /\ event[e][r].rests = Src(k).result

UndoAgrees(k) ==
  Und(k) # NoSlot => \E e, r \in Nat : Made("undo", k, "revision", e, r)

EnqueueAgrees(k) ==
  Enq(k) # NoSlot => Enq(k).result \in DOMAIN job /\ job[Enq(k).result] = Enq(k).payload

SlotsAgree ==
  \A k \in Keys : AcceptAgrees(k) /\ AppendAgrees(k) /\ UndoAgrees(k) /\ EnqueueAgrees(k)

\* The source that a revision rests on was captured under a key for this event.
Owner(k, e, s) ==
  /\ Src(k) # NoSlot /\ Src(k).result = s
  /\ Names("accept", k, "event", e, 1) \/ \E r \in Nat : Names("append", k, "revision", e, r)

\* The tombstone of an event comes last, from the key under which it was created.
IsTombstone(e, r) ==
  /\ r = Len(event[e])
  /\ \E k \in Keys : event[e][r].by = <<"delete", k>> /\ event[e][1].by = <<"accept", k>>
  /\ source[event[e][1].rests] = "deleted"

\* A revision names the slot it was made under, and is of a source of its event.
VersionAgrees(e, r) ==
  /\ \E k \in Keys, s \in DOMAIN source : Owner(k, e, s) /\ event[e][r].rests = s
  /\ \A k \in Keys :
       /\ event[e][r].by = <<"accept", k>> => Names("accept", k, "event", e, r)
       /\ event[e][r].by = <<"append", k>> => Names("append", k, "revision", e, r)
       /\ event[e][r].by = <<"undo", k>> => Names("undo", k, "revision", e, r)
  /\ r = 1 => \E k \in Keys : event[e][r].by = <<"accept", k>>
  /\ event[e][r].state = "deleted" => IsTombstone(e, r)

EventsAgree ==
  \A e \in DOMAIN event : event[e] # <<>> /\ \A r \in DOMAIN event[e] : VersionAgrees(e, r)

\* What is delivered under a key is what was made under it, or a feedback record.
IsFor(object, k, n) ==
  \/ object.type = "event" /\ Acc(k) # NoSlot /\ object = Acc(k).result
  \/ object.type = "revision" /\ App(k) # NoSlot /\ object = App(k).result
  \/ object = Object("feedback", n, 0)

JobAgrees(i) == \E k \in Keys : Enq(k) # NoSlot /\ Enq(k).result = i /\ IsFor(job[i], k, i)

JobsAgree == \A i \in DOMAIN job : JobAgrees(i)

CoreIsSound == CoreTyped /\ SourcesAgree /\ SlotsAgree /\ EventsAgree /\ JobsAgree

\* What every command keeps: slots, revisions, jobs, and that something is deleted.
CoreKeeps ==
  /\ \A c \in Commands, k \in Keys :
       slot[<<c, k>>] # NoSlot => slot'[<<c, k>>] = slot[<<c, k>>]
  /\ \A s \in DOMAIN source : /\ s \in DOMAIN source'
                              /\ source[s] = "deleted" => source'[s] = "deleted"
  /\ \A e \in DOMAIN event :
       /\ e \in DOMAIN event'
       /\ \A r \in DOMAIN event[e] : r \in DOMAIN event'[e] /\ event'[e][r] = event[e][r]
       /\ Last(event[e]).state = "deleted" => event'[e] = event[e]
  /\ \A i \in DOMAIN job : i \in DOMAIN job' /\ job'[i] = job[i]

\* Two names of one object are the same.
LEMMA ObjectsDiffer ==
  ASSUME NEW t, NEW e, NEW r, NEW u, NEW f, NEW s, Object(t, e, r) = Object(u, f, s)
  PROVE  t = u /\ e = f /\ r = s
  BY DEF Object

\* A slot goes on to name what it names.
LEMMA NamesStay ==
  ASSUME CoreKeeps, NEW c \in Commands, NEW k \in Keys, NEW t, NEW e, NEW r, Names(c, k, t, e, r)
  PROVE  Names(c, k, t, e, r)'
  BY DEF CoreKeeps, Names

\* So does a slot whose revision is there.
LEMMA MadeStays ==
  ASSUME CoreKeeps, NEW c \in Commands, NEW k \in Keys, NEW t, NEW e, NEW r, Made(c, k, t, e, r)
  PROVE  Made(c, k, t, e, r)'
<1>1. Names(c, k, t, e, r)'
  BY NamesStay DEF Made
<1>2. e \in DOMAIN event' /\ r \in DOMAIN event'[e] /\ event'[e][r] = event[e][r]
  BY DEF Made, CoreKeeps
<1> QED
  BY <1>1, <1>2 DEF Made

\* The slots of a key that were recorded go on to agree.
LEMMA SlotsStay ==
  ASSUME CoreIsSound, CoreKeeps, NEW k \in Keys
  PROVE  /\ Src(k) # NoSlot => Src(k)' = Src(k)
         /\ Acc(k) # NoSlot => AcceptAgrees(k)' /\ Acc(k)' = Acc(k)
         /\ App(k) # NoSlot => AppendAgrees(k)' /\ App(k)' = App(k)
         /\ Und(k) # NoSlot => UndoAgrees(k)' /\ Und(k)' = Und(k)
         /\ Enq(k) # NoSlot => EnqueueAgrees(k)' /\ Enq(k)' = Enq(k)
<1>1. \A c \in Commands : slot[<<c, k>>] # NoSlot => slot'[<<c, k>>] = slot[<<c, k>>]
  BY DEF CoreKeeps
<1>2. /\ Src(k) # NoSlot => Src(k)' = Src(k)
      /\ Acc(k) # NoSlot => Acc(k)' = Acc(k)
      /\ App(k) # NoSlot => App(k)' = App(k)
      /\ Und(k) # NoSlot => Und(k)' = Und(k)
      /\ Enq(k) # NoSlot => Enq(k)' = Enq(k)
  BY <1>1 DEF Src, Acc, App, Und, Enq, Commands
<1>3. AcceptAgrees(k) /\ AppendAgrees(k) /\ UndoAgrees(k) /\ EnqueueAgrees(k)
  BY DEF CoreIsSound, SlotsAgree
<1>4. \A e \in DOMAIN event : \A r \in DOMAIN event[e] : event'[e][r] = event[e][r]
  BY DEF CoreKeeps
<1>5. ASSUME Acc(k) # NoSlot PROVE AcceptAgrees(k)'
  <2>1. PICK e \in Nat : Made("accept", k, "event", e, 1) /\ event[e][1].rests = Src(k).result
    BY <1>3, <1>5 DEF AcceptAgrees
  <2>2. Made("accept", k, "event", e, 1)'
    BY <2>1, MadeStays DEF Commands
  <2>3. event'[e][1] = event[e][1]
    BY <1>4, <2>1 DEF Made
  <2> QED
    BY <1>2, <1>3, <1>5, <2>1, <2>2, <2>3 DEF AcceptAgrees
<1>6. ASSUME App(k) # NoSlot PROVE AppendAgrees(k)'
  <2>1. PICK e \in Nat, r \in Nat :
          Made("append", k, "revision", e, r) /\ r > 1 /\ event[e][r].rests = Src(k).result
    BY <1>3, <1>6 DEF AppendAgrees
  <2>2. Made("append", k, "revision", e, r)'
    BY <2>1, MadeStays DEF Commands
  <2>3. event'[e][r] = event[e][r]
    BY <1>4, <2>1 DEF Made
  <2> QED
    BY <1>2, <1>3, <1>6, <2>1, <2>2, <2>3 DEF AppendAgrees
<1>7. ASSUME Und(k) # NoSlot PROVE UndoAgrees(k)'
  <2>1. PICK e \in Nat, r \in Nat : Made("undo", k, "revision", e, r)
    BY <1>3, <1>7 DEF UndoAgrees
  <2>2. Made("undo", k, "revision", e, r)'
    BY <2>1, MadeStays DEF Commands
  <2> QED
    BY <2>2 DEF UndoAgrees
<1>8. ASSUME Enq(k) # NoSlot PROVE EnqueueAgrees(k)'
  BY <1>2, <1>3, <1>8 DEF EnqueueAgrees, CoreKeeps
<1> QED
  BY <1>2, <1>5, <1>6, <1>7, <1>8

\* A source goes on to be of its event.
LEMMA OwnerStays ==
  ASSUME CoreIsSound, CoreKeeps, NEW k \in Keys, NEW e, NEW s, Owner(k, e, s)
  PROVE  Owner(k, e, s)'
<1>1. Src(k)' = Src(k)
  BY SlotsStay DEF Owner
<1>2. Names("accept", k, "event", e, 1) => Names("accept", k, "event", e, 1)'
  BY NamesStay DEF Commands
<1>3. \A n \in Nat : Names("append", k, "revision", e, n) => Names("append", k, "revision", e, n)'
  BY NamesStay DEF Commands
<1> QED
  BY <1>1, <1>2, <1>3 DEF Owner

\* A revision that is there goes on to agree.
LEMMA VersionStays ==
  ASSUME CoreIsSound, CoreKeeps, NEW e \in DOMAIN event, NEW r \in DOMAIN event[e]
  PROVE  VersionAgrees(e, r)'
<1>1. VersionAgrees(e, r) /\ event[e] # <<>> /\ event[e] \in Seq(Version)
  BY DEF CoreIsSound, EventsAgree, CoreTyped
<1>2. 1 \in DOMAIN event[e]
  BY <1>1
<1>3. event'[e][r] = event[e][r] /\ event'[e][1] = event[e][1]
  BY <1>2 DEF CoreKeeps
<1>4. \E k \in Keys, s \in DOMAIN source' : Owner(k, e, s)' /\ event'[e][r].rests = s
  <2>1. PICK k \in Keys, s \in DOMAIN source : Owner(k, e, s) /\ event[e][r].rests = s
    BY <1>1 DEF VersionAgrees
  <2>2. Owner(k, e, s)' /\ s \in DOMAIN source'
    BY <2>1, OwnerStays DEF CoreKeeps
  <2> QED
    BY <1>3, <2>1, <2>2
<1>5. ASSUME NEW k \in Keys
      PROVE  /\ event[e][r].by = <<"accept", k>> => Names("accept", k, "event", e, r)'
             /\ event[e][r].by = <<"append", k>> => Names("append", k, "revision", e, r)'
             /\ event[e][r].by = <<"undo", k>> => Names("undo", k, "revision", e, r)'
  <2>1. /\ event[e][r].by = <<"accept", k>> => Names("accept", k, "event", e, r)
        /\ event[e][r].by = <<"append", k>> => Names("append", k, "revision", e, r)
        /\ event[e][r].by = <<"undo", k>> => Names("undo", k, "revision", e, r)
    BY <1>1 DEF VersionAgrees
  <2>2. /\ Names("accept", k, "event", e, r) => Names("accept", k, "event", e, r)'
        /\ Names("append", k, "revision", e, r) => Names("append", k, "revision", e, r)'
        /\ Names("undo", k, "revision", e, r) => Names("undo", k, "revision", e, r)'
    BY NamesStay DEF Commands
  <2> QED
    BY <2>1, <2>2
<1>6. ASSUME event[e][r].state = "deleted" PROVE IsTombstone(e, r)'
  <2>1. IsTombstone(e, r)
    BY <1>1, <1>6 DEF VersionAgrees
  <2>2. Last(event[e]) = event[e][r]
    BY <2>1 DEF IsTombstone, Last
  <2>3. event'[e] = event[e]
    BY <1>6, <2>2 DEF CoreKeeps
  <2>4. event[e][1].rests \in DOMAIN source
    BY <1>2 DEF CoreIsSound, EventsAgree, VersionAgrees
  <2>5. source'[event[e][1].rests] = "deleted"
    BY <2>1, <2>4 DEF IsTombstone, CoreKeeps
  <2> QED
    BY <1>3, <2>1, <2>3, <2>5 DEF IsTombstone
<1>7. r = 1 => \E k \in Keys : event[e][r].by = <<"accept", k>>
  BY <1>1 DEF VersionAgrees
<1> QED
  BY <1>3, <1>4, <1>5, <1>6, <1>7 DEF VersionAgrees

\* A job that is there goes on to agree.
LEMMA JobStays ==
  ASSUME CoreIsSound, CoreKeeps, NEW i \in DOMAIN job
  PROVE  JobAgrees(i)'
<1>1. PICK k \in Keys : Enq(k) # NoSlot /\ Enq(k).result = i /\ IsFor(job[i], k, i)
  BY DEF CoreIsSound, JobsAgree, JobAgrees
<1>2. job'[i] = job[i]
  BY DEF CoreKeeps
<1>3. /\ Enq(k)' = Enq(k)
      /\ Acc(k) # NoSlot => Acc(k)' = Acc(k)
      /\ App(k) # NoSlot => App(k)' = App(k)
  BY <1>1, SlotsStay
<1>4. Enq(k)' # NoSlot /\ Enq(k).result' = i /\ IsFor(job[i], k, i)'
  BY <1>1, <1>2, <1>3 DEF IsFor
<1> QED
  BY <1>4 DEF JobAgrees

\* It is enough to look at what is new.
LEMMA CoreGoesOn ==
  ASSUME CoreIsSound, CoreKeeps, CoreTyped', SourcesAgree',
         \A k \in Keys : /\ Acc(k) = NoSlot => AcceptAgrees(k)'
                         /\ App(k) = NoSlot => AppendAgrees(k)'
                         /\ Und(k) = NoSlot => UndoAgrees(k)'
                         /\ Enq(k) = NoSlot => EnqueueAgrees(k)',
         \A e \in DOMAIN event' :
           /\ e \notin DOMAIN event => event'[e] # <<>>
           /\ \A r \in DOMAIN event'[e] :
                (e \notin DOMAIN event \/ r \notin DOMAIN event[e]) => VersionAgrees(e, r)',
         \A i \in DOMAIN job' : i \notin DOMAIN job => JobAgrees(i)'
  PROVE  CoreIsSound'
<1>1. SlotsAgree'
  BY SlotsStay DEF SlotsAgree
<1>2. ASSUME NEW e \in DOMAIN event' PROVE event'[e] # <<>>
  <2>1. CASE e \notin DOMAIN event
    BY <2>1
  <2>2. CASE e \in DOMAIN event
    <3>1. event[e] # <<>> /\ event[e] \in Seq(Version) /\ event'[e] \in Seq(Version)
      BY <2>2 DEF CoreIsSound, CoreTyped, EventsAgree
    <3>2. 1 \in DOMAIN event[e]
      BY <3>1
    <3>3. 1 \in DOMAIN event'[e]
      BY <2>2, <3>2 DEF CoreKeeps
    <3> QED
      BY <3>1, <3>3
  <2> QED
    BY <2>1, <2>2
<1>3. ASSUME NEW e \in DOMAIN event', NEW r \in DOMAIN event'[e] PROVE VersionAgrees(e, r)'
  BY VersionStays
<1>4. EventsAgree'
  BY <1>2, <1>3 DEF EventsAgree
<1>5. JobsAgree'
  BY JobStays DEF JobsAgree
<1> QED
  BY <1>1, <1>4, <1>5 DEF CoreIsSound

-----------------------------------------------------------------------------
(* The commands of the Event Core.                                         *)

\* A command is recorded under its key, and no other.
Records(c, k, payload, result) ==
  /\ DOMAIN slot' = Commands \X Keys
  /\ \A d \in Commands, j \in Keys : d # c \/ j # k => slot'[<<d, j>>] = slot[<<d, j>>]
  /\ \A d \in Commands, j \in Keys :
       slot[<<d, j>>] # NoSlot => slot'[<<d, j>>] = slot[<<d, j>>]
  /\ slot'[<<c, k>>] = [payload |-> payload, result |-> result]
  /\ slot'[<<c, k>>] # NoSlot

\* That is what a command does that was not recorded before.
LEMMA RecordsOne ==
  ASSUME DOMAIN slot = Commands \X Keys, NEW c \in Commands, work.key \in Keys,
         NEW payload, NEW result, ~Recorded(c), Record(c, payload, result)
  PROVE  Records(c, work.key, payload, result)
<1>1. [payload |-> payload, result |-> result] # NoSlot
  <2>1. /\ DOMAIN [payload |-> payload, result |-> result] = {"payload", "result"}
        /\ DOMAIN NoSlot = {"recorded"}
    BY DEF NoSlot
  <2> QED
    BY <2>1
<1>2. <<c, work.key>> \in DOMAIN slot
  OBVIOUS
<1> QED
  BY <1>1, <1>2 DEF Records, Record, Recorded

\* The sequence of an append.
LEMMA Appended ==
  ASSUME NEW S, NEW s \in Seq(S), NEW x \in S
  PROVE  /\ Append(s, x) \in Seq(S)
         /\ Len(Append(s, x)) = Len(s) + 1
         /\ DOMAIN Append(s, x) = DOMAIN s \cup {Len(s) + 1}
         /\ Len(s) + 1 \notin DOMAIN s
         /\ \A n \in DOMAIN s : Append(s, x)[n] = s[n]
         /\ Append(s, x)[Len(s) + 1] = x
  OBVIOUS

\* capture_source captures a source for its key.
LEMMA SourceIsCaptured ==
  ASSUME CoreIsSound, NEW k \in Keys, NEW op \in {"create_event", "append_revision"},
         source' = Append(source, "active"), NEW n, n = Len(source) + 1, Records("source", k, op, n),
         UNCHANGED <<event, job>>
  PROVE  CoreIsSound' /\ CoreKeeps
<1>1. CoreTyped /\ SourcesAgree /\ SlotsAgree
  BY DEF CoreIsSound
<1>2. /\ DOMAIN slot' = Commands \X Keys
      /\ \A c \in Commands, j \in Keys :
           c # "source" \/ j # k => slot'[<<c, j>>] = slot[<<c, j>>]
      /\ \A c \in Commands, j \in Keys :
           slot[<<c, j>>] # NoSlot => slot'[<<c, j>>] = slot[<<c, j>>]
      /\ Src(k)' = [payload |-> op, result |-> n]
  BY DEF Records, Src
<1>3. /\ source' \in Seq({"active", "deleted"})
      /\ DOMAIN source' = DOMAIN source \cup {Len(source) + 1}
      /\ Len(source) + 1 \notin DOMAIN source
      /\ \A s \in DOMAIN source : source'[s] = source[s]
  <2>1. source \in Seq({"active", "deleted"}) /\ "active" \in {"active", "deleted"}
    BY <1>1 DEF CoreTyped
  <2> QED
    BY <2>1, Appended
<1>4. CoreKeeps
  BY <1>2, <1>3 DEF CoreKeeps
<1>5. \A j \in Keys : j # k => Src(j)' = Src(j)
  BY <1>2 DEF Src, Commands
<1>6. CoreTyped'
  <2>1. \A j \in Keys : Src(j)' \in {NoSlot} \cup
          [payload : {"create_event", "append_revision"}, result : DOMAIN source']
    BY <1>1, <1>2, <1>3, <1>5 DEF CoreTyped
  <2> QED
    BY <1>1, <1>2, <1>3, <2>1 DEF CoreTyped
<1>7. SourcesAgree'
  <2>1. \A j \in Keys : Src(j) # NoSlot => Src(j).result \in DOMAIN source
    BY <1>1 DEF CoreTyped
  <2>2. Src(k)'.result = n
    BY <1>2
  <2> QED
    BY <1>1, <1>3, <1>5, <2>1, <2>2 DEF SourcesAgree
<1>8. ASSUME NEW j \in Keys
      PROVE  /\ Acc(j) = NoSlot => AcceptAgrees(j)'
             /\ App(j) = NoSlot => AppendAgrees(j)'
             /\ Und(j) = NoSlot => UndoAgrees(j)'
             /\ Enq(j) = NoSlot => EnqueueAgrees(j)'
  <2>1. Acc(j)' = Acc(j) /\ App(j)' = App(j) /\ Und(j)' = Und(j) /\ Enq(j)' = Enq(j)
    BY <1>2 DEF Acc, App, Und, Enq, Commands
  <2> QED
    BY <2>1 DEF AcceptAgrees, AppendAgrees, UndoAgrees, EnqueueAgrees
<1> QED
  BY <1>4, <1>6, <1>7, <1>8, CoreGoesOn

\* Without a new source the sources agree as before.
LEMMA SourcesStay ==
  ASSUME CoreIsSound, DOMAIN source' = DOMAIN source, \A j \in Keys : Src(j)' = Src(j)
  PROVE  /\ SourcesAgree'
         /\ \A j \in Keys : Src(j)' \in {NoSlot} \cup
              [payload : {"create_event", "append_revision"}, result : DOMAIN source']
  BY DEF CoreIsSound, CoreTyped, SourcesAgree

\* What goes on unchanged in a slot that is not recorded.
LEMMA UnrecordedStay ==
  ASSUME NEW j \in Keys
  PROVE  /\ Acc(j)' = Acc(j) /\ Acc(j) = NoSlot => AcceptAgrees(j)'
         /\ App(j)' = App(j) /\ App(j) = NoSlot => AppendAgrees(j)'
         /\ Und(j)' = Und(j) /\ Und(j) = NoSlot => UndoAgrees(j)'
         /\ Enq(j)' = Enq(j) /\ Enq(j) = NoSlot => EnqueueAgrees(j)'
  BY DEF AcceptAgrees, AppendAgrees, UndoAgrees, EnqueueAgrees

\* create_observation records that there is one.
LEMMA ObservationIsRecorded ==
  ASSUME CoreIsSound, NEW k \in Keys, NEW p, NEW n, Records("observation", k, p, n),
         UNCHANGED <<source, event, job>>
  PROVE  CoreIsSound' /\ CoreKeeps
<1>1. CoreTyped
  BY DEF CoreIsSound
<1>2. \A j \in Keys : /\ Src(j)' = Src(j) /\ Acc(j)' = Acc(j) /\ App(j)' = App(j)
                      /\ Und(j)' = Und(j) /\ Enq(j)' = Enq(j)
  BY DEF Records, Src, Acc, App, Und, Enq, Commands
<1>3. CoreKeeps
  BY DEF CoreKeeps, Records
<1>4. SourcesAgree' /\ CoreTyped'
  BY <1>1, <1>2, SourcesStay DEF CoreTyped, Records
<1>5. \A j \in Keys : /\ Acc(j) = NoSlot => AcceptAgrees(j)'
                      /\ App(j) = NoSlot => AppendAgrees(j)'
                      /\ Und(j) = NoSlot => UndoAgrees(j)'
                      /\ Enq(j) = NoSlot => EnqueueAgrees(j)'
  BY <1>2, UnrecordedStay
<1> QED
  BY <1>3, <1>4, <1>5, CoreGoesOn

\* accept_event creates an event of the source of its key.
LEMMA EventIsAccepted ==
  ASSUME CoreIsSound, NEW k \in Keys, NEW s \in DOMAIN source,
         Src(k) # NoSlot, Src(k).payload = "create_event", Src(k).result = s,
         NEW v, v = [state |-> "active", rests |-> s, by |-> <<"accept", k>>],
         event' = Append(event, <<v>>), NEW n, n = Len(event) + 1,
         NEW p, Records("accept", k, p, Object("event", n, 1)), UNCHANGED <<source, job>>
  PROVE  CoreIsSound' /\ CoreKeeps
<1>1. CoreTyped
  BY DEF CoreIsSound
<1>2. \A j \in Keys : /\ Src(j)' = Src(j) /\ App(j)' = App(j)
                      /\ Und(j)' = Und(j) /\ Enq(j)' = Enq(j)
                      /\ j # k => Acc(j)' = Acc(j)
  BY DEF Records, Src, Acc, App, Und, Enq, Commands
<1>3. v \in Version
  <2>1. s \in Nat
    BY <1>1 DEF CoreTyped
  <2> QED
    BY <2>1 DEF Version, Commands
<1>4. /\ event' \in Seq(Seq(Version))
      /\ DOMAIN event' = DOMAIN event \cup {n} /\ n \notin DOMAIN event /\ n \in Nat
      /\ \A e \in DOMAIN event : event'[e] = event[e]
      /\ event'[n] = <<v>>
  <2>1. event \in Seq(Seq(Version)) /\ <<v>> \in Seq(Version)
    BY <1>1, <1>3 DEF CoreTyped
  <2> QED
    BY <2>1, Appended
<1>5. DOMAIN event'[n] = {1} /\ event'[n][1] = v /\ event'[n] # <<>>
  BY <1>4
<1>6. CoreKeeps
  BY <1>4 DEF CoreKeeps, Records
<1>7. SourcesAgree' /\ CoreTyped'
  BY <1>1, <1>2, <1>4, SourcesStay DEF CoreTyped, Records
<1>8. Names("accept", k, "event", n, 1)'
  BY DEF Names, Records
<1>9. AcceptAgrees(k)'
  <2>1. Made("accept", k, "event", n, 1)'
    BY <1>4, <1>5, <1>8 DEF Made
  <2>2. event'[n][1].rests = Src(k)'.result /\ Src(k)' # NoSlot
        /\ Src(k)'.payload = "create_event"
    BY <1>2, <1>5
  <2> QED
    BY <1>4, <2>1, <2>2 DEF AcceptAgrees
<1>10. \A j \in Keys : /\ Acc(j) = NoSlot => AcceptAgrees(j)'
                       /\ App(j) = NoSlot => AppendAgrees(j)'
                       /\ Und(j) = NoSlot => UndoAgrees(j)'
                       /\ Enq(j) = NoSlot => EnqueueAgrees(j)'
  BY <1>2, <1>9, UnrecordedStay
<1>11. VersionAgrees(n, 1)'
  <2>1. Owner(k, n, s)'
    BY <1>2, <1>8 DEF Owner
  <2>2. event'[n][1].by = <<"accept", k>> /\ event'[n][1].rests = s
        /\ event'[n][1].state = "active"
    BY <1>5
  <2>3. \A j \in Keys : /\ event'[n][1].by = <<"accept", j>> => j = k
                        /\ event'[n][1].by # <<"append", j>>
                        /\ event'[n][1].by # <<"undo", j>>
    BY <2>2
  <2> QED
    BY <1>8, <2>1, <2>2, <2>3 DEF VersionAgrees
<1> QED
  BY <1>4, <1>5, <1>6, <1>7, <1>10, <1>11, CoreGoesOn

\* enqueue_delivery opens a job for what was made under its key.
LEMMA DeliveryIsEnqueued ==
  ASSUME CoreIsSound, NEW k \in Keys, NEW object \in Objects, NEW n, n = Len(job) + 1,
         IsFor(object, k, n), job' = Append(job, object), Records("enqueue", k, object, n),
         UNCHANGED <<source, event>>
  PROVE  CoreIsSound' /\ CoreKeeps
<1>1. CoreTyped
  BY DEF CoreIsSound
<1>2. \A j \in Keys : /\ Src(j)' = Src(j) /\ Acc(j)' = Acc(j) /\ App(j)' = App(j)
                      /\ Und(j)' = Und(j)
                      /\ j # k => Enq(j)' = Enq(j)
  BY DEF Records, Src, Acc, App, Und, Enq, Commands
<1>3. /\ job' \in Seq(Objects)
      /\ DOMAIN job' = DOMAIN job \cup {n} /\ n \notin DOMAIN job
      /\ \A i \in DOMAIN job : job'[i] = job[i]
      /\ job'[n] = object
  <2>1. job \in Seq(Objects)
    BY <1>1 DEF CoreTyped
  <2> QED
    BY <2>1, Appended
<1>4. CoreKeeps
  BY <1>3 DEF CoreKeeps, Records
<1>5. SourcesAgree' /\ CoreTyped'
  BY <1>1, <1>2, <1>3, SourcesStay DEF CoreTyped, Records
<1>6. Enq(k)' = [payload |-> object, result |-> n] /\ Enq(k)' # NoSlot
  BY DEF Enq, Records
<1>7. EnqueueAgrees(k)'
  BY <1>3, <1>6 DEF EnqueueAgrees
<1>8. ASSUME NEW j \in Keys
      PROVE  /\ Acc(j) = NoSlot => AcceptAgrees(j)'
             /\ App(j) = NoSlot => AppendAgrees(j)'
             /\ Und(j) = NoSlot => UndoAgrees(j)'
             /\ Enq(j) = NoSlot => EnqueueAgrees(j)'
  BY <1>2, <1>7, UnrecordedStay
<1>9. JobAgrees(n)'
  <2>1. IsFor(object, k, n)'
    BY <1>2 DEF IsFor
  <2> QED
    BY <1>3, <1>6, <2>1 DEF JobAgrees
<1> QED
  BY <1>3, <1>4, <1>5, <1>8, <1>9, CoreGoesOn

\* The history of an event grows by one revision.
LEMMA HistoryGrows ==
  ASSUME CoreIsSound, NEW e \in DOMAIN event, NEW v \in Version, NEW n, n = Len(event[e]) + 1,
         Revised(e, v)
  PROVE  /\ event' \in Seq(Seq(Version)) /\ DOMAIN event' = DOMAIN event
         /\ \A f \in DOMAIN event : f # e => event'[f] = event[f]
         /\ DOMAIN event'[e] = DOMAIN event[e] \cup {n} /\ n \notin DOMAIN event[e]
         /\ \A r \in DOMAIN event[e] : event'[e][r] = event[e][r]
         /\ event'[e][n] = v /\ n \in Nat /\ n > 1 /\ e \in Nat /\ Len(event'[e]) = n
<1>1. event \in Seq(Seq(Version)) /\ event[e] # <<>>
  BY DEF CoreIsSound, CoreTyped, EventsAgree
<1>2. event[e] \in Seq(Version) /\ e \in Nat
  BY <1>1
<1>3. event' = [event EXCEPT ![e] = Append(event[e], v)]
  BY DEF Revised
<1>4. /\ Append(event[e], v) \in Seq(Version)
      /\ DOMAIN Append(event[e], v) = DOMAIN event[e] \cup {n} /\ n \notin DOMAIN event[e]
      /\ \A r \in DOMAIN event[e] : Append(event[e], v)[r] = event[e][r]
      /\ Append(event[e], v)[n] = v /\ Len(Append(event[e], v)) = n
  BY <1>2, Appended
<1>5. event' \in Seq(Seq(Version)) /\ DOMAIN event' = DOMAIN event
      /\ \A f \in DOMAIN event : f # e => event'[f] = event[f]
  BY <1>1, <1>3, <1>4
<1>6. n \in Nat /\ n > 1
  BY <1>1, <1>2
<1>7. event'[e] = Append(event[e], v)
  BY <1>3
<1> QED
  BY <1>2, <1>4, <1>5, <1>6, <1>7

\* append_event_revision and undo_event make a revision of an event that is not
\* deleted, of a source of this event.
LEMMA RevisionIsMade ==
  ASSUME CoreIsSound, NEW k \in Keys, NEW e \in DOMAIN event, NEW s \in DOMAIN source,
         NEW c \in {"append", "undo"}, NEW v,
         v = [state |-> "active", rests |-> s, by |-> <<c, k>>],
         Revised(e, v), NEW n, n = Len(event[e]) + 1,
         Last(event[e]).state # "deleted",
         NEW p, Records(c, k, p, Object("revision", e, n)), UNCHANGED <<source, job>>,
         NEW j \in Keys, Owner(j, e, s)',
         c = "append" => /\ Src(k) # NoSlot /\ Src(k).payload = "append_revision"
                         /\ Src(k).result = s
  PROVE  CoreIsSound' /\ CoreKeeps
<1>1. CoreTyped
  BY DEF CoreIsSound
<1>2. \A i \in Keys : /\ Src(i)' = Src(i) /\ Acc(i)' = Acc(i) /\ Enq(i)' = Enq(i)
                      /\ c # "append" \/ i # k => App(i)' = App(i)
                      /\ c # "undo" \/ i # k => Und(i)' = Und(i)
  BY DEF Records, Src, Acc, App, Und, Enq, Commands
<1>3. v \in Version
  <2>1. s \in Nat
    BY <1>1 DEF CoreTyped
  <2> QED
    BY <2>1 DEF Version, Commands
<1>4. /\ event' \in Seq(Seq(Version)) /\ DOMAIN event' = DOMAIN event
      /\ \A f \in DOMAIN event : f # e => event'[f] = event[f]
      /\ DOMAIN event'[e] = DOMAIN event[e] \cup {n} /\ n \notin DOMAIN event[e]
      /\ \A r \in DOMAIN event[e] : event'[e][r] = event[e][r]
      /\ event'[e][n] = v /\ n \in Nat /\ n > 1 /\ e \in Nat
  BY <1>3, HistoryGrows
<1>5. CoreKeeps
  BY <1>4 DEF CoreKeeps, Records
<1>6. SourcesAgree' /\ CoreTyped'
  BY <1>1, <1>2, <1>4, SourcesStay DEF CoreTyped, Records
<1>7. Names(c, k, "revision", e, n)'
  BY DEF Names, Records
<1>8. v.by = <<c, k>> /\ v.rests = s /\ v.state = "active"
  OBVIOUS
<1>9. Made(c, k, "revision", e, n)'
  BY <1>4, <1>7, <1>8 DEF Made
<1>10. c = "append" => AppendAgrees(k)'
  <2>1. SUFFICES ASSUME c = "append" PROVE AppendAgrees(k)'
    OBVIOUS
  <2>2. Made("append", k, "revision", e, n)' /\ n > 1 /\ event'[e][n].rests = Src(k)'.result
    BY <1>2, <1>4, <1>8, <1>9, <2>1
  <2> QED
    BY <1>2, <1>4, <2>1, <2>2 DEF AppendAgrees
<1>11. c = "undo" => UndoAgrees(k)'
  BY <1>4, <1>9 DEF UndoAgrees
<1>12. \A i \in Keys : /\ Acc(i) = NoSlot => AcceptAgrees(i)'
                       /\ App(i) = NoSlot => AppendAgrees(i)'
                       /\ Und(i) = NoSlot => UndoAgrees(i)'
                       /\ Enq(i) = NoSlot => EnqueueAgrees(i)'
  BY <1>2, <1>10, <1>11, UnrecordedStay
<1>13. VersionAgrees(e, n)'
  <2>1. \A i \in Keys : /\ event'[e][n].by # <<"accept", i>>
                        /\ event'[e][n].by = <<"append", i>> => i = k /\ c = "append"
                        /\ event'[e][n].by = <<"undo", i>> => i = k /\ c = "undo"
    BY <1>4, <1>8
  <2>2. event'[e][n].rests = s /\ event'[e][n].state = "active" /\ n # 1 /\ s \in DOMAIN source'
    BY <1>4, <1>8
  <2> QED
    BY <1>7, <2>1, <2>2 DEF VersionAgrees
<1>14. \A f \in DOMAIN event' : /\ f \in DOMAIN event
                                /\ \A r \in DOMAIN event'[f] :
                                     r \notin DOMAIN event[f] => f = e /\ r = n
  BY <1>4
<1> QED
  BY <1>5, <1>6, <1>12, <1>13, <1>14, CoreGoesOn

\* A source is of one event.
LEMMA SourceOfOne ==
  ASSUME CoreIsSound, NEW i \in Keys, NEW j \in Keys, NEW e, NEW f, NEW s,
         Owner(i, e, s), Owner(j, f, s)
  PROVE  i = j /\ e = f
<1>1. i = j
  BY DEF Owner, CoreIsSound, SourcesAgree
<1>2. \A g, h, q, r \in Nat : /\ Object("event", g, q) = Object("event", h, r) => g = h
                              /\ Object("revision", g, q) = Object("revision", h, r) => g = h
  BY ObjectsDiffer
<1>3. AcceptAgrees(i) /\ AppendAgrees(i)
  BY DEF CoreIsSound, SlotsAgree
<1>4. Names("accept", i, "event", e, 1) => Src(i).payload = "create_event"
  BY <1>3 DEF Names, AcceptAgrees, Acc
<1>5. (\E r \in Nat : Names("append", i, "revision", e, r)) => Src(i).payload = "append_revision"
  BY <1>3 DEF Names, AppendAgrees, App
<1>6. Names("accept", i, "event", f, 1) => Src(i).payload = "create_event"
  BY <1>3 DEF Names, AcceptAgrees, Acc
<1>7. (\E r \in Nat : Names("append", i, "revision", f, r)) => Src(i).payload = "append_revision"
  BY <1>3 DEF Names, AppendAgrees, App
<1>8. CASE Names("accept", i, "event", e, 1) /\ Names("accept", i, "event", f, 1)
  <2>1. Object("event", e, 1) = Object("event", f, 1)
    BY <1>8 DEF Names
  <2> QED
    BY <1>1, <2>1, ObjectsDiffer
<1>9. ASSUME NEW q \in Nat, Names("append", i, "revision", e, q),
             NEW r \in Nat, Names("append", i, "revision", f, r)
      PROVE  e = f
  <2>1. Object("revision", e, q) = Object("revision", f, r)
    BY <1>9 DEF Names
  <2> QED
    BY <2>1, ObjectsDiffer
<1> QED
  BY <1>1, <1>4, <1>5, <1>6, <1>7, <1>8, <1>9 DEF Owner

\* The key under which an event was created owns its first source.
LEMMA FirstSource ==
  ASSUME CoreIsSound, NEW k \in Keys, NEW f, NEW r, Names("accept", k, "event", f, r)
  PROVE  /\ f \in DOMAIN event /\ r = 1 /\ 1 \in DOMAIN event[f]
         /\ event[f][1].by = <<"accept", k>>
         /\ Owner(k, f, event[f][1].rests) /\ event[f][1].rests \in DOMAIN source
<1>1. Acc(k) # NoSlot /\ AcceptAgrees(k) /\ CoreTyped
  BY DEF CoreIsSound, SlotsAgree, Names, Acc
<1>2. PICK e \in Nat : Made("accept", k, "event", e, 1) /\ event[e][1].rests = Src(k).result
  BY <1>1 DEF AcceptAgrees
<1>3. Object("event", e, 1) = Object("event", f, r)
  BY <1>2 DEF Made, Names
<1>4. e = f /\ r = 1
  BY <1>3, ObjectsDiffer
<1>5. Src(k) # NoSlot /\ Src(k).result \in DOMAIN source
  BY <1>1 DEF AcceptAgrees, CoreTyped
<1> QED
  BY <1>2, <1>4, <1>5 DEF Made, Owner

\* The event whose first source is deleted gets its tombstone.
LEMMA TombstoneIsMade ==
  ASSUME CoreIsSound, NEW k \in Keys, NEW f, NEW r, Names("accept", k, "event", f, r),
         NEW s, s = event[f][1].rests,
         source' \in Seq({"active", "deleted"}), DOMAIN source' = DOMAIN source,
         source'[s] = "deleted",
         \A t \in DOMAIN source : source[t] = "deleted" => source'[t] = "deleted",
         NEW v \in Version, v.by = <<"delete", k>>, v.rests = s, v.state = "deleted",
         Last(event[f]).state # "deleted", NEW n, n = Len(event[f]) + 1, Revised(f, v),
         NEW p, Records("delete", k, p, s), UNCHANGED job
  PROVE  CoreIsSound' /\ CoreKeeps
<1>1. CoreTyped /\ EventsAgree
  BY DEF CoreIsSound
<1>2. \A i \in Keys : /\ Src(i)' = Src(i) /\ Acc(i)' = Acc(i) /\ Enq(i)' = Enq(i)
                      /\ App(i)' = App(i) /\ Und(i)' = Und(i)
  BY DEF Records, Src, Acc, App, Und, Enq, Commands
<1>3. /\ f \in DOMAIN event /\ 1 \in DOMAIN event[f] /\ event[f][1].by = <<"accept", k>>
      /\ Owner(k, f, s) /\ s \in DOMAIN source
  BY FirstSource
<1>4. /\ event' \in Seq(Seq(Version)) /\ DOMAIN event' = DOMAIN event
      /\ \A e \in DOMAIN event : e # f => event'[e] = event[e]
      /\ DOMAIN event'[f] = DOMAIN event[f] \cup {n} /\ n \notin DOMAIN event[f]
      /\ \A q \in DOMAIN event[f] : event'[f][q] = event[f][q]
      /\ event'[f][n] = v /\ n \in Nat /\ n > 1 /\ f \in Nat /\ Len(event'[f]) = n
  BY <1>3, HistoryGrows
<1>5. CoreKeeps
  BY <1>4 DEF CoreKeeps, Records
<1>6. SourcesAgree' /\ CoreTyped'
  BY <1>1, <1>2, <1>4, SourcesStay DEF CoreTyped, Records
<1>7. event'[f][1] = event[f][1]
  BY <1>3, <1>4
<1>8. \A j \in Keys : /\ Acc(j) = NoSlot => AcceptAgrees(j)'
                      /\ App(j) = NoSlot => AppendAgrees(j)'
                      /\ Und(j) = NoSlot => UndoAgrees(j)'
                      /\ Enq(j) = NoSlot => EnqueueAgrees(j)'
  BY <1>2, UnrecordedStay
<1>9. VersionAgrees(f, n)'
  <2>1. \A i \in Keys : /\ event'[f][n].by # <<"accept", i>>
                        /\ event'[f][n].by # <<"append", i>>
                        /\ event'[f][n].by # <<"undo", i>>
    BY <1>4
  <2>2. Owner(k, f, s)'
    BY <1>3, <1>5, OwnerStays
  <2>3. event'[f][n].rests = s /\ s \in DOMAIN source' /\ n # 1
    BY <1>3, <1>4
  <2>4. IsTombstone(f, n)'
    BY <1>3, <1>4, <1>7 DEF IsTombstone
  <2> QED
    BY <2>1, <2>2, <2>3, <2>4 DEF VersionAgrees
<1>10. \A e \in DOMAIN event' : /\ e \in DOMAIN event
                                /\ \A q \in DOMAIN event'[e] :
                                     q \notin DOMAIN event[e] => e = f /\ q = n
  BY <1>4
<1> QED
  BY <1>5, <1>6, <1>8, <1>9, <1>10, CoreGoesOn

\* A source is deleted, and the events whose head rests on it get a last version.
Deletes(s, gone, v) ==
  /\ gone = {e \in DOMAIN event : Active(e) /\ Last(event[e]).rests = s}
  /\ source' = [source EXCEPT ![s] = "deleted"]
  /\ event' = [e \in DOMAIN event |-> event'[e]]
  /\ \A e \in DOMAIN event : event'[e] = IF e \in gone THEN Append(event[e], v) ELSE event[e]

\* delete_source tombstones the event whose first source it deletes, if that event
\* rests on it still, and no other.
LEMMA SourceIsDeleted ==
  ASSUME CoreIsSound, NEW k \in Keys, NEW f, NEW r, Names("accept", k, "event", f, r),
         NEW s, s = event[f][1].rests, NEW gone, NEW v, Deletes(s, gone, v),
         v = [state |-> "deleted", rests |-> s, by |-> <<"delete", k>>],
         NEW p, Records("delete", k, p, s), UNCHANGED job
  PROVE  CoreIsSound' /\ CoreKeeps
<1>1. CoreTyped /\ EventsAgree
  BY DEF CoreIsSound
<1>0. /\ gone = {e \in DOMAIN event : Active(e) /\ Last(event[e]).rests = s}
      /\ source' = [source EXCEPT ![s] = "deleted"]
      /\ event' = [e \in DOMAIN event |-> event'[e]]
      /\ \A e \in DOMAIN event : event'[e] = IF e \in gone THEN Append(event[e], v) ELSE event[e]
  BY DEF Deletes
<1>2. \A i \in Keys : /\ Src(i)' = Src(i) /\ Acc(i)' = Acc(i) /\ Enq(i)' = Enq(i)
                      /\ App(i)' = App(i) /\ Und(i)' = Und(i)
  BY DEF Records, Src, Acc, App, Und, Enq, Commands
<1>3. /\ f \in DOMAIN event /\ 1 \in DOMAIN event[f] /\ event[f][1].by = <<"accept", k>>
      /\ Owner(k, f, s) /\ s \in DOMAIN source
  BY FirstSource
<1>4. \A e \in gone : e = f
  <2>1. SUFFICES ASSUME NEW e \in gone PROVE e = f
    OBVIOUS
  <2>2. e \in DOMAIN event /\ Last(event[e]).rests = s
    BY <1>0
  <2>3. event[e] \in Seq(Version) /\ event[e] # <<>>
    BY <1>1, <2>2 DEF CoreTyped, EventsAgree
  <2>4. Len(event[e]) \in DOMAIN event[e] /\ Last(event[e]) = event[e][Len(event[e])]
    BY <2>3 DEF Last
  <2>5. VersionAgrees(e, Len(event[e]))
    BY <1>1, <2>2, <2>4 DEF EventsAgree
  <2>6. \E j \in Keys : Owner(j, e, s)
    BY <2>2, <2>4, <2>5 DEF VersionAgrees
  <2> QED
    BY <1>3, <2>6, SourceOfOne
<1>5. /\ source' \in Seq({"active", "deleted"}) /\ DOMAIN source' = DOMAIN source
      /\ source'[s] = "deleted"
      /\ \A t \in DOMAIN source : source[t] = "deleted" => source'[t] = "deleted"
  BY <1>0, <1>1, <1>3 DEF CoreTyped
<1>6. \A j \in Keys : /\ Acc(j) = NoSlot => AcceptAgrees(j)'
                      /\ App(j) = NoSlot => AppendAgrees(j)'
                      /\ Und(j) = NoSlot => UndoAgrees(j)'
                      /\ Enq(j) = NoSlot => EnqueueAgrees(j)'
  BY <1>2, UnrecordedStay
<1>7. CASE f \notin gone
  <2>1. event' = [e \in DOMAIN event |-> event[e]]
    BY <1>0, <1>4, <1>7
  <2>2. event' = event
    BY <1>1, <2>1 DEF CoreTyped
  <2>3. CoreKeeps
    BY <1>5, <2>2 DEF CoreKeeps, Records
  <2>4. SourcesAgree' /\ CoreTyped'
    BY <1>1, <1>2, <1>5, <2>2, SourcesStay DEF CoreTyped, Records
  <2> QED
    BY <1>6, <2>2, <2>3, <2>4, CoreGoesOn
<1>8. CASE f \in gone
  <2>1. event' = [event EXCEPT ![f] = Append(event[f], v)]
    BY <1>0, <1>1, <1>4, <1>8 DEF CoreTyped
  <2>2. Revised(f, v)
    BY <2>1 DEF Revised
  <2>3. s \in Nat
    BY <1>1, <1>3 DEF CoreTyped
  <2>4. v \in Version /\ v.by = <<"delete", k>> /\ v.rests = s /\ v.state = "deleted"
    BY <2>3 DEF Version, Commands
  <2>5. Last(event[f]).state # "deleted"
    BY <1>0, <1>8 DEF Active
  <2>6. \E n : n = Len(event[f]) + 1
    OBVIOUS
  <2> QED
    BY <1>5, <2>2, <2>4, <2>5, <2>6, TombstoneIsMade
<1> QED
  BY <1>7, <1>8

-----------------------------------------------------------------------------
(* control.json.                                                           *)

States == {"prepared", "retry_pending", "failed", "core_committed"}
Operation == [state : States, text : Texts, base : Nat, source : Nat, object : Objects]

ControlTyped ==
  /\ operation \in [StoreOps \X Keys -> {NoOperation} \cup Operation]
  /\ queue \in Seq(Nat) /\ Range(queue) \subseteq DOMAIN job
  /\ \A i, j \in DOMAIN queue : queue[i] = queue[j] => i = j
  /\ blocked \subseteq DOMAIN event
  /\ host \in {"up", "down"}

Committed(op, k) == operation[<<op, k>>].state = "core_committed"

\* What an operation has seen, and what the Event Core has done when it is committed.
OperationAgrees(op, k) ==
  LET this == operation[<<op, k>>]
  IN  this # NoOperation =>
        /\ op = "create_event" /\ Committed(op, k) =>
             Acc(k) # NoSlot /\ this.object = Acc(k).result
        /\ op = "append_revision" /\ Committed(op, k) =>
             App(k) # NoSlot /\ this.object = App(k).result
        /\ op = "undo_event" =>
             \E e \in DOMAIN event : /\ Names("accept", k, "event", e, 1)
                                     /\ this.source = event[e][1].rests
                                     /\ Committed(op, k) => Last(event[e]).state = "deleted"
        /\ op = "undo_revision" =>
             /\ \E e \in DOMAIN event : Names("append", k, "revision", e, this.base)
             /\ Committed(op, k) => Und(k) # NoSlot

OperationsAgree == \A op \in StoreOps, k \in Keys : OperationAgrees(op, k)

\* What is committed stays so, and what is queued or blocked.
ControlKeeps ==
  /\ \A op \in StoreOps, k \in Keys :
       Committed(op, k) => operation'[<<op, k>>] = operation[<<op, k>>]
  /\ Range(queue) \subseteq Range(queue')
  /\ blocked \subseteq blocked'

\* An operation that is not committed anew goes on to agree.
LEMMA OperationStays ==
  ASSUME CoreIsSound, CoreKeeps, NEW op \in StoreOps, NEW k \in Keys, OperationAgrees(op, k),
         operation'[<<op, k>>] # NoOperation => operation[<<op, k>>] # NoOperation,
         operation'[<<op, k>>].base = operation[<<op, k>>].base,
         operation'[<<op, k>>].source = operation[<<op, k>>].source,
         Committed(op, k)' => /\ Committed(op, k)
                              /\ operation'[<<op, k>>].object = operation[<<op, k>>].object
  PROVE  OperationAgrees(op, k)'
<1> SUFFICES ASSUME operation'[<<op, k>>] # NoOperation PROVE OperationAgrees(op, k)'
  BY DEF OperationAgrees
<1>1. /\ Acc(k) # NoSlot => Acc(k)' = Acc(k)
      /\ App(k) # NoSlot => App(k)' = App(k)
      /\ Und(k) # NoSlot => Und(k)' = Und(k)
  BY SlotsStay
<1>2. op = "create_event" /\ Committed(op, k)' =>
        Acc(k)' # NoSlot /\ operation'[<<op, k>>].object = Acc(k)'.result
  BY <1>1 DEF OperationAgrees
<1>3. op = "append_revision" /\ Committed(op, k)' =>
        App(k)' # NoSlot /\ operation'[<<op, k>>].object = App(k)'.result
  BY <1>1 DEF OperationAgrees
<1>4. ASSUME op = "undo_event"
      PROVE  \E e \in DOMAIN event' :
               /\ Names("accept", k, "event", e, 1)'
               /\ operation'[<<op, k>>].source = event'[e][1].rests
               /\ Committed(op, k)' => Last(event'[e]).state = "deleted"
  <2>1. PICK e \in DOMAIN event :
          /\ Names("accept", k, "event", e, 1)
          /\ operation[<<op, k>>].source = event[e][1].rests
          /\ Committed(op, k) => Last(event[e]).state = "deleted"
    BY <1>4 DEF OperationAgrees
  <2>2. 1 \in DOMAIN event[e]
    BY <2>1, FirstSource
  <2>3. e \in DOMAIN event' /\ event'[e][1] = event[e][1]
        /\ (Last(event[e]).state = "deleted" => event'[e] = event[e])
    BY <2>2 DEF CoreKeeps
  <2>4. Names("accept", k, "event", e, 1)'
    BY <2>1, NamesStay DEF Commands
  <2> QED
    BY <2>1, <2>3, <2>4
<1>5. ASSUME op = "undo_revision"
      PROVE  /\ \E e \in DOMAIN event' : \E b : b = operation'[<<op, k>>].base
                                                /\ Names("append", k, "revision", e, b)'
             /\ Committed(op, k)' => Und(k)' # NoSlot
  <2>1. \E b : b = operation[<<op, k>>].base
    OBVIOUS
  <2>2. PICK b : b = operation[<<op, k>>].base
    BY <2>1
  <2>3. PICK e \in DOMAIN event : Names("append", k, "revision", e, b)
    BY <1>5, <2>2 DEF OperationAgrees
  <2>4. Names("append", k, "revision", e, b)' /\ e \in DOMAIN event'
    BY <2>3, NamesStay DEF Commands, CoreKeeps
  <2> QED
    BY <1>1, <1>5, <2>2, <2>4 DEF OperationAgrees
<1> QED
  BY <1>2, <1>3, <1>4, <1>5 DEF OperationAgrees

-----------------------------------------------------------------------------
(* The request.                                                            *)

Steps == {"begin", "source", "observation", "core", "complete", "list"}
Ops == StoreOps \cup {"enqueue_delivery", "set_policy_blocked"}
RequestType == [at : Steps, op : Ops, key : Keys, text : Texts, event : Nat, revision : Nat,
                object : Objects, source : Nat]
Codes == {"ok", "not_visible", "conflict", "idempotency_conflict", "store_error"}
ReplyType == [at : {"reply"}, code : Codes, object : Objects]

\* The request is for this.
Asks(op, k, e, r) == work.op = op /\ work.key = k /\ work.event = e /\ work.revision = r

\* What each step of a request knows.
RequestAgrees(op, k, e, r) ==
  /\ work.at \in {"source", "observation", "core", "complete"} =>
       op \in StoreOps /\ operation[<<op, k>>].state \in {"prepared", "retry_pending"}
  /\ work.at \in {"source", "observation"} => op \in {"create_event", "append_revision"}
  /\ work.at \in {"observation", "core"} /\ op \in {"create_event", "append_revision"} =>
       Src(k) # NoSlot /\ Src(k).payload = op /\ Src(k).result = work.source
  /\ work.at \in {"source", "observation", "core"} /\ op = "append_revision" => Active(e)
  /\ op = "undo_event" => Names("accept", k, "event", e, r)
  /\ op = "undo_revision" => Names("append", k, "revision", e, r)
  /\ work.at = "complete" =>
       /\ op = "create_event" => Acc(k) # NoSlot /\ work.object = Acc(k).result
       /\ op = "append_revision" => App(k) # NoSlot /\ work.object = App(k).result
       /\ op = "undo_revision" => Und(k) # NoSlot
  /\ work.at = "begin" /\ op = "enqueue_delivery" =>
       \E object \in Objects, n \in Nat :
         object = work.object /\ n = Len(job) + 1 /\ IsFor(object, k, n)
  /\ work.at = "list" =>
       op = "enqueue_delivery" /\ Enq(k) # NoSlot /\ Enq(k).result = work.source

\* What a request that was answered "ok" has achieved.
Achieved(op, k, e, object) ==
  /\ op \in {"create_event", "append_revision"} =>
       Committed(op, k) /\ operation[<<op, k>>].object = object
  /\ op \in {"undo_event", "undo_revision"} => Committed(op, k)
  /\ op = "enqueue_delivery" => Enq(k) # NoSlot /\ Enq(k).result \in Range(queue)
  /\ op = "set_policy_blocked" => e \in blocked \/ ~Active(e)

\* The host works on such a request, or has answered it.
Serves(op, k, e) ==
  \/ work \in RequestType /\ \E r \in Nat : Asks(op, k, e, r) /\ RequestAgrees(op, k, e, r)
  \/ /\ work \in ReplyType
     /\ work.code = "ok" => \E object : object = work.object /\ Achieved(op, k, e, object)

WorkAgrees == work = NoWork \/ \E op \in Ops, k \in Keys, e \in Nat : Serves(op, k, e)

HostIsSound ==
  /\ CoreIsSound /\ ControlTyped /\ OperationsAgree /\ WorkAgrees
  /\ host = "down" => work = NoWork

\* What every step of the host leaves.
StoreGoesOn ==
  CoreIsSound' /\ CoreKeeps /\ ControlTyped' /\ OperationsAgree' /\ ControlKeeps

\* A step that touches the Event Core at most.
LEMMA CoreAloneMoves ==
  ASSUME CoreIsSound, CoreIsSound', CoreKeeps, ControlTyped, OperationsAgree,
         UNCHANGED <<controlVars, host>>
  PROVE  StoreGoesOn
<1>1. UNCHANGED <<operation, queue, blocked, host>>
  BY DEF controlVars
<1>2. ControlTyped'
  <2>1. DOMAIN job \subseteq DOMAIN job' /\ DOMAIN event \subseteq DOMAIN event'
    BY DEF CoreKeeps
  <2> QED
    BY <1>1, <2>1 DEF ControlTyped
<1>3. ASSUME NEW op \in StoreOps, NEW k \in Keys PROVE OperationAgrees(op, k)'
  <2>1. OperationAgrees(op, k)
    BY DEF OperationsAgree
  <2>2. operation'[<<op, k>>] = operation[<<op, k>>] /\ (Committed(op, k)' => Committed(op, k))
    BY <1>1 DEF Committed
  <2> QED
    BY <2>1, <2>2, OperationStays
<1>4. ControlKeeps
  BY <1>1 DEF ControlKeeps
<1> QED
  BY <1>2, <1>3, <1>4 DEF StoreGoesOn, OperationsAgree

\* Nothing at all is kept when nothing moves.
LEMMA CoreUnmoved ==
  ASSUME CoreIsSound, UNCHANGED coreVars
  PROVE  CoreIsSound' /\ CoreKeeps
<1>1. UNCHANGED <<source, event, job, slot>>
  BY DEF coreVars
<1>2. CoreKeeps
  BY <1>1 DEF CoreKeeps
<1>3. CoreTyped'
  BY <1>1 DEF CoreIsSound, CoreTyped, Src
<1>4. \A j \in Keys : /\ Src(j)' = Src(j) /\ Acc(j)' = Acc(j) /\ App(j)' = App(j)
                      /\ Und(j)' = Und(j) /\ Enq(j)' = Enq(j)
  BY <1>1 DEF Src, Acc, App, Und, Enq
<1>5. SourcesAgree'
  BY <1>1, <1>4, SourcesStay
<1>6. \A j \in Keys : /\ Acc(j) = NoSlot => AcceptAgrees(j)'
                      /\ App(j) = NoSlot => AppendAgrees(j)'
                      /\ Und(j) = NoSlot => UndoAgrees(j)'
                      /\ Enq(j) = NoSlot => EnqueueAgrees(j)'
  BY <1>4, UnrecordedStay
<1> QED
  BY <1>1, <1>2, <1>3, <1>5, <1>6, CoreGoesOn

\* The record of an operation changes its state, and is not committed.
LEMMA OperationEnds ==
  ASSUME CoreIsSound, ControlTyped, OperationsAgree,
         UNCHANGED <<coreVars, queue, blocked, host>>,
         NEW op \in StoreOps, NEW k \in Keys, NEW state \in {"failed", "retry_pending"},
         operation[<<op, k>>].state \in {"prepared", "retry_pending"},
         operation' = [operation EXCEPT ![<<op, k>>].state = state]
  PROVE  StoreGoesOn
<1>1. CoreIsSound' /\ CoreKeeps
  BY CoreUnmoved
<1>2. operation \in [StoreOps \X Keys -> {NoOperation} \cup Operation] /\ <<op, k>> \in DOMAIN operation
  BY DEF ControlTyped
<1>3. operation[<<op, k>>] \in Operation
  BY <1>2 DEF NoOperation
<1>4. PICK old \in Operation : old = operation[<<op, k>>]
  BY <1>3
<1>5. PICK new : new = [old EXCEPT !.state = state]
  OBVIOUS
<1>6. new \in Operation /\ new.state = state /\ new.base = old.base /\ new.source = old.source
  BY <1>5 DEF Operation, States
<1>7. operation' = [operation EXCEPT ![<<op, k>>] = new]
  BY <1>4, <1>5
<1>8. /\ operation' \in [StoreOps \X Keys -> {NoOperation} \cup Operation]
      /\ operation'[<<op, k>>] = new
      /\ \A p \in StoreOps, j \in Keys :
           <<p, j>> # <<op, k>> => operation'[<<p, j>>] = operation[<<p, j>>]
  BY <1>2, <1>6, <1>7
<1>9. ControlTyped'
  BY <1>1, <1>8 DEF ControlTyped, coreVars
<1>10. ASSUME NEW p \in StoreOps, NEW j \in Keys PROVE OperationAgrees(p, j)'
  <2>1. OperationAgrees(p, j)
    BY DEF OperationsAgree
  <2>2. CASE <<p, j>> = <<op, k>>
    <3>1. p = op /\ j = k
      BY <2>2
    <3>2. operation[<<op, k>>] # NoOperation /\ ~Committed(op, k)'
      BY <1>6, <1>8 DEF Committed, NoOperation
    <3> QED
      BY <1>1, <1>4, <1>6, <1>8, <2>1, <3>1, <3>2, OperationStays
  <2>3. CASE <<p, j>> # <<op, k>>
    <3>1. operation'[<<p, j>>] = operation[<<p, j>>] /\ (Committed(p, j)' => Committed(p, j))
      BY <1>8, <2>3 DEF Committed
    <3> QED
      BY <1>1, <2>1, <3>1, OperationStays
  <2> QED
    BY <2>2, <2>3
<1>11. ControlKeeps
  <2>1. ~Committed(op, k)
    BY DEF Committed
  <2> QED
    BY <1>8, <2>1 DEF ControlKeeps
<1> QED
  BY <1>1, <1>9, <1>10, <1>11 DEF StoreGoesOn, OperationsAgree

\* What a step of the host leaves, for the request it works on.
GoesOn(op, k, e) ==
  /\ StoreGoesOn /\ Serves(op, k, e)'
  /\ op # "enqueue_delivery" => job' = job

\* An answer is one.
LEMMA AnswerServes ==
  ASSUME NEW op, NEW k, NEW e, NEW code \in Codes, NEW object \in Objects,
         Answer(code, object), code = "ok" => Achieved(op, k, e, object)'
  PROVE  Serves(op, k, e)' /\ work' \in ReplyType
<1>1. work' = [at |-> "reply", code |-> code, object |-> object]
  BY DEF Answer
<1>2. work' \in ReplyType /\ work'.code = code /\ work'.object = object
  BY <1>1 DEF ReplyType
<1> QED
  BY <1>2 DEF Serves

\* The object of no operation is an object.
LEMMA NoObjectType == NoObject \in Objects
  BY DEF NoObject, Object, Objects

\* A request goes to its next step, with a source or an object it has found.
LEMMA RequestMoves ==
  ASSUME work \in RequestType, NEW to \in Steps, NEW s \in Nat, NEW object \in Objects,
         \/ work' = [work EXCEPT !.at = to] /\ s = work.source /\ object = work.object
         \/ work' = [work EXCEPT !.source = s, !.at = to] /\ object = work.object
         \/ work' = [work EXCEPT !.at = to, !.object = object] /\ s = work.source
  PROVE  /\ work' \in RequestType /\ work'.at = to /\ work'.source = s /\ work'.object = object
         /\ \A op, k, e, r : Asks(op, k, e, r) => Asks(op, k, e, r)'
<1>1. work' = [at |-> to, op |-> work.op, key |-> work.key, text |-> work.text,
               event |-> work.event, revision |-> work.revision, object |-> object,
               source |-> s]
  BY DEF RequestType
<1>2. work' \in RequestType /\ work'.at = to /\ work'.source = s /\ work'.object = object
  BY <1>1 DEF RequestType
<1> QED
  BY <1>1, <1>2 DEF Asks

\* Of a revision that was appended under a key.
LEMMA LaterRevision ==
  ASSUME CoreIsSound, NEW k \in Keys, NEW e, NEW r, Names("append", k, "revision", e, r)
  PROVE  e \in DOMAIN event /\ r \in DOMAIN event[e] /\ r > 1 /\ r \in Nat
         /\ event[e][r].by = <<"append", k>>
<1>1. App(k) # NoSlot /\ AppendAgrees(k)
  BY DEF CoreIsSound, SlotsAgree, Names, App
<1>2. PICK f \in Nat, q \in Nat : Made("append", k, "revision", f, q) /\ q > 1
  BY <1>1 DEF AppendAgrees
<1>3. Object("revision", f, q) = Object("revision", e, r)
  BY <1>2 DEF Made, Names
<1>4. f = e /\ q = r
  BY <1>3, ObjectsDiffer
<1> QED
  BY <1>2, <1>4 DEF Made

\* The host is at work on a request.
Works(op, k, e, r) ==
  HostIsSound /\ work \in RequestType /\ Asks(op, k, e, r) /\ RequestAgrees(op, k, e, r)

\* An operation that fails for good, or for the moment.
LEMMA Fails ==
  ASSUME NEW op \in Ops, NEW k \in Keys, NEW e \in Nat, NEW r \in Nat, Works(op, k, e, r),
         work.at \in {"source", "observation", "core"},
         UNCHANGED <<coreVars, queue, blocked, host>>,
         NEW code \in Codes \ {"ok"}, NEW state \in {"failed", "retry_pending"},
         operation' = [operation EXCEPT ![This].state = state], Answer(code, NoObject)
  PROVE  GoesOn(op, k, e)
<1>1. This = <<op, k>> /\ op \in StoreOps
      /\ operation[<<op, k>>].state \in {"prepared", "retry_pending"}
  BY DEF Works, Asks, RequestAgrees, This
<1>2. CoreIsSound /\ ControlTyped /\ OperationsAgree
  BY DEF Works, HostIsSound
<1>3. operation' = [operation EXCEPT ![<<op, k>>].state = state]
  BY <1>1
<1>4. StoreGoesOn
  BY <1>1, <1>2, <1>3, OperationEnds
<1>5. Serves(op, k, e)'
  BY AnswerServes, NoObjectType
<1>6. job' = job
  BY DEF coreVars
<1> QED
  BY <1>4, <1>5, <1>6 DEF GoesOn

\* SQLite is busy.
LEMMA CoreBusyServes ==
  ASSUME NEW op \in Ops, NEW k \in Keys, NEW e \in Nat, NEW r \in Nat, Works(op, k, e, r),
         CoreBusy
  PROVE  GoesOn(op, k, e)
<1>1. /\ work.at \in {"source", "observation", "core"}
      /\ operation' = [operation EXCEPT ![This].state = "retry_pending"]
      /\ Answer("store_error", NoObject)
      /\ UNCHANGED <<coreVars, queue, blocked, host>>
  BY DEF CoreBusy
<1>2. "store_error" \in Codes \ {"ok"}
  BY DEF Codes
<1> QED
  BY <1>1, <1>2, Fails

\* _begin_operation answers what needs no operation, or what is known of it.
LEMMA BeginAnswers ==
  ASSUME NEW op \in Ops, NEW k \in Keys, NEW e \in Nat, NEW r \in Nat, Works(op, k, e, r),
         UNCHANGED <<coreVars, controlVars, host>>,
         NEW code \in Codes, NEW object \in Objects, Answer(code, object),
         code = "ok" => Achieved(op, k, e, object)'
  PROVE  GoesOn(op, k, e)
<1>1. CoreIsSound /\ ControlTyped /\ OperationsAgree
  BY DEF Works, HostIsSound
<1>2. CoreIsSound' /\ CoreKeeps
  BY <1>1, CoreUnmoved
<1>3. StoreGoesOn
  BY <1>1, <1>2, CoreAloneMoves
<1>4. Serves(op, k, e)'
  BY AnswerServes
<1>5. job' = job
  BY DEF coreVars
<1> QED
  BY <1>3, <1>4, <1>5 DEF GoesOn

\* What the refusal of a request depends on.
LEMMA NotRefused ==
  ASSUME NEW op \in StoreOps, NEW k \in Keys, NEW e \in Nat, NEW r \in Nat, Works(op, k, e, r),
         Refusal = "none"
  PROVE  /\ op = "append_revision" => Active(e)
         /\ op \in {"undo_event", "undo_revision"} /\ operation[<<op, k>>] = NoOperation =>
              Len(event[e]) = r
<1>1. work.op = op /\ work.event = e /\ work.revision = r /\ This = <<op, k>>
  BY DEF Works, Asks, This
<1> QED
  BY <1>1 DEF Refusal, StoreOps, IsHead

\* The first record of an operation holds what it has to.
LEMMA PreparedIs ==
  ASSUME NEW op \in StoreOps, NEW k \in Keys, NEW e \in Nat, NEW r \in Nat, Works(op, k, e, r),
         Refusal = "none", operation[<<op, k>>] = NoOperation
  PROVE  /\ Prepared \in Operation /\ Prepared.state = "prepared"
         /\ op = "undo_event" =>
              /\ Names("accept", k, "event", e, 1) /\ e \in DOMAIN event
              /\ Prepared.source = event[e][1].rests
         /\ op = "undo_revision" =>
              /\ Names("append", k, "revision", e, r) /\ e \in DOMAIN event
              /\ Prepared.base = r
<1>1. work.op = op /\ work.event = e /\ work.revision = r /\ work.text \in Texts
  BY DEF Works, Asks, RequestType
<1>2. CoreIsSound /\ CoreTyped
  BY DEF Works, HostIsSound, CoreIsSound
<1>3. op = "append_revision" => Len(event[e]) \in Nat
  <2>1. op = "append_revision" => e \in DOMAIN event
    BY NotRefused DEF Active, Exists
  <2> QED
    BY <1>2, <2>1 DEF CoreTyped
<1>4. op = "undo_event" =>
        /\ Names("accept", k, "event", e, 1) /\ e \in DOMAIN event
        /\ Last(event[e]).rests = event[e][1].rests /\ event[e][1].rests \in Nat
  <2> SUFFICES ASSUME op = "undo_event"
               PROVE  /\ Names("accept", k, "event", e, 1) /\ e \in DOMAIN event
                      /\ Last(event[e]).rests = event[e][1].rests
                      /\ event[e][1].rests \in Nat
    OBVIOUS
  <2>1. Names("accept", k, "event", e, r)
    BY DEF Works, RequestAgrees
  <2>2. e \in DOMAIN event /\ r = 1 /\ event[e][1].rests \in DOMAIN source
    BY <1>2, <2>1, FirstSource
  <2>3. Len(event[e]) = r
    BY NotRefused
  <2> QED
    BY <1>2, <2>1, <2>2, <2>3 DEF Last, CoreTyped
<1>5. op = "undo_revision" => Names("append", k, "revision", e, r) /\ e \in DOMAIN event
  <2>1. op = "undo_revision" => Names("append", k, "revision", e, r)
    BY DEF Works, RequestAgrees
  <2> QED
    BY <1>2, <2>1, LaterRevision
<1>6. PICK new : new = Prepared
  OBVIOUS
<1>7. /\ new.state = "prepared" /\ new.text = work.text /\ new.object = NoObject
      /\ new.base = IF op = "append_revision" THEN Len(event[e]) ELSE r
      /\ new.source = IF op = "undo_event" THEN Last(event[e]).rests ELSE 0
      /\ new = [state |-> new.state, text |-> new.text, base |-> new.base,
                source |-> new.source, object |-> new.object]
  BY <1>1, <1>6 DEF Prepared
<1>8. new.base \in Nat /\ new.source \in Nat
  BY <1>3, <1>4, <1>7
<1>9. new \in Operation
  BY <1>1, <1>7, <1>8, NoObjectType DEF Operation, States
<1> QED
  BY <1>4, <1>5, <1>6, <1>7, <1>9

\* An operation begins to agree.
LEMMA BeginStores ==
  ASSUME NEW op \in StoreOps, NEW k \in Keys, NEW e \in Nat, NEW r \in Nat, Works(op, k, e, r),
         Refusal = "none", operation[<<op, k>>] = NoOperation,
         operation' = [operation EXCEPT ![This] = Prepared],
         UNCHANGED <<coreVars, queue, blocked, host>>
  PROVE  StoreGoesOn /\ operation'[<<op, k>>].state = "prepared"
<1>1. CoreIsSound /\ ControlTyped /\ OperationsAgree /\ This = <<op, k>>
  BY DEF Works, HostIsSound, Asks, This
<1>2. CoreIsSound' /\ CoreKeeps
  BY <1>1, CoreUnmoved
<1>3. PICK new : new = Prepared
  OBVIOUS
<1>4. /\ new \in Operation /\ new.state = "prepared"
      /\ op = "undo_event" => /\ Names("accept", k, "event", e, 1) /\ e \in DOMAIN event
                              /\ new.source = event[e][1].rests
      /\ op = "undo_revision" => /\ Names("append", k, "revision", e, r) /\ e \in DOMAIN event
                                 /\ new.base = r
  BY <1>3, PreparedIs
<1>5. operation' = [operation EXCEPT ![<<op, k>>] = new]
  BY <1>1, <1>3
<1>6. /\ operation' \in [StoreOps \X Keys -> {NoOperation} \cup Operation]
      /\ operation'[<<op, k>>] = new
      /\ \A p \in StoreOps, j \in Keys :
           <<p, j>> # <<op, k>> => operation'[<<p, j>>] = operation[<<p, j>>]
  BY <1>1, <1>4, <1>5 DEF ControlTyped
<1>7. ControlTyped'
  BY <1>1, <1>6 DEF ControlTyped, coreVars
<1>8. OperationAgrees(op, k)'
  <2>1. ~Committed(op, k)'
    BY <1>4, <1>6 DEF Committed
  <2>2. UNCHANGED <<event, slot>>
    BY DEF coreVars
  <2>3. op = "undo_event" => Names("accept", k, "event", e, 1)' /\ e \in DOMAIN event'
                             /\ operation'[<<op, k>>].source = event'[e][1].rests
    BY <1>4, <1>6, <2>2 DEF Names
  <2>4. op = "undo_revision" => Names("append", k, "revision", e, r)' /\ e \in DOMAIN event'
                                /\ operation'[<<op, k>>].base = r
    BY <1>4, <1>6, <2>2 DEF Names
  <2> QED
    BY <2>1, <2>3, <2>4 DEF OperationAgrees
<1>9. ASSUME NEW p \in StoreOps, NEW j \in Keys PROVE OperationAgrees(p, j)'
  <2>1. CASE <<p, j>> = <<op, k>>
    <3>1. p = op /\ j = k
      BY <2>1
    <3> QED
      BY <1>8, <3>1
  <2>2. CASE <<p, j>> # <<op, k>>
    <3>1. operation'[<<p, j>>] = operation[<<p, j>>] /\ (Committed(p, j)' => Committed(p, j))
      BY <1>6, <2>2 DEF Committed
    <3>2. OperationAgrees(p, j)
      BY <1>1 DEF OperationsAgree
    <3> QED
      BY <1>1, <1>2, <3>1, <3>2, OperationStays
  <2> QED
    BY <2>1, <2>2
<1>10. ControlKeeps
  <2>1. ~Committed(op, k)
    BY DEF Committed, NoOperation
  <2> QED
    BY <1>6, <2>1 DEF ControlKeeps
<1> QED
  BY <1>2, <1>4, <1>6, <1>7, <1>9, <1>10 DEF StoreGoesOn, OperationsAgree

\* A request that is taken up goes to its first step.
LEMMA FirstStepServes ==
  ASSUME NEW op \in StoreOps, NEW k \in Keys, NEW e \in Nat, NEW r \in Nat, Works(op, k, e, r),
         Refusal = "none", UNCHANGED coreVars, Proceed(FirstStep),
         operation'[<<op, k>>].state \in {"prepared", "retry_pending"}
  PROVE  Serves(op, k, e)'
<1>1. work \in RequestType /\ Asks(op, k, e, r) /\ RequestAgrees(op, k, e, r) /\ work.op = op
      /\ CoreIsSound
  BY DEF Works, Asks, HostIsSound
<1>2. FirstStep = IF op \in {"create_event", "append_revision"} THEN "source" ELSE "core"
  BY <1>1 DEF FirstStep
<1>3. PICK to : to = FirstStep
  OBVIOUS
<1>4. to \in Steps /\ work' = [work EXCEPT !.at = to]
      /\ work.source \in Nat /\ work.object \in Objects
  BY <1>1, <1>2, <1>3 DEF Steps, Proceed, RequestType
<1>5. work' \in RequestType /\ work'.at = to /\ Asks(op, k, e, r)'
  BY <1>1, <1>4, RequestMoves
<1>6. UNCHANGED <<event, slot>>
  BY DEF coreVars
<1>7. op = "append_revision" => Active(e)'
  BY <1>6, NotRefused DEF Active, Exists
<1>8. /\ op = "undo_event" => Names("accept", k, "event", e, r)'
      /\ op = "undo_revision" => Names("append", k, "revision", e, r)'
  BY <1>1, <1>6 DEF RequestAgrees, Names
<1>9. RequestAgrees(op, k, e, r)'
  BY <1>2, <1>3, <1>5, <1>7, <1>8 DEF RequestAgrees
<1> QED
  BY <1>5, <1>9 DEF Serves

\* _begin_operation.
LEMMA BeginServes ==
  ASSUME NEW op \in Ops, NEW k \in Keys, NEW e \in Nat, NEW r \in Nat, Works(op, k, e, r),
         BeginOperation
  PROVE  GoesOn(op, k, e)
<1>1. work.op = op /\ op \in StoreOps /\ This = <<op, k>> /\ UNCHANGED <<coreVars, queue, blocked, host>>
  BY DEF Works, Asks, This, BeginOperation
<1>2. UNCHANGED operation => UNCHANGED <<coreVars, controlVars, host>>
  BY <1>1 DEF controlVars
<1>3. CoreIsSound /\ ControlTyped /\ OperationsAgree
  BY DEF Works, HostIsSound
<1>4. /\ {"ok", "not_visible", "conflict", "idempotency_conflict", "store_error"} \subseteq Codes
      /\ NoObject \in Objects
  BY NoObjectType DEF Codes
<1>5. CASE Refusal # "none"
  <2>1. Answer(Refusal, NoObject) /\ UNCHANGED operation
    BY <1>5 DEF BeginOperation
  <2>2. Refusal \in {"none", "not_visible", "conflict"}
    BY DEF Refusal
  <2>3. PICK code : code = Refusal
    OBVIOUS
  <2>4. code \in Codes /\ code # "ok" /\ Answer(code, NoObject)
    BY <1>4, <1>5, <2>1, <2>2, <2>3
  <2> QED
    BY <1>2, <1>4, <2>1, <2>4, BeginAnswers
<1>6. CASE Refusal = "none" /\ operation[<<op, k>>] = NoOperation
  <2>1. operation' = [operation EXCEPT ![This] = Prepared] /\ Proceed(FirstStep)
    BY <1>1, <1>6 DEF BeginOperation
  <2>2. StoreGoesOn /\ operation'[<<op, k>>].state = "prepared"
    BY <1>1, <1>6, <2>1, BeginStores
  <2>3. Serves(op, k, e)'
    BY <1>1, <1>6, <2>1, <2>2, FirstStepServes
  <2> QED
    BY <1>1, <2>2, <2>3 DEF GoesOn, coreVars
<1>7. CASE Refusal = "none" /\ operation[<<op, k>>] # NoOperation
  <2>1. operation[<<op, k>>] \in Operation
    BY <1>1, <1>3, <1>7 DEF ControlTyped
  <2>2. PICK known : known = operation[<<op, k>>]
    OBVIOUS
  <2>3. known.object \in Objects /\ known.state \in States
    BY <2>1, <2>2 DEF Operation
  <2>4. /\ UNCHANGED operation
        /\ \/ Answer("idempotency_conflict", NoObject)
           \/ known.state = "core_committed" /\ Answer("ok", known.object)
           \/ Answer("store_error", NoObject)
           \/ known.state \notin {"core_committed", "failed"} /\ Proceed(FirstStep)
    BY <1>1, <1>7, <2>2 DEF BeginOperation
  <2>5. UNCHANGED <<coreVars, controlVars, host>>
    BY <1>2, <2>4
  <2>6. CASE Answer("idempotency_conflict", NoObject) \/ Answer("store_error", NoObject)
    BY <1>4, <2>5, <2>6, BeginAnswers
  <2>7. CASE known.state = "core_committed" /\ Answer("ok", known.object)
    <3>1. Achieved(op, k, e, known.object)'
      BY <1>1, <2>2, <2>4, <2>7 DEF Achieved, Committed, StoreOps
    <3> QED
      BY <1>4, <2>3, <2>5, <2>7, <3>1, BeginAnswers
  <2>8. CASE known.state \notin {"core_committed", "failed"} /\ Proceed(FirstStep)
    <3>1. operation'[<<op, k>>].state \in {"prepared", "retry_pending"}
      BY <2>2, <2>3, <2>4, <2>8 DEF States
    <3>2. Serves(op, k, e)'
      BY <1>1, <1>7, <2>8, <3>1, FirstStepServes
    <3>3. CoreIsSound' /\ CoreKeeps
      BY <1>1, <1>3, CoreUnmoved
    <3>4. StoreGoesOn
      BY <1>3, <2>5, <3>3, CoreAloneMoves
    <3> QED
      BY <1>1, <3>2, <3>4 DEF GoesOn, coreVars
  <2> QED
    BY <2>4, <2>6, <2>7, <2>8
<1> QED
  BY <1>5, <1>6, <1>7

\* A command of the Event Core that leads to the next step.
LEMMA CommandServes ==
  ASSUME NEW op \in Ops, NEW k \in Keys, NEW e \in Nat, NEW r \in Nat, Works(op, k, e, r),
         CoreIsSound', CoreKeeps, UNCHANGED <<operation, queue, blocked, host>>,
         op # "enqueue_delivery" => job' = job,
         work' \in RequestType, Asks(op, k, e, r)', RequestAgrees(op, k, e, r)'
  PROVE  GoesOn(op, k, e)
<1>1. CoreIsSound /\ ControlTyped /\ OperationsAgree /\ UNCHANGED <<controlVars, host>>
  BY DEF Works, HostIsSound, controlVars
<1>2. StoreGoesOn
  BY <1>1, CoreAloneMoves
<1> QED
  BY <1>2 DEF GoesOn, Serves

\* capture_source, the first time or again.
LEMMA CaptureSourceServes ==
  ASSUME NEW op \in Ops, NEW k \in Keys, NEW e \in Nat, NEW r \in Nat, Works(op, k, e, r),
         CaptureSource
  PROVE  GoesOn(op, k, e)
<1>1. /\ work.op = op /\ work.key = k /\ work.at = "source"
      /\ op \in {"create_event", "append_revision"} /\ CoreIsSound /\ CoreTyped
      /\ work \in RequestType /\ work.object \in Objects /\ Asks(op, k, e, r)
      /\ operation[<<op, k>>].state \in {"prepared", "retry_pending"}
      /\ op = "append_revision" => Active(e)
  BY DEF CaptureSource, Works, Asks, RequestAgrees, HostIsSound, CoreIsSound, RequestType
<1>2. UNCHANGED <<queue, blocked, host>>
  BY DEF CaptureSource
<1>3. ASSUME NEW s \in Nat, Observe(s), CoreIsSound', CoreKeeps,
             UNCHANGED <<operation, event, job>>,
             Src(k)' # NoSlot, Src(k)'.payload = op, Src(k)'.result = s
      PROVE  GoesOn(op, k, e)
  <2>1. /\ work' \in RequestType /\ work'.at = "observation" /\ work'.source = s
        /\ Asks(op, k, e, r)'
    <3>1. work' = [work EXCEPT !.source = s, !.at = "observation"] /\ "observation" \in Steps
      BY <1>3 DEF Observe, Steps
    <3> QED
      BY <1>1, <3>1, RequestMoves
  <2>2. op = "append_revision" => Active(e)'
    BY <1>1, <1>3 DEF Active, Exists
  <2>3. RequestAgrees(op, k, e, r)'
    BY <1>1, <1>3, <2>1, <2>2 DEF RequestAgrees, StoreOps
  <2> QED
    BY <1>2, <1>3, <2>1, <2>3, CommandServes
<1>4. CASE Again("source", work.op, Observe(Prior("source").result))
  <2>1. Src(k) # NoSlot /\ Prior("source") = Src(k) /\ UNCHANGED coreVars
    BY <1>1, <1>4 DEF Again, Recorded, Prior, Src
  <2>2. UNCHANGED <<source, event, job, slot>> /\ Src(k)' = Src(k)
    BY <2>1 DEF coreVars, Src
  <2>3. CASE Src(k).payload = op
    <3>1. Observe(Src(k).result) /\ UNCHANGED operation
      BY <1>1, <1>4, <2>1, <2>3 DEF Again
    <3>2. Src(k).result \in Nat
      <4>1. Src(k).result \in DOMAIN source
        BY <1>1, <2>1 DEF CoreTyped
      <4> QED
        BY <1>1, <4>1 DEF CoreTyped
    <3>3. CoreIsSound' /\ CoreKeeps
      BY <1>1, <2>1, CoreUnmoved
    <3> QED
      BY <1>3, <2>1, <2>2, <2>3, <3>1, <3>2, <3>3
  <2>4. CASE Src(k).payload # op
    <3>1. Fail("idempotency_conflict")
      BY <1>1, <1>4, <2>1, <2>4 DEF Again
    <3>2. "idempotency_conflict" \in Codes \ {"ok"}
      BY DEF Codes
    <3>3. /\ operation' = [operation EXCEPT ![This].state = "failed"]
          /\ Answer("idempotency_conflict", NoObject)
      BY <3>1 DEF Fail
    <3> QED
      BY <1>1, <1>2, <2>1, <3>2, <3>3, Fails
  <2> QED
    BY <2>3, <2>4
<1>5. ASSUME NEW n, n = Len(source) + 1, ~Recorded("source"), source' = Append(source, "active"),
             Record("source", work.op, n), Observe(n), UNCHANGED <<event, job, operation>>
      PROVE  GoesOn(op, k, e)
  <2>1. n \in Nat
    BY <1>1, <1>5 DEF CoreTyped
  <2>2. Records("source", k, op, n)
    <3>1. DOMAIN slot = Commands \X Keys /\ "source" \in Commands
      BY <1>1 DEF CoreTyped, Commands
    <3> QED
      BY <1>1, <1>5, <3>1, RecordsOne
  <2>3. CoreIsSound' /\ CoreKeeps
    BY <1>1, <1>5, <2>2, SourceIsCaptured
  <2>4. Src(k)' # NoSlot /\ Src(k)'.payload = op /\ Src(k)'.result = n
    BY <2>2 DEF Records, Src
  <2> QED
    BY <1>3, <1>5, <2>1, <2>3, <2>4
<1> QED
  BY <1>4, <1>5 DEF CaptureSource

\* A command that its operation does not survive.
LEMMA CommandFails ==
  ASSUME NEW op \in Ops, NEW k \in Keys, NEW e \in Nat, NEW r \in Nat, Works(op, k, e, r),
         work.at \in {"source", "observation", "core"},
         UNCHANGED <<coreVars, queue, blocked, host>>,
         NEW code \in {"idempotency_conflict", "conflict", "store_error"}, Fail(code)
  PROVE  GoesOn(op, k, e)
<1>1. operation' = [operation EXCEPT ![This].state = "failed"] /\ Answer(code, NoObject)
  BY DEF Fail
<1>2. code \in Codes \ {"ok"}
  BY DEF Codes
<1> QED
  BY <1>1, <1>2, Fails

\* create_observation, the first time or again.
LEMMA CreateObservationServes ==
  ASSUME NEW op \in Ops, NEW k \in Keys, NEW e \in Nat, NEW r \in Nat, Works(op, k, e, r),
         CreateObservation
  PROVE  GoesOn(op, k, e)
<1>1. /\ work.op = op /\ work.key = k /\ work.at = "observation"
      /\ op \in {"create_event", "append_revision"} /\ CoreIsSound /\ CoreTyped
      /\ work \in RequestType /\ work.object \in Objects /\ Asks(op, k, e, r)
      /\ operation[<<op, k>>].state \in {"prepared", "retry_pending"}
      /\ op = "append_revision" => Active(e)
      /\ Src(k) # NoSlot /\ Src(k).payload = op /\ Src(k).result = work.source
  BY DEF CreateObservation, Works, Asks, RequestAgrees, HostIsSound, CoreIsSound, RequestType
<1>2. UNCHANGED <<queue, blocked, host>>
  BY DEF CreateObservation
<1>3. ASSUME Observed, CoreIsSound', CoreKeeps, UNCHANGED <<operation, event, job>>
      PROVE  GoesOn(op, k, e)
  <2>1. /\ work' \in RequestType /\ work'.at = "core" /\ work'.source = work.source
        /\ Asks(op, k, e, r)'
    <3>1. work' = [work EXCEPT !.at = "core"] /\ "core" \in Steps /\ work.source \in Nat
      BY <1>1, <1>3 DEF Observed, Proceed, Steps, RequestType
    <3> QED
      BY <1>1, <3>1, RequestMoves
  <2>2. op = "append_revision" => Active(e)'
    BY <1>1, <1>3 DEF Active, Exists
  <2>3. Src(k)' = Src(k)
    BY <1>1, <1>3, SlotsStay
  <2>4. RequestAgrees(op, k, e, r)'
    BY <1>1, <1>3, <2>1, <2>2, <2>3 DEF RequestAgrees, StoreOps
  <2> QED
    BY <1>2, <1>3, <2>1, <2>4, CommandServes
<1>4. CASE Again("observation", work.source, Observed)
  <2>1. UNCHANGED coreVars
    BY <1>4 DEF Again
  <2>2. CASE Observed /\ UNCHANGED operation
    <3>1. CoreIsSound' /\ CoreKeeps
      BY <1>1, <2>1, CoreUnmoved
    <3> QED
      BY <1>3, <2>1, <2>2, <3>1 DEF coreVars
  <2>3. CASE Fail("idempotency_conflict")
    BY <1>1, <1>2, <2>1, <2>3, CommandFails
  <2> QED
    BY <1>4, <2>2, <2>3 DEF Again
<1>5. CASE ~Recorded("observation") /\ source[work.source] # "active"
  <2>1. Fail("store_error") /\ UNCHANGED coreVars
    BY <1>4, <1>5 DEF CreateObservation, Again
  <2> QED
    BY <1>1, <1>2, <2>1, CommandFails
<1>6. CASE ~Recorded("observation") /\ source[work.source] = "active"
  <2>1. /\ Record("observation", work.source, work.source) /\ Observed
        /\ UNCHANGED <<source, event, job, operation>>
    BY <1>6 DEF CreateObservation, Again
  <2>2. Records("observation", k, work.source, work.source)
    <3>1. DOMAIN slot = Commands \X Keys /\ "observation" \in Commands
      BY <1>1 DEF CoreTyped, Commands
    <3> QED
      BY <1>1, <1>6, <2>1, <3>1, RecordsOne
  <2>3. CoreIsSound' /\ CoreKeeps
    BY <1>1, <2>1, <2>2, ObservationIsRecorded
  <2> QED
    BY <1>3, <2>1, <2>3
<1> QED
  BY <1>4, <1>5, <1>6 DEF CreateObservation

\* What a command leaves that makes an object, and what it was made under.
LEMMA CommandDone ==
  ASSUME NEW op \in Ops, NEW k \in Keys, NEW e \in Nat, NEW r \in Nat, Works(op, k, e, r),
         work.at = "core", CoreIsSound', CoreKeeps,
         UNCHANGED <<operation, queue, blocked, host, job>>,
         NEW object \in Objects, Done(object),
         op = "create_event" => Acc(k)' # NoSlot /\ object = Acc(k)'.result,
         op = "append_revision" => App(k)' # NoSlot /\ object = App(k)'.result,
         op = "undo_revision" => Und(k)' # NoSlot
  PROVE  GoesOn(op, k, e)
<1>1. /\ work \in RequestType /\ Asks(op, k, e, r) /\ CoreIsSound /\ op \in StoreOps
      /\ operation[<<op, k>>].state \in {"prepared", "retry_pending"}
      /\ op = "undo_event" => Names("accept", k, "event", e, r)
      /\ op = "undo_revision" => Names("append", k, "revision", e, r)
  BY DEF Works, RequestAgrees, HostIsSound
<1>2. /\ work' \in RequestType /\ work'.at = "complete" /\ work'.object = object
      /\ Asks(op, k, e, r)'
  <2>1. /\ work' = [work EXCEPT !.at = "complete", !.object = object] /\ "complete" \in Steps
        /\ work.source \in Nat
    BY <1>1 DEF Done, Steps, RequestType
  <2> QED
    BY <1>1, <2>1, RequestMoves
<1>3. /\ op = "undo_event" => Names("accept", k, "event", e, r)'
      /\ op = "undo_revision" => Names("append", k, "revision", e, r)'
  BY <1>1, NamesStay DEF Commands
<1>4. RequestAgrees(op, k, e, r)'
  BY <1>1, <1>2, <1>3 DEF RequestAgrees
<1> QED
  BY <1>2, <1>4, CommandServes

\* What the slots hold.
LEMMA SlotResults ==
  ASSUME CoreIsSound, NEW k \in Keys
  PROVE  /\ Acc(k) # NoSlot => /\ Acc(k).result \in Objects
                               /\ \E e \in Nat : Names("accept", k, "event", e, 1)
         /\ App(k) # NoSlot => /\ App(k).result \in Objects
                               /\ \E e, r \in Nat : Names("append", k, "revision", e, r)
         /\ Und(k) # NoSlot => Und(k).result \in Objects
<1>1. AcceptAgrees(k) /\ AppendAgrees(k) /\ UndoAgrees(k)
  BY DEF CoreIsSound, SlotsAgree
<1>2. Acc(k) # NoSlot => \E e \in Nat : Names("accept", k, "event", e, 1)
  BY <1>1 DEF AcceptAgrees, Made
<1>3. App(k) # NoSlot => \E e, r \in Nat : Names("append", k, "revision", e, r)
  BY <1>1 DEF AppendAgrees, Made
<1>4. Und(k) # NoSlot => \E e, r \in Nat : Names("undo", k, "revision", e, r)
  BY <1>1 DEF UndoAgrees, Made
<1>5. \A e, r \in Nat : Object("event", e, r) \in Objects /\ Object("revision", e, r) \in Objects
  BY DEF Object, Objects
<1>6. Acc(k) # NoSlot => Acc(k).result \in Objects
  BY <1>2, <1>5 DEF Names, Acc
<1>7. App(k) # NoSlot => App(k).result \in Objects
  BY <1>3, <1>5 DEF Names, App
<1>8. Und(k) # NoSlot => Und(k).result \in Objects
  BY <1>4, <1>5 DEF Names, Und
<1> QED
  BY <1>2, <1>3, <1>6, <1>7, <1>8

\* accept_event, the first time or again.
LEMMA AcceptEventServes ==
  ASSUME NEW op \in Ops, NEW k \in Keys, NEW e \in Nat, NEW r \in Nat, Works(op, k, e, r),
         AcceptEvent
  PROVE  GoesOn(op, k, e)
<1>1. /\ work.op = op /\ work.key = k /\ work.at = "core" /\ op = "create_event"
      /\ CoreIsSound /\ CoreTyped
      /\ Src(k) # NoSlot /\ Src(k).payload = "create_event" /\ Src(k).result = work.source
  BY DEF AcceptEvent, Works, Asks, RequestAgrees, HostIsSound, CoreIsSound
<1>2. UNCHANGED <<queue, blocked, host>>
  BY DEF AcceptEvent
<1>3. CASE Again("accept", work.source, Done(Prior("accept").result))
  <2>1. UNCHANGED coreVars /\ Acc(k) # NoSlot /\ Prior("accept") = Acc(k)
    BY <1>1, <1>3 DEF Again, Recorded, Prior, Acc
  <2>2. CASE Done(Acc(k).result) /\ UNCHANGED operation
    <3>1. CoreIsSound' /\ CoreKeeps
      BY <1>1, <2>1, CoreUnmoved
    <3>2. Acc(k)' = Acc(k) /\ job' = job /\ Acc(k).result \in Objects
      BY <1>1, <2>1, SlotResults DEF coreVars, Acc
    <3>3. PICK object \in Objects : object = Acc(k).result
      BY <3>2
    <3> QED
      BY <1>1, <1>2, <2>1, <2>2, <3>1, <3>2, <3>3, CommandDone
  <2>3. CASE Fail("idempotency_conflict")
    BY <1>1, <1>2, <2>1, <2>3, CommandFails
  <2> QED
    BY <1>3, <2>1, <2>2, <2>3 DEF Again
<1>4. CASE ~Recorded("accept") /\ source[work.source] # "active"
  <2>1. Fail("store_error") /\ UNCHANGED coreVars
    BY <1>3, <1>4 DEF AcceptEvent, Again
  <2> QED
    BY <1>1, <1>2, <2>1, CommandFails
<1>5. ASSUME NEW n, n = Len(event) + 1, ~Recorded("accept"),
             event' = Append(event, <<Revision("active", work.source, "accept")>>),
             Record("accept", work.source, Object("event", n, 1)),
             Done(Object("event", n, 1)), UNCHANGED <<source, job, operation>>
      PROVE  GoesOn(op, k, e)
  <2>1. Records("accept", k, work.source, Object("event", n, 1))
    <3>1. DOMAIN slot = Commands \X Keys /\ "accept" \in Commands
      BY <1>1 DEF CoreTyped, Commands
    <3> QED
      BY <1>1, <1>5, <3>1, RecordsOne
  <2>2. PICK s \in DOMAIN source : s = work.source
    BY <1>1 DEF CoreTyped
  <2>3. PICK v : v = [state |-> "active", rests |-> s, by |-> <<"accept", k>>]
    OBVIOUS
  <2>4. event' = Append(event, <<v>>)
    BY <1>1, <1>5, <2>2, <2>3 DEF Revision
  <2>5. CoreIsSound' /\ CoreKeeps
    BY <1>1, <1>5, <2>1, <2>2, <2>3, <2>4, EventIsAccepted
  <2>6. Acc(k)' # NoSlot /\ Acc(k)'.result = Object("event", n, 1)
    BY <2>1 DEF Records, Acc
  <2>7. Object("event", n, 1) \in Objects
    BY <1>1, <1>5 DEF CoreTyped, Object, Objects
  <2>8. PICK object \in Objects : object = Object("event", n, 1)
    BY <2>7
  <2> QED
    BY <1>1, <1>2, <1>5, <2>5, <2>6, <2>8, CommandDone
<1> QED
  BY <1>3, <1>4, <1>5 DEF AcceptEvent

\* append_event_revision, the first time or again.
LEMMA AppendRevisionServes ==
  ASSUME NEW op \in Ops, NEW k \in Keys, NEW e \in Nat, NEW r \in Nat, Works(op, k, e, r),
         AppendRevision
  PROVE  GoesOn(op, k, e)
<1>1. /\ work.op = op /\ work.key = k /\ work.at = "core" /\ op = "append_revision"
      /\ work.event = e /\ This = <<op, k>>
      /\ CoreIsSound /\ CoreTyped /\ e \in DOMAIN event
      /\ Last(event[e]).state = "active"
      /\ Src(k) # NoSlot /\ Src(k).payload = "append_revision" /\ Src(k).result = work.source
  BY DEF AppendRevision, Works, Asks, RequestAgrees, HostIsSound, CoreIsSound, Active, Exists, This
<1>2. UNCHANGED <<queue, blocked, host>>
  BY DEF AppendRevision
<1>3. PICK base : base = operation[This].base
  OBVIOUS
<1>4. CASE Again("append", <<e, base, work.source>>, Done(Prior("append").result))
  <2>1. UNCHANGED coreVars /\ App(k) # NoSlot /\ Prior("append") = App(k)
    BY <1>1, <1>4 DEF Again, Recorded, Prior, App
  <2>2. CASE Done(App(k).result) /\ UNCHANGED operation
    <3>1. CoreIsSound' /\ CoreKeeps
      BY <1>1, <2>1, CoreUnmoved
    <3>2. App(k)' = App(k) /\ job' = job /\ App(k).result \in Objects
      BY <1>1, <2>1, SlotResults DEF coreVars, App
    <3>3. PICK object \in Objects : object = App(k).result
      BY <3>2
    <3> QED
      BY <1>1, <1>2, <2>1, <2>2, <3>1, <3>2, <3>3, CommandDone
  <2>3. CASE Fail("idempotency_conflict")
    BY <1>1, <1>2, <2>1, <2>3, CommandFails
  <2> QED
    BY <1>4, <2>1, <2>2, <2>3 DEF Again
<1>5. CASE (Fail("conflict") \/ Fail("store_error")) /\ UNCHANGED coreVars
  BY <1>1, <1>2, <1>5, CommandFails
<1>6. ASSUME NEW n, n = base + 1, ~Recorded("append"), Len(event[e]) = base,
             Revised(e, Revision("active", work.source, "append")),
             Record("append", <<e, base, work.source>>, Object("revision", e, n)),
             Done(Object("revision", e, n)), UNCHANGED <<source, job, operation>>
      PROVE  GoesOn(op, k, e)
  <2>1. PICK p : p = <<e, base, work.source>>
    OBVIOUS
  <2>2. Records("append", k, p, Object("revision", e, n))
    <3>1. DOMAIN slot = Commands \X Keys /\ "append" \in Commands
      BY <1>1 DEF CoreTyped, Commands
    <3> QED
      BY <1>1, <1>6, <2>1, <3>1, RecordsOne
  <2>3. PICK s \in DOMAIN source : s = work.source
    BY <1>1 DEF CoreTyped
  <2>4. PICK v : v = [state |-> "active", rests |-> s, by |-> <<"append", k>>]
    OBVIOUS
  <2>5. Revised(e, v)
    BY <1>1, <1>6, <2>3, <2>4 DEF Revision
  <2>6. n \in Nat /\ n = Len(event[e]) + 1
    BY <1>1, <1>6 DEF CoreTyped
  <2>7. App(k)' # NoSlot /\ App(k)'.result = Object("revision", e, n)
    BY <2>2 DEF Records, App
  <2>8. Owner(k, e, s)'
    <3>1. Src(k)' = Src(k)
      BY <2>2 DEF Records, Src, Commands
    <3>2. Names("append", k, "revision", e, n)'
      BY <2>7 DEF Names, App
    <3> QED
      BY <1>1, <2>3, <2>6, <3>1, <3>2 DEF Owner
  <2>9. CoreIsSound' /\ CoreKeeps
    <3>1. PICK c \in {"append", "undo"} : c = "append"
      OBVIOUS
    <3>2. Records(c, k, p, Object("revision", e, n))
          /\ v = [state |-> "active", rests |-> s, by |-> <<c, k>>]
      BY <2>2, <2>4, <3>1
    <3>3. c = "append" => Src(k) # NoSlot /\ Src(k).payload = "append_revision" /\ Src(k).result = s
      BY <1>1, <2>3
    <3>4. Last(event[e]).state # "deleted" /\ UNCHANGED <<source, job>>
      BY <1>1, <1>6
    <3> HIDE <1>3, <1>6
    <3> QED
      BY <1>1, <2>3, <2>5, <2>6, <2>8, <3>2, <3>3, <3>4, RevisionIsMade
  <2>10. Object("revision", e, n) \in Objects
    BY <1>1, <2>6 DEF CoreTyped, Object, Objects
  <2>11. PICK object \in Objects : object = Object("revision", e, n)
    BY <2>10
  <2> QED
    BY <1>1, <1>2, <1>6, <2>7, <2>9, <2>11, CommandDone
<1> QED
  BY <1>1, <1>3, <1>4, <1>5, <1>6 DEF AppendRevision

\* delete_source, the first time or again.
LEMMA DeleteSourceServes ==
  ASSUME NEW op \in Ops, NEW k \in Keys, NEW e \in Nat, NEW r \in Nat, Works(op, k, e, r),
         DeleteSource
  PROVE  GoesOn(op, k, e)
<1>1. /\ work.op = op /\ work.key = k /\ work.at = "core" /\ op = "undo_event"
      /\ This = <<op, k>> /\ CoreIsSound /\ CoreTyped /\ OperationsAgree
      /\ work \in RequestType /\ work.object \in Objects /\ Asks(op, k, e, r)
      /\ Names("accept", k, "event", e, r)
      /\ op \in StoreOps /\ operation[<<op, k>>].state \in {"prepared", "retry_pending"}
  BY DEF DeleteSource, Works, Asks, RequestAgrees, HostIsSound, CoreIsSound, This, RequestType
<1>2. UNCHANGED <<queue, blocked, host>>
  BY DEF DeleteSource
<1>3. PICK s : s = operation[This].source
  OBVIOUS
<1>4. PICK f \in DOMAIN event : Names("accept", k, "event", f, 1) /\ s = event[f][1].rests
  <2>1. OperationAgrees(op, k) /\ operation[<<op, k>>] # NoOperation
    BY <1>1 DEF OperationsAgree, NoOperation
  <2> QED
    BY <1>1, <1>3, <2>1 DEF OperationAgrees
<1>5. ASSUME Proceed("complete"), CoreIsSound', CoreKeeps, UNCHANGED <<operation, job>>
      PROVE  GoesOn(op, k, e)
  <2>1. /\ work' \in RequestType /\ work'.at = "complete" /\ Asks(op, k, e, r)'
    <3>1. work' = [work EXCEPT !.at = "complete"] /\ "complete" \in Steps /\ work.source \in Nat
      BY <1>1, <1>5 DEF Proceed, Steps, RequestType
    <3> QED
      BY <1>1, <3>1, RequestMoves
  <2>2. Names("accept", k, "event", e, r)'
    BY <1>1, <1>5, NamesStay DEF Commands
  <2>3. RequestAgrees(op, k, e, r)'
    BY <1>1, <1>5, <2>1, <2>2 DEF RequestAgrees
  <2> QED
    BY <1>2, <1>5, <2>1, <2>3, CommandServes
<1>6. CASE Again("delete", s, Proceed("complete"))
  <2>1. UNCHANGED coreVars
    BY <1>6 DEF Again
  <2>2. CASE Proceed("complete") /\ UNCHANGED operation
    <3>1. CoreIsSound' /\ CoreKeeps
      BY <1>1, <2>1, CoreUnmoved
    <3> QED
      BY <1>5, <2>1, <2>2, <3>1 DEF coreVars
  <2>3. CASE Fail("idempotency_conflict")
    BY <1>1, <1>2, <2>1, <2>3, CommandFails
  <2> QED
    BY <1>6, <2>2, <2>3 DEF Again
<1>7. CASE Fail("store_error") /\ UNCHANGED coreVars
  BY <1>1, <1>2, <1>7, CommandFails
<1>8. ASSUME NEW gone, NEW v, v = Revision("deleted", s, "delete"), Deletes(s, gone, v),
             ~Recorded("delete"), Record("delete", s, s), Proceed("complete"),
             UNCHANGED <<job, operation>>
      PROVE  GoesOn(op, k, e)
  <2>1. Records("delete", k, s, s)
    <3>1. DOMAIN slot = Commands \X Keys /\ "delete" \in Commands
      BY <1>1 DEF CoreTyped, Commands
    <3> QED
      BY <1>1, <1>8, <3>1, RecordsOne
  <2>2. v = [state |-> "deleted", rests |-> s, by |-> <<"delete", k>>]
    BY <1>1, <1>8 DEF Revision
  <2>3. CoreIsSound' /\ CoreKeeps
    BY <1>1, <1>4, <1>8, <2>1, <2>2, SourceIsDeleted
  <2> QED
    BY <1>5, <1>8, <2>3
<1>9. PICK gone : gone = {g \in DOMAIN event : Active(g) /\ Last(event[g]).rests = s}
  OBVIOUS
<1>10. PICK v : v = Revision("deleted", s, "delete")
  OBVIOUS
<1>11. \/ Again("delete", s, Proceed("complete"))
       \/ Fail("store_error") /\ UNCHANGED coreVars
       \/ /\ ~Recorded("delete") /\ source' = [source EXCEPT ![s] = "deleted"]
          /\ event' = [g \in DOMAIN event |-> event'[g]]
          /\ \A g \in DOMAIN event :
               event'[g] = IF g \in gone THEN Append(event[g], v) ELSE event[g]
          /\ Record("delete", s, s) /\ Proceed("complete")
          /\ UNCHANGED <<job, operation>>
  BY <1>3, <1>9, <1>10 DEF DeleteSource
<1>12. \/ Again("delete", s, Proceed("complete"))
       \/ Fail("store_error") /\ UNCHANGED coreVars
       \/ /\ ~Recorded("delete") /\ Deletes(s, gone, v)
          /\ Record("delete", s, s) /\ Proceed("complete")
          /\ UNCHANGED <<job, operation>>
  BY <1>9, <1>11 DEF Deletes
<1> QED
  BY <1>6, <1>7, <1>8, <1>10, <1>12

\* What an undo of a revision goes back to: a version that is not deleted, of a source
\* of its event.
LEMMA UndoneTo ==
  ASSUME CoreIsSound, NEW k \in Keys, NEW e, NEW r, Names("append", k, "revision", e, r),
         Len(event[e]) = r
  PROVE  /\ e \in DOMAIN event /\ r - 1 \in DOMAIN event[e]
         /\ event[e][r - 1].state = "active" /\ Last(event[e]).state # "deleted"
         /\ event[e][r - 1].rests \in DOMAIN source
         /\ \E j \in Keys : Owner(j, e, event[e][r - 1].rests)
<1>1. CoreTyped /\ EventsAgree
  BY DEF CoreIsSound
<1>2. e \in DOMAIN event /\ r \in DOMAIN event[e] /\ r > 1 /\ r \in Nat
      /\ event[e][r].by = <<"append", k>>
  BY LaterRevision
<1>3. event[e] \in Seq(Version)
  BY <1>1, <1>2 DEF CoreTyped
<1>4. PICK q : q = r - 1
  OBVIOUS
<1>5. q \in DOMAIN event[e] /\ q # Len(event[e])
  BY <1>2, <1>3, <1>4
<1>6. VersionAgrees(e, r) /\ VersionAgrees(e, q)
  BY <1>1, <1>2, <1>5 DEF EventsAgree
<1>7. ~IsTombstone(e, q) /\ ~IsTombstone(e, r)
  BY <1>2, <1>5 DEF IsTombstone
<1>8. event[e][q].state # "deleted" /\ event[e][r].state # "deleted"
  BY <1>6, <1>7 DEF VersionAgrees
<1>9. event[e][q].state = "active"
  <2>1. event[e][q] \in Version
    BY <1>3, <1>5
  <2> QED
    BY <1>8, <2>1 DEF Version
<1>10. Last(event[e]) = event[e][r]
  BY DEF Last
<1>11. event[e][q].rests \in DOMAIN source /\ \E j \in Keys : Owner(j, e, event[e][q].rests)
  BY <1>6 DEF VersionAgrees
<1> QED
  BY <1>2, <1>4, <1>5, <1>8, <1>9, <1>10, <1>11

\* undo_event of a revision, the first time or again.
LEMMA UndoRevisionServes ==
  ASSUME NEW op \in Ops, NEW k \in Keys, NEW e \in Nat, NEW r \in Nat, Works(op, k, e, r),
         UndoRevision
  PROVE  GoesOn(op, k, e)
<1>1. /\ work.op = op /\ work.key = k /\ work.at = "core" /\ op = "undo_revision"
      /\ work.event = e /\ This = <<op, k>>
      /\ CoreIsSound /\ CoreTyped /\ OperationsAgree
      /\ Names("append", k, "revision", e, r)
      /\ op \in StoreOps /\ operation[<<op, k>>].state \in {"prepared", "retry_pending"}
  BY DEF UndoRevision, Works, Asks, RequestAgrees, HostIsSound, CoreIsSound, This
<1>2. UNCHANGED <<queue, blocked, host>>
  BY DEF UndoRevision
<1>3. PICK base : base = operation[This].base
  OBVIOUS
<1>4. base = r
  <2>1. OperationAgrees(op, k) /\ operation[<<op, k>>] # NoOperation
    BY <1>1 DEF OperationsAgree, NoOperation
  <2>2. PICK f : Names("append", k, "revision", f, base)
    BY <1>1, <1>3, <2>1 DEF OperationAgrees
  <2>3. Object("revision", f, base) = Object("revision", e, r)
    BY <1>1, <2>2 DEF Names
  <2> QED
    BY <2>3, ObjectsDiffer
<1>5. CASE Again("undo", <<e, base>>, Done(Prior("undo").result))
  <2>1. UNCHANGED coreVars /\ Und(k) # NoSlot /\ Prior("undo") = Und(k)
    BY <1>1, <1>5 DEF Again, Recorded, Prior, Und
  <2>2. CASE Done(Und(k).result) /\ UNCHANGED operation
    <3>1. CoreIsSound' /\ CoreKeeps
      BY <1>1, <2>1, CoreUnmoved
    <3>2. Und(k)' = Und(k) /\ job' = job /\ Und(k).result \in Objects
      BY <1>1, <2>1, SlotResults DEF coreVars, Und
    <3>3. PICK object \in Objects : object = Und(k).result
      BY <3>2
    <3> QED
      BY <1>1, <1>2, <2>1, <2>2, <3>1, <3>2, <3>3, CommandDone
  <2>3. CASE Fail("idempotency_conflict")
    BY <1>1, <1>2, <2>1, <2>3, CommandFails
  <2> QED
    BY <1>5, <2>1, <2>2, <2>3 DEF Again
<1>6. CASE (Fail("conflict") \/ Fail("store_error")) /\ UNCHANGED coreVars
  BY <1>1, <1>2, <1>6, CommandFails
<1>7. ASSUME NEW n, n = base + 1, ~Recorded("undo"), Len(event[e]) = base,
             NEW q, q = base - 1, source[event[e][q].rests] = "active",
             Revised(e, Revision(event[e][q].state, event[e][q].rests, "undo")),
             Record("undo", <<e, base>>, Object("revision", e, n)),
             Done(Object("revision", e, n)), UNCHANGED <<source, job, operation>>
      PROVE  GoesOn(op, k, e)
  <2>1. PICK p : p = <<e, base>>
    OBVIOUS
  <2>2. Records("undo", k, p, Object("revision", e, n))
    <3>1. DOMAIN slot = Commands \X Keys /\ "undo" \in Commands
      BY <1>1 DEF CoreTyped, Commands
    <3> QED
      BY <1>1, <1>7, <2>1, <3>1, RecordsOne
  <2>3. Len(event[e]) = r
    BY <1>4, <1>7
  <2>4. /\ e \in DOMAIN event /\ event[e][q].state = "active" /\ Last(event[e]).state # "deleted"
        /\ event[e][q].rests \in DOMAIN source
        /\ \E j \in Keys : Owner(j, e, event[e][q].rests)
    BY <1>1, <1>4, <1>7, <2>3, UndoneTo
  <2>5. PICK s \in DOMAIN source : s = event[e][q].rests
    BY <2>4
  <2>6. PICK v : v = [state |-> "active", rests |-> s, by |-> <<"undo", k>>]
    OBVIOUS
  <2>7. Revised(e, v)
    BY <1>1, <1>7, <2>4, <2>5, <2>6 DEF Revision
  <2>8. n \in Nat /\ n = Len(event[e]) + 1
    BY <1>4, <1>7
  <2>9. Und(k)' # NoSlot /\ Und(k)'.result = Object("revision", e, n)
    BY <2>2 DEF Records, Und
  <2>10. PICK j \in Keys : Owner(j, e, s)
    BY <2>4, <2>5
  <2>11. Owner(j, e, s)'
    BY <2>2, <2>10 DEF Owner, Src, Names, Records, Commands
  <2>12. CoreIsSound' /\ CoreKeeps
    <3>1. PICK c \in {"append", "undo"} : c = "undo"
      OBVIOUS
    <3>2. Records(c, k, p, Object("revision", e, n))
          /\ v = [state |-> "active", rests |-> s, by |-> <<c, k>>] /\ c # "append"
      BY <2>2, <2>6, <3>1
    <3>3. UNCHANGED <<source, job>>
      BY <1>7
    <3> HIDE <1>3, <1>7
    <3> QED
      BY <1>1, <2>4, <2>7, <2>8, <2>11, <3>2, <3>3, RevisionIsMade
  <2>13. Object("revision", e, n) \in Objects
    BY <2>8 DEF Object, Objects
  <2>14. PICK object \in Objects : object = Object("revision", e, n)
    BY <2>13
  <2> QED
    BY <1>1, <1>2, <1>7, <2>9, <2>12, <2>14, CommandDone
<1> QED
  BY <1>1, <1>3, <1>5, <1>6, <1>7 DEF UndoRevision

\* The record of the operation says what it has made.
Commits ==
  operation' = [operation EXCEPT ![This].state = "core_committed", ![This].object = work.object]

\* An operation is committed that the Event Core has done.
LEMMA OperationCommits ==
  ASSUME NEW op \in Ops, NEW k \in Keys, NEW e \in Nat, NEW r \in Nat, Works(op, k, e, r),
         work.at = "complete", Succeeded, UNCHANGED <<coreVars, queue, blocked, host>>,
         NEW object, object = work.object,
         Commits
  PROVE  StoreGoesOn /\ Committed(op, k)' /\ operation'[<<op, k>>].object = object
<1>1. /\ work.op = op /\ op \in StoreOps /\ work.event = e /\ object \in Objects
      /\ operation[<<op, k>>].state \in {"prepared", "retry_pending"}
      /\ op = "create_event" => Acc(k) # NoSlot /\ object = Acc(k).result
      /\ op = "append_revision" => App(k) # NoSlot /\ object = App(k).result
      /\ op = "undo_revision" => Und(k) # NoSlot
      /\ op = "undo_event" => Names("accept", k, "event", e, r)
      /\ CoreIsSound /\ ControlTyped /\ OperationsAgree
  BY DEF Works, Asks, RequestAgrees, RequestType, HostIsSound
<1>2. CoreIsSound' /\ CoreKeeps /\ UNCHANGED <<source, event, job, slot>>
  BY <1>1, CoreUnmoved DEF coreVars
<1>3. /\ operation \in [StoreOps \X Keys -> {NoOperation} \cup Operation]
      /\ <<op, k>> \in DOMAIN operation
      /\ This = <<op, k>>
  BY <1>1 DEF ControlTyped, This, Works, Asks
<1>4. PICK old \in Operation : old = operation[<<op, k>>]
  BY <1>1, <1>3 DEF NoOperation
<1>5. PICK new : new = [old EXCEPT !.state = "core_committed", !.object = object]
  OBVIOUS
<1>6. /\ new \in Operation /\ new.state = "core_committed" /\ new.object = object
      /\ new.base = old.base /\ new.source = old.source
  BY <1>1, <1>5 DEF Operation, States
<1>7. operation' = [operation EXCEPT ![<<op, k>>] = new]
  <2>1. operation' = [operation EXCEPT ![This] = new]
    BY <1>3, <1>4, <1>5 DEF Commits
  <2> QED
    BY <1>3, <2>1
<1>8. /\ operation' \in [StoreOps \X Keys -> {NoOperation} \cup Operation]
      /\ operation'[<<op, k>>] = new
      /\ \A p \in StoreOps, j \in Keys :
           <<p, j>> # <<op, k>> => operation'[<<p, j>>] = operation[<<p, j>>]
  BY <1>3, <1>6, <1>7
<1>9. ControlTyped'
  BY <1>1, <1>2, <1>8 DEF ControlTyped
<1>10. OperationAgrees(op, k) /\ operation[<<op, k>>] # NoOperation
  BY <1>1 DEF OperationsAgree, NoOperation
<1>11. OperationAgrees(op, k)'
  <2>1. ASSUME op = "undo_event"
        PROVE  \E f \in DOMAIN event' : /\ Names("accept", k, "event", f, 1)'
                                        /\ operation'[<<op, k>>].source = event'[f][1].rests
                                        /\ Last(event'[f]).state = "deleted"
    <3>1. PICK f \in DOMAIN event : /\ Names("accept", k, "event", f, 1)
                                    /\ old.source = event[f][1].rests
      BY <1>4, <1>10, <2>1 DEF OperationAgrees
    <3>2. Object("event", f, 1) = Object("event", e, r)
      BY <1>1, <2>1, <3>1 DEF Names
    <3>3. f = e
      BY <3>2, ObjectsDiffer
    <3>4. Last(event[f]).state = "deleted"
      BY <1>1, <2>1, <3>3 DEF Succeeded
    <3>5. Names("accept", k, "event", f, 1)'
      BY <1>2, <3>1 DEF Names
    <3> QED
      BY <1>2, <1>6, <1>8, <3>1, <3>4, <3>5
  <2>2. ASSUME op = "undo_revision"
        PROVE  \E f \in DOMAIN event' : Names("append", k, "revision", f, new.base)'
    <3>1. PICK f \in DOMAIN event : Names("append", k, "revision", f, old.base)
      BY <1>4, <1>10, <2>2 DEF OperationAgrees
    <3> QED
      BY <1>2, <1>6, <3>1 DEF Names
  <2>3. Acc(k)' = Acc(k) /\ App(k)' = App(k) /\ Und(k)' = Und(k)
    BY <1>2 DEF Acc, App, Und
  <2>4. operation'[<<op, k>>].object = object /\ operation'[<<op, k>>].base = new.base
    BY <1>6, <1>8
  <2>5. op = "undo_revision" =>
          \E f \in DOMAIN event' : \E b : b = operation'[<<op, k>>].base
                                          /\ Names("append", k, "revision", f, b)'
    BY <2>2, <2>4
  <2> QED
    BY <1>1, <2>1, <2>3, <2>4, <2>5 DEF OperationAgrees
<1>12. ASSUME NEW p \in StoreOps, NEW j \in Keys PROVE OperationAgrees(p, j)'
  <2>1. CASE <<p, j>> = <<op, k>>
    <3>1. p = op /\ j = k
      BY <2>1
    <3> QED
      BY <1>11, <3>1
  <2>2. CASE <<p, j>> # <<op, k>>
    <3>1. operation'[<<p, j>>] = operation[<<p, j>>] /\ (Committed(p, j)' => Committed(p, j))
      BY <1>8, <2>2 DEF Committed
    <3>2. OperationAgrees(p, j)
      BY <1>1 DEF OperationsAgree
    <3> QED
      BY <1>1, <1>2, <3>1, <3>2, OperationStays
  <2> QED
    BY <2>1, <2>2
<1>13. ControlKeeps
  <2>1. ~Committed(op, k)
    BY <1>1 DEF Committed
  <2> QED
    BY <1>8, <2>1 DEF ControlKeeps
<1>14. Committed(op, k)' /\ operation'[<<op, k>>].object = object
  BY <1>6, <1>8 DEF Committed
<1> QED
  BY <1>2, <1>9, <1>12, <1>13, <1>14 DEF StoreGoesOn, OperationsAgree

\* _complete_operation.
LEMMA CompleteServes ==
  ASSUME NEW op \in Ops, NEW k \in Keys, NEW e \in Nat, NEW r \in Nat, Works(op, k, e, r),
         CompleteOperation
  PROVE  GoesOn(op, k, e)
<1>1. /\ work.op = op /\ work.key = k /\ op \in StoreOps /\ work.object \in Objects
      /\ This = <<op, k>> /\ work.at = "complete"
      /\ UNCHANGED <<coreVars, queue, blocked, host>>
  BY DEF CompleteOperation, Works, Asks, RequestAgrees, RequestType, This
<1>2. {"ok", "store_error"} \subseteq Codes
  BY DEF Codes
<1>3. CASE Succeeded
  <2>1. PICK object \in Objects : object = work.object
    BY <1>1
  <2>2. Commits /\ Answer("ok", work.object)
    BY <1>3 DEF CompleteOperation, Commits
  <2>3. StoreGoesOn /\ Committed(op, k)' /\ operation'[<<op, k>>].object = object
    BY <1>1, <1>3, <2>1, <2>2, OperationCommits
  <2>4. Answer("ok", object)
    BY <2>1, <2>2
  <2>5. Achieved(op, k, e, object)'
    BY <1>1, <2>3 DEF Achieved, StoreOps
  <2>6. Serves(op, k, e)'
    BY <1>2, <2>4, <2>5, AnswerServes
  <2> QED
    BY <1>1, <2>3, <2>6 DEF GoesOn, coreVars
<1>4. CASE ~Succeeded
  <2>1. Answer("store_error", NoObject) /\ UNCHANGED operation
    BY <1>4 DEF CompleteOperation
  <2>2. UNCHANGED <<coreVars, controlVars, host>>
    BY <1>1, <2>1 DEF controlVars
  <2> QED
    BY <1>2, <2>1, <2>2, NoObjectType, BeginAnswers
<1> QED
  BY <1>3, <1>4

\* enqueue_delivery in the Event Core, the first time or again.
LEMMA EnqueueJobServes ==
  ASSUME NEW op \in Ops, NEW k \in Keys, NEW e \in Nat, NEW r \in Nat, Works(op, k, e, r),
         EnqueueJob
  PROVE  GoesOn(op, k, e)
<1>1. /\ work.op = op /\ work.key = k /\ work.at = "begin" /\ op = "enqueue_delivery"
      /\ CoreIsSound /\ CoreTyped /\ work \in RequestType /\ work.object \in Objects
      /\ Asks(op, k, e, r)
      /\ \E object \in Objects, n \in Nat :
           object = work.object /\ n = Len(job) + 1 /\ IsFor(object, k, n)
  BY DEF EnqueueJob, Works, Asks, RequestAgrees, HostIsSound, CoreIsSound, RequestType
<1>2. UNCHANGED <<controlVars, host>> /\ UNCHANGED <<operation, queue, blocked, host>>
  BY DEF EnqueueJob, controlVars
<1>3. ASSUME NEW n \in Nat, work' = [work EXCEPT !.source = n, !.at = "list"],
             CoreIsSound', CoreKeeps, Enq(k)' # NoSlot, Enq(k)'.result = n
      PROVE  GoesOn(op, k, e)
  <2>1. work' \in RequestType /\ work'.at = "list" /\ work'.source = n /\ Asks(op, k, e, r)'
    <3>1. "list" \in Steps
      BY DEF Steps
    <3> QED
      BY <1>1, <1>3, <3>1, RequestMoves
  <2>2. RequestAgrees(op, k, e, r)'
    BY <1>1, <1>3, <2>1 DEF RequestAgrees
  <2> QED
    BY <1>1, <1>2, <1>3, <2>1, <2>2, CommandServes
<1>4. CASE Recorded("enqueue")
  <2>1. UNCHANGED coreVars /\ Enq(k) # NoSlot /\ Prior("enqueue") = Enq(k) /\ Enq(k)' = Enq(k)
    BY <1>1, <1>4 DEF EnqueueJob, Recorded, Prior, Enq, coreVars
  <2>2. CoreIsSound' /\ CoreKeeps
    BY <1>1, <2>1, CoreUnmoved
  <2>3. PICK n : n = Enq(k).result
    OBVIOUS
  <2>4. n \in Nat
    <3>1. EnqueueAgrees(k)
      BY <1>1 DEF CoreIsSound, SlotsAgree
    <3> QED
      BY <1>1, <2>1, <2>3, <3>1 DEF EnqueueAgrees, CoreTyped
  <2>5. \/ work' = [work EXCEPT !.source = n, !.at = "list"]
        \/ Answer("store_error", NoObject)
    BY <1>4, <2>1, <2>3 DEF EnqueueJob
  <2>6. CASE work' = [work EXCEPT !.source = n, !.at = "list"]
    BY <1>3, <2>1, <2>2, <2>3, <2>4, <2>6
  <2>7. CASE Answer("store_error", NoObject)
    <3>1. "store_error" \in Codes
      BY DEF Codes
    <3> QED
      BY <1>2, <2>1, <2>7, <3>1, NoObjectType, BeginAnswers
  <2> QED
    BY <2>5, <2>6, <2>7
<1>5. ASSUME ~Recorded("enqueue"), NEW n, n = Len(job) + 1, job' = Append(job, work.object),
             Record("enqueue", work.object, n), work' = [work EXCEPT !.source = n, !.at = "list"],
             UNCHANGED <<source, event>>
      PROVE  GoesOn(op, k, e)
  <2>1. PICK object \in Objects, m \in Nat :
          object = work.object /\ m = Len(job) + 1 /\ IsFor(object, k, m)
    BY <1>1
  <2>2. m = n /\ n \in Nat /\ IsFor(object, k, n) /\ job' = Append(job, object)
        /\ Record("enqueue", object, n)
    BY <1>5, <2>1
  <2>3. Records("enqueue", k, object, n)
    <3>1. DOMAIN slot = Commands \X Keys /\ "enqueue" \in Commands
      BY <1>1 DEF CoreTyped, Commands
    <3> QED
      BY <1>1, <1>5, <2>2, <3>1, RecordsOne
  <2>4. CoreIsSound' /\ CoreKeeps
    BY <1>1, <1>5, <2>2, <2>3, DeliveryIsEnqueued
  <2>5. Enq(k)' # NoSlot /\ Enq(k)'.result = n
    BY <2>3 DEF Records, Enq
  <2> QED
    BY <1>3, <1>5, <2>2, <2>4, <2>5
<1> QED
  BY <1>4, <1>5 DEF EnqueueJob

\* enqueue_delivery in control.json.
LEMMA ListDeliveryServes ==
  ASSUME NEW op \in Ops, NEW k \in Keys, NEW e \in Nat, NEW r \in Nat, Works(op, k, e, r),
         ListDelivery
  PROVE  GoesOn(op, k, e)
<1>1. /\ work.op = op /\ work.at = "list" /\ op = "enqueue_delivery"
      /\ CoreIsSound /\ ControlTyped /\ OperationsAgree /\ CoreTyped /\ work.object \in Objects
      /\ Enq(k) # NoSlot /\ Enq(k).result = work.source
  BY DEF ListDelivery, Works, Asks, RequestAgrees, HostIsSound, CoreIsSound, RequestType
<1>2. /\ UNCHANGED <<coreVars, operation, blocked, host>> /\ Answer("ok", work.object)
      /\ queue' = IF work.source \in Range(queue) THEN queue ELSE Append(queue, work.source)
  BY DEF ListDelivery
<1>3. CoreIsSound' /\ CoreKeeps /\ UNCHANGED <<source, event, job, slot>>
  BY <1>1, <1>2, CoreUnmoved DEF coreVars
<1>4. PICK n : n = work.source
  OBVIOUS
<1>5. n \in DOMAIN job /\ n \in Nat
  <2>1. EnqueueAgrees(k)
    BY <1>1 DEF CoreIsSound, SlotsAgree
  <2> QED
    BY <1>1, <1>4, <2>1 DEF EnqueueAgrees, CoreTyped
<1>6. /\ queue' \in Seq(Nat) /\ Range(queue') \subseteq DOMAIN job
      /\ \A i, j \in DOMAIN queue' : queue'[i] = queue'[j] => i = j
      /\ Range(queue) \subseteq Range(queue') /\ n \in Range(queue')
  <2>1. /\ queue \in Seq(Nat) /\ Range(queue) \subseteq DOMAIN job
        /\ \A i, j \in DOMAIN queue : queue[i] = queue[j] => i = j
    BY <1>1 DEF ControlTyped
  <2>2. CASE n \in Range(queue)
    BY <1>2, <1>4, <2>1, <2>2
  <2>3. CASE n \notin Range(queue)
    <3>1. queue' = Append(queue, n)
      BY <1>2, <1>4, <2>3
    <3>2. /\ queue' \in Seq(Nat) /\ DOMAIN queue' = DOMAIN queue \cup {Len(queue) + 1}
          /\ \A i \in DOMAIN queue : queue'[i] = queue[i]
          /\ queue'[Len(queue) + 1] = n
      BY <1>5, <2>1, <3>1, Appended
    <3> QED
      BY <1>5, <2>1, <2>3, <3>2 DEF Range
  <2> QED
    BY <2>2, <2>3
<1>7. ControlTyped'
  BY <1>1, <1>2, <1>3, <1>6 DEF ControlTyped
<1>8. ASSUME NEW p \in StoreOps, NEW j \in Keys PROVE OperationAgrees(p, j)'
  <2>1. operation'[<<p, j>>] = operation[<<p, j>>] /\ (Committed(p, j)' => Committed(p, j))
    BY <1>2 DEF Committed
  <2>2. OperationAgrees(p, j)
    BY <1>1 DEF OperationsAgree
  <2> QED
    BY <1>1, <1>3, <2>1, <2>2, OperationStays
<1>9. ControlKeeps
  BY <1>2, <1>6 DEF ControlKeeps
<1>10. StoreGoesOn
  BY <1>3, <1>7, <1>8, <1>9 DEF StoreGoesOn, OperationsAgree
<1>11. Enq(k)' # NoSlot /\ Enq(k)'.result \in Range(queue')
  BY <1>1, <1>3, <1>4, <1>6 DEF Enq
<1>12. PICK object \in Objects : object = work.object
  BY <1>1
<1>13. Achieved(op, k, e, object)'
  BY <1>1, <1>11 DEF Achieved
<1>14. Serves(op, k, e)'
  <2>1. Answer("ok", object) /\ "ok" \in Codes
    BY <1>2, <1>12 DEF Codes
  <2> QED
    BY <1>13, <2>1, AnswerServes
<1> QED
  BY <1>3, <1>10, <1>14 DEF GoesOn

\* set_policy_blocked.
LEMMA BlockEventServes ==
  ASSUME NEW op \in Ops, NEW k \in Keys, NEW e \in Nat, NEW r \in Nat, Works(op, k, e, r),
         BlockEvent
  PROVE  GoesOn(op, k, e)
<1>1. /\ work.op = op /\ work.event = e /\ op = "set_policy_blocked"
      /\ CoreIsSound /\ ControlTyped /\ OperationsAgree /\ work.object \in Objects
  BY DEF BlockEvent, Works, Asks, HostIsSound, RequestType
<1>2. /\ UNCHANGED <<coreVars, operation, queue, host>> /\ Answer("ok", work.object)
      /\ blocked' = IF Active(e) THEN blocked \cup {e} ELSE blocked
  BY <1>1 DEF BlockEvent
<1>3. CoreIsSound' /\ CoreKeeps /\ UNCHANGED <<source, event, job, slot>>
  BY <1>1, <1>2, CoreUnmoved DEF coreVars
<1>4. ControlTyped'
  BY <1>1, <1>2, <1>3 DEF ControlTyped, Active, Exists
<1>5. ASSUME NEW p \in StoreOps, NEW j \in Keys PROVE OperationAgrees(p, j)'
  <2>1. operation'[<<p, j>>] = operation[<<p, j>>] /\ (Committed(p, j)' => Committed(p, j))
    BY <1>2 DEF Committed
  <2>2. OperationAgrees(p, j)
    BY <1>1 DEF OperationsAgree
  <2> QED
    BY <1>1, <1>3, <2>1, <2>2, OperationStays
<1>6. ControlKeeps
  BY <1>2 DEF ControlKeeps
<1>7. StoreGoesOn
  BY <1>3, <1>4, <1>5, <1>6 DEF StoreGoesOn, OperationsAgree
<1>8. PICK object \in Objects : object = work.object
  BY <1>1
<1>9. Achieved(op, k, e, object)'
  <2>1. e \in blocked' \/ ~Active(e)'
    BY <1>2, <1>3 DEF Active, Exists
  <2> QED
    BY <1>1, <2>1 DEF Achieved
<1>10. Serves(op, k, e)'
  <2>1. Answer("ok", object) /\ "ok" \in Codes
    BY <1>2, <1>8 DEF Codes
  <2> QED
    BY <1>9, <2>1, AnswerServes
<1> QED
  BY <1>3, <1>7, <1>10 DEF GoesOn

\* The host starts with nothing.
LEMMA HostStarts ==
  ASSUME HostInit
  PROVE  HostIsSound
<1>1. /\ source = <<>> /\ event = <<>> /\ job = <<>> /\ queue = <<>> /\ blocked = {}
      /\ slot = [c \in Commands \X Keys |-> NoSlot]
      /\ operation = [o \in StoreOps \X Keys |-> NoOperation]
      /\ host = "up" /\ work = NoWork
  BY DEF HostInit
<1>2. \A k \in Keys : Src(k) = NoSlot /\ Acc(k) = NoSlot /\ App(k) = NoSlot /\ Und(k) = NoSlot
                      /\ Enq(k) = NoSlot
  BY <1>1 DEF Src, Acc, App, Und, Enq, Commands
<1>3. CoreTyped
  BY <1>1, <1>2 DEF CoreTyped
<1>4. SourcesAgree /\ SlotsAgree
  BY <1>2 DEF SourcesAgree, SlotsAgree, AcceptAgrees, AppendAgrees, UndoAgrees, EnqueueAgrees
<1>5. EventsAgree /\ JobsAgree
  BY <1>1 DEF EventsAgree, JobsAgree
<1>6. ControlTyped
  BY <1>1 DEF ControlTyped, Range
<1>7. OperationsAgree
  BY <1>1 DEF OperationsAgree, OperationAgrees
<1> QED
  BY <1>1, <1>3, <1>4, <1>5, <1>6, <1>7 DEF HostIsSound, CoreIsSound, WorkAgrees

\* A request or an answer is not nothing, and no request is an answer.
LEMMA AtWork ==
  ASSUME NEW op, NEW k, NEW e, Serves(op, k, e)
  PROVE  /\ work # NoWork /\ work.at # "idle"
         /\ work.at # "reply" => work \in RequestType
         /\ work.at = "reply" => work \in ReplyType
  BY DEF Serves, RequestType, ReplyType, Steps, NoWork

\* Every step of the host takes its request on, and keeps what there is.
LEMMA HostGoesOn ==
  ASSUME HostIsSound, NEW op \in Ops, NEW k \in Keys, NEW e \in Nat, Serves(op, k, e),
         HostStep \/ CoreBusy
  PROVE  GoesOn(op, k, e) /\ HostIsSound' /\ host' = host
<1>1. work.at # "reply"
  BY DEF HostStep, BeginOperation, CaptureSource, CreateObservation, AcceptEvent, AppendRevision,
         DeleteSource, UndoRevision, CompleteOperation, EnqueueJob, ListDelivery, BlockEvent,
         CoreBusy
<1>2. work \in RequestType /\ ~(work \in ReplyType)
  BY <1>1, AtWork DEF ReplyType
<1>3. PICK r \in Nat : Asks(op, k, e, r) /\ RequestAgrees(op, k, e, r)
  BY <1>2 DEF Serves
<1>4. Works(op, k, e, r)
  BY <1>2, <1>3 DEF Works
<1>5. GoesOn(op, k, e)
  <2>1. CASE BeginOperation
    BY <1>4, <2>1, BeginServes
  <2>2. CASE CaptureSource
    BY <1>4, <2>2, CaptureSourceServes
  <2>3. CASE CreateObservation
    BY <1>4, <2>3, CreateObservationServes
  <2>4. CASE AcceptEvent
    BY <1>4, <2>4, AcceptEventServes
  <2>5. CASE AppendRevision
    BY <1>4, <2>5, AppendRevisionServes
  <2>6. CASE DeleteSource
    BY <1>4, <2>6, DeleteSourceServes
  <2>7. CASE UndoRevision
    BY <1>4, <2>7, UndoRevisionServes
  <2>8. CASE CompleteOperation
    BY <1>4, <2>8, CompleteServes
  <2>9. CASE EnqueueJob
    BY <1>4, <2>9, EnqueueJobServes
  <2>10. CASE ListDelivery
    BY <1>4, <2>10, ListDeliveryServes
  <2>11. CASE BlockEvent
    BY <1>4, <2>11, BlockEventServes
  <2>12. CASE CoreBusy
    BY <1>4, <2>12, CoreBusyServes
  <2> QED
    BY <2>1, <2>2, <2>3, <2>4, <2>5, <2>6, <2>7, <2>8, <2>9, <2>10, <2>11, <2>12 DEF HostStep
<1>6. host' = host
  BY DEF HostStep, BeginOperation, CaptureSource, CreateObservation, AcceptEvent, AppendRevision,
         DeleteSource, UndoRevision, CompleteOperation, EnqueueJob, ListDelivery, BlockEvent,
         CoreBusy
<1>7. host # "down"
  BY AtWork DEF HostIsSound
<1>8. WorkAgrees'
  BY <1>5 DEF GoesOn, WorkAgrees
<1>9. HostIsSound'
  BY <1>5, <1>6, <1>7, <1>8 DEF GoesOn, StoreGoesOn, HostIsSound
<1> QED
  BY <1>5, <1>6, <1>9

\* What a request has achieved lasts.
LEMMA AchievedStays ==
  ASSUME CoreIsSound, StoreGoesOn, NEW op \in Ops, NEW k \in Keys, NEW e, NEW object,
         Achieved(op, k, e, object), e = 0 \/ e \in DOMAIN event
  PROVE  Achieved(op, k, e, object)'
<1>1. CoreKeeps /\ ControlKeeps /\ CoreTyped /\ CoreTyped' /\ EventsAgree
  BY DEF StoreGoesOn, CoreIsSound
<1>2. op \in StoreOps /\ Committed(op, k) =>
        Committed(op, k)' /\ operation'[<<op, k>>] = operation[<<op, k>>]
  BY <1>1 DEF ControlKeeps, Committed
<1>3. Enq(k) # NoSlot => Enq(k)' = Enq(k)
  BY <1>1, SlotsStay
<1>4. ~Active(e) => ~Active(e)'
  <2>1. SUFFICES ASSUME ~Active(e) PROVE ~Active(e)'
    OBVIOUS
  <2>2. CASE e = 0
    <3>1. 0 \notin DOMAIN event'
      BY <1>1 DEF CoreTyped
    <3> QED
      BY <2>2, <3>1 DEF Active, Exists
  <2>3. CASE e \in DOMAIN event
    <3>1. event[e] \in Seq(Version) /\ event[e] # <<>>
      BY <1>1, <2>3 DEF CoreTyped, EventsAgree
    <3>2. Last(event[e]) \in Version
      BY <3>1 DEF Last
    <3>3. Last(event[e]).state = "deleted"
      BY <2>1, <2>3, <3>2 DEF Active, Exists, Version
    <3>4. event'[e] = event[e]
      BY <1>1, <2>3, <3>3 DEF CoreKeeps
    <3> QED
      BY <3>3, <3>4 DEF Active
  <2> QED
    BY <2>2, <2>3
<1>5. op \in {"create_event", "append_revision"} =>
        Committed(op, k)' /\ operation'[<<op, k>>].object = object
  BY <1>2 DEF Achieved, StoreOps
<1>6. op \in {"undo_event", "undo_revision"} => Committed(op, k)'
  BY <1>2 DEF Achieved, StoreOps
<1>7. op = "enqueue_delivery" => Enq(k)' # NoSlot /\ Enq(k)'.result \in Range(queue')
  BY <1>1, <1>3 DEF Achieved, ControlKeeps
<1>8. op = "set_policy_blocked" => e \in blocked' \/ ~Active(e)'
  BY <1>1, <1>4 DEF Achieved, ControlKeeps
<1> QED
  BY <1>5, <1>6, <1>7, <1>8 DEF Achieved

-----------------------------------------------------------------------------
(* The agents.                                                             *)

GrantStates == {"none", "pending", "lapsed", "active", "revoked", "expired"}
UndoStates == {"none", "open", "used", "lapsed"}
Kept == [call : Calls, object : Objects]
Pack == [state : {"ready", "expired"}, grant : Grants, items : SUBSET Nat]

AgentTyped ==
  /\ grant \in [Grants -> GrantStates]
  /\ record \in [Keys -> {NoRecord} \cup Kept]
  /\ undo \in [Keys -> UndoStates]
  /\ told \in [Keys -> SUBSET Objects]
  /\ pack \in {NoPack} \cup Pack
  /\ mcp \in {"up", "down"}
  /\ faults \in 0..MaxFaults

\* The operation that a call asks the store for.
StoreOp(c) ==
  IF c.kind = "event" THEN "create_event"
  ELSE IF c.kind = "block" THEN "set_policy_blocked" ELSE "append_revision"

Asked(at, c) ==
  IF at = "store" THEN StoreOp(c)
  ELSE IF at = "delivery" THEN "enqueue_delivery"
  ELSE IF c.kind = "event" THEN "undo_event" ELSE "undo_revision"

\* The event that a call is about is there.
AboutEvent(c) == c.target = 0 \/ c.target \in DOMAIN event

\* The store has done its part of the call, with this result.
Held(c, object) ==
  /\ AboutEvent(c)
  /\ c.kind # "note" => Achieved(StoreOp(c), c.key, c.target, object)
  /\ c.kind \in {"block", "note"} => object.type = "feedback"

\* A call is in progress, and waits for the host at this point.
Waits(at, c, object) ==
  /\ call = InProgress(c, at, object) /\ mcp = "up"
  /\ \E e \in Nat : /\ Serves(Asked(at, c), c.key, e)
                    /\ at = "store" /\ c.kind = "block" => e = c.target
  /\ AboutEvent(c)
  /\ at # "undo" => record[c.key] = NoRecord
  /\ at = "store" =>
       c.kind # "note" /\ \E n \in Nat : n = Len(job) + 1 /\ object = Object("feedback", n, 0)
  /\ at = "delivery" => Held(c, object)
  /\ at = "undo" => IsCapture(c) /\ \E o \in Objects : record[c.key] = [call |-> c, object |-> o]

CallAgrees ==
  \/ call = NoCall
  \/ \E at \in {"store", "delivery", "undo"}, c \in Calls, object \in Objects :
       Waits(at, c, object)

\* The record under a key is of a call that the store has done, and whose delivery is
\* queued; agents were told of nothing else, and what was undone is undone in the store.
Recalls(k, c, object) ==
  /\ record[k] = [call |-> c, object |-> object]
  /\ c.key = k
  /\ Held(c, object)
  /\ c.offline => Achieved("enqueue_delivery", k, 0, object)
  /\ told[k] \subseteq {object}
  /\ undo[k] = "used" /\ c.kind = "event" => Committed("undo_event", k)

RecordAgrees(k) ==
  \/ record[k] = NoRecord /\ told[k] = {} /\ undo[k] = "none"
  \/ \E c \in Calls, object \in Objects : Recalls(k, c, object)

RecordsAgree == \A k \in Keys : RecordAgrees(k)

\* A pack is of a grant in force until it has ended.
PackAgrees == pack # NoPack /\ pack.state = "ready" => grant[pack.grant] = "active"

AgentsAreSound == AgentTyped /\ CallAgrees /\ RecordsAgree /\ PackAgrees

IInv == HostIsSound /\ AgentsAreSound

\* The store goes on when the agents alone move, or the process of the host.
LEMMA StoreUnmoved ==
  ASSUME HostIsSound, UNCHANGED <<coreVars, controlVars>>, host' \in {"up", "down"}
  PROVE  StoreGoesOn
<1>1. UNCHANGED <<source, event, job, slot, operation, queue, blocked>>
  BY DEF coreVars, controlVars
<1>2. CoreIsSound /\ ControlTyped /\ OperationsAgree
  BY DEF HostIsSound
<1>3. CoreIsSound' /\ CoreKeeps
  BY <1>2, CoreUnmoved
<1>4. ControlTyped'
  BY <1>1, <1>2 DEF ControlTyped
<1>5. ASSUME NEW op \in StoreOps, NEW k \in Keys PROVE OperationAgrees(op, k)'
  <2>1. OperationAgrees(op, k)
    BY <1>2 DEF OperationsAgree
  <2>2. operation'[<<op, k>>] = operation[<<op, k>>] /\ (Committed(op, k)' => Committed(op, k))
    BY <1>1 DEF Committed
  <2> QED
    BY <1>2, <1>3, <2>1, <2>2, OperationStays
<1>6. ControlKeeps
  BY <1>1 DEF ControlKeeps
<1> QED
  BY <1>3, <1>4, <1>5, <1>6 DEF StoreGoesOn, OperationsAgree

\* A host that nobody touches serves what it serves.
LEMMA ServesOn ==
  ASSUME UNCHANGED hostVars, NEW op, NEW k, NEW e, Serves(op, k, e)
  PROVE  Serves(op, k, e)'
<1>1. UNCHANGED <<source, event, job, slot, operation, queue, blocked, host, work>>
  BY DEF hostVars, coreVars, controlVars
<1>2. ASSUME NEW r \in Nat, RequestAgrees(op, k, e, r), Asks(op, k, e, r)
      PROVE  RequestAgrees(op, k, e, r)' /\ Asks(op, k, e, r)'
  <2>1. Src(k)' = Src(k) /\ Acc(k)' = Acc(k) /\ App(k)' = App(k) /\ Und(k)' = Und(k)
        /\ Enq(k)' = Enq(k)
    BY <1>1 DEF Src, Acc, App, Und, Enq
  <2>2. /\ Active(e) => Active(e)'
        /\ \A c, t, n : Names(c, k, t, e, n) => Names(c, k, t, e, n)'
        /\ \A object, n : IsFor(object, k, n) => IsFor(object, k, n)'
    BY <1>1, <2>1 DEF Active, Exists, Names, IsFor
  <2>3. Asks(op, k, e, r)'
    BY <1>1, <1>2 DEF Asks
  <2> QED
    BY <1>1, <1>2, <2>1, <2>2, <2>3 DEF RequestAgrees
<1>3. ASSUME NEW object, Achieved(op, k, e, object) PROVE Achieved(op, k, e, object)'
  BY <1>1, <1>3 DEF Achieved, Committed, Enq, Active, Exists
<1> QED
  BY <1>1, <1>2, <1>3 DEF Serves

\* The host is sound, whatever it is given to do.
LEMMA HostStays ==
  ASSUME HostIsSound, UNCHANGED <<coreVars, controlVars>>, host' \in {"up", "down"},
         WorkAgrees', host' = "down" => work' = NoWork
  PROVE  HostIsSound' /\ StoreGoesOn
<1>1. StoreGoesOn
  BY StoreUnmoved
<1> QED
  BY <1>1 DEF HostIsSound, StoreGoesOn

\* What the store holds of a call, it goes on to hold.
LEMMA HeldStays ==
  ASSUME CoreIsSound, StoreGoesOn, NEW c \in Calls, NEW object, Held(c, object)
  PROVE  Held(c, object)'
<1>1. c.key \in Keys /\ StoreOp(c) \in Ops
  BY CallsAssumption DEF Call, StoreOp, Ops, StoreOps
<1>2. PICK op, k, e : op \in Ops /\ k \in Keys /\ op = StoreOp(c) /\ k = c.key /\ e = c.target
  BY <1>1
<1>3. Achieved(op, k, e, object) => Achieved(op, k, e, object)'
  BY <1>2, AchievedStays DEF Held, AboutEvent
<1>4. c.kind # "note" => Achieved(op, k, e, object)
  BY <1>2 DEF Held
<1>5. c.kind # "note" => Achieved(StoreOp(c), c.key, c.target, object)'
  BY <1>2, <1>3, <1>4
<1>6. AboutEvent(c)'
  BY DEF Held, AboutEvent, StoreGoesOn, CoreKeeps
<1> QED
  BY <1>5, <1>6 DEF Held

\* A record that nobody touches goes on to agree.
LEMMA RecordStays ==
  ASSUME CoreIsSound, StoreGoesOn, NEW k \in Keys, RecordAgrees(k),
         record'[k] = record[k], told'[k] = told[k],
         undo'[k] = undo[k] \/ (undo'[k] = "lapsed" /\ undo[k] = "open")
  PROVE  RecordAgrees(k)'
<1>1. CASE record[k] = NoRecord /\ told[k] = {} /\ undo[k] = "none"
  BY <1>1 DEF RecordAgrees
<1>2. ASSUME NEW c \in Calls, NEW object \in Objects, Recalls(k, c, object)
      PROVE  Recalls(k, c, object)'
  <2>1. Held(c, object)'
    BY <1>2, HeldStays DEF Recalls
  <2>2. Achieved("enqueue_delivery", k, 0, object) => Achieved("enqueue_delivery", k, 0, object)'
    BY AchievedStays DEF Ops
  <2>3. Committed("undo_event", k) => Committed("undo_event", k)'
    BY DEF StoreGoesOn, ControlKeeps, Committed, StoreOps
  <2> QED
    BY <1>2, <2>1, <2>2, <2>3 DEF Recalls
<1> QED
  BY <1>1, <1>2 DEF RecordAgrees

\* So does one whose answer is given again, or whose undo has been done.
LEMMA RecallsOn ==
  ASSUME CoreIsSound, StoreGoesOn, NEW k \in Keys, NEW c \in Calls, NEW object \in Objects,
         Recalls(k, c, object), record'[k] = record[k], told'[k] \subseteq {object},
         undo'[k] = "used" /\ c.kind = "event" => undo[k] = "used" \/ Committed("undo_event", k)
  PROVE  RecordAgrees(k)'
<1>1. Held(c, object)'
  BY HeldStays DEF Recalls
<1>2. Achieved("enqueue_delivery", k, 0, object) => Achieved("enqueue_delivery", k, 0, object)'
  BY AchievedStays DEF Ops
<1>3. Committed("undo_event", k) => Committed("undo_event", k)'
  BY DEF StoreGoesOn, ControlKeeps, Committed, StoreOps
<1>4. Recalls(k, c, object)'
  BY <1>1, <1>2, <1>3 DEF Recalls
<1> QED
  BY <1>4 DEF RecordAgrees

\* Nothing of the host moves.
LEMMA HostUnmoved ==
  ASSUME HostIsSound, UNCHANGED hostVars
  PROVE  HostIsSound' /\ StoreGoesOn
<1>1. UNCHANGED <<coreVars, controlVars, host, work>>
  BY DEF hostVars
<1>2. WorkAgrees'
  BY <1>1, ServesOn DEF HostIsSound, WorkAgrees
<1>3. host' \in {"up", "down"} /\ (host' = "down" => work' = NoWork)
  BY <1>1 DEF HostIsSound, ControlTyped
<1> QED
  BY <1>1, <1>2, <1>3, HostStays

\* A call goes on to wait while the host works on, or nobody moves.
LEMMA WaitsOn ==
  ASSUME CoreIsSound, StoreGoesOn, NEW at, NEW c \in Calls, NEW object \in Objects,
         Waits(at, c, object), UNCHANGED <<call, mcp, record>>,
         \A e \in Nat : Serves(Asked(at, c), c.key, e) => Serves(Asked(at, c), c.key, e)',
         at = "store" => job' = job
  PROVE  Waits(at, c, object)'
<1>1. AboutEvent(c)'
  BY DEF Waits, AboutEvent, StoreGoesOn, CoreKeeps
<1>2. at = "delivery" => Held(c, object)'
  BY HeldStays DEF Waits
<1>3. at = "store" =>
        c.kind # "note" /\ \E n \in Nat : n = Len(job') + 1 /\ object = Object("feedback", n, 0)
  BY DEF Waits
<1> QED
  BY <1>1, <1>2, <1>3 DEF Waits

\* Records that nobody touches go on to agree, but for undo tokens that lapse.
LEMMA RecordsStay ==
  ASSUME CoreIsSound, StoreGoesOn, NEW K \in SUBSET Keys, \A k \in K : RecordAgrees(k),
         \A k \in K : /\ record'[k] = record[k] /\ told'[k] = told[k]
                      /\ undo'[k] = undo[k] \/ (undo'[k] = "lapsed" /\ undo[k] = "open")
  PROVE  \A k \in K : RecordAgrees(k)'
<1> TAKE k \in K
<1>1. k \in Keys /\ RecordAgrees(k)
  OBVIOUS
<1>2. record'[k] = record[k] /\ told'[k] = told[k]
  OBVIOUS
<1>3. undo'[k] = undo[k] \/ (undo'[k] = "lapsed" /\ undo[k] = "open")
  OBVIOUS
<1> QED
  BY <1>1, <1>2, <1>3, RecordStays

\* The agents alone have moved, and no call with them.
LEMMA CallsStay ==
  ASSUME IInv, UNCHANGED <<hostVars, record, call, mcp>>, AgentTyped', PackAgrees',
         CoreIsSound /\ StoreGoesOn => RecordsAgree'
  PROVE  IInv'
<1>1. HostIsSound' /\ StoreGoesOn /\ CoreIsSound
  BY HostUnmoved DEF IInv, HostIsSound
<1>2. CallAgrees'
  <2>1. CASE call = NoCall
    BY <2>1 DEF CallAgrees
  <2>2. ASSUME NEW at \in {"store", "delivery", "undo"}, NEW c \in Calls, NEW object \in Objects,
               Waits(at, c, object)
        PROVE  CallAgrees'
    <3>1. \A e \in Nat : Serves(Asked(at, c), c.key, e) => Serves(Asked(at, c), c.key, e)'
      <4>1. PICK op, k : op = Asked(at, c) /\ k = c.key
        OBVIOUS
      <4>2. \A e \in Nat : Serves(op, k, e) => Serves(op, k, e)'
        BY ServesOn
      <4> QED
        BY <4>1, <4>2
    <3>2. job' = job
      BY DEF hostVars, coreVars
    <3>3. Waits(at, c, object)'
      BY <1>1, <2>2, <3>1, <3>2, WaitsOn
    <3> QED
      BY <3>3 DEF CallAgrees
  <2> QED
    BY <2>1, <2>2 DEF CallAgrees, IInv, AgentsAreSound
<1> QED
  BY <1>1, <1>2 DEF IInv, AgentsAreSound

-----------------------------------------------------------------------------
(* Grants and packs.                                                       *)

\* Pairing touches the grants, and the pack whose grant ends.
LEMMA GrantsMove ==
  ASSUME IInv, NEW g \in Grants, NEW from, NEW to \in GrantStates, SetGrant(g, from, to),
         \/ "active" \notin from /\ UNCHANGED pack
         \/ PackEnds(g)
  PROVE  IInv'
<1>1. /\ grant[g] \in from /\ grant' = [grant EXCEPT ![g] = to]
      /\ UNCHANGED <<hostVars, record, undo, told, mcp, call, faults>>
  BY DEF SetGrant
<1>2. AgentTyped /\ PackAgrees /\ RecordsAgree
  BY DEF IInv, AgentsAreSound
<1>3. /\ grant' \in [Grants -> GrantStates]
      /\ \A h \in Grants : h # g => grant'[h] = grant[h]
  BY <1>1, <1>2 DEF AgentTyped
<1>4. pack' \in {NoPack} \cup Pack /\ PackAgrees'
  <2>1. CASE "active" \notin from /\ UNCHANGED pack
    <3>1. pack # NoPack => pack \in Pack
      BY <1>2 DEF AgentTyped
    <3>2. pack # NoPack => pack.grant \in Grants
      BY <3>1 DEF Pack
    <3> QED
      BY <1>1, <1>2, <1>3, <2>1, <3>2 DEF PackAgrees, AgentTyped
  <2>2. CASE PackEnds(g)
    <3>1. CASE pack # NoPack /\ pack.grant = g
      <4>1. pack \in Pack
        BY <1>2, <3>1 DEF AgentTyped
      <4>2. pack' = [pack EXCEPT !.state = "expired"]
        BY <2>2, <3>1 DEF PackEnds
      <4>3. pack' \in Pack /\ pack'.state = "expired"
        BY <4>1, <4>2 DEF Pack
      <4> QED
        BY <4>3 DEF PackAgrees
    <3>2. CASE ~(pack # NoPack /\ pack.grant = g)
      <4>1. pack' = pack
        BY <2>2, <3>2 DEF PackEnds
      <4>2. pack # NoPack => pack \in Pack
        BY <1>2 DEF AgentTyped
      <4>3. pack # NoPack => pack.grant \in Grants /\ pack.grant # g
        BY <3>2, <4>2 DEF Pack
      <4> QED
        BY <1>2, <1>3, <4>1, <4>3 DEF PackAgrees, AgentTyped
    <3> QED
      BY <3>1, <3>2
  <2> QED
    BY <2>1, <2>2
<1>5. AgentTyped'
  BY <1>1, <1>2, <1>3, <1>4 DEF AgentTyped
<1>6. ASSUME CoreIsSound, StoreGoesOn PROVE RecordsAgree'
  <2>1. \A k \in Keys : RecordAgrees(k)
    BY <1>2 DEF RecordsAgree
  <2>2. \A k \in Keys : RecordAgrees(k)'
    BY <1>1, <1>6, <2>1, RecordsStay
  <2> QED
    BY <2>2 DEF RecordsAgree
<1> QED
  BY <1>1, <1>4, <1>5, <1>6, CallsStay

\* A pack is made, for a grant in force.
LEMMA ContextIsGot ==
  ASSUME IInv, NEW g \in Grants, GetContext(g)
  PROVE  IInv'
<1>1. /\ grant[g] = "active"
      /\ pack' = [state |-> "ready", grant |-> g,
                  items |-> IF g \in ReadGrants THEN Visible ELSE {}]
      /\ UNCHANGED <<hostVars, grant, record, undo, told, mcp, call, faults>>
  BY DEF GetContext
<1>2. AgentTyped /\ RecordsAgree /\ event \in Seq(Seq(Version))
  BY DEF IInv, AgentsAreSound, HostIsSound, CoreIsSound, CoreTyped
<1>3. Visible \subseteq Nat
  BY <1>2 DEF Visible
<1>4. PICK items : items = IF g \in ReadGrants THEN Visible ELSE {}
  OBVIOUS
<1>5. items \in SUBSET Nat /\ pack' = [state |-> "ready", grant |-> g, items |-> items]
  BY <1>1, <1>3, <1>4
<1>6. pack' \in Pack /\ pack'.grant = g
  BY <1>5 DEF Pack
<1>7. AgentTyped' /\ PackAgrees'
  BY <1>1, <1>2, <1>6 DEF AgentTyped, PackAgrees
<1>8. ASSUME CoreIsSound, StoreGoesOn PROVE RecordsAgree'
  <2>1. \A k \in Keys : RecordAgrees(k)
    BY <1>2 DEF RecordsAgree
  <2>2. \A k \in Keys : RecordAgrees(k)'
    BY <1>1, <1>8, <2>1, RecordsStay
  <2> QED
    BY <2>2 DEF RecordsAgree
<1> QED
  BY <1>1, <1>7, <1>8, CallsStay

-----------------------------------------------------------------------------
(* Calls.                                                                  *)

\* What a call is.
LEMMA CallType ==
  ASSUME NEW c \in Calls
  PROVE  /\ c.key \in Keys /\ c.text \in Texts /\ c.target \in Nat /\ c.grant \in Grants
         /\ c.kind \in {"event", "revision", "correct", "block", "note"}
         /\ c.kind = "note" => c.offline
         /\ StoreOp(c) \in Ops
  BY CallsAssumption DEF Call, StoreOp, Ops, StoreOps

\* An answer is given again.
LEMMA AnswerIsReplayed ==
  ASSUME IInv, NEW c \in Calls, Replay(c)
  PROVE  IInv'
<1>1. /\ record[c.key] # NoRecord
      /\ told' = [told EXCEPT ![c.key] = @ \cup {record[c.key].object}]
      /\ UNCHANGED <<hostVars, controlFile, mcp, call, faults>>
      /\ UNCHANGED <<hostVars, grant, pack, record, undo, mcp, call, faults>>
  BY DEF Replay, Told, controlFile
<1>2. AgentTyped /\ RecordsAgree /\ PackAgrees
  BY DEF IInv, AgentsAreSound
<1>3. PICK k \in Keys : k = c.key
  BY CallType
<1>4. PICK d \in Calls, object \in Objects : Recalls(k, d, object)
  BY <1>1, <1>2, <1>3 DEF RecordsAgree, RecordAgrees
<1>5. record[k].object = object /\ told[k] \subseteq {object}
  BY <1>4 DEF Recalls
<1>6. /\ told' \in [Keys -> SUBSET Objects] /\ told'[k] \subseteq {object}
      /\ \A j \in Keys : j # k => told'[j] = told[j]
  BY <1>1, <1>2, <1>3, <1>5 DEF AgentTyped
<1>7. AgentTyped' /\ PackAgrees'
  BY <1>1, <1>2, <1>6 DEF AgentTyped, PackAgrees
<1>8. ASSUME CoreIsSound, StoreGoesOn PROVE RecordsAgree'
  <2>1. RecordAgrees(k)'
    BY <1>1, <1>4, <1>6, <1>8, RecallsOn
  <2>2. \A j \in Keys \ {k} : RecordAgrees(j)
    BY <1>2 DEF RecordsAgree
  <2>3. \A j \in Keys \ {k} : RecordAgrees(j)'
    BY <1>1, <1>6, <1>8, <2>2, RecordsStay
  <2> QED
    BY <2>1, <2>3 DEF RecordsAgree
<1> QED
  BY <1>1, <1>7, <1>8, CallsStay

\* The time to undo runs out.
LEMMA UndoLapses ==
  ASSUME IInv, NEW c \in Calls, UndoExpires(c)
  PROVE  IInv'
<1>1. /\ undo[c.key] = "open" /\ undo' = [undo EXCEPT ![c.key] = "lapsed"]
      /\ UNCHANGED <<hostVars, grant, pack, record, told, mcp, call, faults>>
  BY DEF UndoExpires
<1>2. AgentTyped /\ RecordsAgree /\ PackAgrees
  BY DEF IInv, AgentsAreSound
<1>3. /\ undo' \in [Keys -> UndoStates]
      /\ \A k \in Keys : undo'[k] = undo[k] \/ (undo'[k] = "lapsed" /\ undo[k] = "open")
  <2>1. c.key \in Keys
    BY CallType
  <2> QED
    BY <1>1, <1>2, <2>1 DEF AgentTyped, UndoStates
<1>4. AgentTyped' /\ PackAgrees'
  BY <1>1, <1>2, <1>3 DEF AgentTyped, PackAgrees
<1>5. ASSUME CoreIsSound, StoreGoesOn PROVE RecordsAgree'
  <2>1. \A k \in Keys : RecordAgrees(k)
    BY <1>2 DEF RecordsAgree
  <2>2. \A k \in Keys : RecordAgrees(k)'
    BY <1>1, <1>3, <1>5, <2>1, RecordsStay
  <2> QED
    BY <2>2 DEF RecordsAgree
<1> QED
  BY <1>1, <1>4, <1>5, CallsStay

\* The object of a call that the store has done is the one in its slot.
LEMMA HeldObject ==
  ASSUME HostIsSound, NEW c \in Calls, NEW k \in Keys, k = c.key, NEW object, Held(c, object)
  PROVE  /\ c.kind = "event" =>
              /\ Acc(k) # NoSlot /\ object = Acc(k).result
              /\ \E e \in Nat : object = Object("event", e, 1) /\ Names("accept", k, "event", e, 1)
         /\ c.kind \in {"revision", "correct"} =>
              /\ App(k) # NoSlot /\ object = App(k).result
              /\ \E e, r \in Nat : object = Object("revision", e, r)
                                   /\ Names("append", k, "revision", e, r)
<1>1. CoreIsSound /\ OperationsAgree
  BY DEF HostIsSound
<1>2. ASSUME NEW op \in StoreOps, op = StoreOp(c), op \in {"create_event", "append_revision"},
             c.kind # "note"
      PROVE  OperationAgrees(op, k) /\ Committed(op, k) /\ operation[<<op, k>>] # NoOperation
             /\ operation[<<op, k>>].object = object
  <2>1. Achieved(op, k, c.target, object)
    BY <1>2 DEF Held
  <2>2. Committed(op, k) /\ operation[<<op, k>>].object = object
    BY <1>2, <2>1 DEF Achieved
  <2>3. operation[<<op, k>>] # NoOperation
    BY <2>2 DEF Committed, NoOperation
  <2>4. OperationAgrees(op, k)
    BY <1>1 DEF OperationsAgree
  <2> QED
    BY <2>2, <2>3, <2>4
<1>3. ASSUME c.kind = "event"
      PROVE  /\ Acc(k) # NoSlot /\ object = Acc(k).result
             /\ \E e \in Nat : object = Object("event", e, 1) /\ Names("accept", k, "event", e, 1)
  <2>1. "create_event" \in StoreOps /\ "create_event" = StoreOp(c)
    BY <1>3 DEF StoreOps, StoreOp
  <2>2. /\ OperationAgrees("create_event", k) /\ Committed("create_event", k)
        /\ operation[<<"create_event", k>>] # NoOperation
        /\ operation[<<"create_event", k>>].object = object
    BY <1>2, <1>3, <2>1
  <2>3. Acc(k) # NoSlot /\ object = Acc(k).result
    BY <2>2 DEF OperationAgrees
  <2>4. PICK e \in Nat : Names("accept", k, "event", e, 1)
    BY <1>1, <2>3, SlotResults
  <2>5. object = Object("event", e, 1)
    BY <2>3, <2>4 DEF Names, Acc
  <2> QED
    BY <2>3, <2>4, <2>5
<1>4. ASSUME c.kind \in {"revision", "correct"}
      PROVE  /\ App(k) # NoSlot /\ object = App(k).result
             /\ \E e, r \in Nat : object = Object("revision", e, r)
                                  /\ Names("append", k, "revision", e, r)
  <2>1. "append_revision" \in StoreOps /\ "append_revision" = StoreOp(c)
    BY <1>4 DEF StoreOps, StoreOp
  <2>2. /\ OperationAgrees("append_revision", k) /\ Committed("append_revision", k)
        /\ operation[<<"append_revision", k>>] # NoOperation
        /\ operation[<<"append_revision", k>>].object = object
    BY <1>2, <1>4, <2>1
  <2>3. App(k) # NoSlot /\ object = App(k).result
    BY <2>2 DEF OperationAgrees
  <2>4. PICK e \in Nat, r \in Nat : Names("append", k, "revision", e, r)
    BY <1>1, <2>3, SlotResults
  <2>5. object = Object("revision", e, r)
    BY <2>3, <2>4 DEF Names, App
  <2> QED
    BY <2>3, <2>4, <2>5
<1> QED
  BY <1>3, <1>4

\* Agents know of events that are there.
LEMMA KnownIsThere ==
  ASSUME IInv, NEW c \in Calls, Knows(c.target)
  PROVE  AboutEvent(c)
<1>1. HostIsSound /\ CoreIsSound /\ RecordsAgree
  BY DEF IInv, AgentsAreSound, HostIsSound
<1>2. SUFFICES ASSUME c.target # 0 PROVE c.target \in DOMAIN event
  BY DEF AboutEvent
<1>3. PICK k \in Keys : \E o \in told[k] : o.type = "event" /\ o.id = c.target
  BY <1>2 DEF Knows
<1>4. PICK o \in told[k] : o.type = "event" /\ o.id = c.target
  BY <1>3
<1>5. PICK d \in Calls, object \in Objects : Recalls(k, d, object)
  BY <1>1, <1>4 DEF RecordsAgree, RecordAgrees
<1>6. o = object /\ d.key = k /\ Held(d, object)
  BY <1>4, <1>5 DEF Recalls
<1>7. d.kind \in {"event", "revision", "correct"}
  BY <1>4, <1>6, CallType DEF Held
<1>8. CASE d.kind = "event"
  <2>1. PICK e \in Nat : object = Object("event", e, 1) /\ Names("accept", k, "event", e, 1)
    BY <1>1, <1>6, <1>8, HeldObject
  <2>2. e \in DOMAIN event
    BY <1>1, <2>1, FirstSource
  <2> QED
    BY <1>4, <1>6, <2>1, <2>2 DEF Object
<1>9. CASE d.kind \in {"revision", "correct"}
  <2>1. \E e, r \in Nat : object = Object("revision", e, r)
    BY <1>1, <1>6, <1>9, HeldObject
  <2> QED
    BY <1>4, <1>6, <2>1 DEF Object
<1> QED
  BY <1>7, <1>8, <1>9

\* A request that is on its way.
LEMMA RequestBegins ==
  ASSUME NEW op \in Ops, NEW k \in Keys, NEW text \in Texts, NEW e \in Nat, NEW r \in Nat,
         NEW object \in Objects, work' = Request(op, k, text, e, r, object),
         op = "undo_event" => Names("accept", k, "event", e, r)',
         op = "undo_revision" => Names("append", k, "revision", e, r)',
         op = "enqueue_delivery" => \E n \in Nat : n = Len(job') + 1 /\ IsFor(object, k, n)'
  PROVE  Serves(op, k, e)'
<1>1. work' = [at |-> "begin", op |-> op, key |-> k, text |-> text, event |-> e,
               revision |-> r, object |-> object, source |-> 0]
  BY DEF Request
<1>2. /\ work' \in RequestType /\ work'.at = "begin" /\ work'.op = op /\ work'.key = k
      /\ work'.event = e /\ work'.revision = r /\ work'.object = object
  BY <1>1 DEF RequestType, Steps
<1>3. Asks(op, k, e, r)' /\ RequestAgrees(op, k, e, r)'
  BY <1>2 DEF Asks, RequestAgrees
<1> QED
  BY <1>2, <1>3 DEF Serves

\* The server has sent a request, and waits.
LEMMA CallGoesOn ==
  ASSUME IInv, UNCHANGED <<coreVars, controlVars, host, controlFile, told, mcp, faults>>,
         host = "up", mcp = "up", NEW at \in {"store", "delivery", "undo"}, NEW c \in Calls,
         NEW object \in Objects, call' = InProgress(c, at, object), NEW e \in Nat,
         Serves(Asked(at, c), c.key, e)',
         at = "store" /\ c.kind = "block" => e = c.target,
         AboutEvent(c), at # "undo" => record[c.key] = NoRecord,
         at = "store" =>
           c.kind # "note" /\ \E n \in Nat : n = Len(job) + 1 /\ object = Object("feedback", n, 0),
         at = "delivery" => Held(c, object),
         at = "undo" => IsCapture(c) /\ \E o \in Objects : record[c.key] = [call |-> c, object |-> o]
  PROVE  IInv'
<1>1. HostIsSound /\ AgentTyped /\ RecordsAgree /\ PackAgrees /\ CoreIsSound
  BY DEF IInv, AgentsAreSound, HostIsSound
<1>2. UNCHANGED <<grant, pack, record, undo>> /\ UNCHANGED <<event, job>>
  BY DEF controlFile, coreVars
<1>3. WorkAgrees'
  <2>1. c.key \in Keys /\ Asked(at, c) \in Ops
    BY CallType DEF Asked, Ops, StoreOps
  <2> QED
    BY <2>1 DEF WorkAgrees
<1>4. HostIsSound' /\ StoreGoesOn
  BY <1>1, <1>3, HostStays
<1>5. AgentTyped' /\ PackAgrees'
  BY <1>1, <1>2 DEF AgentTyped, PackAgrees
<1>6. RecordsAgree'
  <2>1. \A k \in Keys : RecordAgrees(k)
    BY <1>1 DEF RecordsAgree
  <2>2. \A k \in Keys : RecordAgrees(k)'
    BY <1>1, <1>2, <1>4, <2>1, RecordsStay
  <2> QED
    BY <2>2 DEF RecordsAgree
<1>7. Waits(at, c, object)'
  <2>1. AboutEvent(c)'
    BY <1>2 DEF AboutEvent
  <2>2. at = "delivery" => Held(c, object)'
    BY <1>1, <1>4, HeldStays
  <2>3. call' = InProgress(c, at, object) /\ mcp' = "up"
    OBVIOUS
  <2>4. at = "store" => c.kind # "note" /\ \E n \in Nat : n = Len(job') + 1
                                                       /\ object = Object("feedback", n, 0)
    BY <1>2
  <2>5. /\ at # "undo" => record'[c.key] = NoRecord
        /\ at = "undo" => IsCapture(c) /\ \E o \in Objects : record'[c.key] = [call |-> c, object |-> o]
    BY <1>2
  <2> QED
    BY <2>1, <2>2, <2>3, <2>4, <2>5 DEF Waits
<1>8. CallAgrees'
  BY <1>7 DEF CallAgrees
<1> QED
  BY <1>4, <1>5, <1>6, <1>8 DEF IInv, AgentsAreSound

\* The id of the next feedback record.
LEMMA NextFeedback ==
  ASSUME HostIsSound
  PROVE  \E n \in Nat : n = Len(job) + 1 /\ Feedback = Object("feedback", n, 0)
                        /\ Feedback \in Objects
  BY DEF HostIsSound, CoreIsSound, CoreTyped, Feedback, Object, Objects

\* capture and feedback.
LEMMA CallBegins ==
  ASSUME IInv, NEW c \in Calls, Begin(c)
  PROVE  IInv'
<1>1. /\ host = "up" /\ mcp = "up" /\ record[c.key] = NoRecord /\ Knows(c.target)
      /\ c.kind # "note" /\ work' = StoreRequest(c) /\ call' = InProgress(c, "store", Feedback)
      /\ UNCHANGED <<coreVars, controlVars, host, controlFile, told, mcp, faults>>
  BY DEF Begin, Ready, Free, IsNew, Send
<1>2. HostIsSound /\ AboutEvent(c)
  BY <1>1, KnownIsThere DEF IInv
<1>3. PICK n \in Nat : n = Len(job) + 1 /\ Feedback = Object("feedback", n, 0)
                       /\ Feedback \in Objects
  BY <1>2, NextFeedback
<1>4. PICK object \in Objects : object = Feedback
  BY <1>3
<1>5. PICK op \in Ops, k \in Keys, text \in Texts, target \in Nat :
        op = StoreOp(c) /\ k = c.key /\ text = c.text /\ target = c.target
  BY CallType
<1>6. PICK e \in Nat : /\ c.kind = "block" => e = c.target
                       /\ work' = Request(op, k, text, e, 0, NoObject)
  BY <1>1, <1>5, CallType DEF StoreRequest, StoreOp
<1>7. op \notin {"undo_event", "undo_revision", "enqueue_delivery"} /\ 0 \in Nat
  BY <1>5 DEF StoreOp
<1>8. Serves(op, k, e)'
  BY <1>6, <1>7, NoObjectType, RequestBegins
<1>9. Serves(Asked("store", c), c.key, e)'
  BY <1>5, <1>8 DEF Asked
<1> QED
  BY <1>1, <1>2, <1>3, <1>4, <1>6, <1>9, CallGoesOn

\* feedback that is only delivered.
LEMMA NoteBegins ==
  ASSUME IInv, NEW c \in Calls, BeginNote(c)
  PROVE  IInv'
<1>1. /\ host = "up" /\ mcp = "up" /\ record[c.key] = NoRecord /\ Knows(c.target)
      /\ c.kind = "note" /\ work' = Delivery(c, Feedback)
      /\ call' = InProgress(c, "delivery", Feedback)
      /\ UNCHANGED <<coreVars, controlVars, host, controlFile, told, mcp, faults>>
  BY DEF BeginNote, Ready, Free, IsNew, Send
<1>2. HostIsSound /\ AboutEvent(c)
  BY <1>1, KnownIsThere DEF IInv
<1>3. PICK n \in Nat : n = Len(job) + 1 /\ Feedback = Object("feedback", n, 0)
                       /\ Feedback \in Objects
  BY <1>2, NextFeedback
<1>4. PICK object \in Objects : object = Feedback
  BY <1>3
<1>5. PICK k \in Keys, text \in Texts : k = c.key /\ text = c.text
  BY CallType
<1>6. work' = Request("enqueue_delivery", k, text, 0, 0, object)
  BY <1>1, <1>4, <1>5 DEF Delivery
<1>7. IsFor(object, k, n)' /\ n = Len(job') + 1
  BY <1>1, <1>3, <1>4 DEF IsFor, coreVars
<1>8. Serves("enqueue_delivery", k, 0)'
  BY <1>6, <1>7, RequestBegins DEF Ops
<1>9. Serves(Asked("delivery", c), c.key, 0)'
  BY <1>5, <1>8 DEF Asked
<1>10. Held(c, object)
  BY <1>1, <1>2, <1>3, <1>4 DEF Held, Object
<1> QED
  BY <1>1, <1>2, <1>4, <1>9, <1>10, CallGoesOn

\* An undo of a capture goes to what its record names.
LEMMA UndoBegins ==
  ASSUME IInv, NEW c \in Calls, BeginUndo(c)
  PROVE  IInv'
<1>1. /\ host = "up" /\ mcp = "up" /\ IsCapture(c)
      /\ record[c.key] # NoRecord /\ record[c.key].call = c
      /\ work' = Request(IF c.kind = "event" THEN "undo_event" ELSE "undo_revision", c.key, c.text,
                         record[c.key].object.id, record[c.key].object.revision, NoObject)
      /\ call' = InProgress(c, "undo", record[c.key].object)
      /\ UNCHANGED <<coreVars, controlVars, host, controlFile, told, mcp, faults>>
  BY DEF BeginUndo, Ready, Free, Send
<1>2. HostIsSound /\ RecordsAgree
  BY DEF IInv, AgentsAreSound
<1>3. PICK k \in Keys, text \in Texts : k = c.key /\ text = c.text
  BY CallType
<1>4. PICK d \in Calls, object \in Objects : Recalls(k, d, object)
  BY <1>1, <1>2, <1>3 DEF RecordsAgree, RecordAgrees
<1>5. d = c /\ record[c.key] = [call |-> c, object |-> object] /\ record[c.key].object = object
      /\ Held(c, object)
  BY <1>1, <1>3, <1>4 DEF Recalls
<1>6. AboutEvent(c) /\ call' = InProgress(c, "undo", object)
  BY <1>1, <1>5 DEF Held
<1>7. CASE c.kind = "event"
  <2>1. PICK e \in Nat : object = Object("event", e, 1) /\ Names("accept", k, "event", e, 1)
    BY <1>2, <1>3, <1>5, <1>7, HeldObject
  <2>2. work' = Request("undo_event", k, text, e, 1, NoObject)
    BY <1>1, <1>3, <1>5, <1>7, <2>1 DEF Object
  <2>3. Names("accept", k, "event", e, 1)'
    BY <1>1, <2>1 DEF Names, coreVars
  <2>4. Serves("undo_event", k, e)'
    BY <2>2, <2>3, NoObjectType, RequestBegins DEF Ops, StoreOps
  <2>5. Serves(Asked("undo", c), c.key, e)'
    BY <1>3, <1>7, <2>4 DEF Asked
  <2> QED
    BY <1>1, <1>5, <1>6, <2>5, CallGoesOn
<1>8. CASE c.kind = "revision"
  <2>1. PICK e \in Nat, r \in Nat :
          object = Object("revision", e, r) /\ Names("append", k, "revision", e, r)
    BY <1>2, <1>3, <1>5, <1>8, HeldObject
  <2>2. work' = Request("undo_revision", k, text, e, r, NoObject)
    BY <1>1, <1>3, <1>5, <1>8, <2>1 DEF Object
  <2>3. Names("append", k, "revision", e, r)'
    BY <1>1, <2>1 DEF Names, coreVars
  <2>4. Serves("undo_revision", k, e)'
    BY <2>2, <2>3, NoObjectType, RequestBegins DEF Ops, StoreOps
  <2>5. Serves(Asked("undo", c), c.key, e)'
    BY <1>3, <1>8, <2>4 DEF Asked
  <2> QED
    BY <1>1, <1>5, <1>6, <2>5, CallGoesOn
<1> QED
  BY <1>1, <1>7, <1>8 DEF IsCapture

\* The call has ended, or is forgotten.
LEMMA CallEnds ==
  ASSUME IInv, HostIsSound', call' = NoCall, AgentTyped', PackAgrees', RecordsAgree'
  PROVE  IInv'
  BY DEF IInv, AgentsAreSound, CallAgrees

\* It ends with the control file as it was.
LEMMA CallDropped ==
  ASSUME IInv, HostIsSound', StoreGoesOn, call' = NoCall, UNCHANGED <<controlFile, told>>,
         mcp' \in {"up", "down"}, faults' \in 0..MaxFaults
  PROVE  IInv'
<1>1. UNCHANGED <<grant, pack, record, undo, told>>
  BY DEF controlFile
<1>2. AgentTyped /\ PackAgrees /\ RecordsAgree /\ CoreIsSound
  BY DEF IInv, AgentsAreSound, HostIsSound
<1>3. AgentTyped' /\ PackAgrees'
  BY <1>1, <1>2 DEF AgentTyped, PackAgrees
<1>4. RecordsAgree'
  <2>1. \A k \in Keys : RecordAgrees(k)
    BY <1>2 DEF RecordsAgree
  <2>2. \A k \in Keys : RecordAgrees(k)'
    BY <1>1, <1>2, <2>1, RecordsStay
  <2> QED
    BY <2>2 DEF RecordsAgree
<1> QED
  BY <1>3, <1>4, CallEnds

\* The host has nothing to do.
LEMMA HostIdles ==
  ASSUME HostIsSound, UNCHANGED <<coreVars, controlVars>>, host' \in {"up", "down"}, work' = NoWork
  PROVE  HostIsSound' /\ StoreGoesOn
<1>1. WorkAgrees'
  BY DEF WorkAgrees
<1> QED
  BY <1>1, HostStays

\* The end of a call, by the record that one save writes.
LEMMA CallFinishes ==
  ASSUME IInv, NEW c \in Calls, NEW object \in Objects, record[c.key] = NoRecord,
         Held(c, object), c.offline => Achieved("enqueue_delivery", c.key, 0, object),
         Finish(c, object), Listen, UNCHANGED <<coreVars, controlVars, host>>
  PROVE  IInv'
<1>1. HostIsSound /\ AgentTyped /\ PackAgrees /\ RecordsAgree /\ CoreIsSound
      /\ host' \in {"up", "down"}
  BY DEF IInv, AgentsAreSound, HostIsSound, ControlTyped
<1>2. HostIsSound' /\ StoreGoesOn
  BY <1>1, HostIdles DEF Listen
<1>3. PICK k \in Keys : k = c.key
  BY CallType
<1>4. record[k] = NoRecord /\ told[k] = {} /\ undo[k] = "none"
  <2>1. RecordAgrees(k) /\ record[k] = NoRecord
    BY <1>1, <1>3 DEF RecordsAgree
  <2>2. \A d, o : [call |-> d, object |-> o] # NoRecord
    <3>1. \A d, o : DOMAIN [call |-> d, object |-> o] = {"call", "object"}
      OBVIOUS
    <3>2. DOMAIN NoRecord = {"known"}
      BY DEF NoRecord
    <3> QED
      BY <3>1, <3>2
  <2> QED
    BY <2>1, <2>2 DEF RecordAgrees, Recalls
<1>5. PICK kept : kept = [call |-> c, object |-> object]
  OBVIOUS
<1>6. kept \in Kept
  BY <1>5 DEF Kept
<1>7. /\ record' = [record EXCEPT ![k] = kept]
      /\ \/ undo' = [undo EXCEPT ![k] = "open"]
         \/ undo' = undo
      /\ \/ told' = [told EXCEPT ![k] = told[k] \cup {object}] /\ UNCHANGED <<mcp, faults>>
         \/ faults < MaxFaults /\ faults' = faults + 1 /\ mcp' = "down" /\ UNCHANGED told
      /\ call' = NoCall /\ UNCHANGED <<grant, pack>>
  BY <1>1, <1>3, <1>5 DEF Finish, Told, AgentTyped
<1>8. /\ record' \in [Keys -> {NoRecord} \cup Kept] /\ record'[k] = kept
      /\ undo' \in [Keys -> UndoStates] /\ undo'[k] # "used"
      /\ told' \in [Keys -> SUBSET Objects] /\ told'[k] \subseteq {object}
      /\ \A j \in Keys \ {k} : record'[j] = record[j] /\ undo'[j] = undo[j] /\ told'[j] = told[j]
  BY <1>1, <1>4, <1>6, <1>7 DEF AgentTyped, UndoStates
<1>9. mcp' \in {"up", "down"} /\ faults' \in 0..MaxFaults
  BY <1>1, <1>7, FaultsAssumption DEF AgentTyped
<1>10. AgentTyped' /\ PackAgrees'
  BY <1>1, <1>7, <1>8, <1>9 DEF AgentTyped, PackAgrees
<1>11. RecordAgrees(k)'
  <2>1. Held(c, object)'
    BY <1>1, <1>2, HeldStays
  <2>2. Achieved("enqueue_delivery", k, 0, object) => Achieved("enqueue_delivery", k, 0, object)'
    BY <1>1, <1>2, AchievedStays DEF Ops
  <2>3. Recalls(k, c, object)'
    BY <1>3, <1>5, <1>8, <2>1, <2>2 DEF Recalls
  <2> QED
    BY <2>3 DEF RecordAgrees
<1>12. RecordsAgree'
  <2>1. \A j \in Keys \ {k} : RecordAgrees(j)
    BY <1>1 DEF RecordsAgree
  <2>2. \A j \in Keys \ {k} : RecordAgrees(j)'
    BY <1>1, <1>2, <1>8, <2>1, RecordsStay
  <2> QED
    BY <1>11, <2>2 DEF RecordsAgree
<1> QED
  BY <1>2, <1>7, <1>10, <1>12, CallEnds

\* What the server knows that hears the answer "ok".
LEMMA AnswerIsHeard ==
  ASSUME IInv, NEW at \in {"store", "delivery", "undo"}, Answered(at), work.code = "ok"
  PROVE  \E c \in Calls, object \in Objects, answer \in Objects, e \in Nat :
           /\ Waits(at, c, object) /\ call.call = c /\ call.object = object
           /\ answer = work.object /\ Achieved(Asked(at, c), c.key, e, answer)
           /\ at = "store" /\ c.kind = "block" => e = c.target
<1>1. call # NoCall /\ call.at = at /\ work.at = "reply"
  BY DEF Answered
<1>2. PICK to \in {"store", "delivery", "undo"}, c \in Calls, object \in Objects :
        Waits(to, c, object)
  BY <1>1 DEF IInv, AgentsAreSound, CallAgrees
<1>3. to = at /\ call.call = c /\ call.object = object
  BY <1>1, <1>2 DEF Waits, InProgress
<1>4. PICK e \in Nat : /\ Serves(Asked(at, c), c.key, e)
                       /\ at = "store" /\ c.kind = "block" => e = c.target
  BY <1>2, <1>3 DEF Waits
<1>5. PICK op, k : op = Asked(at, c) /\ k = c.key
  OBVIOUS
<1>6. Serves(op, k, e)
  BY <1>4, <1>5
<1>7. work \in ReplyType
  BY <1>1, <1>6, AtWork
<1>8. work \notin RequestType
  BY <1>1 DEF RequestType, Steps
<1>9. PICK answer : answer = work.object /\ Achieved(op, k, e, answer)
  BY <1>6, <1>7, <1>8 DEF Serves
<1>10. answer \in Objects
  BY <1>7, <1>9 DEF ReplyType
<1> QED
  BY <1>2, <1>3, <1>4, <1>5, <1>9, <1>10

\* What the store was asked for, it has done.
LEMMA StoreHasDone ==
  ASSUME NEW c \in Calls, NEW object \in Objects, NEW answer \in Objects, NEW e \in Nat,
         Waits("store", c, object), Achieved(StoreOp(c), c.key, e, answer),
         c.kind = "block" => e = c.target,
         NEW result, result = IF c.kind \in {"block", "note"} THEN object ELSE answer
  PROVE  Held(c, result)
<1>1. AboutEvent(c) /\ c.kind # "note" /\ object.type = "feedback"
  BY DEF Waits, Object
<1>2. CASE c.kind = "block"
  <2>1. StoreOp(c) = "set_policy_blocked" /\ result = object /\ e = c.target
    BY <1>2 DEF StoreOp
  <2> QED
    BY <1>1, <2>1 DEF Held, Achieved
<1>3. CASE c.kind # "block"
  <2>1. StoreOp(c) \in {"create_event", "append_revision"} /\ result = answer
    BY <1>1, <1>3 DEF StoreOp
  <2> QED
    BY <1>1, <1>3, <2>1 DEF Held, Achieved
<1> QED
  BY <1>2, <1>3

\* The store has answered.
LEMMA StoredIsSound ==
  ASSUME IInv, Stored
  PROVE  IInv'
<1>1. Answered("store") /\ work.code = "ok" /\ UNCHANGED <<coreVars, controlVars, host>>
  BY DEF Stored
<1>2. PICK c \in Calls, object \in Objects, answer \in Objects, e \in Nat :
        /\ Waits("store", c, object) /\ call.call = c /\ call.object = object
        /\ answer = work.object /\ Achieved(Asked("store", c), c.key, e, answer)
        /\ c.kind = "block" => e = c.target
  BY <1>1, AnswerIsHeard
<1>3. /\ Achieved(StoreOp(c), c.key, e, answer) /\ record[c.key] = NoRecord /\ mcp = "up"
      /\ AboutEvent(c) /\ c.kind # "note"
      /\ \E n \in Nat : n = Len(job) + 1 /\ object = Object("feedback", n, 0)
  BY <1>2 DEF Asked, Waits
<1>4. PICK result \in Objects : result = IF c.kind \in {"block", "note"} THEN object ELSE answer
  OBVIOUS
<1>5. Held(c, result) /\ result = Result(c)
  BY <1>2, <1>3, <1>4, StoreHasDone DEF Result
<1>6. CASE ~NeedsDelivery(c)
  <2>1. Listen /\ Finish(c, result)
    BY <1>2, <1>5, <1>6 DEF Stored
  <2>2. ~c.offline
    BY <1>6 DEF NeedsDelivery
  <2> QED
    BY <1>1, <1>3, <1>5, <2>1, <2>2, CallFinishes
<1>7. CASE NeedsDelivery(c)
  <2>1. /\ work' = Delivery(c, Delivered(c)) /\ call' = InProgress(c, "delivery", result)
        /\ UNCHANGED <<controlFile, told, mcp, faults>>
    BY <1>2, <1>5, <1>7 DEF Stored, Send
  <2>2. PICK delivered \in Objects : delivered = IF IsCapture(c) THEN answer ELSE object
    OBVIOUS
  <2>3. PICK k \in Keys, text \in Texts : k = c.key /\ text = c.text
    BY CallType
  <2>4. work' = Request("enqueue_delivery", k, text, 0, 0, delivered)
    BY <1>2, <2>1, <2>2, <2>3 DEF Delivery, Delivered
  <2>5. PICK n \in Nat : n = Len(job) + 1 /\ object = Object("feedback", n, 0)
    BY <1>3
  <2>6. IsFor(delivered, k, n)
    <3>1. CASE c.kind = "event"
      <4>1. delivered = result
        BY <1>4, <2>2, <3>1 DEF IsCapture
      <4>2. Acc(k) # NoSlot /\ result = Acc(k).result
            /\ \E f \in Nat : result = Object("event", f, 1)
        BY <1>5, <2>3, <3>1, HeldObject DEF IInv
      <4> QED
        BY <4>1, <4>2 DEF IsFor, Object
    <3>2. CASE c.kind = "revision"
      <4>1. delivered = result
        BY <1>4, <2>2, <3>2 DEF IsCapture
      <4>2. App(k) # NoSlot /\ result = App(k).result
            /\ \E f, r \in Nat : result = Object("revision", f, r)
        BY <1>5, <2>3, <3>2, HeldObject DEF IInv
      <4> QED
        BY <4>1, <4>2 DEF IsFor, Object
    <3>3. CASE ~IsCapture(c)
      BY <2>2, <2>5, <3>3 DEF IsFor
    <3> QED
      BY <3>1, <3>2, <3>3 DEF IsCapture
  <2>7. IsFor(delivered, k, n)' /\ n = Len(job') + 1
    BY <1>1, <2>5, <2>6 DEF IsFor, Acc, App, coreVars
  <2>8. Serves("enqueue_delivery", k, 0)'
    BY <2>4, <2>7, RequestBegins DEF Ops
  <2>9. Serves(Asked("delivery", c), c.key, 0)'
    BY <2>3, <2>8 DEF Asked
  <2>10. host = "up"
    <3>1. work # NoWork
      BY <1>1 DEF Answered, NoWork
    <3> QED
      BY <3>1 DEF IInv, HostIsSound, ControlTyped
  <2> QED
    BY <1>1, <1>3, <1>5, <2>1, <2>9, <2>10, CallGoesOn
<1> QED
  BY <1>6, <1>7

\* The delivery is queued.
LEMMA QueuedIsSound ==
  ASSUME IInv, Queued
  PROVE  IInv'
<1>1. Answered("delivery") /\ work.code = "ok" /\ Listen /\ UNCHANGED <<coreVars, controlVars, host>>
      /\ Finish(call.call, call.object)
  BY DEF Queued
<1>2. PICK c \in Calls, object \in Objects, answer \in Objects, e \in Nat :
        /\ Waits("delivery", c, object) /\ call.call = c /\ call.object = object
        /\ Achieved(Asked("delivery", c), c.key, e, answer)
  BY <1>1, AnswerIsHeard
<1>3. Achieved("enqueue_delivery", c.key, 0, object)
  BY <1>2 DEF Asked, Achieved
<1>4. record[c.key] = NoRecord /\ Held(c, object)
  BY <1>2 DEF Waits
<1>5. Finish(c, object)
  BY <1>1, <1>2
<1> QED
  BY <1>1, <1>3, <1>4, <1>5, CallFinishes

\* The undo is done, and its token used.
LEMMA UndoneIsSound ==
  ASSUME IInv, Undone
  PROVE  IInv'
<1>1. /\ Answered("undo") /\ work.code = "ok" /\ work' = NoWork
      /\ undo' = [undo EXCEPT ![call.call.key] = "used"] /\ call' = NoCall
      /\ UNCHANGED <<coreVars, controlVars, host, grant, pack, record, told, mcp, faults>>
  BY DEF Undone, Listen
<1>2. HostIsSound /\ AgentTyped /\ PackAgrees /\ RecordsAgree /\ CoreIsSound
      /\ host' \in {"up", "down"}
  BY <1>1 DEF IInv, AgentsAreSound, HostIsSound, ControlTyped
<1>3. HostIsSound' /\ StoreGoesOn
  BY <1>1, <1>2, HostIdles
<1>4. PICK c \in Calls, object \in Objects, answer \in Objects, e \in Nat :
        /\ Waits("undo", c, object) /\ call.call = c
        /\ Achieved(Asked("undo", c), c.key, e, answer)
  BY <1>1, AnswerIsHeard
<1>5. PICK k \in Keys : k = c.key
  BY CallType
<1>6. c.kind = "event" => Committed("undo_event", k)
  BY <1>4, <1>5 DEF Asked, Achieved
<1>7. \E o \in Objects : record[k] = [call |-> c, object |-> o]
  BY <1>4, <1>5 DEF Waits
<1>8. record[k] # NoRecord /\ record[k].call = c
  <2>1. \A o : DOMAIN [call |-> c, object |-> o] = {"call", "object"}
    OBVIOUS
  <2>2. DOMAIN NoRecord = {"known"}
    BY DEF NoRecord
  <2> QED
    BY <1>7, <2>1, <2>2
<1>9. PICK d \in Calls, o \in Objects : Recalls(k, d, o)
  BY <1>2, <1>8 DEF RecordsAgree, RecordAgrees
<1>10. d = c /\ told[k] \subseteq {o}
  BY <1>8, <1>9 DEF Recalls
<1>11. /\ undo' \in [Keys -> UndoStates]
       /\ \A j \in Keys \ {k} : undo'[j] = undo[j]
  BY <1>1, <1>2, <1>4, <1>5 DEF AgentTyped, UndoStates
<1>12. AgentTyped' /\ PackAgrees'
  BY <1>1, <1>2, <1>11 DEF AgentTyped, PackAgrees
<1>13. RecordAgrees(k)'
  <2>1. record'[k] = record[k] /\ told'[k] \subseteq {o}
    BY <1>1, <1>10
  <2>2. undo'[k] = "used" /\ d.kind = "event" => undo[k] = "used" \/ Committed("undo_event", k)
    BY <1>6, <1>10
  <2> QED
    BY <1>2, <1>3, <1>9, <2>1, <2>2, RecallsOn
<1>14. RecordsAgree'
  <2>1. \A j \in Keys \ {k} : RecordAgrees(j)
    BY <1>2 DEF RecordsAgree
  <2>2. \A j \in Keys \ {k} : RecordAgrees(j)'
    BY <1>1, <1>2, <1>3, <1>11, <2>1, RecordsStay
  <2> QED
    BY <1>13, <2>2 DEF RecordsAgree
<1> QED
  BY <1>1, <1>3, <1>12, <1>14, CallEnds

-----------------------------------------------------------------------------
(* Faults, and the steps of the host.                                      *)

\* The number of faults.
LEMMA FaultType ==
  ASSUME IInv
  PROVE  /\ faults \in 0..MaxFaults /\ mcp \in {"up", "down"} /\ host \in {"up", "down"}
         /\ Fault => faults' \in 0..MaxFaults
  BY FaultsAssumption DEF IInv, AgentsAreSound, AgentTyped, HostIsSound, ControlTyped, Fault

\* A call ends without its answer: refused, or with the process that ran it.
LEMMA CallsDropped ==
  ASSUME IInv, Refused \/ HostStops \/ McpStops \/ OrphanEnds \/ Restart
  PROVE  IInv'
<1>1. HostIsSound /\ faults \in 0..MaxFaults /\ mcp \in {"up", "down"} /\ host \in {"up", "down"}
      /\ (Fault => faults' \in 0..MaxFaults)
  BY FaultType DEF IInv
<1>2. CASE Refused
  <2>1. /\ UNCHANGED <<coreVars, controlVars, host>> /\ work' = NoWork /\ call' = NoCall
        /\ UNCHANGED <<controlFile, told, mcp, faults>>
    BY <1>2 DEF Refused, Listen
  <2>2. HostIsSound' /\ StoreGoesOn
    BY <1>1, <2>1, HostIdles
  <2> QED
    BY <1>1, <2>1, <2>2, CallDropped
<1>3. CASE HostStops
  <2>1. /\ UNCHANGED <<coreVars, controlVars>> /\ work' = NoWork /\ call' = NoCall
        /\ host' = "down" /\ UNCHANGED <<controlFile, told, mcp>> /\ Fault
    BY <1>3 DEF HostStops
  <2>2. HostIsSound' /\ StoreGoesOn
    BY <1>1, <2>1, HostIdles
  <2> QED
    BY <1>1, <2>1, <2>2, CallDropped
<1>4. CASE McpStops
  <2>1. /\ UNCHANGED <<hostVars, controlFile, told>> /\ call' = NoCall /\ mcp' = "down" /\ Fault
    BY <1>4 DEF McpStops
  <2>2. HostIsSound' /\ StoreGoesOn
    BY <1>1, <2>1, HostUnmoved
  <2> QED
    BY <1>1, <2>1, <2>2, CallDropped
<1>5. CASE OrphanEnds
  <2>1. /\ UNCHANGED <<coreVars, controlVars>> /\ work' = NoWork /\ host' = "down"
        /\ UNCHANGED <<controlFile, told, mcp, call, faults>> /\ mcp = "down"
    BY <1>5 DEF OrphanEnds, agentVars
  <2>2. HostIsSound' /\ StoreGoesOn
    BY <1>1, <2>1, HostIdles
  <2>3. call = NoCall
    BY <2>1 DEF IInv, AgentsAreSound, CallAgrees, Waits
  <2> QED
    BY <1>1, <2>1, <2>2, <2>3, CallDropped
<1>6. CASE Restart
  <2>1. /\ UNCHANGED <<coreVars, controlVars, work>> /\ call' = NoCall /\ host = "down"
        /\ host' = "up" /\ mcp' = "up" /\ UNCHANGED <<controlFile, told, faults>>
    BY <1>6 DEF Restart
  <2>2. work' = NoWork
    BY <1>1, <2>1 DEF HostIsSound
  <2>3. HostIsSound' /\ StoreGoesOn
    BY <1>1, <2>1, <2>2, HostIdles
  <2> QED
    BY <1>1, <2>1, <2>3, CallDropped
<1> QED
  BY <1>2, <1>3, <1>4, <1>5, <1>6

\* The host goes on with its request, whether or not anyone waits for it.
LEMMA HostMoves ==
  ASSUME IInv, HostStep \/ CoreBusy, UNCHANGED <<controlFile, told, mcp, call>>,
         faults' \in 0..MaxFaults
  PROVE  IInv'
<1>1. UNCHANGED <<grant, pack, record, undo, told, mcp, call>>
  BY DEF controlFile
<1>2. HostIsSound /\ AgentTyped /\ PackAgrees /\ RecordsAgree /\ CoreIsSound /\ CallAgrees
  BY DEF IInv, AgentsAreSound, HostIsSound
<1>3. work # NoWork
  BY DEF HostStep, BeginOperation, CaptureSource, CreateObservation, AcceptEvent, AppendRevision,
         DeleteSource, UndoRevision, CompleteOperation, EnqueueJob, ListDelivery, BlockEvent,
         CoreBusy, NoWork
<1>4. \A op \in Ops, k \in Keys, e \in Nat : Serves(op, k, e) => GoesOn(op, k, e) /\ HostIsSound'
  BY <1>2, HostGoesOn
<1>5. PICK op \in Ops, k \in Keys, e \in Nat : Serves(op, k, e)
  BY <1>2, <1>3 DEF HostIsSound, WorkAgrees
<1>6. HostIsSound' /\ StoreGoesOn
  BY <1>4, <1>5 DEF GoesOn
<1>7. AgentTyped' /\ PackAgrees'
  BY <1>1, <1>2 DEF AgentTyped, PackAgrees
<1>8. RecordsAgree'
  <2>1. \A j \in Keys : RecordAgrees(j)
    BY <1>2 DEF RecordsAgree
  <2>2. \A j \in Keys : RecordAgrees(j)'
    BY <1>1, <1>2, <1>6, <2>1, RecordsStay
  <2> QED
    BY <2>2 DEF RecordsAgree
<1>9. CallAgrees'
  <2>1. CASE call = NoCall
    BY <1>1, <2>1 DEF CallAgrees
  <2>2. ASSUME NEW at \in {"store", "delivery", "undo"}, NEW c \in Calls, NEW object \in Objects,
               Waits(at, c, object)
        PROVE  CallAgrees'
    <3>1. PICK p \in Ops, j \in Keys : p = Asked(at, c) /\ j = c.key
      BY CallType DEF Asked, Ops, StoreOps
    <3>2. \A f \in Nat : Serves(p, j, f) => Serves(p, j, f)'
      BY <1>4 DEF GoesOn
    <3>3. \A f \in Nat : Serves(Asked(at, c), c.key, f) => Serves(Asked(at, c), c.key, f)'
      BY <3>1, <3>2
    <3>4. at = "store" => job' = job
      <4>1. PICK f \in Nat : Serves(p, j, f)
        BY <2>2, <3>1 DEF Waits
      <4>2. at = "store" => p # "enqueue_delivery"
        BY <3>1 DEF Asked, StoreOp
      <4> QED
        BY <1>4, <4>1, <4>2 DEF GoesOn
    <3>5. Waits(at, c, object)'
      BY <1>1, <1>2, <1>6, <2>2, <3>3, <3>4, WaitsOn
    <3> QED
      BY <3>5 DEF CallAgrees
  <2> QED
    BY <1>2, <2>1, <2>2 DEF CallAgrees
<1> QED
  BY <1>6, <1>7, <1>8, <1>9 DEF IInv, AgentsAreSound

-----------------------------------------------------------------------------
(* The invariant.                                                          *)

\* It holds when nothing has happened yet.
LEMMA InitIsSound ==
  ASSUME Init
  PROVE  IInv
<1>1. HostIsSound
  BY HostStarts DEF Init
<1>2. /\ grant = [g \in Grants |-> "none"] /\ pack = NoPack
      /\ record = [k \in Keys |-> NoRecord] /\ undo = [k \in Keys |-> "none"]
      /\ told = [k \in Keys |-> {}] /\ mcp = "up" /\ call = NoCall /\ faults = 0
  BY DEF Init
<1>3. AgentTyped
  BY <1>2, FaultsAssumption DEF AgentTyped, GrantStates, UndoStates
<1>4. CallAgrees /\ PackAgrees
  BY <1>2 DEF CallAgrees, PackAgrees
<1>5. RecordsAgree
  BY <1>2 DEF RecordsAgree, RecordAgrees
<1> QED
  BY <1>1, <1>3, <1>4, <1>5 DEF IInv, AgentsAreSound

\* It holds when nothing happens.
LEMMA StutterIsSound ==
  ASSUME IInv, UNCHANGED vars
  PROVE  IInv'
<1>1. UNCHANGED <<hostVars, grant, pack, record, undo, told, mcp, call, faults>>
  BY DEF vars, agentVars, controlFile
<1>2. AgentTyped /\ PackAgrees /\ RecordsAgree
  BY DEF IInv, AgentsAreSound
<1>3. AgentTyped' /\ PackAgrees'
  BY <1>1, <1>2 DEF AgentTyped, PackAgrees
<1>4. ASSUME CoreIsSound, StoreGoesOn PROVE RecordsAgree'
  <2>1. \A k \in Keys : RecordAgrees(k)
    BY <1>2 DEF RecordsAgree
  <2>2. \A k \in Keys : RecordAgrees(k)'
    BY <1>1, <1>4, <2>1, RecordsStay
  <2> QED
    BY <2>2 DEF RecordsAgree
<1> QED
  BY <1>1, <1>3, <1>4, CallsStay

\* Every step keeps it.
LEMMA StepIsSound ==
  ASSUME IInv, Next
  PROVE  IInv'
<1>1. ASSUME NEW g \in Grants,
             \/ BeginPair(g) \/ ApprovePair(g) \/ ChallengeExpires(g)
             \/ RevokePair(g) \/ GrantExpires(g)
      PROVE  IInv'
  <2>1. {"pending", "active", "lapsed", "revoked", "expired"} \subseteq GrantStates
    BY DEF GrantStates
  <2>2. CASE BeginPair(g)
    <3>1. SetGrant(g, {"none"}, "pending") /\ UNCHANGED pack
      BY <2>2 DEF BeginPair
    <3> QED
      BY <2>1, <3>1, GrantsMove
  <2>3. CASE ApprovePair(g)
    <3>1. SetGrant(g, {"pending"}, "active") /\ UNCHANGED pack
      BY <2>3 DEF ApprovePair
    <3> QED
      BY <2>1, <3>1, GrantsMove
  <2>4. CASE ChallengeExpires(g)
    <3>1. SetGrant(g, {"pending"}, "lapsed") /\ UNCHANGED pack
      BY <2>4 DEF ChallengeExpires
    <3> QED
      BY <2>1, <3>1, GrantsMove
  <2>5. CASE RevokePair(g)
    <3>1. SetGrant(g, {"active", "expired"}, "revoked") /\ PackEnds(g)
      BY <2>5 DEF RevokePair
    <3> QED
      BY <2>1, <3>1, GrantsMove
  <2>6. CASE GrantExpires(g)
    <3>1. SetGrant(g, {"active"}, "expired") /\ PackEnds(g)
      BY <2>6 DEF GrantExpires
    <3> QED
      BY <2>1, <3>1, GrantsMove
  <2> QED
    BY <1>1, <2>2, <2>3, <2>4, <2>5, <2>6
<1>2. ASSUME NEW g \in Grants, GetContext(g) PROVE IInv'
  BY <1>2, ContextIsGot
<1>3. ASSUME NEW c \in Calls,
             Begin(c) \/ BeginNote(c) \/ Replay(c) \/ BeginUndo(c) \/ UndoExpires(c)
      PROVE  IInv'
  BY <1>3, CallBegins, NoteBegins, AnswerIsReplayed, UndoBegins, UndoLapses
<1>4. CASE HostWorks
  <2>1. HostStep /\ UNCHANGED <<controlFile, told, mcp, call>> /\ faults' \in 0..MaxFaults
    BY <1>4, FaultType DEF HostWorks, agentVars
  <2> QED
    BY <2>1, HostMoves
<1>5. CASE Busy
  <2>1. CoreBusy /\ UNCHANGED <<controlFile, told, mcp, call>> /\ faults' \in 0..MaxFaults
    BY <1>5, FaultType DEF Busy
  <2> QED
    BY <2>1, HostMoves
<1>6. CASE Receives
  BY <1>6, StoredIsSound, QueuedIsSound, UndoneIsSound, CallsDropped DEF Receives
<1>7. CASE HostStops \/ McpStops \/ OrphanEnds \/ Restart
  BY <1>7, CallsDropped
<1> QED
  BY <1>1, <1>2, <1>3, <1>4, <1>5, <1>6, <1>7 DEF Next

\* The three stores are sound in every behaviour, whatever stops where.
THEOREM SoundAlways == Spec => []IInv
<1>1. Init => IInv
  BY InitIsSound
<1>2. IInv /\ [Next]_vars => IInv'
  BY StepIsSound, StutterIsSound
<1> QED
  BY <1>1, <1>2, PTL DEF Spec

-----------------------------------------------------------------------------
(* What follows from it.                                                   *)

\* Every variable has its type.
LEMMA SoundIsTyped ==
  ASSUME IInv
  PROVE  TypeOK
<1>1. /\ CoreTyped /\ EventsAgree /\ ControlTyped /\ AgentTyped /\ CallAgrees
      /\ host = "down" => work = NoWork
  BY DEF IInv, AgentsAreSound, HostIsSound, CoreIsSound
<1>2. ASSUME NEW e \in DOMAIN event, NEW r \in DOMAIN event[e]
      PROVE  event[e][r] \in [state : {"active", "deleted"}, rests : DOMAIN source,
                              by : Commands \X Keys]
  <2>1. event[e] \in Seq(Version)
    BY <1>1 DEF CoreTyped
  <2>2. event[e][r] \in Version
    BY <2>1
  <2>3. event[e][r].rests \in DOMAIN source
    BY <1>1 DEF EventsAgree, VersionAgrees
  <2> QED
    BY <2>2, <2>3 DEF Version
<1>3. \A o \in StoreOps \X Keys :
        operation[o].state \in {"none", "prepared", "retry_pending", "failed", "core_committed"}
  <2>1. \A o \in StoreOps \X Keys : operation[o] \in {NoOperation} \cup Operation
    BY <1>1 DEF ControlTyped
  <2> QED
    BY <2>1 DEF NoOperation, Operation, States
<1>4. queue \in Seq(DOMAIN job)
  <2>1. queue \in Seq(Nat) /\ \A i \in DOMAIN queue : queue[i] \in DOMAIN job
    BY <1>1 DEF ControlTyped, Range
  <2> QED
    BY <2>1
<1>5. mcp = "down" => call = NoCall
  BY <1>1 DEF CallAgrees, Waits
<1>6. /\ source \in Seq({"active", "deleted"}) /\ blocked \subseteq DOMAIN event
      /\ \A k \in Keys : slot[<<"source", k>>] \in {NoSlot} \cup
           [payload : {"create_event", "append_revision"}, result : DOMAIN source]
  BY <1>1 DEF CoreTyped, ControlTyped, Src
<1>7. /\ grant \in [Grants -> {"none", "pending", "lapsed", "active", "revoked", "expired"}]
      /\ undo \in [Keys -> {"none", "open", "used", "lapsed"}]
      /\ mcp \in {"up", "down"} /\ host \in {"up", "down"} /\ faults \in 0..MaxFaults
  BY <1>1 DEF AgentTyped, ControlTyped, GrantStates, UndoStates
<1> QED
  BY <1>1, <1>2, <1>3, <1>4, <1>5, <1>6, <1>7 DEF TypeOK

\* The types, in every behaviour.
THEOREM TypesHold == Spec => []TypeOK
  BY SoundAlways, SoundIsTyped, PTL

\* What the record of a settled call stands for.
LEMMA SettledIsHeld ==
  ASSUME IInv, NEW c \in Calls, Settles(c)
  PROVE  \E k \in Keys, object \in Objects :
           k = c.key /\ object = record[c.key].object /\ Recalls(k, c, object)
<1>1. PICK k \in Keys : k = c.key
  BY CallType
<1>2. record[k] # NoRecord /\ record[k].call = c
  BY <1>1 DEF Settles
<1>3. PICK d \in Calls, object \in Objects : Recalls(k, d, object)
  BY <1>2 DEF IInv, AgentsAreSound, RecordsAgree, RecordAgrees
<1>4. d = c /\ object = record[k].object
  BY <1>2, <1>3 DEF Recalls
<1> QED
  BY <1>1, <1>3, <1>4

\* What the server has recorded, the host has.
LEMMA RecordedIsInHost ==
  ASSUME IInv
  PROVE  RecordedIsCommitted
<1> SUFFICES ASSUME NEW c \in Calls, Settles(c)
             PROVE  /\ c.kind \in {"event", "revision", "correct"} =>
                         /\ operation[<<OpOf(c), c.key>>].state = "core_committed"
                         /\ operation[<<OpOf(c), c.key>>].object = record[c.key].object
                    /\ c.offline => \E n \in DOMAIN queue : slot[<<"enqueue", c.key>>].result = queue[n]
                    /\ c.kind = "block" => c.target \in blocked \/ ~Active(c.target)
  BY DEF RecordedIsCommitted
<1>1. PICK k \in Keys, object \in Objects :
        k = c.key /\ object = record[c.key].object /\ Recalls(k, c, object)
  BY SettledIsHeld
<1>2. Held(c, object) /\ (c.offline => Achieved("enqueue_delivery", k, 0, object))
  BY <1>1 DEF Recalls
<1>3. c.kind # "note" => Achieved(StoreOp(c), k, c.target, object)
  BY <1>1, <1>2 DEF Held
<1>4. c.kind \in {"event", "revision", "correct"} =>
        /\ operation[<<OpOf(c), k>>].state = "core_committed"
        /\ operation[<<OpOf(c), k>>].object = object
  BY <1>3 DEF OpOf, StoreOp, Achieved, Committed
<1>5. c.offline => slot[<<"enqueue", k>>].result \in Range(queue)
  BY <1>2 DEF Achieved, Enq
<1>6. c.offline => \E n \in DOMAIN queue : slot[<<"enqueue", k>>].result = queue[n]
  BY <1>5 DEF Range
<1>7. c.kind = "block" => c.target \in blocked \/ ~Active(c.target)
  BY <1>3 DEF StoreOp, Achieved
<1> QED
  BY <1>1, <1>4, <1>6, <1>7

\* The event whose undo is committed is deleted, with its first source.
LEMMA UndoneEventIsDeleted ==
  ASSUME HostIsSound, NEW k \in Keys, Committed("undo_event", k)
  PROVE  \E e \in DOMAIN event : \E r \in DOMAIN event[e] :
           /\ Names("accept", k, "event", e, 1)
           /\ Last(event[e]).state = "deleted" /\ event[e][r].by = <<"delete", k>>
           /\ operation[<<"undo_event", k>>].source = event[e][1].rests
           /\ source[event[e][1].rests] = "deleted"
<1>1. CoreIsSound /\ CoreTyped /\ EventsAgree /\ OperationAgrees("undo_event", k)
  BY DEF HostIsSound, CoreIsSound, OperationsAgree, StoreOps
<1>2. PICK e \in DOMAIN event : /\ Names("accept", k, "event", e, 1)
                                /\ operation[<<"undo_event", k>>].source = event[e][1].rests
                                /\ Last(event[e]).state = "deleted"
  <2>1. operation[<<"undo_event", k>>] # NoOperation
    BY DEF Committed, NoOperation
  <2> QED
    BY <1>1, <2>1 DEF OperationAgrees
<1>3. event[e] \in Seq(Version) /\ event[e] # <<>>
  BY <1>1 DEF CoreTyped, EventsAgree
<1>4. PICK r : r = Len(event[e])
  OBVIOUS
<1>5. r \in DOMAIN event[e] /\ Last(event[e]) = event[e][r]
  BY <1>3, <1>4 DEF Last
<1>6. VersionAgrees(e, r)
  BY <1>1, <1>5 DEF EventsAgree
<1>7. IsTombstone(e, r)
  BY <1>2, <1>5, <1>6 DEF VersionAgrees
<1>8. event[e][1].by = <<"accept", k>>
  BY <1>1, <1>2, FirstSource
<1>9. event[e][r].by = <<"delete", k>> /\ source[event[e][1].rests] = "deleted"
  BY <1>7, <1>8 DEF IsTombstone
<1> QED
  BY <1>2, <1>5, <1>9

\* What the host has recorded as committed, the Event Core has done.
LEMMA CommittedIsInCore ==
  ASSUME HostIsSound
  PROVE  CommittedIsDone
<1>1. CoreIsSound /\ OperationsAgree
  BY DEF HostIsSound
<1>2. ASSUME NEW k \in Keys, NEW o \in StoreOps, operation[<<o, k>>].state = "core_committed"
      PROVE  /\ o = "create_event" =>
                  event[operation[<<o, k>>].object.id][1].by = <<"accept", k>>
             /\ o = "append_revision" =>
                  event[operation[<<o, k>>].object.id][operation[<<o, k>>].object.revision].by
                    = <<"append", k>>
             /\ o = "undo_event" =>
                  /\ \E e \in DOMAIN event : \E r \in DOMAIN event[e] :
                       event[e][r].by = <<"delete", k>>
                  /\ source[operation[<<o, k>>].source] = "deleted"
             /\ o = "undo_revision" =>
                  \E e \in DOMAIN event : \E r \in DOMAIN event[e] : event[e][r].by = <<"undo", k>>
  <2>1. Committed(o, k) /\ OperationAgrees(o, k) /\ operation[<<o, k>>] # NoOperation
    BY <1>1, <1>2 DEF Committed, OperationsAgree, NoOperation
  <2>2. PICK object : object = operation[<<o, k>>].object
    OBVIOUS
  <2>3. o = "create_event" => event[object.id][1].by = <<"accept", k>>
    <3>1. SUFFICES ASSUME o = "create_event" PROVE event[object.id][1].by = <<"accept", k>>
      OBVIOUS
    <3>2. Acc(k) # NoSlot /\ object = Acc(k).result
      BY <2>1, <2>2, <3>1 DEF OperationAgrees
    <3>3. PICK e \in Nat : Names("accept", k, "event", e, 1)
      BY <1>1, <3>2, SlotResults
    <3>4. event[e][1].by = <<"accept", k>>
      BY <1>1, <3>3, FirstSource
    <3>5. object.id = e
      BY <3>2, <3>3 DEF Names, Acc, Object
    <3> QED
      BY <3>4, <3>5
  <2>4. o = "append_revision" => event[object.id][object.revision].by = <<"append", k>>
    <3>1. SUFFICES ASSUME o = "append_revision"
                   PROVE  event[object.id][object.revision].by = <<"append", k>>
      OBVIOUS
    <3>2. App(k) # NoSlot /\ object = App(k).result
      BY <2>1, <2>2, <3>1 DEF OperationAgrees
    <3>3. PICK e \in Nat, r \in Nat : Names("append", k, "revision", e, r)
      BY <1>1, <3>2, SlotResults
    <3>4. event[e][r].by = <<"append", k>>
      BY <1>1, <3>3, LaterRevision
    <3>5. object.id = e /\ object.revision = r
      BY <3>2, <3>3 DEF Names, App, Object
    <3> QED
      BY <3>4, <3>5
  <2>5. o = "undo_event" =>
          /\ \E e \in DOMAIN event : \E r \in DOMAIN event[e] : event[e][r].by = <<"delete", k>>
          /\ source[operation[<<o, k>>].source] = "deleted"
    BY <1>2, <2>1, UndoneEventIsDeleted
  <2>6. o = "undo_revision" =>
          \E e \in DOMAIN event : \E r \in DOMAIN event[e] : event[e][r].by = <<"undo", k>>
    <3>1. SUFFICES ASSUME o = "undo_revision"
                   PROVE  \E e \in DOMAIN event : \E r \in DOMAIN event[e] :
                            event[e][r].by = <<"undo", k>>
      OBVIOUS
    <3>2. Und(k) # NoSlot
      BY <2>1, <3>1 DEF OperationAgrees
    <3>3. UndoAgrees(k)
      BY <1>1 DEF CoreIsSound, SlotsAgree
    <3> QED
      BY <3>2, <3>3 DEF UndoAgrees, Made
  <2> QED
    BY <2>2, <2>3, <2>4, <2>5, <2>6
<1> QED
  BY <1>2 DEF CommittedIsDone, StoreOps

\* An undo that was answered has taken place, and lasts.
LEMMA UndoneEventIsGone ==
  ASSUME IInv, NEW c \in Calls, Settles(c), c.kind = "event", undo[c.key] = "used"
  PROVE  /\ ~Active(record[c.key].object.id)
         /\ source[event[record[c.key].object.id][1].rests] = "deleted"
<1>1. HostIsSound /\ CoreIsSound
  BY DEF IInv, HostIsSound
<1>2. PICK k \in Keys, object \in Objects :
        k = c.key /\ object = record[c.key].object /\ Recalls(k, c, object)
  BY SettledIsHeld
<1>3. Committed("undo_event", k) /\ Held(c, object)
  BY <1>2 DEF Recalls
<1>4. PICK e \in DOMAIN event : /\ Names("accept", k, "event", e, 1)
                                /\ Last(event[e]).state = "deleted"
                                /\ source[event[e][1].rests] = "deleted"
  BY <1>1, <1>3, UndoneEventIsDeleted
<1>5. PICK f \in Nat : object = Object("event", f, 1) /\ Names("accept", k, "event", f, 1)
  BY <1>1, <1>2, <1>3, HeldObject
<1>6. Object("event", e, 1) = Object("event", f, 1)
  BY <1>4, <1>5 DEF Names
<1>7. e = f /\ object.id = e
  <2>1. e = f
    BY <1>6, ObjectsDiffer
  <2> QED
    BY <1>5, <2>1 DEF Object
<1>8. ~Active(e)
  BY <1>4 DEF Active
<1> QED
  BY <1>2, <1>4, <1>7, <1>8

\* Whatever stops where, the server, control.json and the Event Core tell the same.
THEOREM StoresTellTheSame == Spec => []StoresAgree
<1>1. IInv => StoresAgree
  <2> SUFFICES ASSUME IInv PROVE StoresAgree
    OBVIOUS
  <2>1. RecordedIsCommitted
    BY RecordedIsInHost
  <2>2. CommittedIsDone
    BY CommittedIsInCore DEF IInv
  <2>3. UndoneIsGone
    BY UndoneEventIsGone DEF UndoneIsGone
  <2> QED
    BY <2>1, <2>2, <2>3 DEF StoresAgree
<1> QED
  BY <1>1, SoundAlways, PTL

\* A key makes one revision in each way.
LEMMA OneRevisionPerKey ==
  ASSUME CoreIsSound, NEW e \in DOMAIN event, NEW f \in DOMAIN event,
         NEW r \in DOMAIN event[e], NEW s \in DOMAIN event[f],
         event[e][r].by = event[f][s].by, event[e][r].by[1] \in {"accept", "append", "undo"}
  PROVE  e = f /\ r = s
<1>1. VersionAgrees(e, r) /\ VersionAgrees(f, s)
  BY DEF CoreIsSound, EventsAgree
<1>2. event[e][r] \in Version
  BY DEF CoreIsSound, CoreTyped
<1>3. PICK c \in Commands, k \in Keys : event[e][r].by = <<c, k>>
  BY <1>2 DEF Version
<1>4. c \in {"accept", "append", "undo"} /\ event[f][s].by = <<c, k>>
  BY <1>3
<1>5. \E t : Names(c, k, t, e, r) /\ Names(c, k, t, f, s)
  BY <1>1, <1>3, <1>4 DEF VersionAgrees
<1>6. PICK t : Object(t, e, r) = Object(t, f, s)
  BY <1>5 DEF Names
<1> QED
  BY <1>6, ObjectsDiffer

\* A delivery has one job.
LEMMA OneJobPerObject ==
  ASSUME CoreIsSound, NEW i \in DOMAIN job, NEW j \in DOMAIN job, job[i] = job[j]
  PROVE  i = j
<1>1. PICK k \in Keys : Enq(k) # NoSlot /\ Enq(k).result = i /\ IsFor(job[i], k, i)
  BY DEF CoreIsSound, JobsAgree, JobAgrees
<1>2. PICK l \in Keys : Enq(l) # NoSlot /\ Enq(l).result = j /\ IsFor(job[j], l, j)
  BY DEF CoreIsSound, JobsAgree, JobAgrees
<1>3. PICK object : object = job[i]
  OBVIOUS
<1>4. IsFor(object, k, i) /\ IsFor(object, l, j)
  BY <1>1, <1>2, <1>3
<1>5. CASE object.type = "event"
  <2>1. object # Object("feedback", i, 0) /\ object # Object("feedback", j, 0)
    BY <1>5 DEF Object
  <2>2. Acc(k) # NoSlot /\ object = Acc(k).result /\ Acc(l) # NoSlot /\ object = Acc(l).result
    BY <1>4, <1>5, <2>1 DEF IsFor
  <2>3. PICK e \in Nat : Names("accept", k, "event", e, 1)
    BY <2>2, SlotResults
  <2>4. Names("accept", l, "event", e, 1)
    BY <2>2, <2>3 DEF Names, Acc
  <2>5. event[e][1].by = <<"accept", k>> /\ event[e][1].by = <<"accept", l>>
    BY <2>3, <2>4, FirstSource
  <2>6. k = l
    BY <2>5
  <2> QED
    BY <1>1, <1>2, <2>6
<1>6. CASE object.type = "revision"
  <2>1. object # Object("feedback", i, 0) /\ object # Object("feedback", j, 0)
    BY <1>6 DEF Object
  <2>2. App(k) # NoSlot /\ object = App(k).result /\ App(l) # NoSlot /\ object = App(l).result
    BY <1>4, <1>6, <2>1 DEF IsFor
  <2>3. PICK e \in Nat, r \in Nat : Names("append", k, "revision", e, r)
    BY <2>2, SlotResults
  <2>4. Names("append", l, "revision", e, r)
    BY <2>2, <2>3 DEF Names, App
  <2>5. event[e][r].by = <<"append", k>> /\ event[e][r].by = <<"append", l>>
    BY <2>3, <2>4, LaterRevision
  <2>6. k = l
    BY <2>5
  <2> QED
    BY <1>1, <1>2, <2>6
<1>7. CASE object.type \notin {"event", "revision"}
  <2>1. Object("feedback", i, 0) = Object("feedback", j, 0)
    BY <1>4, <1>7 DEF IsFor
  <2> QED
    BY <2>1, ObjectsDiffer
<1> QED
  BY <1>5, <1>6, <1>7

\* An agent is told one thing per key.
LEMMA OneAnswerPerKey ==
  ASSUME IInv, NEW k \in Keys
  PROVE  Cardinality(told[k]) <= 1
<1>1. RecordAgrees(k)
  BY DEF IInv, AgentsAreSound, RecordsAgree
<1>2. told[k] = {} \/ \E object : told[k] \subseteq {object}
  BY <1>1 DEF RecordAgrees, Recalls
<1>3. CASE told[k] = {}
  BY <1>3, FS_EmptySet
<1>4. ASSUME NEW object, told[k] \subseteq {object}, told[k] # {} PROVE Cardinality(told[k]) <= 1
  <2>1. told[k] = {object}
    BY <1>4
  <2>2. Cardinality({object}) = 1
    BY FS_Singleton
  <2> QED
    BY <2>1, <2>2
<1> QED
  BY <1>2, <1>3, <1>4

\* However often it is repeated, a call has one effect, whatever stops meanwhile.
THEOREM EffectsAreSingle == Spec => []OneEffectPerKey
<1>1. IInv => OneEffectPerKey
  <2> SUFFICES ASSUME IInv PROVE OneEffectPerKey
    OBVIOUS
  <2>1. CoreIsSound /\ \A i, j \in DOMAIN queue : queue[i] = queue[j] => i = j
    BY DEF IInv, HostIsSound, ControlTyped
  <2>2. \A e, f \in DOMAIN event : \A r \in DOMAIN event[e], s \in DOMAIN event[f] :
          /\ event[e][r].by = event[f][s].by
          /\ event[e][r].by[1] \in {"accept", "append", "undo"}
          => e = f /\ r = s
    BY <2>1, OneRevisionPerKey
  <2>3. \A i, j \in DOMAIN job : job[i] = job[j] => i = j
    BY <2>1, OneJobPerObject
  <2>4. \A k \in Keys : Cardinality(told[k]) <= 1
    BY OneAnswerPerKey
  <2> QED
    BY <2>1, <2>2, <2>3, <2>4 DEF OneEffectPerKey
<1> QED
  BY <1>1, SoundAlways, PTL

\* A step makes no pack, ends one, or is get_context.
LEMMA PacksMove ==
  ASSUME IInv, Next
  PROVE  \/ pack' = pack
         \/ pack' # NoPack => pack'.state # "ready"
         \/ \E g \in Grants : GetContext(g)
<1>1. pack # NoPack => pack \in Pack
  BY DEF IInv, AgentsAreSound, AgentTyped
<1>2. ASSUME NEW g \in Grants, PackEnds(g) PROVE pack' = pack \/ pack'.state # "ready"
  <2>1. CASE pack # NoPack /\ pack.grant = g
    <3>1. pack' = [pack EXCEPT !.state = "expired"]
      BY <1>2, <2>1 DEF PackEnds
    <3> QED
      BY <1>1, <2>1, <3>1 DEF Pack
  <2>2. CASE ~(pack # NoPack /\ pack.grant = g)
    BY <1>2, <2>2 DEF PackEnds
  <2> QED
    BY <2>1, <2>2
<1>3. ASSUME NEW c \in Calls,
             Begin(c) \/ BeginNote(c) \/ Replay(c) \/ BeginUndo(c) \/ UndoExpires(c)
      PROVE  pack' = pack
  BY <1>3 DEF Begin, BeginNote, Replay, BeginUndo, UndoExpires, controlFile
<1>4. Receives => pack' = pack
  BY DEF Receives, Stored, Queued, Undone, Refused, Finish, controlFile
<1>5. HostWorks \/ HostStops \/ McpStops \/ OrphanEnds \/ Restart \/ Busy => pack' = pack
  BY DEF HostWorks, HostStops, McpStops, OrphanEnds, Restart, Busy, agentVars, controlFile
<1>6. ASSUME NEW g \in Grants, BeginPair(g) \/ ApprovePair(g) \/ ChallengeExpires(g)
      PROVE  pack' = pack
  BY <1>6 DEF BeginPair, ApprovePair, ChallengeExpires
<1>7. ASSUME NEW g \in Grants, RevokePair(g) \/ GrantExpires(g) PROVE PackEnds(g)
  BY <1>7 DEF RevokePair, GrantExpires
<1> QED
  BY <1>2, <1>3, <1>4, <1>5, <1>6, <1>7 DEF Next

\* What is hidden is not visible.
LEMMA HiddenIsNotVisible ==
  ASSUME IInv
  PROVE  Visible \cap Hidden = {}
<1>1. ASSUME NEW c \in Calls, Settles(c), c.kind = "block" PROVE c.target \notin Visible
  <2>1. c.target \in blocked \/ ~Active(c.target)
    BY <1>1, RecordedIsInHost DEF RecordedIsCommitted
  <2> QED
    BY <2>1 DEF Visible
<1>2. ASSUME NEW c \in Calls, Settles(c), c.kind = "event", undo[c.key] = "used"
      PROVE  record[c.key].object.id \notin Visible
  <2>1. ~Active(record[c.key].object.id)
    BY <1>2, UndoneEventIsGone
  <2> QED
    BY <2>1 DEF Visible
<1> QED
  BY <1>1, <1>2 DEF Hidden

\* A pack is made for a grant in force and shows nothing that was undone or blocked
\* before; it ends with its grant.
THEOREM PacksAreRightful == Spec => ContextIsRightful
<1>1. IInv /\ IInv' /\ [Next]_vars =>
        [pack' # NoPack /\ pack'.state = "ready" =>
           /\ grant'[pack'.grant] = "active"
           /\ pack' # pack => pack'.items \cap Hidden = {}]_vars
  <2> SUFFICES ASSUME IInv, IInv', Next, pack' # NoPack, pack'.state = "ready"
               PROVE  /\ grant'[pack'.grant] = "active"
                      /\ pack' # pack => pack'.items \cap Hidden = {}
    OBVIOUS
  <2>1. grant'[pack'.grant] = "active"
    BY DEF IInv, AgentsAreSound, PackAgrees
  <2>2. ASSUME pack' # pack PROVE pack'.items \cap Hidden = {}
    <3>1. PICK g \in Grants : GetContext(g)
      BY <2>2, PacksMove
    <3>2. pack' = [state |-> "ready", grant |-> g,
                   items |-> IF g \in ReadGrants THEN Visible ELSE {}]
      BY <3>1 DEF GetContext
    <3>3. pack'.items = IF g \in ReadGrants THEN Visible ELSE {}
      BY <3>2
    <3> QED
      BY <3>3, HiddenIsNotVisible
  <2> QED
    BY <2>1, <2>2
<1> QED
  BY <1>1, SoundAlways, PTL DEF Spec, ContextIsRightful
-----------------------------------------------------------------------------
(* What is done lasts.                                                     *)

\* Answers and records of the server, and what its grants and undos have come to.
AgentsKeep ==
  /\ \A k \in Keys : /\ told[k] \subseteq told'[k]
                     /\ record[k] # NoRecord => record'[k] = record[k]
                     /\ undo[k] = "used" => undo'[k] = "used"
  /\ \A g \in Grants : grant[g] \in {"lapsed", "revoked"} => grant'[g] = grant[g]

\* A step moves a store of the host by one request, or not at all.
LEMMA StoreMoves ==
  ASSUME IInv, [Next]_vars
  PROVE  ((HostStep \/ CoreBusy) /\ told' = told) \/ UNCHANGED <<coreVars, controlVars>>
<1>1. ASSUME NEW g \in Grants,
             \/ BeginPair(g) \/ ApprovePair(g) \/ ChallengeExpires(g)
             \/ RevokePair(g) \/ GrantExpires(g) \/ GetContext(g)
      PROVE  UNCHANGED <<coreVars, controlVars>>
  BY <1>1 DEF BeginPair, ApprovePair, ChallengeExpires, RevokePair, GrantExpires, GetContext,
              SetGrant, hostVars
<1>2. ASSUME NEW c \in Calls,
             Begin(c) \/ BeginNote(c) \/ Replay(c) \/ BeginUndo(c) \/ UndoExpires(c)
      PROVE  UNCHANGED <<coreVars, controlVars>>
  BY <1>2 DEF Begin, BeginNote, Replay, BeginUndo, UndoExpires, hostVars
<1>3. Receives => UNCHANGED <<coreVars, controlVars>>
  BY DEF Receives, Stored, Queued, Undone, Refused
<1>4. HostStops \/ McpStops \/ OrphanEnds \/ Restart => UNCHANGED <<coreVars, controlVars>>
  BY DEF HostStops, McpStops, OrphanEnds, Restart, hostVars
<1>5. UNCHANGED vars => UNCHANGED <<coreVars, controlVars>>
  BY DEF vars, hostVars
<1> QED
  BY <1>1, <1>2, <1>3, <1>4, <1>5 DEF Next, HostWorks, Busy, agentVars

\* The stores below the server keep what they have.
LEMMA StoreKeeps ==
  ASSUME IInv, [Next]_vars
  PROVE  CoreKeeps /\ ControlKeeps
<1>1. HostIsSound
  BY DEF IInv
<1>2. CASE HostStep \/ CoreBusy
  <2>1. work # NoWork
    BY <1>2 DEF HostStep, BeginOperation, CaptureSource, CreateObservation, AcceptEvent,
           AppendRevision, DeleteSource, UndoRevision, CompleteOperation, EnqueueJob,
           ListDelivery, BlockEvent, CoreBusy, NoWork
  <2>2. PICK op \in Ops, k \in Keys, e \in Nat : Serves(op, k, e)
    BY <1>1, <2>1 DEF HostIsSound, WorkAgrees
  <2>3. GoesOn(op, k, e)
    BY <1>1, <1>2, <2>2, HostGoesOn
  <2> QED
    BY <2>3 DEF GoesOn, StoreGoesOn
<1>3. CASE UNCHANGED <<coreVars, controlVars>>
  <2>1. CoreKeeps
    BY <1>1, <1>3, CoreUnmoved DEF HostIsSound
  <2>2. ControlKeeps
    BY <1>3 DEF ControlKeeps, controlVars
  <2> QED
    BY <2>1, <2>2
<1> QED
  BY <1>2, <1>3, StoreMoves

\* A save of the server writes what was not recorded, and nothing else.
LEMMA FinishKeeps ==
  ASSUME IInv, NEW c \in Calls, NEW object, Waits("store", c, object) \/ Waits("delivery", c, object),
         NEW made, Finish(c, made)
  PROVE  AgentsKeep
<1>1. AgentTyped /\ RecordsAgree
  BY DEF IInv, AgentsAreSound
<1>2. PICK k \in Keys : k = c.key
  BY CallType
<1>3. record[k] = NoRecord /\ told[k] = {} /\ undo[k] = "none"
  <2>1. record[k] = NoRecord
    BY <1>2 DEF Waits
  <2>2. ASSUME NEW d, NEW o, Recalls(k, d, o) PROVE FALSE
    <3>1. DOMAIN [call |-> d, object |-> o] = {"call", "object"} /\ DOMAIN NoRecord = {"known"}
      BY DEF NoRecord
    <3> QED
      BY <2>1, <2>2, <3>1 DEF Recalls
  <2> QED
    BY <1>1, <2>1, <2>2 DEF RecordsAgree, RecordAgrees
<1>4. \A j \in Keys \ {k} : record'[j] = record[j] /\ undo'[j] = undo[j] /\ told'[j] = told[j]
  BY <1>1, <1>2 DEF Finish, Told, AgentTyped
<1>5. grant' = grant
  BY DEF Finish
<1> QED
  BY <1>3, <1>4, <1>5 DEF AgentsKeep

\* The server keeps what it has.
LEMMA AgentKeeps ==
  ASSUME IInv, [Next]_vars
  PROVE  AgentsKeep
<1>1. AgentTyped
  BY DEF IInv, AgentsAreSound
<1>2. ASSUME UNCHANGED <<grant, record, undo, told>> PROVE AgentsKeep
  BY <1>2 DEF AgentsKeep
<1>3. ASSUME NEW g \in Grants, NEW from, NEW to, SetGrant(g, from, to),
             from \cap {"lapsed", "revoked"} = {}
      PROVE  AgentsKeep
  BY <1>1, <1>3 DEF SetGrant, AgentsKeep, AgentTyped
<1>4. ASSUME NEW g \in Grants,
             \/ BeginPair(g) \/ ApprovePair(g) \/ ChallengeExpires(g)
             \/ RevokePair(g) \/ GrantExpires(g)
      PROVE  AgentsKeep
  <2>1. \E from, to : SetGrant(g, from, to) /\ from \cap {"lapsed", "revoked"} = {}
    BY <1>4 DEF BeginPair, ApprovePair, ChallengeExpires, RevokePair, GrantExpires
  <2> QED
    BY <1>3, <2>1
<1>5. ASSUME NEW c \in Calls, Replay(c) PROVE AgentsKeep
  <2>1. \A j \in Keys : told[j] \subseteq told'[j]
    BY <1>1, <1>5 DEF Replay, Told, AgentTyped
  <2>2. UNCHANGED <<grant, record, undo>>
    BY <1>5 DEF Replay, controlFile
  <2> QED
    BY <2>1, <2>2 DEF AgentsKeep
<1>6. ASSUME NEW c \in Calls, UndoExpires(c) PROVE AgentsKeep
  <2>1. \A j \in Keys : undo[j] = "used" => undo'[j] = "used"
    BY <1>1, <1>6 DEF UndoExpires, AgentTyped
  <2>2. UNCHANGED <<grant, record, told>>
    BY <1>6 DEF UndoExpires
  <2> QED
    BY <2>1, <2>2 DEF AgentsKeep
<1>7. CASE Stored
  <2>1. PICK c \in Calls, object \in Objects :
          Waits("store", c, object) /\ call.call = c /\ call.object = object
    BY <1>7, AnswerIsHeard DEF Stored
  <2>2. Finish(c, Result(c)) \/ UNCHANGED <<controlFile, told>>
    BY <1>7, <2>1 DEF Stored
  <2> QED
    BY <1>2, <2>1, <2>2, FinishKeeps DEF controlFile
<1>8. CASE Queued
  <2>1. PICK c \in Calls, object \in Objects :
          Waits("delivery", c, object) /\ call.call = c /\ call.object = object
    BY <1>8, AnswerIsHeard DEF Queued
  <2>2. Finish(c, object)
    BY <1>8, <2>1 DEF Queued
  <2> QED
    BY <2>1, <2>2, FinishKeeps
<1>9. CASE Undone
  <2>1. \A j \in Keys : undo[j] = "used" => undo'[j] = "used"
    BY <1>1, <1>9 DEF Undone, AgentTyped
  <2>2. UNCHANGED <<grant, record, told>>
    BY <1>9 DEF Undone
  <2> QED
    BY <2>1, <2>2 DEF AgentsKeep
<1>10. ASSUME \/ Refused \/ HostWorks \/ HostStops \/ McpStops \/ OrphanEnds \/ Restart \/ Busy
              \/ UNCHANGED vars \/ \E g \in Grants : GetContext(g)
              \/ \E c \in Calls : Begin(c) \/ BeginNote(c) \/ BeginUndo(c)
       PROVE  AgentsKeep
  <2>1. UNCHANGED <<grant, record, undo, told>>
    BY <1>10 DEF Refused, HostWorks, HostStops, McpStops, OrphanEnds, Restart, Busy, GetContext,
                 Begin, BeginNote, BeginUndo, vars, agentVars, controlFile
  <2> QED
    BY <1>2, <2>1
<1> QED
  BY <1>4, <1>5, <1>6, <1>7, <1>8, <1>9, <1>10 DEF Next, Receives

\* What is done lasts, whichever process stops and whoever repeats what: no slot of the
\* Event Core, no revision, no job, no committed operation, no record and no answer is
\* ever changed, and what is deleted, blocked, undone or revoked stays so.
DoneLasts == [][CoreKeeps /\ ControlKeeps /\ AgentsKeep]_vars

THEOREM WhatIsDoneLasts == Spec => DoneLasts
<1>1. IInv /\ [Next]_vars => [CoreKeeps /\ ControlKeeps /\ AgentsKeep]_vars
  BY StoreKeeps, AgentKeeps
<1> QED
  BY <1>1, SoundAlways, PTL DEF Spec, DoneLasts

-----------------------------------------------------------------------------
(* What agents are promised.                                               *)

\* A version is there.
Has(e, r) == e \in DOMAIN event /\ r \in DOMAIN event[e]

Gone == GoneEvents \cup GoneRevisions

\* A version that is made under a key has a number that its slot tells.
LEMMA VersionFacts ==
  ASSUME CoreIsSound, NEW e, NEW r, Has(e, r)
  PROVE  /\ e \in Nat /\ r \in Nat /\ r > 0 /\ Has(e, 1) /\ r \in 1..Len(event[e])
         /\ DOMAIN event[e] = 1..Len(event[e]) /\ Len(event[e]) \in Nat
         /\ event[e][r] \in Version /\ VersionAgrees(e, r) /\ event[e] \in Seq(Version)
         /\ \A k : event[e][r].by = <<"accept", k>> => r = 1
<1>1. event \in Seq(Seq(Version)) /\ EventsAgree
  BY DEF CoreIsSound, CoreTyped
<1>2. event[e] \in Seq(Version) /\ e \in Nat
  BY <1>1 DEF Has
<1>3. /\ DOMAIN event[e] = 1..Len(event[e]) /\ Len(event[e]) \in Nat /\ r \in Nat /\ r > 0
      /\ r \in 1..Len(event[e]) /\ event[e][r] \in Version
  BY <1>2 DEF Has
<1>4. Has(e, 1)
  BY <1>3 DEF Has
<1>5. VersionAgrees(e, r)
  BY <1>1 DEF EventsAgree, Has
<1>6. ASSUME NEW k, event[e][r].by = <<"accept", k>> PROVE r = 1
  <2>1. k \in Keys
    BY <1>3, <1>6 DEF Version
  <2>2. Names("accept", k, "event", e, r)
    BY <1>5, <1>6, <2>1 DEF VersionAgrees
  <2> QED
    BY <2>1, <2>2, FirstSource
<1> QED
  BY <1>2, <1>3, <1>4, <1>5, <1>6

\* What was made and taken back, version by version.
Makes(command, type, k, o) ==
  \E e, r : Has(e, r) /\ event[e][r].by = <<command, k>> /\ o = Object(type, e, r)

LEMMA MadeByVersion ==
  ASSUME CoreIsSound, NEW k, NEW o
  PROVE  /\ o \in MadeUnder(<<"event", k>>) <=> Makes("accept", "event", k, o)
         /\ o \in MadeUnder(<<"revision", k>>) <=> Makes("append", "revision", k, o)
<1>1. o \in MadeUnder(<<"event", k>>) <=>
        \E e \in DOMAIN event : event[e][1].by = <<"accept", k>> /\ o = Object("event", e, 1)
  <2>1. MadeUnder(<<"event", k>>) =
          {Object("event", e, 1) : e \in {f \in DOMAIN event : event[f][1].by = <<"accept", k>>}}
    BY DEF MadeUnder
  <2> QED
    BY <2>1
<1>2. \A e \in DOMAIN event : Has(e, 1)
  <2>1. \A e \in DOMAIN event : event[e] \in Seq(Version) /\ event[e] # <<>>
    BY DEF CoreIsSound, CoreTyped, EventsAgree
  <2> QED
    BY <2>1 DEF Has
<1>3. o \in MadeUnder(<<"revision", k>>) <=>
        \E e \in DOMAIN event : \E r \in DOMAIN event[e] :
          event[e][r].by = <<"append", k>> /\ o = Object("revision", e, r)
  <2>1. MadeUnder(<<"revision", k>>) =
          UNION {{Object("revision", e, r) : r \in {n \in DOMAIN event[e] :
                                                    event[e][n].by = <<"append", k>>}}
                   : e \in DOMAIN event}
    BY DEF MadeUnder
  <2> QED
    BY <2>1
<1> QED
  BY <1>1, <1>2, <1>3, VersionFacts DEF Has, Makes

IsGone(o) ==
  \E e, r : /\ Has(e, r)
            /\ \/ event[e][r].state = "deleted" /\ o = Object("event", e, 1)
               \/ event[e][r].by[1] = "undo" /\ o = Object("revision", e, r - 1)

LEMMA GoneByVersion ==
  ASSUME CoreIsSound, NEW o
  PROVE  o \in Gone <=> IsGone(o)
<1>1. o \in GoneEvents <=>
        \E e \in DOMAIN event : Last(event[e]).state = "deleted" /\ o = Object("event", e, 1)
  BY DEF GoneEvents
<1>2. \A e \in DOMAIN event : Has(e, Len(event[e])) /\ Last(event[e]) = event[e][Len(event[e])]
  <2>1. \A e \in DOMAIN event : event[e] \in Seq(Version) /\ event[e] # <<>>
    BY DEF CoreIsSound, CoreTyped, EventsAgree
  <2> QED
    BY <2>1 DEF Has, Last
<1>3. ASSUME NEW e, NEW r, Has(e, r), event[e][r].state = "deleted" PROVE r = Len(event[e])
  BY <1>3, VersionFacts DEF VersionAgrees, IsTombstone
<1>4. o \in GoneEvents <=>
        \E e, r : Has(e, r) /\ event[e][r].state = "deleted" /\ o = Object("event", e, 1)
  BY <1>1, <1>2, <1>3 DEF Has
<1>5. o \in GoneRevisions <=>
        \E e \in DOMAIN event : \E r \in DOMAIN event[e] :
          /\ r + 1 \in DOMAIN event[e] /\ event[e][r + 1].by[1] = "undo"
          /\ o = Object("revision", e, r)
  BY DEF GoneRevisions
<1>6. ASSUME NEW e, NEW r, Has(e, r), event[e][r].by[1] = "undo"
      PROVE  Has(e, r - 1) /\ (r - 1) + 1 = r
  <2>1. r # 1
    BY <1>6, VersionFacts DEF VersionAgrees
  <2> QED
    BY <1>6, <2>1, VersionFacts DEF Has
<1>7. ASSUME NEW e, NEW r, Has(e, r), Has(e, r + 1) PROVE (r + 1) - 1 = r
  BY <1>7, VersionFacts
<1>8. o \in GoneRevisions <=>
        \E e, r : /\ Has(e, r) /\ event[e][r].by[1] = "undo"
                  /\ o = Object("revision", e, r - 1)
  <2>1. ASSUME NEW e, NEW r, Has(e, r), event[e][r].by[1] = "undo", o = Object("revision", e, r - 1)
        PROVE  o \in GoneRevisions
    <3>1. PICK n : n = r - 1
      OBVIOUS
    <3>2. Has(e, n) /\ n + 1 = r
      BY <1>6, <2>1, <3>1
    <3> QED
      BY <1>5, <2>1, <3>1, <3>2 DEF Has
  <2>2. ASSUME NEW e \in DOMAIN event, NEW r \in DOMAIN event[e],
               r + 1 \in DOMAIN event[e], event[e][r + 1].by[1] = "undo",
               o = Object("revision", e, r)
        PROVE  \E f, n : /\ Has(f, n) /\ event[f][n].by[1] = "undo"
                         /\ o = Object("revision", f, n - 1)
    <3>1. PICK n : n = r + 1
      OBVIOUS
    <3>2. Has(e, n) /\ n - 1 = r
      BY <1>7, <2>2, <3>1 DEF Has
    <3> QED
      BY <2>2, <3>1, <3>2
  <2> QED
    BY <1>5, <2>1, <2>2
<1> QED
  BY <1>4, <1>8 DEF Gone, IsGone

\* A slot has made one thing at the most, and no thing was made twice.
MadeOnce ==
  \A s, t \in Slots : \A x \in MadeUnder(s), y \in MadeUnder(t) : s = t <=> x = y

LEMMA ThingsAreMadeOnce ==
  ASSUME CoreIsSound
  PROVE  MadeOnce
<1> SUFFICES ASSUME NEW s \in Slots, NEW x \in MadeUnder(s)
             PROVE  \A t \in Slots : \A y \in MadeUnder(t) : (s = t => x = y) /\ (x = y => s = t)
  BY DEF MadeOnce
<1>1. ASSUME NEW t \in Slots, NEW y \in MadeUnder(t)
      PROVE  \E k \in Keys, type \in {"event", "revision"} : \E e, r :
               /\ t = <<type, k>> /\ Has(e, r) /\ y = Object(type, e, r)
               /\ event[e][r].by = <<IF type = "event" THEN "accept" ELSE "append", k>>
  <2>1. PICK type \in {"event", "revision"}, k \in Keys : t = <<type, k>>
    BY DEF Slots
  <2>2. CASE type = "event"
    <3>1. y \in MadeUnder(<<"event", k>>)
      BY <1>1, <2>1, <2>2
    <3>2. Makes("accept", "event", k, y)
      BY <3>1, MadeByVersion
    <3>3. PICK e, r : Has(e, r) /\ event[e][r].by = <<"accept", k>> /\ y = Object("event", e, r)
      BY <3>2 DEF Makes
    <3> QED
      BY <2>1, <2>2, <3>3
  <2>3. CASE type = "revision"
    <3>1. y \in MadeUnder(<<"revision", k>>)
      BY <1>1, <2>1, <2>3
    <3>2. Makes("append", "revision", k, y)
      BY <3>1, MadeByVersion
    <3>3. PICK e, r : Has(e, r) /\ event[e][r].by = <<"append", k>> /\ y = Object("revision", e, r)
      BY <3>2 DEF Makes
    <3> QED
      BY <2>1, <2>3, <3>3
  <2> QED
    BY <2>2, <2>3
<1> SUFFICES ASSUME NEW t \in Slots, NEW y \in MadeUnder(t)
             PROVE  (s = t => x = y) /\ (x = y => s = t)
  OBVIOUS
<1>2. PICK k \in Keys, type \in {"event", "revision"} : \E e, r :
        /\ s = <<type, k>> /\ Has(e, r) /\ x = Object(type, e, r)
        /\ event[e][r].by = <<IF type = "event" THEN "accept" ELSE "append", k>>
  BY <1>1
<1>3. PICK e, r :
        /\ s = <<type, k>> /\ Has(e, r) /\ x = Object(type, e, r)
        /\ event[e][r].by = <<IF type = "event" THEN "accept" ELSE "append", k>>
  BY <1>2
<1>4. PICK j \in Keys, kind \in {"event", "revision"} : \E f, q :
        /\ t = <<kind, j>> /\ Has(f, q) /\ y = Object(kind, f, q)
        /\ event[f][q].by = <<IF kind = "event" THEN "accept" ELSE "append", j>>
  BY <1>1
<1>5. PICK f, q :
        /\ t = <<kind, j>> /\ Has(f, q) /\ y = Object(kind, f, q)
        /\ event[f][q].by = <<IF kind = "event" THEN "accept" ELSE "append", j>>
  BY <1>4
<1>6. ASSUME s = t PROVE x = y
  <2>1. k = j /\ type = kind
    BY <1>3, <1>5, <1>6
  <2>2. event[e][r].by = event[f][q].by /\ event[e][r].by[1] \in {"accept", "append", "undo"}
    BY <1>3, <1>5, <2>1
  <2>3. e = f /\ r = q
    BY <1>3, <1>5, <2>2, OneRevisionPerKey DEF Has
  <2> QED
    BY <1>3, <1>5, <2>1, <2>3
<1>7. ASSUME x = y PROVE s = t
  <2>1. Object(type, e, r) = Object(kind, f, q)
    BY <1>3, <1>5, <1>7
  <2>2. type = kind /\ e = f /\ r = q
    BY <2>1, ObjectsDiffer
  <2>3. k = j
    BY <1>3, <1>5, <2>2
  <2> QED
    BY <1>3, <1>5, <2>2, <2>3
<1> QED
  BY <1>6, <1>7

\* The promise as it reads here.
LEMMA PromiseStutters ==
  ASSUME \A s \in Slots : MadeUnder(s)' = MadeUnder(s) /\ AnsweredUnder(s)' = AnsweredUnder(s),
         Gone' = Gone
  PROVE  UNCHANGED Promise!cvars
<1>1. [s \in Slots |-> MadeUnder(s)]' = [s \in Slots |-> MadeUnder(s)]
  BY DEF Slots
<1>2. [s \in Slots |-> AnsweredUnder(s)]' = [s \in Slots |-> AnsweredUnder(s)]
  BY DEF Slots
<1>3. (GoneEvents \cup GoneRevisions)' = GoneEvents \cup GoneRevisions
  BY DEF Gone
<1> QED
  BY <1>1, <1>2, <1>3 DEF Promise!cvars

\* What is made under one slot alone is new.
LEMMA PromiseMakes ==
  ASSUME MadeOnce', NEW s \in Slots, MadeUnder(s) \subseteq MadeUnder(s)',
         \A t \in Slots : t # s => MadeUnder(t)' = MadeUnder(t),
         \A t \in Slots : AnsweredUnder(t)' = AnsweredUnder(t), Gone' = Gone
  PROVE  [Promise!PromiseNext]_Promise!cvars
<1>1. CASE MadeUnder(s)' = MadeUnder(s)
  <2>1. UNCHANGED Promise!cvars
    BY <1>1, PromiseStutters
  <2> QED
    BY <2>1
<1>2. CASE MadeUnder(s)' # MadeUnder(s)
  <2>1. PICK thing : thing \in MadeUnder(s)' /\ thing \notin MadeUnder(s)
    BY <1>2
  <2>2. \A t \in Slots : \A y \in MadeUnder(t)' : s = t <=> thing = y
    BY <2>1 DEF MadeOnce, Slots
  <2>3. MadeUnder(s)' = {thing} /\ MadeUnder(s) = {}
    BY <2>1, <2>2
  <2>4. \A t \in Slots : thing \notin MadeUnder(t)
    BY <2>1, <2>2, <2>3
  <2>5. [t \in Slots |-> MadeUnder(t)]' = [[t \in Slots |-> MadeUnder(t)] EXCEPT ![s] = {thing}]
    BY <2>3 DEF Slots
  <2>6. [t \in Slots |-> AnsweredUnder(t)]' = [t \in Slots |-> AnsweredUnder(t)]
    BY DEF Slots
  <2>7. (GoneEvents \cup GoneRevisions)' = GoneEvents \cup GoneRevisions
    BY DEF Gone
  <2>8. thing \in [t \in Slots |-> MadeUnder(t)]'[s]
    BY <2>3, <2>5
  <2>9. Promise!Make(s)
    BY <2>3, <2>4, <2>5, <2>6, <2>7, <2>8 DEF Promise!Make
  <2> QED
    BY <2>9 DEF Promise!PromiseNext
<1> QED
  BY <1>1, <1>2

\* What is taken back is what a slot has made that was answered.
LEMMA PromiseTakesBack ==
  ASSUME MadeOnce, NEW s \in Slots, AnsweredUnder(s) # {},
         Gone \subseteq Gone', Gone' \subseteq Gone \cup MadeUnder(s),
         \A t \in Slots : MadeUnder(t)' = MadeUnder(t) /\ AnsweredUnder(t)' = AnsweredUnder(t)
  PROVE  [Promise!PromiseNext]_Promise!cvars
<1>1. CASE Gone' = Gone
  <2>1. UNCHANGED Promise!cvars
    BY <1>1, PromiseStutters
  <2> QED
    BY <2>1
<1>2. CASE Gone' # Gone
  <2>1. PICK o : o \in Gone' /\ o \notin Gone
    BY <1>2
  <2>2. o \in MadeUnder(s) /\ \A y \in MadeUnder(s) : o = y
    BY <2>1 DEF MadeOnce
  <2>3. Gone' = Gone \cup MadeUnder(s)
    BY <2>1, <2>2
  <2>4. (GoneEvents \cup GoneRevisions)'
          = (GoneEvents \cup GoneRevisions) \cup [t \in Slots |-> MadeUnder(t)][s]
    BY <2>3 DEF Gone
  <2>5. [t \in Slots |-> MadeUnder(t)]' = [t \in Slots |-> MadeUnder(t)]
    BY DEF Slots
  <2>6. [t \in Slots |-> AnsweredUnder(t)]' = [t \in Slots |-> AnsweredUnder(t)]
    BY DEF Slots
  <2>7. Promise!TakeBack(s)
    BY <2>4, <2>5, <2>6 DEF Promise!TakeBack
  <2> QED
    BY <2>7 DEF Promise!PromiseNext
<1> QED
  BY <1>1, <1>2

-----------------------------------------------------------------------------
(* The promise, step by step.                                              *)

\* How the promise is read off the versions that are there.
Reading ==
  /\ MadeOnce
  /\ \A k, o : /\ o \in MadeUnder(<<"event", k>>) <=> Makes("accept", "event", k, o)
               /\ o \in MadeUnder(<<"revision", k>>) <=> Makes("append", "revision", k, o)
  /\ \A o : o \in Gone <=> IsGone(o)

LEMMA ReadingHolds ==
  ASSUME IInv
  PROVE  Reading
<1>1. CoreIsSound
  BY DEF IInv, HostIsSound
<1> QED
  BY <1>1, ThingsAreMadeOnce, MadeByVersion, GoneByVersion DEF Reading

\* A version that was not there is this one.
Adds(v) ==
  \A e, r : Has(e, r)' => event'[e][r] = v \/ (Has(e, r) /\ event'[e][r] = event[e][r])

\* What is there stays.
LEMMA VersionsStay ==
  ASSUME CoreKeeps, NEW e, NEW r, Has(e, r)
  PROVE  Has(e, r)' /\ event'[e][r] = event[e][r]
  BY DEF CoreKeeps, Has

\* A new version of a command and a key makes nothing under another.
LEMMA MakesGrows ==
  ASSUME CoreKeeps, NEW v, Adds(v), NEW c, NEW j, NEW type, NEW o
  PROVE  /\ Makes(c, type, j, o) => Makes(c, type, j, o)'
         /\ v.by # <<c, j>> => (Makes(c, type, j, o)' => Makes(c, type, j, o))
<1>1. Makes(c, type, j, o) => Makes(c, type, j, o)'
  BY VersionsStay DEF Makes
<1>2. ASSUME v.by # <<c, j>>, Makes(c, type, j, o)' PROVE Makes(c, type, j, o)
  <2>1. PICK e, r : Has(e, r)' /\ event'[e][r].by = <<c, j>> /\ o = Object(type, e, r)
    BY <1>2 DEF Makes
  <2>2. Has(e, r) /\ event'[e][r] = event[e][r]
    BY <1>2, <2>1 DEF Adds
  <2> QED
    BY <2>1, <2>2 DEF Makes
<1> QED
  BY <1>1, <1>2

LEMMA MadeGrows ==
  ASSUME Reading, Reading', CoreKeeps, NEW v, Adds(v), NEW s \in Slots
  PROVE  /\ MadeUnder(s) \subseteq MadeUnder(s)'
         /\ v.by # <<IF s[1] = "event" THEN "accept" ELSE "append", s[2]>> =>
              MadeUnder(s)' = MadeUnder(s)
<1>1. PICK type \in {"event", "revision"}, k \in Keys : s = <<type, k>>
  BY DEF Slots
<1>2. PICK c : c = IF type = "event" THEN "accept" ELSE "append"
  OBVIOUS
<1>3. \A o : (o \in MadeUnder(s) <=> Makes(c, type, k, o))
             /\ (o \in MadeUnder(s)' <=> Makes(c, type, k, o)')
  <2>1. CASE type = "event"
    <3>1. \A o : (o \in MadeUnder(<<"event", k>>) <=> Makes("accept", "event", k, o))
                 /\ (o \in MadeUnder(<<"event", k>>)' <=> Makes("accept", "event", k, o)')
      BY DEF Reading
    <3> QED
      BY <1>1, <1>2, <2>1, <3>1
  <2>2. CASE type = "revision"
    <3>1. \A o : (o \in MadeUnder(<<"revision", k>>) <=> Makes("append", "revision", k, o))
                 /\ (o \in MadeUnder(<<"revision", k>>)' <=> Makes("append", "revision", k, o)')
      BY DEF Reading
    <3> QED
      BY <1>1, <1>2, <2>2, <3>1
  <2> QED
    BY <2>1, <2>2
<1>4. \A o : (Makes(c, type, k, o) => Makes(c, type, k, o)')
             /\ (v.by # <<c, k>> => (Makes(c, type, k, o)' => Makes(c, type, k, o)))
  BY MakesGrows
<1>5. (IF s[1] = "event" THEN "accept" ELSE "append") = c /\ s[2] = k
  BY <1>1, <1>2
<1> QED
  BY <1>3, <1>4, <1>5

\* What is gone stays gone, and a version that neither deletes nor undoes takes nothing
\* back.
LEMMA GoneGrows ==
  ASSUME Reading, Reading', CoreKeeps, NEW v, Adds(v)
  PROVE  /\ Gone \subseteq Gone'
         /\ \A o \in Gone' \ Gone : \E e, r :
              /\ Has(e, r)' /\ ~Has(e, r) /\ event'[e][r] = v
              /\ \/ v.state = "deleted" /\ o = Object("event", e, 1)
                 \/ v.by[1] = "undo" /\ o = Object("revision", e, r - 1)
<1>1. \A o : (o \in Gone <=> IsGone(o)) /\ (o \in Gone' <=> IsGone(o)')
  BY DEF Reading
<1>2. ASSUME NEW o, IsGone(o) PROVE IsGone(o)'
  BY <1>2, VersionsStay DEF IsGone
<1>3. ASSUME NEW o, IsGone(o)', ~IsGone(o)
      PROVE  \E e, r : /\ Has(e, r)' /\ ~Has(e, r) /\ event'[e][r] = v
                       /\ \/ v.state = "deleted" /\ o = Object("event", e, 1)
                          \/ v.by[1] = "undo" /\ o = Object("revision", e, r - 1)
  <2>1. PICK e, r : /\ Has(e, r)'
                    /\ \/ event'[e][r].state = "deleted" /\ o = Object("event", e, 1)
                       \/ event'[e][r].by[1] = "undo" /\ o = Object("revision", e, r - 1)
    BY <1>3 DEF IsGone
  <2>2. ~Has(e, r)
    BY <1>3, <2>1, VersionsStay DEF IsGone
  <2>3. event'[e][r] = v
    BY <2>1, <2>2 DEF Adds
  <2> QED
    BY <2>1, <2>2, <2>3
<1> QED
  BY <1>1, <1>2, <1>3

\* Agents were answered with nothing but what their captures have made.
AnswersAreMade == \A s \in Slots : AnsweredUnder(s) \subseteq MadeUnder(s)

LEMMA AnswersHold ==
  ASSUME IInv
  PROVE  AnswersAreMade
<1>1. HostIsSound /\ CoreIsSound /\ RecordsAgree
  BY DEF IInv, AgentsAreSound, HostIsSound
<1> SUFFICES ASSUME NEW type \in {"event", "revision"}, NEW k \in Keys,
                    NEW o \in told[k], o.type = type
             PROVE  o \in MadeUnder(<<type, k>>)
  BY DEF AnswersAreMade, AnsweredUnder, Slots
<1>2. PICK c \in Calls, object \in Objects : Recalls(k, c, object)
  BY <1>1 DEF RecordsAgree, RecordAgrees
<1>3. c.key = k /\ Held(c, object) /\ o = object
  BY <1>2 DEF Recalls
<1>4. c.kind \in {"event", "revision", "correct"}
  <2>1. c.kind \in {"block", "note"} => object.type = "feedback"
    BY <1>3 DEF Held
  <2>2. c.kind \in {"event", "revision", "correct", "block", "note"}
    BY CallsAssumption DEF Call
  <2> QED
    BY <1>3, <2>1, <2>2
<1>5. CASE c.kind = "event"
  <2>1. PICK e \in Nat : object = Object("event", e, 1) /\ Names("accept", k, "event", e, 1)
    BY <1>1, <1>3, <1>5, HeldObject
  <2>2. Has(e, 1) /\ event[e][1].by = <<"accept", k>>
    BY <1>1, <2>1, FirstSource DEF Has
  <2>3. Makes("accept", "event", k, o)
    BY <1>3, <2>1, <2>2 DEF Makes
  <2>4. o.type = "event"
    BY <1>3, <2>1 DEF Object
  <2> QED
    BY <1>1, <2>3, <2>4, MadeByVersion
<1>6. CASE c.kind \in {"revision", "correct"}
  <2>1. PICK e \in Nat, r \in Nat :
          object = Object("revision", e, r) /\ Names("append", k, "revision", e, r)
    BY <1>1, <1>3, <1>6, HeldObject
  <2>2. Has(e, r) /\ event[e][r].by = <<"append", k>>
    BY <1>1, <2>1, LaterRevision DEF Has
  <2>3. Makes("append", "revision", k, o)
    BY <1>3, <2>1, <2>2 DEF Makes
  <2>4. o.type = "revision"
    BY <1>3, <2>1 DEF Object
  <2> QED
    BY <1>1, <2>3, <2>4, MadeByVersion
<1> QED
  BY <1>4, <1>5, <1>6

\* A request to undo is of something its agent was told of.
UndoIsAsked ==
  \A k \in Keys : work \in RequestType /\ work.key = k =>
    /\ work.op = "undo_event" => AnsweredUnder(<<"event", k>>) # {}
    /\ work.op = "undo_revision" => AnsweredUnder(<<"revision", k>>) # {}

\* A host that works has a request.
LEMMA WorkIsRequest ==
  ASSUME IInv, HostStep \/ CoreBusy
  PROVE  work \in RequestType
<1>1. work.at # "reply" /\ work # NoWork
  BY DEF HostStep, BeginOperation, CaptureSource, CreateObservation, AcceptEvent, AppendRevision,
         DeleteSource, UndoRevision, CompleteOperation, EnqueueJob, ListDelivery, BlockEvent,
         CoreBusy, NoWork
<1>2. PICK op \in Ops, k \in Keys, e \in Nat : Serves(op, k, e)
  BY <1>1 DEF IInv, HostIsSound, WorkAgrees
<1> QED
  BY <1>1, <1>2, AtWork

\* The host goes on with its request, or answers it.
LEMMA RequestStays ==
  ASSUME IInv, work \in RequestType, HostStep \/ CoreBusy
  PROVE  work' \in RequestType => work'.op = work.op /\ work'.key = work.key
<1>1. HostIsSound
  BY DEF IInv
<1>2. work.at # "reply" /\ work # NoWork
  <2>1. work.at \in Steps /\ DOMAIN work # DOMAIN NoWork
    BY DEF RequestType, NoWork
  <2> QED
    BY <2>1 DEF Steps
<1>3. PICK op \in Ops, k \in Keys, e \in Nat : Serves(op, k, e)
  BY <1>1, <1>2 DEF HostIsSound, WorkAgrees
<1>4. work.op = op /\ work.key = k
  BY <1>2, <1>3 DEF Serves, Asks, ReplyType
<1>5. Serves(op, k, e)'
  BY <1>1, <1>3, HostGoesOn DEF GoesOn
<1>6. work' \in RequestType => work'.at # "reply"
  BY DEF RequestType, Steps
<1>7. work' \in ReplyType \/ (work'.op = op /\ work'.key = k)
  BY <1>5 DEF Serves, Asks
<1> QED
  BY <1>4, <1>6, <1>7 DEF ReplyType
\* Where the request of the host comes from.
LEMMA RequestComes ==
  ASSUME [Next]_vars, work' \in RequestType
  PROVE  \/ work' = work
         \/ HostStep \/ CoreBusy
         \/ work'.op \notin {"undo_event", "undo_revision"}
         \/ \E c \in Calls : BeginUndo(c)
<1>1. work' # NoWork
  <2>1. DOMAIN work' # DOMAIN NoWork
    BY DEF RequestType, NoWork
  <2> QED
    BY <2>1
<1>2. ASSUME NEW g \in Grants,
             \/ BeginPair(g) \/ ApprovePair(g) \/ ChallengeExpires(g)
             \/ RevokePair(g) \/ GrantExpires(g) \/ GetContext(g)
      PROVE  work' = work
  BY <1>2 DEF BeginPair, ApprovePair, ChallengeExpires, RevokePair, GrantExpires, GetContext,
              SetGrant, hostVars
<1>3. ASSUME NEW c \in Calls, Replay(c) \/ UndoExpires(c)
      PROVE  work' = work
  BY <1>3 DEF Replay, UndoExpires, hostVars
<1>4. ASSUME NEW c \in Calls, Begin(c)
      PROVE  work'.op \notin {"undo_event", "undo_revision"}
  <2>1. work' = StoreRequest(c) /\ c.kind \in {"event", "revision", "correct", "block"}
    BY <1>4, CallsAssumption DEF Begin, Send, Call
  <2> QED
    BY <2>1 DEF StoreRequest, Request
<1>5. ASSUME NEW c, NEW object, work' = Delivery(c, object)
      PROVE  work'.op \notin {"undo_event", "undo_revision"}
  BY <1>5 DEF Delivery, Request
<1>6. ASSUME NEW c \in Calls, BeginNote(c)
      PROVE  work'.op \notin {"undo_event", "undo_revision"}
  BY <1>5, <1>6 DEF BeginNote, Send
<1>7. Receives => work'.op \notin {"undo_event", "undo_revision"}
  BY <1>1, <1>5 DEF Receives, Stored, Queued, Undone, Refused, Listen, Send
<1>8. HostStops \/ McpStops \/ OrphanEnds \/ Restart => work' = work
  BY <1>1 DEF HostStops, McpStops, OrphanEnds, Restart, hostVars
<1>9. UNCHANGED vars => work' = work
  BY DEF vars, hostVars
<1> QED
  BY <1>2, <1>3, <1>4, <1>6, <1>7, <1>8, <1>9 DEF Next, HostWorks, Busy

\* Nobody asks to undo what nobody was told of.
LEMMA UndoStaysAsked ==
  ASSUME IInv, UndoIsAsked, [Next]_vars
  PROVE  UndoIsAsked'
<1> SUFFICES ASSUME NEW k \in Keys, work' \in RequestType, work'.key = k
             PROVE  /\ work'.op = "undo_event" => AnsweredUnder(<<"event", k>>)' # {}
                    /\ work'.op = "undo_revision" => AnsweredUnder(<<"revision", k>>)' # {}
  BY DEF UndoIsAsked
<1>1. \A type : AnsweredUnder(<<type, k>>) # {} => AnsweredUnder(<<type, k>>)' # {}
  BY AgentKeeps DEF AgentsKeep, AnsweredUnder
<1>2. ASSUME work \in RequestType, work'.op = work.op, work'.key = work.key
      PROVE  /\ work'.op = "undo_event" => AnsweredUnder(<<"event", k>>)' # {}
             /\ work'.op = "undo_revision" => AnsweredUnder(<<"revision", k>>)' # {}
  <2>1. /\ work.op = "undo_event" => AnsweredUnder(<<"event", k>>) # {}
        /\ work.op = "undo_revision" => AnsweredUnder(<<"revision", k>>) # {}
    BY <1>2 DEF UndoIsAsked
  <2> QED
    BY <1>1, <1>2, <2>1
<1>3. CASE work' = work
  BY <1>2, <1>3
<1>4. CASE HostStep \/ CoreBusy
  <2>1. work \in RequestType
    BY <1>4, WorkIsRequest
  <2> QED
    BY <1>2, <1>4, <2>1, RequestStays
<1>5. ASSUME NEW c \in Calls, BeginUndo(c)
      PROVE  /\ work'.op = "undo_event" => AnsweredUnder(<<"event", k>>)' # {}
             /\ work'.op = "undo_revision" => AnsweredUnder(<<"revision", k>>)' # {}
  <2>1. HostIsSound /\ RecordsAgree
    BY DEF IInv, AgentsAreSound
  <2>2. k = c.key
    BY <1>5 DEF BeginUndo, Send, Request
  <2>3. /\ work'.op = IF c.kind = "event" THEN "undo_event" ELSE "undo_revision"
        /\ IsCapture(c) /\ told[k] # {} /\ told' = told
        /\ record[k] # NoRecord /\ record[k].call = c
    BY <1>5, <2>2 DEF BeginUndo, Send, Request
  <2>4. PICK d \in Calls, object \in Objects : Recalls(k, d, object)
    BY <2>1, <2>3 DEF RecordsAgree, RecordAgrees
  <2>5. d = c /\ Held(c, object) /\ object \in told[k]
    BY <2>3, <2>4 DEF Recalls
  <2>6. c.kind = "event" => object.type = "event"
    BY <2>1, <2>2, <2>5, HeldObject DEF Object
  <2>7. c.kind = "revision" => object.type = "revision"
    BY <2>1, <2>2, <2>5, HeldObject DEF Object
  <2>8. c.kind \in {"event", "revision"}
    BY <2>3 DEF IsCapture
  <2>9. AnsweredUnder(<<c.kind, k>>)' # {}
    BY <2>3, <2>5, <2>6, <2>7, <2>8 DEF AnsweredUnder
  <2> QED
    BY <2>3, <2>8, <2>9
<1> QED
  BY <1>3, <1>4, <1>5, RequestComes
\* What a host at work knows of its request.
LEMMA RequestWorks ==
  ASSUME IInv, HostStep \/ CoreBusy
  PROVE  \E op \in Ops, k \in Keys, e \in Nat, r \in Nat : Works(op, k, e, r)
<1>1. work \in RequestType /\ HostIsSound
  BY WorkIsRequest DEF IInv
<1>2. work.at # "reply" /\ work # NoWork
  <2>1. work.at \in Steps /\ DOMAIN work # DOMAIN NoWork
    BY <1>1 DEF RequestType, NoWork
  <2> QED
    BY <2>1 DEF Steps
<1>3. PICK op \in Ops, k \in Keys, e \in Nat : Serves(op, k, e)
  BY <1>1, <1>2 DEF HostIsSound, WorkAgrees
<1>4. ~(work \in ReplyType)
  BY <1>2 DEF ReplyType
<1>5. PICK r \in Nat : Asks(op, k, e, r) /\ RequestAgrees(op, k, e, r)
  BY <1>3, <1>4 DEF Serves
<1> QED
  BY <1>1, <1>5 DEF Works

\* What the host does for one request that makes a thing.
LEMMA AddMakes ==
  ASSUME Reading, Reading', CoreKeeps, told' = told, NEW v, Adds(v), v.state = "active",
         NEW type \in {"event", "revision"}, NEW k \in Keys,
         v.by = <<IF type = "event" THEN "accept" ELSE "append", k>>
  PROVE  [Promise!PromiseNext]_Promise!cvars
<1>1. PICK s \in Slots : s = <<type, k>>
  BY DEF Slots
<1>2. MadeUnder(s) \subseteq MadeUnder(s)'
  BY MadeGrows
<1>3. ASSUME NEW t \in Slots, t # s PROVE MadeUnder(t)' = MadeUnder(t)
  <2>1. PICK kind \in {"event", "revision"}, j \in Keys : t = <<kind, j>>
    BY DEF Slots
  <2>2. v.by # <<IF t[1] = "event" THEN "accept" ELSE "append", t[2]>>
    BY <1>1, <1>3, <2>1
  <2> QED
    BY <2>2, MadeGrows
<1>4. \A t \in Slots : AnsweredUnder(t)' = AnsweredUnder(t)
  BY DEF AnsweredUnder
<1>5. Gone' = Gone
  BY GoneGrows
<1>6. MadeOnce'
  BY DEF Reading
<1> QED
  BY <1>2, <1>3, <1>4, <1>5, <1>6, PromiseMakes

\* A revision of an event is the only version that was not there.
LEMMA RevisedAdds ==
  ASSUME CoreIsSound, NEW e \in DOMAIN event, NEW v \in Version, NEW n, n = Len(event[e]) + 1,
         Revised(e, v)
  PROVE  Adds(v) /\ \A f, q : Has(f, q)' /\ ~Has(f, q) => f = e /\ q = n
<1>1. /\ DOMAIN event' = DOMAIN event
      /\ \A f \in DOMAIN event : f # e => event'[f] = event[f]
      /\ DOMAIN event'[e] = DOMAIN event[e] \cup {n}
      /\ \A r \in DOMAIN event[e] : event'[e][r] = event[e][r]
      /\ event'[e][n] = v
  BY HistoryGrows
<1> QED
  BY <1>1 DEF Adds, Has

LEMMA AcceptEventIsPromised ==
  ASSUME IInv, Reading, Reading', CoreKeeps, told' = told, AcceptEvent
  PROVE  [Promise!PromiseNext]_Promise!cvars \/ event' = event
<1>1. CASE event' = event
  BY <1>1
<1>2. CASE event' # event
  <2>1. work \in RequestType /\ CoreIsSound
    BY WorkIsRequest DEF HostStep, IInv, HostIsSound
  <2>2. PICK k \in Keys : \E v : k = work.key /\ v = Revision("active", work.source, "accept")
    BY <2>1 DEF RequestType
  <2>3. PICK v : k = work.key /\ v = Revision("active", work.source, "accept")
    BY <2>2
  <2>4. event' = Append(event, <<v>>)
    BY <1>2, <2>3 DEF AcceptEvent, Again, coreVars
  <2>5. v.state = "active" /\ v.by = <<"accept", k>>
    BY <2>3 DEF Revision
  <2>6. event \in Seq(Seq(Version))
    BY <2>1 DEF CoreIsSound, CoreTyped
  <2>7. /\ DOMAIN event' = DOMAIN event \cup {Len(event) + 1}
        /\ \A e \in DOMAIN event : event'[e] = event[e]
        /\ event'[Len(event) + 1] = <<v>>
    BY <2>4, <2>6
  <2>8. Adds(v)
    BY <2>7 DEF Adds, Has
  <2> QED
    BY <2>5, <2>8, AddMakes
<1> QED
  BY <1>1, <1>2

LEMMA AppendRevisionIsPromised ==
  ASSUME IInv, Reading, Reading', CoreKeeps, told' = told, AppendRevision
  PROVE  [Promise!PromiseNext]_Promise!cvars \/ event' = event
<1>1. CASE event' = event
  BY <1>1
<1>2. CASE event' # event
  <2>1. PICK op \in Ops, k \in Keys, e \in Nat, r \in Nat : Works(op, k, e, r)
    BY RequestWorks DEF HostStep
  <2>2. /\ CoreIsSound /\ work.key = k /\ work.event = e /\ e \in DOMAIN event
        /\ Src(k) # NoSlot /\ Src(k).result = work.source
    BY <2>1 DEF Works, HostIsSound, Asks, RequestAgrees, AppendRevision, Active, Exists
  <2>3. PICK v : v = Revision("active", work.source, "append")
    OBVIOUS
  <2>4. Revised(e, v)
    BY <1>2, <2>2, <2>3 DEF AppendRevision, Again, coreVars
  <2>5. v = [state |-> "active", rests |-> work.source, by |-> <<"append", k>>]
    BY <2>2, <2>3 DEF Revision
  <2>6. work.source \in Nat
    BY <2>1 DEF Works, RequestType
  <2>7. v \in Version /\ v.state = "active" /\ v.by = <<"append", k>>
    BY <2>5, <2>6 DEF Version, Commands
  <2>8. Adds(v)
    BY <2>2, <2>4, <2>7, RevisedAdds
  <2> QED
    BY <2>7, <2>8, AddMakes
<1> QED
  BY <1>1, <1>2

\* What the host does for one request that takes a thing back.
LEMMA AddTakesBack ==
  ASSUME Reading, Reading', CoreKeeps, told' = told, NEW v, Adds(v),
         NEW type \in {"event", "revision"}, NEW k \in Keys, AnsweredUnder(<<type, k>>) # {},
         v.by[1] \notin {"accept", "append"},
         \A o \in Gone' \ Gone : o \in MadeUnder(<<type, k>>)
  PROVE  [Promise!PromiseNext]_Promise!cvars
<1>1. PICK s \in Slots : s = <<type, k>>
  BY DEF Slots
<1>2. ASSUME NEW t \in Slots PROVE MadeUnder(t)' = MadeUnder(t)
  <2>1. v.by # <<IF t[1] = "event" THEN "accept" ELSE "append", t[2]>>
    OBVIOUS
  <2> QED
    BY <2>1, MadeGrows
<1>3. \A t \in Slots : AnsweredUnder(t)' = AnsweredUnder(t)
  BY DEF AnsweredUnder
<1>4. Gone \subseteq Gone' /\ Gone' \subseteq Gone \cup MadeUnder(s)
  BY <1>1, GoneGrows
<1>5. MadeOnce
  BY DEF Reading
<1> QED
  BY <1>1, <1>2, <1>3, <1>4, <1>5, PromiseTakesBack

LEMMA DeleteSourceIsPromised ==
  ASSUME IInv, IInv', Reading, Reading', UndoIsAsked, CoreKeeps, told' = told, DeleteSource
  PROVE  [Promise!PromiseNext]_Promise!cvars \/ event' = event
<1>1. CASE event' = event
  BY <1>1
<1>2. CASE event' # event
  <2>1. work \in RequestType /\ CoreIsSound /\ CoreIsSound'
    BY WorkIsRequest DEF HostStep, IInv, HostIsSound
  <2>2. PICK k \in Keys : k = work.key
    BY <2>1 DEF RequestType
  <2>3. PICK s : s = operation[This].source
    OBVIOUS
  <2>4. PICK v : v = Revision("deleted", s, "delete")
    OBVIOUS
  <2>5. v.state = "deleted" /\ v.by = <<"delete", k>>
    BY <2>2, <2>4 DEF Revision
  <2>6. PICK gone : event' = [e \in DOMAIN event |->
                                IF e \in gone THEN Append(event[e], v) ELSE event[e]]
    BY <1>2, <2>3, <2>4 DEF DeleteSource, Again, coreVars
  <2>7. event \in Seq(Seq(Version)) /\ v \in Version
    <3>1. event \in Seq(Seq(Version)) /\ event' \in Seq(Seq(Version))
      BY <2>1 DEF CoreIsSound, CoreTyped
    <3>2. PICK e \in DOMAIN event : event'[e] = Append(event[e], v)
      BY <1>2, <2>6, <3>1
    <3>3. event'[e] \in Seq(Version) /\ event[e] \in Seq(Version)
      BY <2>6, <3>1
    <3>4. Append(event[e], v)[Len(event[e]) + 1] = v /\ Len(Append(event[e], v)) = Len(event[e]) + 1
      BY <3>3
    <3> QED
      BY <3>1, <3>2, <3>3, <3>4
  <2>8. \A e \in DOMAIN event :
          /\ DOMAIN Append(event[e], v) = DOMAIN event[e] \cup {Len(event[e]) + 1}
          /\ \A r \in DOMAIN event[e] : Append(event[e], v)[r] = event[e][r]
          /\ Append(event[e], v)[Len(event[e]) + 1] = v
    BY <2>7, Appended
  <2>9. Adds(v)
    BY <2>6, <2>8 DEF Adds, Has
  <2>10. ASSUME NEW o \in Gone' \ Gone PROVE o \in MadeUnder(<<"event", k>>)
    <3>1. PICK e, r : /\ Has(e, r)' /\ ~Has(e, r) /\ event'[e][r] = v
                      /\ \/ v.state = "deleted" /\ o = Object("event", e, 1)
                         \/ v.by[1] = "undo" /\ o = Object("revision", e, r - 1)
      BY <2>9, <2>10, GoneGrows
    <3>2. o = Object("event", e, 1)
      BY <2>5, <3>1
    <3>3. VersionAgrees(e, r)'
      BY <2>1, <3>1 DEF CoreIsSound, EventsAgree, Has
    <3>4. IsTombstone(e, r)'
      BY <2>5, <3>1, <3>3 DEF VersionAgrees
    <3>5. event'[e][1].by = <<"accept", k>>
      BY <2>5, <3>1, <3>4 DEF IsTombstone
    <3>6. Has(e, 1)'
      <4>1. event'[e] \in Seq(Version) /\ event'[e] # <<>>
        BY <2>1, <3>1 DEF CoreIsSound, CoreTyped, EventsAgree, Has
      <4> QED
        BY <3>1, <4>1 DEF Has
    <3>7. Makes("accept", "event", k, o)'
      BY <3>2, <3>5, <3>6 DEF Makes
    <3>8. v.by # <<"accept", k>>
      BY <2>5
    <3>9. Makes("accept", "event", k, o)
      BY <2>9, <3>7, <3>8, MakesGrows
    <3> QED
      BY <3>9 DEF Reading
  <2>11. AnsweredUnder(<<"event", k>>) # {}
    BY <2>1, <2>2 DEF UndoIsAsked, DeleteSource
  <2> QED
    BY <2>5, <2>9, <2>10, <2>11, AddTakesBack
<1> QED
  BY <1>1, <1>2

LEMMA UndoRevisionIsPromised ==
  ASSUME IInv, Reading, Reading', UndoIsAsked, CoreKeeps, told' = told, UndoRevision
  PROVE  [Promise!PromiseNext]_Promise!cvars \/ event' = event
<1>1. CASE event' = event
  BY <1>1
<1>2. CASE event' # event
  <2>1. PICK op \in Ops, k \in Keys, e \in Nat, r \in Nat : Works(op, k, e, r)
    BY RequestWorks DEF HostStep
  <2>2. /\ CoreIsSound /\ OperationsAgree /\ work.key = k /\ work.event = e
        /\ work.op = "undo_revision" /\ This = <<"undo_revision", k>>
        /\ Names("append", k, "revision", e, r) /\ work \in RequestType
        /\ operation[<<"undo_revision", k>>].state \in {"prepared", "retry_pending"}
    BY <2>1 DEF Works, HostIsSound, Asks, RequestAgrees, UndoRevision, This
  <2>3. operation[This].base = r
    <3>1. OperationAgrees("undo_revision", k) /\ operation[<<"undo_revision", k>>] # NoOperation
      BY <2>2 DEF OperationsAgree, NoOperation, StoreOps
    <3>2. PICK f : Names("append", k, "revision", f, operation[This].base)
      BY <2>2, <3>1 DEF OperationAgrees
    <3>3. Object("revision", f, operation[This].base) = Object("revision", e, r)
      BY <2>2, <3>2 DEF Names
    <3> QED
      BY <3>3, ObjectsDiffer
  <2>4. PICK q, n : q = r - 1 /\ n = r + 1
    OBVIOUS
  <2>5. PICK v : v = Revision(event[e][q].state, event[e][q].rests, "undo")
    OBVIOUS
  <2>6. Revised(e, v) /\ Len(event[e]) = r
    BY <1>2, <2>2, <2>3, <2>4, <2>5 DEF UndoRevision, Again, coreVars
  <2>7. /\ e \in DOMAIN event /\ event[e][q].state = "active" /\ event[e][q].rests \in DOMAIN source
    BY <2>2, <2>4, <2>6, UndoneTo
  <2>8. v = [state |-> "active", rests |-> event[e][q].rests, by |-> <<"undo", k>>]
    BY <2>2, <2>5, <2>7 DEF Revision
  <2>9. v \in Version
    <3>1. DOMAIN source \subseteq Nat
      BY <2>2 DEF CoreIsSound, CoreTyped
    <3> QED
      BY <2>7, <2>8, <3>1 DEF Version, Commands
  <2>10. Adds(v) /\ \A f, p : Has(f, p)' /\ ~Has(f, p) => f = e /\ p = n
    BY <2>2, <2>4, <2>6, <2>7, <2>9, RevisedAdds
  <2>11. ASSUME NEW o \in Gone' \ Gone PROVE o \in MadeUnder(<<"revision", k>>)
    <3>1. PICK f, p : /\ Has(f, p)' /\ ~Has(f, p) /\ event'[f][p] = v
                      /\ \/ v.state = "deleted" /\ o = Object("event", f, 1)
                         \/ v.by[1] = "undo" /\ o = Object("revision", f, p - 1)
      BY <2>10, <2>11, GoneGrows
    <3>2. f = e /\ p = n
      BY <2>10, <3>1
    <3>3. n - 1 = r
      BY <2>4
    <3>4. o = Object("revision", e, r)
      BY <2>8, <3>1, <3>2, <3>3
    <3>5. Has(e, r) /\ event[e][r].by = <<"append", k>>
      BY <2>2, LaterRevision DEF Has
    <3>6. Makes("append", "revision", k, o)
      BY <3>4, <3>5 DEF Makes
    <3> QED
      BY <3>6 DEF Reading
  <2>12. AnsweredUnder(<<"revision", k>>) # {}
    BY <2>2 DEF UndoIsAsked
  <2>13. v.by[1] \notin {"accept", "append"}
    BY <2>8
  <2> QED
    BY <2>10, <2>11, <2>12, <2>13, AddTakesBack
<1> QED
  BY <1>1, <1>2
\* The agent is answered with what its capture has made, or with a feedback record, which
\* is nobody's slot.
LEMMA ToldIsPromised ==
  ASSUME Reading, AnswersAreMade', event' = event, DOMAIN told = Keys, NEW k \in Keys,
         NEW object, Told(k, object)
  PROVE  [Promise!PromiseNext]_Promise!cvars
<1>1. \A t \in Slots : MadeUnder(t)' = MadeUnder(t)
  BY DEF MadeUnder
<1>2. Gone' = Gone
  BY DEF Gone, GoneEvents, GoneRevisions
<1>3. told' = [told EXCEPT ![k] = told[k] \cup {object}]
  BY DEF Told
<1>4. \A t \in Slots : t # <<object.type, k>> => AnsweredUnder(t)' = AnsweredUnder(t)
  <2> SUFFICES ASSUME NEW type \in {"event", "revision"}, NEW j \in Keys,
                      <<type, j>> # <<object.type, k>>
               PROVE  AnsweredUnder(<<type, j>>)' = AnsweredUnder(<<type, j>>)
    BY DEF Slots
  <2>1. {o \in told'[j] : o.type = type} = {o \in told[j] : o.type = type}
    BY <1>3
  <2> QED
    BY <2>1 DEF AnsweredUnder
<1>5. CASE <<object.type, k>> \notin Slots
  <2>1. UNCHANGED Promise!cvars
    BY <1>1, <1>2, <1>4, <1>5, PromiseStutters
  <2> QED
    BY <2>1
<1>6. CASE <<object.type, k>> \in Slots
  <2>1. PICK s \in Slots : s = <<object.type, k>>
    BY <1>6
  <2>2. AnsweredUnder(s)' \subseteq MadeUnder(s)
    BY <1>1 DEF AnswersAreMade, Slots
  <2>3. object \in AnsweredUnder(s)'
    BY <1>3, <2>1 DEF AnsweredUnder
  <2>4. AnsweredUnder(s)' = MadeUnder(s) /\ MadeUnder(s) # {}
    BY <2>2, <2>3 DEF Reading, MadeOnce
  <2>5. [t \in Slots |-> MadeUnder(t)]' = [t \in Slots |-> MadeUnder(t)]
    BY <1>1 DEF Slots
  <2>6. [t \in Slots |-> AnsweredUnder(t)]'
          = [[t \in Slots |-> AnsweredUnder(t)] EXCEPT ![s] = MadeUnder(s)]
    BY <1>4, <2>1, <2>4 DEF Slots
  <2>7. (GoneEvents \cup GoneRevisions)' = GoneEvents \cup GoneRevisions
    BY <1>2 DEF Gone
  <2>8. Promise!Answer(s)
    BY <2>4, <2>5, <2>6, <2>7 DEF Promise!Answer
  <2> QED
    BY <2>8 DEF Promise!PromiseNext
<1> QED
  BY <1>5, <1>6

\* Nothing an agent is promised is moved.
LEMMA NothingIsPromised ==
  ASSUME event' = event, told' = told
  PROVE  [Promise!PromiseNext]_Promise!cvars
<1>1. \A t \in Slots : MadeUnder(t)' = MadeUnder(t) /\ AnsweredUnder(t)' = AnsweredUnder(t)
  BY DEF MadeUnder, AnsweredUnder
<1>2. Gone' = Gone
  BY DEF Gone, GoneEvents, GoneRevisions
<1>3. UNCHANGED Promise!cvars
  BY <1>1, <1>2, PromiseStutters
<1> QED
  BY <1>3

\* The host makes a thing, takes one back, or does neither.
LEMMA HostIsPromised ==
  ASSUME IInv, IInv', Reading, Reading', UndoIsAsked, CoreKeeps, told' = told, HostStep \/ CoreBusy
  PROVE  [Promise!PromiseNext]_Promise!cvars
<1>1. \/ BeginOperation \/ CaptureSource \/ CreateObservation \/ CompleteOperation
      \/ EnqueueJob \/ ListDelivery \/ BlockEvent \/ CoreBusy
      => event' = event
  BY DEF BeginOperation, CaptureSource, CreateObservation, CompleteOperation, EnqueueJob,
         ListDelivery, BlockEvent, CoreBusy, Again, coreVars
<1> QED
  BY <1>1, NothingIsPromised, AcceptEventIsPromised, AppendRevisionIsPromised,
     DeleteSourceIsPromised, UndoRevisionIsPromised DEF HostStep

\* The server answers an agent, or moves nothing it is promised.
LEMMA AgentIsPromised ==
  ASSUME IInv, Reading, AnswersAreMade', [Next]_vars, UNCHANGED <<coreVars, controlVars>>
  PROVE  [Promise!PromiseNext]_Promise!cvars
<1>1. event' = event /\ DOMAIN told = Keys
  BY DEF coreVars, IInv, AgentsAreSound, AgentTyped
<1>2. ASSUME NEW c \in Calls, NEW object, Told(c.key, object)
      PROVE  [Promise!PromiseNext]_Promise!cvars
  BY <1>1, <1>2, CallType, ToldIsPromised
<1>3. ASSUME NEW c \in Calls, NEW object, Finish(c, object)
      PROVE  [Promise!PromiseNext]_Promise!cvars
  <2>1. Told(c.key, object) \/ told' = told
    BY <1>3 DEF Finish
  <2> QED
    BY <1>1, <1>2, <2>1, NothingIsPromised
<1>4. ASSUME NEW c \in Calls, Replay(c) PROVE [Promise!PromiseNext]_Promise!cvars
  <2>1. Told(c.key, record[c.key].object)
    BY <1>4 DEF Replay
  <2> QED
    BY <1>2, <2>1
<1>5. CASE Stored
  <2>1. PICK c \in Calls : call.call = c
    BY <1>5, AnswerIsHeard DEF Stored
  <2>2. Finish(c, Result(c)) \/ told' = told
    BY <1>5, <2>1 DEF Stored
  <2> QED
    BY <1>1, <1>3, <2>1, <2>2, NothingIsPromised
<1>6. CASE Queued
  <2>1. PICK c \in Calls : call.call = c
    BY <1>6, AnswerIsHeard DEF Queued
  <2>2. Finish(c, call.object)
    BY <1>6, <2>1 DEF Queued
  <2> QED
    BY <1>3, <2>1, <2>2
<1>7. ASSUME NEW g \in Grants,
             \/ BeginPair(g) \/ ApprovePair(g) \/ ChallengeExpires(g)
             \/ RevokePair(g) \/ GrantExpires(g) \/ GetContext(g)
      PROVE  told' = told
  BY <1>7 DEF BeginPair, ApprovePair, ChallengeExpires, RevokePair, GrantExpires, GetContext,
              SetGrant
<1>8. ASSUME NEW c \in Calls, Begin(c) \/ BeginNote(c) \/ BeginUndo(c) \/ UndoExpires(c)
      PROVE  told' = told
  BY <1>8 DEF Begin, BeginNote, BeginUndo, UndoExpires
<1>9. ASSUME \/ Undone \/ Refused \/ HostWorks \/ HostStops \/ McpStops \/ OrphanEnds
             \/ Restart \/ Busy \/ UNCHANGED vars
      PROVE  told' = told
  BY <1>9 DEF Undone, Refused, HostWorks, HostStops, McpStops, OrphanEnds, Restart, Busy, vars,
              agentVars
<1> QED
  BY <1>1, <1>4, <1>5, <1>6, <1>7, <1>8, <1>9, NothingIsPromised DEF Next, Receives

\* Every step does what is promised.
LEMMA StepIsPromised ==
  ASSUME IInv, IInv', Reading, Reading', AnswersAreMade', UndoIsAsked, [Next]_vars
  PROVE  [Promise!PromiseNext]_Promise!cvars
<1>1. CoreKeeps
  BY StoreKeeps
<1>2. CASE (HostStep \/ CoreBusy) /\ told' = told
  BY <1>1, <1>2, HostIsPromised
<1>3. CASE UNCHANGED <<coreVars, controlVars>>
  BY <1>3, AgentIsPromised
<1> QED
  BY <1>2, <1>3, StoreMoves
LEMMA PromiseBegins ==
  ASSUME Init
  PROVE  Promise!PromiseInit /\ UndoIsAsked
<1>1. event = <<>> /\ told = [k \in Keys |-> {}] /\ work = NoWork
  BY DEF Init, HostInit
<1>2. \A s \in Slots : MadeUnder(s) = {} /\ AnsweredUnder(s) = {}
  BY <1>1 DEF MadeUnder, AnsweredUnder, Slots
<1>3. GoneEvents = {} /\ GoneRevisions = {}
  BY <1>1 DEF GoneEvents, GoneRevisions
<1>4. [s \in Slots |-> MadeUnder(s)] = [s \in Slots |-> {}]
      /\ [s \in Slots |-> AnsweredUnder(s)] = [s \in Slots |-> {}]
  BY <1>2
<1>5. Promise!PromiseInit
  BY <1>3, <1>4 DEF Promise!PromiseInit
<1>6. UndoIsAsked
  <2>1. ASSUME work \in RequestType PROVE FALSE
    <3>1. DOMAIN work # DOMAIN NoWork
      BY <2>1 DEF RequestType, NoWork
    <3> QED
      BY <1>1, <3>1
  <2> QED
    BY <2>1 DEF UndoIsAsked
<1> QED
  BY <1>5, <1>6

\* However often agents repeat their captures, and whatever stops where, the server, its
\* host and their three stores do what a store promises: a capture makes one event or
\* revision, agents are answered with that and nothing else, and only what an agent was
\* told of is taken back.
THEOREM CapturesArePromised == Spec => ImplementsPromise
<1>1. Init => Promise!PromiseInit /\ UndoIsAsked
  BY PromiseBegins
<1>2. IInv /\ UndoIsAsked /\ [Next]_vars => UndoIsAsked'
  BY UndoStaysAsked
<1>3. IInv => Reading /\ AnswersAreMade
  BY ReadingHolds, AnswersHold
<1>4. IInv /\ IInv' /\ Reading /\ Reading' /\ AnswersAreMade' /\ UndoIsAsked /\ [Next]_vars
      => [Promise!PromiseNext]_Promise!cvars
  BY StepIsPromised
<1> QED
  BY <1>1, <1>2, <1>3, <1>4, SoundAlways, PTL DEF Spec, ImplementsPromise, Promise!PromiseSpec

=============================================================================
