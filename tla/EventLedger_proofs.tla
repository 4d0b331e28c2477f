------------------------- MODULE EventLedger_proofs -------------------------
(* Proofs about EventLedger, for every number of events, episodes and days. *)
EXTENDS EventLedger, TLAPS

USE EventBoundsAssumption, TimesAssumption

Days == Dates \X Zones

\* The types, with the days that have a ledger.
Typed ==
  /\ source \in [Sources -> {"active", "deleted"}]
  /\ history \in [Events -> Seq(Snapshot)]
  /\ current \in [Events -> Snapshot \cup {NoEvent}]
  /\ tombstoned \subseteq Events
  /\ episode \in [Episodes -> Episode \cup {NoEpisode}]
  /\ ledger \in [Days -> {NoLedger} \cup SUBSET Entry]

\* One event: it is there when it has a history, its row is the head of it, and
\* unless it is tombstoned it was never deleted and rests on live evidence.
EventAgrees(e) ==
  /\ Exists(e) <=> history[e] # <<>>
  /\ e \in tombstoned => Exists(e)
  /\ Exists(e) => \/ current[e] = Last(history[e])
                  \/ e \in tombstoned
                     /\ current[e] = [Last(history[e]) EXCEPT !.state = "deleted"]
  /\ e \notin tombstoned => /\ \A n \in DOMAIN history[e] : history[e][n].state # "deleted"
                            /\ Exists(e) => Live(current[e].evidence)

EventsAgree == \A e \in Events : EventAgrees(e)

\* An episode is active as long as it has an event.
EpisodesAgree == \A p \in Episodes : episode[p].state = "active" <=> episode[p].refs # {}

\* The ledger of the own day of an event is in step with the event.
InStep(e) ==
  IF Visible(current[e])
  THEN \/ <<"event", e, current[e].revision>> \in ledger[current[e].day]
       \/ \E p \in Episodes : /\ e \in episode[p].refs
                              /\ \E x \in ledger[current[e].day] :
                                   x[1] = "episode" /\ x[2] = p
  ELSE ~\E x \in ledger[current[e].day] : x[1] = "event" /\ x[2] = e

LedgersAgree == \A e \in Events : Exists(e) => InStep(e)

\* Everything that is kept of a day agrees: the inductive form of the properties.
LedgerIsSound == Typed /\ EventsAgree /\ EpisodesAgree /\ LedgersAgree

-----------------------------------------------------------------------------
(* Rows.                                                                   *)

\* A row is a snapshot exactly when the event exists.
LEMMA RowTypes ==
  ASSUME NEW row \in Snapshot \cup {NoEvent}
  PROVE  /\ row # NoEvent <=> row \in Snapshot
         /\ Visible(row) => row \in Snapshot
  BY DEF Snapshot, NoEvent, Visible

\* A revision is a snapshot, and deleted only if it is to be or was.
LEMMA RevisedType ==
  ASSUME NEW row \in Snapshot, NEW state \in {"active", "conflict", "deleted"},
         NEW fact \in {"settled", "conflict"}, NEW evidence \in SUBSET Sources,
         NEW day \in Days
  PROVE  /\ Revised(row, state, fact, evidence, day) \in Snapshot
         /\ Revised(row, state, fact, evidence, day).evidence = evidence
         /\ Revised(row, state, fact, evidence, day).day = day
         /\ Revised(row, state, fact, evidence, day).state = "deleted" => state = "deleted"
<1>1. StateOf(state, fact) \in {"active", "conflict", "deleted"}
      /\ (StateOf(state, fact) = "deleted" => state = "deleted")
  BY DEF StateOf
<1> QED
  BY <1>1 DEF Revised, Snapshot, Days

\* The entries of a date are entries of a ledger.
LEMMA EntriesType ==
  ASSUME NEW events \in [Events -> Snapshot \cup {NoEvent}],
         NEW episodes \in [Episodes -> Episode \cup {NoEpisode}], NEW date
  PROVE  Entries(events, episodes, date) \in SUBSET Entry
<1>1. ASSUME NEW p \in Episodes, episodes[p].state = "active"
      PROVE  <<"episode", p, episodes[p].revision>> \in Entry
  BY <1>1 DEF Entry, Episodes, Episode, NoEpisode
<1>2. ASSUME NEW e \in Events, Visible(events[e])
      PROVE  <<"event", e, events[e].revision>> \in Entry
  <2>1. events[e] \in Snapshot
    BY <1>2, RowTypes
  <2> QED
    BY <2>1 DEF Entry, Events, Snapshot
<1> QED
  BY <1>1, <1>2 DEF Entries

\* The entries of a date list an event of the date at its revision, alone or as
\* part of an episode, if it is visible, and not at all by itself if it is not.
LEMMA EntriesTell ==
  ASSUME NEW events, NEW episodes, NEW date, NEW e \in Events, events[e].day[1] = date
  PROVE  /\ Visible(events[e]) =>
              \/ <<"event", e, events[e].revision>> \in Entries(events, episodes, date)
              \/ \E p \in Episodes :
                   /\ e \in episodes[p].refs
                   /\ <<"episode", p, episodes[p].revision>>
                        \in Entries(events, episodes, date)
         /\ ~Visible(events[e]) =>
              ~\E x \in Entries(events, episodes, date) : x[1] = "event" /\ x[2] = e
<1> DEFINE P == {p \in Episodes : episodes[p].state = "active" /\ episodes[p].day[1] = date}
           E == {i \in Events : Visible(events[i]) /\ events[i].day[1] = date}
           S == {<<"episode", p, episodes[p].revision>> : p \in P}
           T == {<<"event", i, events[i].revision>> :
                   i \in E \ UNION {episodes[p].refs : p \in P}}
<1>1. Entries(events, episodes, date) = S \cup T
  BY DEF Entries
<1>2. ASSUME Visible(events[e])
      PROVE  \/ <<"event", e, events[e].revision>> \in T
             \/ \E p \in Episodes : /\ e \in episodes[p].refs
                                    /\ <<"episode", p, episodes[p].revision>> \in S
  BY <1>2
<1>3. ASSUME NEW x \in S \cup T, x[1] = "event", x[2] = e PROVE Visible(events[e])
  BY <1>3
<1> QED
  BY <1>1, <1>2, <1>3

-----------------------------------------------------------------------------
(* The ledgers after a step.                                               *)

RowsTyped == /\ current \in [Events -> Snapshot \cup {NoEvent}]
             /\ episode \in [Episodes -> Episode \cup {NoEpisode}]

\* A refreshed ledger is a ledger.
LEMMA RefreshedType ==
  ASSUME Typed, RowsTyped', NEW days, ledger' = Refreshed(current', episode', days)
  PROVE  ledger' \in [Days -> {NoLedger} \cup SUBSET Entry]
<1>1. ASSUME NEW date PROVE Entries(current', episode', date) \in SUBSET Entry
  BY EntriesType DEF RowsTyped
<1> QED
  BY <1>1 DEF Refreshed, Typed, Days

\* An event whose row or ledger was not there to be changed, or was refreshed, is
\* in step, as long as no episode loses an event that stays.
LEMMA RefreshedInStep ==
  ASSUME Typed, LedgersAgree, RowsTyped',
         NEW days, ledger' = Refreshed(current', episode', days),
         \A e \in Events : \/ ~Exists(e)'
                           \/ current'[e].day \in days
                           \/ /\ current'[e] = current[e]
                              /\ \A p \in Episodes : e \in episode[p].refs
                                                       => e \in episode'[p].refs
  PROVE  LedgersAgree'
<1> SUFFICES ASSUME NEW e \in Events, Exists(e)' PROVE InStep(e)'
  BY DEF LedgersAgree
<1> DEFINE day == current'[e].day
<1>1. current'[e] \in Snapshot /\ day \in Days
  BY RowTypes DEF RowsTyped, Exists, Snapshot, Days
<1>2. ledger'[day] = IF day \in days THEN Entries(current', episode', day[1]) ELSE ledger[day]
  BY <1>1 DEF Refreshed, Days
<1>3. CASE day \in days
  <2> DEFINE L == Entries(current', episode', day[1])
  <2>1. /\ Visible(current'[e]) =>
             \/ <<"event", e, current'[e].revision>> \in L
             \/ \E p \in Episodes :
                  e \in episode'[p].refs /\ <<"episode", p, episode'[p].revision>> \in L
        /\ ~Visible(current'[e]) => ~\E x \in L : x[1] = "event" /\ x[2] = e
    BY EntriesTell
  <2>2. ledger'[day] = L
    BY <1>2, <1>3
  <2> HIDE DEF L
  <2>3. ASSUME NEW p \in Episodes, <<"episode", p, episode'[p].revision>> \in L
        PROVE  \E x \in L : x[1] = "episode" /\ x[2] = p
    BY <2>3
  <2> QED
    BY <2>1, <2>2, <2>3 DEF InStep
<1>4. CASE day \notin days
  <2>1. /\ current'[e] = current[e] /\ ledger'[day] = ledger[day]
        /\ \A p \in Episodes : e \in episode[p].refs => e \in episode'[p].refs
    BY <1>2, <1>4
  <2>2. Exists(e) /\ InStep(e)
    BY <2>1 DEF LedgersAgree, Exists
  <2> QED
    BY <2>1, <2>2 DEF InStep
<1> QED
  BY <1>3, <1>4

-----------------------------------------------------------------------------
(* The events after a step.                                                *)

\* An event that a step does not touch.
LEMMA EventStays ==
  ASSUME NEW e \in Events, EventAgrees(e), source' = source,
         current'[e] = current[e], history'[e] = history[e],
         e \in tombstoned' <=> e \in tombstoned
  PROVE  EventAgrees(e)'
  BY DEF EventAgrees, Exists, Live

\* A snapshot that is appended to a history becomes its head and its row.
LEMMA EventGrows ==
  ASSUME Typed, NEW e \in Events, EventAgrees(e), NEW next \in Snapshot,
         history'[e] = Append(history[e], next), current'[e] = next,
         e \in tombstoned => e \in tombstoned',
         e \notin tombstoned' => /\ next.state # "deleted"
                                 /\ \A s \in next.evidence : source'[s] # "deleted"
  PROVE  EventAgrees(e)'
<1>1. history[e] \in Seq(Snapshot)
  BY DEF Typed
<1>2. /\ history'[e] # <<>> /\ Last(history'[e]) = next
      /\ \A n \in DOMAIN history'[e] : n \in DOMAIN history[e] \/ history'[e][n] = next
      /\ \A n \in DOMAIN history[e] : history'[e][n] = history[e][n]
  BY <1>1 DEF Last
<1>3. Exists(e)'
  BY RowTypes DEF Exists
<1>4. e \notin tombstoned' => \A n \in DOMAIN history'[e] : history'[e][n].state # "deleted"
  BY <1>2 DEF EventAgrees
<1> QED
  BY <1>2, <1>3, <1>4 DEF EventAgrees, Live

-----------------------------------------------------------------------------
(* The actions.                                                            *)

\* What the row of an event says.
LEMMA RowOfEvent ==
  ASSUME LedgerIsSound, NEW e \in Events, Exists(e)
  PROVE  /\ current[e] \in Snapshot
         /\ current[e].state \in {"active", "conflict", "deleted"}
         /\ current[e].evidence \in SUBSET Sources /\ current[e].day \in Days
         /\ e \notin tombstoned => /\ current[e].state # "deleted"
                                   /\ current[e] = Last(history[e])
                                   /\ Live(current[e].evidence)
<1>1. current[e] \in Snapshot
  BY RowTypes DEF LedgerIsSound, Typed, Exists
<1>2. EventAgrees(e) /\ history[e] \in Seq(Snapshot) /\ history[e] # <<>>
  BY DEF LedgerIsSound, EventsAgree, EventAgrees, Typed
<1>3. Len(history[e]) \in DOMAIN history[e] /\ Last(history[e]) = history[e][Len(history[e])]
  BY <1>2 DEF Last
<1> QED
  BY <1>1, <1>2, <1>3 DEF EventAgrees, Snapshot, Days

\* What a revision of the past says.
LEMMA RevisionOfEvent ==
  ASSUME LedgerIsSound, NEW e \in Events, NEW n \in DOMAIN history[e]
  PROVE  /\ history[e][n] \in Snapshot /\ Exists(e)
         /\ history[e][n].state \in {"active", "conflict", "deleted"}
         /\ history[e][n].fact \in {"settled", "conflict"}
         /\ history[e][n].evidence \in SUBSET Sources /\ history[e][n].day \in Days
         /\ e \notin tombstoned => history[e][n].state # "deleted"
<1>1. history[e] \in Seq(Snapshot) /\ EventAgrees(e)
  BY DEF LedgerIsSound, Typed, EventsAgree
<1>2. history[e][n] \in Snapshot /\ history[e] # <<>>
  BY <1>1
<1> QED
  BY <1>1, <1>2 DEF EventAgrees, Snapshot, Days

\* A revision is appended to an event.
LEMMA AppendKeeps ==
  ASSUME LedgerIsSound, NEW e \in Events, Exists(e), NEW next \in Snapshot,
         e \notin tombstoned => next.state # "deleted" /\ Live(next.evidence),
         AppendTo(e, next)
  PROVE  LedgerIsSound'
<1>0. Typed /\ EventsAgree /\ EpisodesAgree /\ LedgersAgree
  BY DEF LedgerIsSound
<1>1. /\ history' = [history EXCEPT ![e] = Append(@, next)]
      /\ current' = [current EXCEPT ![e] = next]
      /\ UNCHANGED <<source, tombstoned, episode>>
  BY DEF AppendTo
<1>2. /\ history' \in [Events -> Seq(Snapshot)]
      /\ current' \in [Events -> Snapshot \cup {NoEvent}]
      /\ history'[e] = Append(history[e], next) /\ current'[e] = next
      /\ \A i \in Events \ {e} : history'[i] = history[i] /\ current'[i] = current[i]
  BY <1>0, <1>1 DEF Typed
<1>3. EventsAgree'
  <2> SUFFICES ASSUME NEW i \in Events PROVE EventAgrees(i)'
    BY DEF EventsAgree
  <2>1. EventAgrees(i)
    BY <1>0 DEF EventsAgree
  <2>2. CASE i = e
    BY <1>0, <1>1, <1>2, <2>1, <2>2, EventGrows DEF Live
  <2>3. CASE i # e
    BY <1>1, <1>2, <2>1, <2>3, EventStays
  <2> QED
    BY <2>2, <2>3
<1>4. EpisodesAgree'
  BY <1>0, <1>1 DEF EpisodesAgree
<1> DEFINE days == TouchedDays(current[e].day, next.day)
<1>5. ledger' = Refreshed(current', episode', days) /\ next.day \in days
  BY <1>1 DEF AppendTo, TouchedDays
<1> HIDE DEF days
<1>6. RowsTyped'
  BY <1>0, <1>1, <1>2 DEF RowsTyped, Typed
<1>7. ledger' \in [Days -> {NoLedger} \cup SUBSET Entry]
  BY <1>0, <1>5, <1>6, RefreshedType
<1>8. LedgersAgree'
  <2>1. \A i \in Events : \/ current'[i].day \in days
                          \/ /\ current'[i] = current[i]
                             /\ \A p \in Episodes : i \in episode[p].refs
                                                      => i \in episode'[p].refs
    BY <1>1, <1>2, <1>5
  <2> QED
    BY <1>0, <1>5, <1>6, <2>1, RefreshedInStep
<1> QED
  BY <1>0, <1>1, <1>2, <1>3, <1>4, <1>7, <1>8 DEF LedgerIsSound, Typed

\* An event is accepted on live evidence.
LEMMA AcceptKeeps ==
  ASSUME LedgerIsSound, NEW e \in Events, NEW fact \in {"settled", "conflict"},
         NEW evidence \in SUBSET Sources, NEW day \in Times,
         AcceptEvent(e, fact, evidence, day)
  PROVE  LedgerIsSound'
<1> DEFINE first == [state |-> StateOf("active", fact), fact |-> fact,
                     evidence |-> evidence, day |-> day, revision |-> 1]
<1>0. Typed /\ EventsAgree /\ EpisodesAgree /\ LedgersAgree
  BY DEF LedgerIsSound
<1>1. /\ history' = [history EXCEPT ![e] = <<first>>]
      /\ current' = [current EXCEPT ![e] = first]
      /\ ledger' = Refreshed(current', episode', {day})
      /\ UNCHANGED <<source, tombstoned, episode>> /\ Live(evidence)
  BY DEF AcceptEvent
<1>2. ~Exists(e)
  <2>1. e \in 1..e
    BY DEF Events
  <2> QED
    BY <2>1 DEF AcceptEvent
<1>3. /\ first \in Snapshot /\ first.state # "deleted" /\ first.evidence = evidence
      /\ first.day = day
  <2>1. day \in Days /\ StateOf("active", fact) \in {"active", "conflict"}
    BY DEF StateOf, Days
  <2> QED
    BY <2>1 DEF Snapshot, Days
<1> HIDE DEF first
<1>4. history[e] = <<>> /\ e \notin tombstoned /\ EventAgrees(e)
  BY <1>0, <1>2 DEF EventsAgree, EventAgrees
<1>5. /\ history' \in [Events -> Seq(Snapshot)]
      /\ current' \in [Events -> Snapshot \cup {NoEvent}]
      /\ history'[e] = Append(history[e], first) /\ current'[e] = first
      /\ \A i \in Events \ {e} : history'[i] = history[i] /\ current'[i] = current[i]
  BY <1>0, <1>1, <1>3, <1>4 DEF Typed
<1>6. EventsAgree'
  <2> SUFFICES ASSUME NEW i \in Events PROVE EventAgrees(i)'
    BY DEF EventsAgree
  <2>1. EventAgrees(i)
    BY <1>0 DEF EventsAgree
  <2>2. CASE i = e
    BY <1>0, <1>1, <1>3, <1>5, <2>1, <2>2, EventGrows DEF Live
  <2>3. CASE i # e
    BY <1>1, <1>5, <2>1, <2>3, EventStays
  <2> QED
    BY <2>2, <2>3
<1>7. EpisodesAgree'
  BY <1>0, <1>1 DEF EpisodesAgree
<1>8. RowsTyped'
  BY <1>0, <1>1, <1>5 DEF RowsTyped, Typed
<1>9. ledger' \in [Days -> {NoLedger} \cup SUBSET Entry]
  BY <1>0, <1>1, <1>8, RefreshedType
<1>10. LedgersAgree'
  <2>1. \A i \in Events : \/ current'[i].day \in {day}
                          \/ /\ current'[i] = current[i]
                             /\ \A p \in Episodes : i \in episode[p].refs
                                                      => i \in episode'[p].refs
    BY <1>1, <1>3, <1>5
  <2> QED
    BY <1>0, <1>1, <1>8, <2>1, RefreshedInStep
<1> QED
  BY <1>0, <1>1, <1>5, <1>6, <1>7, <1>9, <1>10 DEF LedgerIsSound, Typed

\* The commands that revise an event.
LEMMA ReviseKeeps ==
  ASSUME LedgerIsSound, NEW e \in Events,
         \/ \E fact \in {"settled", "conflict"} :
              \/ \E evidence \in SUBSET Sources : ReplaceEvidence(e, fact, evidence)
              \/ \E day \in Times : AppendRevision(e, fact, day)
         \/ RecordConflict(e)
         \/ \E n \in DOMAIN history[e] : UndoEvent(e, n)
  PROVE  LedgerIsSound'
<1>1. ASSUME NEW fact \in {"settled", "conflict"}, NEW evidence \in SUBSET Sources,
             ReplaceEvidence(e, fact, evidence)
      PROVE  LedgerIsSound'
  <2> DEFINE next == Revised(current[e], current[e].state, fact, evidence, current[e].day)
  <2>1. Exists(e) /\ Live(evidence) /\ AppendTo(e, next)
    BY <1>1 DEF ReplaceEvidence
  <2>2. /\ next \in Snapshot /\ next.evidence = evidence
        /\ next.state = "deleted" => current[e].state = "deleted"
    BY <2>1, RowOfEvent, RevisedType
  <2>3. e \notin tombstoned => current[e].state # "deleted"
    BY <2>1, RowOfEvent
  <2> HIDE DEF next
  <2> QED
    BY <2>1, <2>2, <2>3, AppendKeeps
<1>2. ASSUME NEW fact \in {"settled", "conflict"}, NEW day \in Times,
             AppendRevision(e, fact, day)
      PROVE  LedgerIsSound'
  <2> DEFINE next == Revised(current[e], current[e].state, fact, current[e].evidence, day)
  <2>1. Exists(e) /\ AppendTo(e, next) /\ day \in Days
    BY <1>2 DEF AppendRevision, Days
  <2>2. /\ next \in Snapshot /\ next.evidence = current[e].evidence
        /\ next.state = "deleted" => current[e].state = "deleted"
    BY <2>1, RowOfEvent, RevisedType
  <2>3. e \notin tombstoned => current[e].state # "deleted" /\ Live(current[e].evidence)
    BY <2>1, RowOfEvent
  <2> HIDE DEF next
  <2> QED
    BY <2>1, <2>2, <2>3, AppendKeeps
<1>3. ASSUME RecordConflict(e) PROVE LedgerIsSound'
  <2> DEFINE next == Revised(current[e], "conflict", "conflict", current[e].evidence,
                             current[e].day)
  <2>1. Exists(e) /\ AppendTo(e, next)
    BY <1>3 DEF RecordConflict
  <2>2. /\ next \in Snapshot /\ next.evidence = current[e].evidence
        /\ next.state # "deleted"
    BY <2>1, RowOfEvent, RevisedType
  <2>3. e \notin tombstoned => Live(current[e].evidence)
    BY <2>1, RowOfEvent
  <2> HIDE DEF next
  <2> QED
    BY <2>1, <2>2, <2>3, AppendKeeps
<1>4. ASSUME NEW n \in DOMAIN history[e], UndoEvent(e, n) PROVE LedgerIsSound'
  <2> DEFINE target == history[e][n]
             next == Revised(current[e], target.state, target.fact, target.evidence,
                             target.day)
  <2>1. Exists(e) /\ Live(target.evidence) /\ AppendTo(e, next)
    BY <1>4, RevisionOfEvent DEF UndoEvent
  <2>2. /\ next \in Snapshot /\ next.evidence = target.evidence
        /\ next.state = "deleted" => target.state = "deleted"
    BY <2>1, RowOfEvent, RevisionOfEvent, RevisedType
  <2>3. e \notin tombstoned => target.state # "deleted"
    BY RevisionOfEvent
  <2> HIDE DEF next, target
  <2> QED
    BY <2>1, <2>2, <2>3, AppendKeeps
<1> QED
  BY <1>1, <1>2, <1>3, <1>4

\* An episode is created from events that exist.
LEMMA CreateEpisodeKeeps ==
  ASSUME LedgerIsSound, NEW p \in Episodes, NEW refs \in SUBSET Events, NEW day \in Times,
         CreateEpisode(p, refs, day)
  PROVE  LedgerIsSound'
<1>0. Typed /\ EventsAgree /\ EpisodesAgree /\ LedgersAgree
  BY DEF LedgerIsSound
<1>1. /\ episode' = [episode EXCEPT ![p] = NewEpisode(refs, day)]
      /\ ledger' = Refreshed(current', episode', {day})
      /\ UNCHANGED <<source, history, current, tombstoned>> /\ refs # {}
  BY DEF CreateEpisode
<1>2. episode[p] = NoEpisode
  <2>1. p \in 1..p
    BY DEF Episodes
  <2> QED
    BY <2>1 DEF CreateEpisode
<1>3. /\ NewEpisode(refs, day) \in Episode /\ NewEpisode(refs, day).state = "active"
      /\ NewEpisode(refs, day).refs = refs
  BY DEF NewEpisode, Episode
<1>4. /\ episode' \in [Episodes -> Episode \cup {NoEpisode}]
      /\ episode'[p] = NewEpisode(refs, day)
      /\ \A q \in Episodes \ {p} : episode'[q] = episode[q]
  BY <1>0, <1>1, <1>3 DEF Typed
<1>5. EventsAgree'
  BY <1>0, <1>1, EventStays DEF EventsAgree
<1>6. EpisodesAgree'
  BY <1>0, <1>1, <1>3, <1>4 DEF EpisodesAgree
<1>7. RowsTyped'
  BY <1>0, <1>1, <1>4 DEF RowsTyped, Typed
<1>8. ledger' \in [Days -> {NoLedger} \cup SUBSET Entry]
  BY <1>0, <1>1, <1>7, RefreshedType
<1>9. LedgersAgree'
  <2>1. \A e \in Events, q \in Episodes : e \in episode[q].refs => e \in episode'[q].refs
    BY <1>2, <1>4 DEF NoEpisode
  <2> QED
    BY <1>0, <1>1, <1>7, <2>1, RefreshedInStep
<1> QED
  BY <1>0, <1>1, <1>4, <1>5, <1>6, <1>8, <1>9 DEF LedgerIsSound, Typed

\* An episode without some of its events.
LEMMA WithoutEventsRow ==
  ASSUME NEW row \in Episode \cup {NoEpisode}, row.state = "active" <=> row.refs # {},
         NEW events \in SUBSET Events
  PROVE  /\ WithoutEvents(row, events) \in Episode \cup {NoEpisode}
         /\ WithoutEvents(row, events).state = "active" <=>
              WithoutEvents(row, events).refs # {}
         /\ WithoutEvents(row, events).refs = row.refs \ events
<1>1. CASE row.state # "active" \/ row.refs \cap events = {}
  <2>1. WithoutEvents(row, events) = row
    BY <1>1 DEF WithoutEvents
  <2> QED
    BY <1>1, <2>1
<1>2. CASE ~(row.state # "active" \/ row.refs \cap events = {})
  <2> DEFINE state == IF row.refs \subseteq events THEN "deleted" ELSE row.state
             q == [row EXCEPT !.refs = row.refs \ events, !.state = state,
                              !.revision = row.revision + 1]
  <2>1. WithoutEvents(row, events) = q
    BY <1>2 DEF WithoutEvents
  <2>2. row \in Episode
    BY <1>2 DEF NoEpisode
  <2>3. /\ row.refs \ events \in SUBSET Events /\ row.revision + 1 \in Nat
        /\ state \in {"active", "deleted"}
    BY <1>2, <2>2 DEF Episode
  <2>4. state = "active" <=> row.refs \ events # {}
    BY <1>2
  <2> HIDE DEF state
  <2>5. q \in Episode
    BY <2>2, <2>3 DEF Episode
  <2>6. q.state = state /\ q.refs = row.refs \ events
    BY <2>2 DEF Episode
  <2> QED
    BY <2>1, <2>4, <2>5, <2>6
<1> QED
  BY <1>1, <1>2

\* What a deletion appends to an event it has an impact on.
LEMMA AfterDeletionRow ==
  ASSUME NEW row \in Snapshot, NEW s \in Sources
  PROVE  /\ AfterDeletion(row, s) \in Snapshot /\ AfterDeletion(row, s).day = row.day
         /\ row.evidence # {s} => /\ AfterDeletion(row, s).state # "deleted"
                                  /\ AfterDeletion(row, s).evidence = row.evidence \ {s}
<1>1. /\ row.evidence \in SUBSET Sources /\ row.evidence \ {s} \in SUBSET Sources
      /\ row.day \in Days /\ row.fact \in {"settled", "conflict"}
  BY DEF Snapshot, Days
<1>2. CASE row.evidence # {s}
  <2>1. AfterDeletion(row, s)
          = Revised(row, "active", "settled", row.evidence \ {s}, row.day)
    BY <1>2 DEF AfterDeletion, Recomputed
  <2> QED
    BY <1>1, <2>1, RevisedType
<1>3. CASE row.evidence = {s}
  <2>1. AfterDeletion(row, s) = Revised(row, "deleted", row.fact, row.evidence, row.day)
    BY <1>3 DEF AfterDeletion
  <2> QED
    BY <1>1, <1>3, <2>1, RevisedType
<1> QED
  BY <1>2, <1>3

\* A source is deleted.
LEMMA DeleteSourceKeeps ==
  ASSUME LedgerIsSound, NEW s \in Sources, DeleteSource(s)
  PROVE  LedgerIsSound'
<1> DEFINE I == Impact(s)
           orphans == {e \in I : current[e].evidence = {s}}
           changed == {p \in Episodes : WithoutEvents(episode[p], orphans) # episode[p]}
           next == [e \in I |-> AfterDeletion(current[e], s)]
           days == DaysOf(I, changed)
<1>0. Typed /\ EventsAgree /\ EpisodesAgree /\ LedgersAgree
  BY DEF LedgerIsSound
<1>1. /\ source' = [source EXCEPT ![s] = "deleted"]
      /\ tombstoned' = tombstoned \cup orphans
      /\ history' = [e \in Events |-> IF e \in I THEN Append(history[e], next[e])
                                      ELSE history[e]]
      /\ current' = [e \in Events |-> IF e \in I THEN next[e] ELSE current[e]]
      /\ episode' = [p \in Episodes |-> WithoutEvents(episode[p], orphans)]
      /\ ledger' = Refreshed(current', episode', days)
  BY DEF DeleteSource
<1>2. /\ \A e \in I : e \in Events /\ Exists(e) /\ Visible(current[e])
      /\ \A e \in Events \ I : Exists(e) /\ Visible(current[e]) => s \notin current[e].evidence
      /\ orphans \in SUBSET I /\ \A e \in I \ orphans : current[e].evidence # {s}
  BY DEF Impact
<1>3. \A e \in I : current[e] \in Snapshot
  BY <1>2, RowOfEvent
<1>4. \A e \in I : /\ next[e] \in Snapshot /\ next[e].day = current[e].day
                   /\ e \notin orphans =>
                        /\ next[e].state # "deleted"
                        /\ next[e].evidence = current[e].evidence \ {s}
  BY <1>3, AfterDeletionRow
<1>5. \A e \in I : current[e].day \in days
  BY DEF DaysOf
<1> HIDE DEF I, orphans, changed, next, days
<1>6. /\ source' \in [Sources -> {"active", "deleted"}]
      /\ \A t \in Sources : source'[t] = "deleted" => t = s \/ source[t] = "deleted"
  BY <1>0, <1>1 DEF Typed
<1>7. /\ current' \in [Events -> Snapshot \cup {NoEvent}]
      /\ history' \in [Events -> Seq(Snapshot)]
      /\ tombstoned' \subseteq Events
      /\ \A e \in I : current'[e] = next[e] /\ history'[e] = Append(history[e], next[e])
      /\ \A e \in Events \ I : current'[e] = current[e] /\ history'[e] = history[e]
  BY <1>0, <1>1, <1>2, <1>4 DEF Typed
<1>8. EventsAgree'
  <2> SUFFICES ASSUME NEW e \in Events PROVE EventAgrees(e)'
    BY DEF EventsAgree
  <2>1. EventAgrees(e)
    BY <1>0 DEF EventsAgree
  <2>2. CASE e \in I
    <3>1. e \notin tombstoned => Live(current[e].evidence)
      BY <1>2, <2>2, RowOfEvent
    <3>2. e \notin tombstoned' => /\ next[e].state # "deleted"
                                  /\ \A t \in next[e].evidence : source'[t] # "deleted"
      <4> SUFFICES ASSUME e \notin tombstoned'
                   PROVE  /\ next[e].state # "deleted"
                          /\ \A t \in next[e].evidence : source'[t] # "deleted"
        OBVIOUS
      <4>1. e \notin orphans /\ e \notin tombstoned
        BY <1>1
      <4>2. next[e].state # "deleted" /\ next[e].evidence = current[e].evidence \ {s}
        BY <1>4, <2>2, <4>1
      <4>3. current[e].evidence \in SUBSET Sources
        BY <1>2, <2>2, RowOfEvent
      <4> QED
        BY <1>6, <3>1, <4>1, <4>2, <4>3 DEF Live
    <3> QED
      BY <1>0, <1>1, <1>4, <1>7, <2>1, <2>2, <3>2, EventGrows
  <2>3. CASE e \notin I
    <3>1. /\ current'[e] = current[e] /\ history'[e] = history[e]
          /\ e \in tombstoned' <=> e \in tombstoned
      BY <1>1, <1>2, <1>7, <2>3
    <3>2. Exists(e)' <=> Exists(e)
      BY <3>1 DEF Exists
    <3>3. e \notin tombstoned /\ Exists(e) => Live(current[e].evidence)'
      <4> SUFFICES ASSUME e \notin tombstoned, Exists(e)
                   PROVE  Live(current[e].evidence)'
        OBVIOUS
      <4>1. /\ current[e].state \in {"active", "conflict", "deleted"}
            /\ current[e].state # "deleted" /\ Live(current[e].evidence)
            /\ current[e].evidence \in SUBSET Sources
        BY RowOfEvent
      <4>2. s \notin current[e].evidence
        BY <1>2, <2>3, <4>1 DEF Visible
      <4> QED
        BY <1>6, <3>1, <4>1, <4>2 DEF Live
    <3> QED
      BY <2>1, <3>1, <3>2, <3>3 DEF EventAgrees
  <2> QED
    BY <2>2, <2>3
<1>9. orphans \in SUBSET Events
  BY <1>2
<1>10. \A p \in Episodes :
         /\ episode'[p] \in Episode \cup {NoEpisode}
         /\ episode'[p].state = "active" <=> episode'[p].refs # {}
         /\ episode'[p].refs = episode[p].refs \ orphans
  BY <1>0, <1>1, <1>9, WithoutEventsRow DEF EpisodesAgree, Typed
<1>11. EpisodesAgree' /\ episode' \in [Episodes -> Episode \cup {NoEpisode}]
  BY <1>1, <1>10 DEF EpisodesAgree
<1>12. RowsTyped'
  BY <1>7, <1>11 DEF RowsTyped
<1>13. ledger' \in [Days -> {NoLedger} \cup SUBSET Entry]
  BY <1>0, <1>1, <1>12, RefreshedType
<1>14. LedgersAgree'
  <2>1. \A e \in Events : \/ current'[e].day \in days
                          \/ /\ current'[e] = current[e]
                             /\ \A p \in Episodes : e \in episode[p].refs
                                                      => e \in episode'[p].refs
    BY <1>2, <1>4, <1>5, <1>7, <1>10
  <2> QED
    BY <1>0, <1>1, <1>12, <2>1, RefreshedInStep
<1> QED
  BY <1>6, <1>7, <1>8, <1>11, <1>13, <1>14 DEF LedgerIsSound, Typed

\* The ledger of a day is made or refreshed.
LEMMA RefreshKeeps ==
  ASSUME LedgerIsSound, NEW day, RefreshDay(day)
  PROVE  LedgerIsSound'
<1>0. Typed /\ EventsAgree /\ EpisodesAgree /\ LedgersAgree
  BY DEF LedgerIsSound
<1>1. /\ ledger' = Refreshed(current', episode', {day})
      /\ UNCHANGED <<source, history, current, tombstoned, episode>>
  BY DEF RefreshDay
<1>2. EventsAgree' /\ EpisodesAgree'
  BY <1>0, <1>1, EventStays DEF EventsAgree, EpisodesAgree
<1>3. RowsTyped'
  BY <1>0, <1>1 DEF RowsTyped, Typed
<1>4. ledger' \in [Days -> {NoLedger} \cup SUBSET Entry]
  BY <1>0, <1>1, <1>3, RefreshedType
<1>5. LedgersAgree'
  BY <1>0, <1>1, <1>3, RefreshedInStep
<1> QED
  BY <1>0, <1>1, <1>2, <1>4, <1>5 DEF LedgerIsSound, Typed

\* What a rebuild makes of the events.
LEMMA RebuildRows ==
  ASSUME LedgerIsSound, Rebuild, NEW e \in Events
  PROVE  /\ current'[e] \in Snapshot \cup {NoEvent}
         /\ Exists(e)' <=> Exists(e)
         /\ e \notin tombstoned => current'[e] = current[e]
         /\ e \in tombstoned =>
              current'[e] = [Last(history[e]) EXCEPT !.state = "deleted"]
              /\ current'[e].state = "deleted"
<1>1. current'[e] = IF Exists(e) THEN Rebuilt(e) ELSE NoEvent
  BY DEF Rebuild
<1>2. EventAgrees(e) /\ history[e] \in Seq(Snapshot)
  BY DEF LedgerIsSound, EventsAgree, Typed
<1>3. CASE Exists(e)
  <2>1. Last(history[e]) \in Snapshot
    BY <1>2, <1>3 DEF EventAgrees, Last
  <2>2. /\ [Last(history[e]) EXCEPT !.state = "deleted"] \in Snapshot
        /\ [Last(history[e]) EXCEPT !.state = "deleted"].state = "deleted"
    BY <2>1 DEF Snapshot
  <2>3. Rebuilt(e) \in Snapshot
    BY <2>1, <2>2 DEF Rebuilt
  <2>4. Exists(e)'
    BY <1>1, <1>3, <2>3, RowTypes DEF Exists
  <2>5. e \notin tombstoned => Rebuilt(e) = current[e]
    BY <1>3, RowOfEvent DEF Rebuilt
  <2> QED
    BY <1>1, <1>3, <2>2, <2>3, <2>4, <2>5 DEF Rebuilt
<1>4. CASE ~Exists(e)
  BY <1>1, <1>2, <1>4 DEF EventAgrees, Exists
<1> QED
  BY <1>3, <1>4

\* Every view is rebuilt.
LEMMA RebuildKeeps ==
  ASSUME LedgerIsSound, Rebuild
  PROVE  LedgerIsSound'
<1> DEFINE days == {current'[e].day : e \in {i \in Events : Exists(i)}}
                     \cup {episode[p].day : p \in {q \in Episodes : episode[q] # NoEpisode}}
                     \cup {day \in DOMAIN ledger : ledger[day] # NoLedger}
<1>0. Typed /\ EventsAgree /\ EpisodesAgree /\ LedgersAgree
  BY DEF LedgerIsSound
<1>1. /\ ledger' = Refreshed(current', episode', days)
      /\ UNCHANGED <<source, history, tombstoned, episode>>
      /\ current' = [e \in Events |-> IF Exists(e) THEN Rebuilt(e) ELSE NoEvent]
  BY DEF Rebuild
<1>2. \A e \in Events : Exists(e) => current'[e].day \in days
  OBVIOUS
<1> HIDE DEF days
<1>3. current' \in [Events -> Snapshot \cup {NoEvent}]
  BY <1>1, RebuildRows
<1>4. EventsAgree'
  <2> SUFFICES ASSUME NEW e \in Events PROVE EventAgrees(e)'
    BY DEF EventsAgree
  <2>1. EventAgrees(e)
    BY <1>0 DEF EventsAgree
  <2>2. CASE e \in tombstoned
    BY <1>1, <2>1, <2>2, RebuildRows DEF EventAgrees
  <2>3. CASE e \notin tombstoned
    BY <1>1, <2>1, <2>3, RebuildRows, EventStays
  <2> QED
    BY <2>2, <2>3
<1>5. EpisodesAgree'
  BY <1>0, <1>1 DEF EpisodesAgree
<1>6. RowsTyped'
  BY <1>0, <1>1, <1>3 DEF RowsTyped, Typed
<1>7. ledger' \in [Days -> {NoLedger} \cup SUBSET Entry]
  BY <1>0, <1>1, <1>6, RefreshedType
<1>8. LedgersAgree'
  <2>1. \A e \in Events : ~Exists(e)' \/ current'[e].day \in days
    BY <1>2, RebuildRows
  <2> QED
    BY <1>0, <1>1, <1>6, <2>1, RefreshedInStep
<1> QED
  BY <1>0, <1>1, <1>3, <1>4, <1>5, <1>7, <1>8 DEF LedgerIsSound, Typed

-----------------------------------------------------------------------------
(* The theorems.                                                           *)

\* The inductive invariant holds at the start.
LEMMA InitIsSound == Init => LedgerIsSound
<1> SUFFICES ASSUME Init PROVE LedgerIsSound
  OBVIOUS
<1>1. Typed
  BY DEF Init, Typed, Days
<1>2. EventsAgree
  BY DEF Init, EventsAgree, EventAgrees, Exists
<1>3. EpisodesAgree
  BY DEF Init, EpisodesAgree, NoEpisode
<1>4. LedgersAgree
  BY DEF Init, LedgersAgree, Exists
<1> QED
  BY <1>1, <1>2, <1>3, <1>4 DEF LedgerIsSound

\* Every step keeps the inductive invariant.
LEMMA StepIsSound == LedgerIsSound /\ [Next]_vars => LedgerIsSound'
<1> SUFFICES ASSUME LedgerIsSound, [Next]_vars PROVE LedgerIsSound'
  OBVIOUS
<1>1. ASSUME NEW e \in Events, NEW fact \in {"settled", "conflict"},
             NEW evidence \in SUBSET Sources, NEW day \in Times,
             AcceptEvent(e, fact, evidence, day)
      PROVE  LedgerIsSound'
  BY <1>1, AcceptKeeps
<1>2. ASSUME NEW e \in Events, NEW fact \in {"settled", "conflict"},
             NEW evidence \in SUBSET Sources, ReplaceEvidence(e, fact, evidence)
      PROVE  LedgerIsSound'
  BY <1>2, ReviseKeeps
<1>3. ASSUME NEW e \in Events, NEW fact \in {"settled", "conflict"}, NEW day \in Times,
             AppendRevision(e, fact, day)
      PROVE  LedgerIsSound'
  BY <1>3, ReviseKeeps
<1>4. ASSUME NEW e \in Events, RecordConflict(e) PROVE LedgerIsSound'
  BY <1>4, ReviseKeeps
<1>5. ASSUME NEW e \in Events, NEW n \in DOMAIN history[e], UndoEvent(e, n)
      PROVE  LedgerIsSound'
  BY <1>5, ReviseKeeps
<1>6. ASSUME NEW p \in Episodes, NEW refs \in SUBSET Events, NEW day \in Times,
             CreateEpisode(p, refs, day)
      PROVE  LedgerIsSound'
  BY <1>6, CreateEpisodeKeeps
<1>7. ASSUME NEW s \in Sources, DeleteSource(s) PROVE LedgerIsSound'
  BY <1>7, DeleteSourceKeeps
<1>8. ASSUME NEW day, OpenDay(day) \/ SetDayCoverage(day) PROVE LedgerIsSound'
  <2>1. RefreshDay(day)
    BY <1>8 DEF OpenDay, SetDayCoverage
  <2> QED
    BY <2>1, RefreshKeeps
<1>9. ASSUME Rebuild PROVE LedgerIsSound'
  BY <1>9, RebuildKeeps
<1>10. ASSUME UNCHANGED vars PROVE LedgerIsSound'
  BY <1>10 DEF vars, LedgerIsSound, Typed, EventsAgree, EventAgrees, EpisodesAgree,
               LedgersAgree, InStep, Exists, Live
<1> QED
  BY <1>1, <1>2, <1>3, <1>4, <1>5, <1>6, <1>7, <1>8, <1>9, <1>10 DEF Next

\* Events, episodes and ledgers agree with the history in every reachable state.
THEOREM LedgerSoundness == Spec => []LedgerIsSound
  BY InitIsSound, StepIsSound, PTL DEF Spec

\* Every variable has its type.
THEOREM TypesHold == Spec => []TypeOK
<1>1. LedgerIsSound => TypeOK
  BY DEF LedgerIsSound, Typed, TypeOK, Days
<1> QED
  BY <1>1, LedgerSoundness, PTL

\* Current view and own-day ledger follow the history through every append, undo,
\* deletion and rebuild.
THEOREM ProjectionsFollow == Spec => []ProjectionsInStep
<1>1. LedgerIsSound => ProjectionsInStep
  <2>1. LedgerIsSound => CurrentIsHead
    BY DEF LedgerIsSound, EventsAgree, EventAgrees, CurrentIsHead
  <2>2. LedgerIsSound => OwnDayInStep
    BY DEF LedgerIsSound, LedgersAgree, InStep, OwnDayInStep
  <2> QED
    BY <2>1, <2>2 DEF ProjectionsInStep
<1> QED
  BY <1>1, LedgerSoundness, PTL

\* No event without a tombstone rests on a deleted source.
THEOREM EvidenceStaysLive == Spec => []EvidenceIsLive
<1>1. LedgerIsSound => EvidenceIsLive
  BY DEF LedgerIsSound, EventsAgree, EventAgrees, EvidenceIsLive
<1> QED
  BY <1>1, LedgerSoundness, PTL

\* What a step may do to the episodes of a tombstoned event.
TombstoneStep ==
  \A p \in Episodes : /\ episode'[p].refs \cap (tombstoned' \ tombstoned) = {}
                      /\ episode'[p].state = "active" => episode'[p].refs # {}

\* A tombstoned event leaves every episode in the step that tombstones it.
THEOREM TombstonesLeaveEpisodes == Spec => TombstoneLeavesEpisodes
<1>1. LedgerIsSound /\ LedgerIsSound' /\ [Next]_vars => TombstoneStep
  <2> SUFFICES ASSUME LedgerIsSound, LedgerIsSound', [Next]_vars, NEW p \in Episodes
               PROVE  /\ episode'[p].refs \cap (tombstoned' \ tombstoned) = {}
                      /\ episode'[p].state = "active" => episode'[p].refs # {}
    BY DEF TombstoneStep
  <2>1. episode'[p].state = "active" => episode'[p].refs # {}
    BY DEF LedgerIsSound, EpisodesAgree
  <2>2. tombstoned' = tombstoned \/ \E s \in Sources : DeleteSource(s)
    <3>1. ASSUME NEW e \in Events, NEW fact, NEW evidence, NEW day,
                 \/ AcceptEvent(e, fact, evidence, day)
                 \/ ReplaceEvidence(e, fact, evidence)
                 \/ AppendRevision(e, fact, day)
          PROVE  tombstoned' = tombstoned
      BY <3>1 DEF AcceptEvent, ReplaceEvidence, AppendRevision, AppendTo
    <3>2. ASSUME NEW e \in Events, RecordConflict(e) \/ \E n \in DOMAIN history[e] : UndoEvent(e, n)
          PROVE  tombstoned' = tombstoned
      BY <3>2 DEF RecordConflict, UndoEvent, AppendTo
    <3>3. ASSUME NEW q, NEW refs, NEW day, CreateEpisode(q, refs, day)
          PROVE  tombstoned' = tombstoned
      BY <3>3 DEF CreateEpisode
    <3>4. ASSUME NEW day, OpenDay(day) \/ SetDayCoverage(day) PROVE tombstoned' = tombstoned
      BY <3>4 DEF OpenDay, SetDayCoverage, RefreshDay
    <3>5. ASSUME Rebuild \/ UNCHANGED vars PROVE tombstoned' = tombstoned
      BY <3>5 DEF Rebuild, vars
    <3>6. CASE UNCHANGED vars
      BY <3>5, <3>6
    <3>7. CASE Next
      BY <3>1, <3>2, <3>3, <3>4, <3>5, <3>7 DEF Next
    <3> QED
      BY <3>6, <3>7
  <2>3. ASSUME NEW s \in Sources, DeleteSource(s)
        PROVE  episode'[p].refs \cap (tombstoned' \ tombstoned) = {}
    <3> DEFINE orphans == {e \in Impact(s) : current[e].evidence = {s}}
    <3>1. /\ tombstoned' = tombstoned \cup orphans
          /\ episode' = [q \in Episodes |-> WithoutEvents(episode[q], orphans)]
      BY <2>3 DEF DeleteSource
    <3>2. orphans \in SUBSET Events
      BY DEF Impact
    <3> HIDE DEF orphans
    <3>3. /\ episode[p] \in Episode \cup {NoEpisode}
          /\ episode[p].state = "active" <=> episode[p].refs # {}
      BY DEF LedgerIsSound, Typed, EpisodesAgree
    <3>4. episode'[p].refs = episode[p].refs \ orphans
      BY <3>1, <3>2, <3>3, WithoutEventsRow
    <3> QED
      BY <3>1, <3>4
  <2> QED
    BY <2>1, <2>2, <2>3
<1> QED
  BY <1>1, LedgerSoundness, PTL DEF Spec, TombstoneLeavesEpisodes, TombstoneStep

\* What a rebuild may do to the events and the ledgers.
FaithfulStep ==
  Rebuild =>
    /\ \A e \in Events \ tombstoned : current'[e] = current[e]
    /\ \A e \in tombstoned : current'[e].state = "deleted"
    /\ \A day \in Dates \X Zones : ledger[day] # NoLedger =>
         ledger'[day] = Entries(current', episode', day[1])

\* A rebuild changes no event but the tombstoned ones and leaves no ledger stale.
THEOREM RebuildsAreFaithful == Spec => RebuildIsFaithful
<1>1. LedgerIsSound /\ [Next]_vars => FaithfulStep
  <2> SUFFICES ASSUME LedgerIsSound, Rebuild
               PROVE  /\ \A e \in Events \ tombstoned : current'[e] = current[e]
                      /\ \A e \in tombstoned : current'[e].state = "deleted"
                      /\ \A day \in Days : ledger[day] # NoLedger =>
                           ledger'[day] = Entries(current', episode', day[1])
    BY DEF FaithfulStep, Days
  <2>1. tombstoned \subseteq Events /\ DOMAIN ledger = Days
    BY DEF LedgerIsSound, Typed
  <2>2. ASSUME NEW e \in Events
        PROVE  /\ e \notin tombstoned => current'[e] = current[e]
               /\ e \in tombstoned => current'[e].state = "deleted"
    BY RebuildRows
  <2>3. ASSUME NEW day \in Days, ledger[day] # NoLedger
        PROVE  ledger'[day] = Entries(current', episode', day[1])
    <3> DEFINE days == {current'[e].day : e \in {i \in Events : Exists(i)}}
                         \cup {episode[p].day : p \in {q \in Episodes : episode[q] # NoEpisode}}
                         \cup {d \in DOMAIN ledger : ledger[d] # NoLedger}
    <3>1. ledger' = Refreshed(current', episode', days)
      BY DEF Rebuild
    <3>2. day \in days
      BY <2>1, <2>3
    <3> QED
      BY <3>1, <3>2 DEF Refreshed, Days
  <2> QED
    BY <2>1, <2>2, <2>3
<1> QED
  BY <1>1, LedgerSoundness, PTL DEF Spec, RebuildIsFaithful, FaithfulStep

=============================================================================
