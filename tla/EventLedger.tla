---------------------------- MODULE EventLedger ----------------------------
(***************************************************************************)
(* Events of the reference Event Core: their append-only revisions, the    *)
(* current view and the day ledgers projected from them, episodes, the     *)
(* deletion of a source that recomputes or tombstones what rests on it,    *)
(* and the rebuild of every projection from the revisions.                 *)
(*                                                                         *)
(* All of it is one owner's in one space.  Every command is one SQLite     *)
(* transaction; one that is refused changes nothing and is left out.       *)
(***************************************************************************)
EXTENDS Naturals, FiniteSets, Sequences, SequencesExt

CONSTANTS
  Sources,      \* source objects, with one observation each
  NumEvents,    \* bound: events that are ever accepted
  NumEpisodes,  \* bound: episodes that are ever created
  MaxRevisions, \* bound: no command but a deletion revises an event once there are that many
  Dates,        \* local dates
  Zones,        \* time zones
  Times         \* the days, date and zone, that callers give

ASSUME EventBoundsAssumption ==
  NumEvents \in Nat /\ NumEpisodes \in Nat /\ MaxRevisions \in Nat
ASSUME TimesAssumption == Times \subseteq Dates \X Zones

Events == 1..NumEvents
Episodes == 1..NumEpisodes

VARIABLES
  source,      \* source_objects.processing_state
  history,     \* event_revisions: the snapshots of an event, in order
  current,     \* events_current; recall_fts holds the rows that are not deleted
  tombstoned,  \* events with a tombstone
  episode,     \* episodes_current
  ledger       \* day_ledgers and their entries, per day

vars == <<source, history, current, tombstoned, episode, ledger>>

\* "fact" tells a fact status of conflict from the others.
Snapshot == [state : {"active", "conflict", "deleted"}, fact : {"settled", "conflict"},
             evidence : SUBSET Sources, day : Dates \X Zones, revision : Nat]

NoEvent == [state |-> "none"]
Exists(e) == current[e] # NoEvent
Visible(row) == row.state \in {"active", "conflict"}

Episode == [state : {"active", "deleted"}, refs : SUBSET Events, day : Dates \X Zones,
            revision : Nat]
NoEpisode == [state |-> "none", refs |-> {}, day |-> <<>>, revision |-> 0]

Entry == {"event", "episode"} \X Nat \X Nat
NoLedger == {<<"no ledger", 0, 0>>}

Init ==
  /\ source = [s \in Sources |-> "active"]
  /\ history = [e \in Events |-> <<>>]
  /\ current = [e \in Events |-> NoEvent]
  /\ tombstoned = {}
  /\ episode = [p \in Episodes |-> NoEpisode]
  /\ ledger = [day \in Dates \X Zones |-> NoLedger]

-----------------------------------------------------------------------------
(* The day ledgers.                                                        *)

\* _refresh_ledger: the events and the active episodes of a date, whatever their
\* zone; an event that is part of such an episode is not listed by itself.
Entries(events, episodes, date) ==
  LET P == {p \in Episodes : episodes[p].state = "active" /\ episodes[p].day[1] = date}
      E == {e \in Events : Visible(events[e]) /\ events[e].day[1] = date}
  IN  {<<"episode", p, episodes[p].revision>> : p \in P}
        \cup {<<"event", e, events[e].revision>> :
                e \in E \ UNION {episodes[p].refs : p \in P}}

\* The ledgers of some days are refreshed, the others stay as they are.
Refreshed(events, episodes, days) ==
  [day \in Dates \X Zones |->
     IF day \in days THEN Entries(events, episodes, day[1]) ELSE ledger[day]]

-----------------------------------------------------------------------------
(* Revisions.                                                              *)

Live(evidence) == \A s \in evidence : source[s] # "deleted"

\* The state of a snapshot follows its fact status into and out of a conflict.
StateOf(state, fact) ==
  IF fact = "conflict" THEN "conflict"
  ELSE IF state = "conflict" THEN "active" ELSE state

\* _append_event_revision_tx: the next snapshot of an event.
Revised(row, state, fact, evidence, day) ==
  [state |-> StateOf(state, fact), fact |-> fact, evidence |-> evidence, day |-> day,
   revision |-> row.revision + 1]

\* The ledgers an appended revision refreshes: the new day, and the old date under
\* the new zone.
TouchedDays(old, new) == {new, <<old[1], new[2]>>}

RevisionCount == FoldFunction(LAMBDA h, n : Len(h) + n, 0, history)

AppendTo(e, next) ==
  /\ RevisionCount < MaxRevisions
  /\ history' = [history EXCEPT ![e] = Append(@, next)]
  /\ current' = [current EXCEPT ![e] = next]
  /\ ledger' = Refreshed(current', episode, TouchedDays(current[e].day, next.day))
  /\ UNCHANGED <<source, tombstoned, episode>>

\* accept_event; ids are allocated in ascending order.
AcceptEvent(e, fact, evidence, day) ==
  /\ \A i \in 1..e : Exists(i) <=> i < e
  /\ RevisionCount < MaxRevisions
  /\ evidence # {} /\ Live(evidence)
  /\ LET first == [state |-> StateOf("active", fact), fact |-> fact,
                   evidence |-> evidence, day |-> day, revision |-> 1]
     IN  /\ history' = [history EXCEPT ![e] = <<first>>]
         /\ current' = [current EXCEPT ![e] = first]
  /\ ledger' = Refreshed(current', episode, {day})
  /\ UNCHANGED <<source, tombstoned, episode>>

\* append_event_revision with changes to text, fact status or time.  No caller
\* changes the state itself.
AppendRevision(e, fact, day) ==
  /\ Exists(e)
  /\ AppendTo(e, Revised(current[e], current[e].state, fact, current[e].evidence, day))

\* append_event_revision that replaces the evidence.
ReplaceEvidence(e, fact, evidence) ==
  /\ Exists(e) /\ Live(evidence)
  /\ AppendTo(e, Revised(current[e], current[e].state, fact, evidence, current[e].day))

\* record_conflict, against any base below the current revision.
RecordConflict(e) ==
  /\ Exists(e)
  /\ AppendTo(e, Revised(current[e], "conflict", "conflict", current[e].evidence,
                         current[e].day))

\* Mutant of UndoEvent: the evidence of the restored revision is not validated.
UndoUnvalidated(e, n) ==
  /\ n \in DOMAIN history[e]
  /\ LET target == history[e][n]
     IN  AppendTo(e, Revised(current[e], target.state, target.fact, target.evidence,
                             target.day))

\* undo_event appends what an earlier revision said, as long as the evidence it
\* rested on is still there.
UndoEvent(e, n) ==
  /\ n \in DOMAIN history[e]
  /\ LET target == history[e][n]
     IN  /\ Live(target.evidence)
         /\ AppendTo(e, Revised(current[e], target.state, target.fact, target.evidence,
                                target.day))

-----------------------------------------------------------------------------
(* Episodes.                                                               *)

NewEpisode(refs, day) == [state |-> "active", refs |-> refs, day |-> day, revision |-> 1]

\* create_episode takes any events that exist.
CreateEpisode(p, refs, day) ==
  /\ \A i \in 1..p : episode[i] # NoEpisode <=> i < p
  /\ refs # {} /\ \A e \in refs : Exists(e)
  /\ episode' = [episode EXCEPT ![p] = NewEpisode(refs, day)]
  /\ ledger' = Refreshed(current, episode', {day})
  /\ UNCHANGED <<source, history, current, tombstoned>>

\* Mutant of WithoutEvents: an episode is left alone unless it becomes empty.
WithoutAll(row, events) ==
  IF row.state # "active" \/ ~(row.refs \subseteq events) THEN row
  ELSE [row EXCEPT !.refs = {}, !.state = "deleted", !.revision = @ + 1]

\* _recompute_episodes_after_deletion.
WithoutEvents(row, events) ==
  IF row.state # "active" \/ row.refs \cap events = {} THEN row
  ELSE [row EXCEPT !.refs = @ \ events,
                   !.state = IF row.refs \subseteq events THEN "deleted" ELSE @,
                   !.revision = @ + 1]

-----------------------------------------------------------------------------
(* Deletion of a source, and the rebuild.                                  *)

\* deletion_impact: the events whose current revision cites the source.
Impact(s) == {e \in Events : Exists(e) /\ Visible(current[e]) /\ s \in current[e].evidence}

\* An event is recomputed from the evidence that is left, whose status is never that
\* of a conflict.
Recomputed(row, s) == Revised(row, "active", "settled", row.evidence \ {s}, row.day)

\* The revision that a deletion appends to an event: recomputed, or deleted if no
\* evidence is left.  A conflict overrides the state that is asked for.
AfterDeletion(row, s) ==
  IF row.evidence # {s} THEN Recomputed(row, s)
  ELSE Revised(row, "deleted", row.fact, row.evidence, row.day)

\* The events and episodes of a deletion whose days are refreshed.
DaysOf(events, episodes) ==
  {current[e].day : e \in events} \cup {episode[p].day : p \in episodes}

\* Mutant of DeleteSource: the days of its events are not refreshed.
DeleteSourceQuietly(s) ==
  /\ source[s] # "deleted"
  /\ source' = [source EXCEPT ![s] = "deleted"]
  /\ LET orphans == {e \in Impact(s) : current[e].evidence = {s}}
         changed == {p \in Episodes : WithoutEvents(episode[p], orphans) # episode[p]}
         next == [e \in Impact(s) |-> AfterDeletion(current[e], s)]
     IN  /\ tombstoned' = tombstoned \cup orphans
         /\ history' = [e \in Events |-> IF e \in Impact(s) THEN Append(history[e], next[e])
                                         ELSE history[e]]
         /\ current' = [e \in Events |-> IF e \in Impact(s) THEN next[e] ELSE current[e]]
         /\ episode' = [p \in Episodes |-> WithoutEvents(episode[p], orphans)]
         /\ ledger' = Refreshed(current', episode', DaysOf({}, changed))

DeleteSource(s) ==
  /\ source[s] # "deleted"
  /\ source' = [source EXCEPT ![s] = "deleted"]
  /\ LET orphans == {e \in Impact(s) : current[e].evidence = {s}}
         changed == {p \in Episodes : WithoutEvents(episode[p], orphans) # episode[p]}
         next == [e \in Impact(s) |-> AfterDeletion(current[e], s)]
     IN  /\ tombstoned' = tombstoned \cup orphans
         /\ history' = [e \in Events |-> IF e \in Impact(s) THEN Append(history[e], next[e])
                                         ELSE history[e]]
         /\ current' = [e \in Events |-> IF e \in Impact(s) THEN next[e] ELSE current[e]]
         /\ episode' = [p \in Episodes |-> WithoutEvents(episode[p], orphans)]
         /\ ledger' = Refreshed(current', episode', DaysOf(Impact(s), changed))

\* Mutant of Rebuilt: the row says what became of it in words of its own.
RebuiltInOtherWords(e) ==
  IF e \in tombstoned THEN [Last(history[e]) EXCEPT !.state = "tombstoned"]
  ELSE Last(history[e])

\* The row of an event that is rebuilt: its last revision, unless a tombstone
\* takes precedence.
Rebuilt(e) ==
  IF e \in tombstoned THEN [Last(history[e]) EXCEPT !.state = "deleted"]
  ELSE Last(history[e])

\* Mutant of Rebuild: only the days that are in use are refreshed.
RebuildUsedDays ==
  /\ current' = [e \in Events |-> IF Exists(e) THEN Rebuilt(e) ELSE NoEvent]
  /\ LET events == {e \in Events : Exists(e)}
         episodes == {p \in Episodes : episode[p] # NoEpisode}
     IN  ledger' = Refreshed(current', episode,
                             {current'[e].day : e \in events}
                               \cup {episode[p].day : p \in episodes})
  /\ UNCHANGED <<source, history, tombstoned, episode>>

\* rebuild: every view from the revisions and the tombstones, with the ledgers of
\* the days that are in use or ever were.  The last revision of an episode is its
\* current row.
Rebuild ==
  /\ current' = [e \in Events |-> IF Exists(e) THEN Rebuilt(e) ELSE NoEvent]
  /\ LET events == {e \in Events : Exists(e)}
         episodes == {p \in Episodes : episode[p] # NoEpisode}
         known == {day \in DOMAIN ledger : ledger[day] # NoLedger}
     IN  ledger' = Refreshed(current', episode,
                             {current'[e].day : e \in events}
                               \cup {episode[p].day : p \in episodes} \cup known)
  /\ UNCHANGED <<source, history, tombstoned, episode>>

RefreshDay(day) ==
  /\ ledger' = Refreshed(current, episode, {day})
  /\ UNCHANGED <<source, history, current, tombstoned, episode>>

\* today makes the ledger of a day that has none.
OpenDay(day) == ledger[day] = NoLedger /\ RefreshDay(day)

\* set_day_coverage; what it says of the day is left out.
SetDayCoverage(day) == RefreshDay(day)

Next ==
  \/ \E e \in Events, fact \in {"settled", "conflict"} :
       \/ \E evidence \in SUBSET Sources :
            \/ \E day \in Times : AcceptEvent(e, fact, evidence, day)
            \/ ReplaceEvidence(e, fact, evidence)
       \/ \E day \in Times : AppendRevision(e, fact, day)
  \/ \E e \in Events : RecordConflict(e) \/ \E n \in DOMAIN history[e] : UndoEvent(e, n)
  \/ \E p \in Episodes, refs \in SUBSET Events, day \in Times : CreateEpisode(p, refs, day)
  \/ \E s \in Sources : DeleteSource(s)
  \/ \E day \in Times : OpenDay(day) \/ SetDayCoverage(day)
  \/ Rebuild

Spec == Init /\ [][Next]_vars

-----------------------------------------------------------------------------
(* Properties.                                                             *)

\* Every variable has its type.
TypeOK ==
  /\ source \in [Sources -> {"active", "deleted"}]
  /\ history \in [Events -> Seq(Snapshot)]
  /\ current \in [Events -> Snapshot \cup {NoEvent}]
  /\ tombstoned \subseteq Events
  /\ episode \in [Episodes -> Episode \cup {NoEpisode}]
  /\ \A day \in Dates \X Zones : ledger[day] = NoLedger \/ ledger[day] \subseteq Entry

\* The current view is the last revision, except that a rebuild lets a tombstone
\* take precedence: no undo, recompute or rebuild puts the view beside the history.
CurrentIsHead ==
  \A e \in Events : Exists(e) =>
    \/ current[e] = Last(history[e])
    \/ e \in tombstoned /\ current[e] = [Last(history[e]) EXCEPT !.state = "deleted"]

\* An event without a tombstone rests on no deleted source, however its evidence
\* was replaced, undone or recomputed before and after the deletion.
EvidenceIsLive ==
  \A e \in Events : (Exists(e) /\ e \notin tombstoned) => Live(current[e].evidence)

\* The ledger of an event's own day is in step with the event: it lists the event
\* at its current revision, alone or as part of an episode, and no deleted event.
OwnDayInStep ==
  \A e \in Events : Exists(e) =>
    LET listed == ledger[current[e].day]
    IN  IF Visible(current[e])
        THEN \/ <<"event", e, current[e].revision>> \in listed
             \/ \E p \in Episodes : /\ e \in episode[p].refs
                                   /\ \E x \in listed : x[1] = "episode" /\ x[2] = p
        ELSE ~\E x \in listed : x[1] = "event" /\ x[2] = e

\* Both projections of the history, the current view and the ledgers, follow every
\* append, undo, deletion and rebuild.
ProjectionsInStep == CurrentIsHead /\ OwnDayInStep

\* An event that is tombstoned leaves every episode in the same step, and an
\* episode that loses its last event goes with it.
TombstoneLeavesEpisodes ==
  [][\A p \in Episodes :
       /\ episode'[p].refs \cap (tombstoned' \ tombstoned) = {}
       /\ episode'[p].state = "active" => episode'[p].refs # {}]_vars

\* Projections are never a source of truth: a rebuild changes no event but the
\* tombstoned ones, keeps every ledger, and leaves none of them stale.
RebuildIsFaithful ==
  [][Rebuild =>
       /\ \A e \in Events \ tombstoned : current'[e] = current[e]
       /\ \A e \in tombstoned : current'[e].state = "deleted"
       /\ \A day \in Dates \X Zones : ledger[day] # NoLedger =>
            ledger'[day] = Entries(current', episode', day[1])]_vars

\* The README of the package: a deletion is completed only after structured,
\* derived and index clean-up.  An event that was deleted is not shown.
DeletedEventIsHidden ==
  \A e \in tombstoned : ~Visible(current[e])

=============================================================================
