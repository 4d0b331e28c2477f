# Ameme: specifications, model checks and proofs

TLA+ models of the parts of Ameme that keep state and can go wrong, the TLC
runs that check them on small instances, and the theorems that TLAPS checks for
instances of any size.  `PROJECT.json` lists the components, runs, findings,
hazards and theorems, and maps every definition to the lines it models.

Paths below are relative to `src/`.

## The system

Ameme is a local-first personal memory.  Sources (captures, files, calendar
entries) become observations, events, episodes and day ledgers on the owner's
device; agents read and write it through a narrow protocol; several devices
exchange envelopes.  The repository holds reference implementations in Python
("oracles"), an Android app in Kotlin, and documents.

| Component | State it keeps | Operations | What is hard | What makes it correct |
|---|---|---|---|---|
| **Raw Vault and two-phase deletion** `packages/core-reference/.../core.py`, `raw_vault.py` | `raw_manifests` rows, ciphertext files, `deletion_jobs`, source state | store, purge, delete_source, retry, acknowledge, recovery at opening | files and rows change apart; a crash or fault anywhere; several owners of one object's end | rows, files and proofs agree; a completed proof is true and stays; a deletion finishes |
| **Durable queue** `core.py` | `durable_jobs` rows, recorded answers of calls | enqueue, lease, complete, fail, release, requeue | leases expire under workers; calls are replayed; proofs change a job a worker holds | a lease is its owner's; settled is settled; jobs end |
| **Events, revisions, episodes, ledgers** `core.py` | append-only revisions, `events_current`, `recall_fts`, episodes, `day_ledgers`, tombstones | accept, append, conflict, undo, create episode, delete_source, rebuild, today, set_day_coverage | projections are updated by hand by each command; undo and deletion cross | projections follow revisions; nothing shown rests on what was deleted |
| **Capture, contracts, addenda, locators** `core.py` | source objects, observations, contracts, locators | insertions and a locator state machine | little | references exist; a locator does not become available again by itself |
| **Command idempotency** `core.py` (`_command`) | recorded answers per command and key | replay | a replay after the world moved on | a replay changes nothing, or finishes what the first call began |
| **Sync peer** `packages/sync-protocol/.../simulator.py`, `model.py` | outbox, cursors, seen sequences, pending, quarantine, keys, revisions, tombstones, revocations | emit, receive, drain, project | any order, gaps, repetition, control envelopes that overtake, expiry and revocation | cursor is the gapless prefix; peers with the same input agree; deleted stays deleted |
| **Sync simulator** `simulator.py` | offline set, queues, receipts | send, set_online, replay_offline, evaluate | receipts against what happened | the outcome says no more than the peers' states |
| **Sync scenarios, conformance** `scenarios.py`, `conformance.py` | none | fixed schedules, vectors | | |
| **MCP mock** `services/ameme-mcp-mock/.../core.py`, `store.py`, `server.py` | pairings, grants, undo tokens, deliveries, idempotency records in one JSON state | pair, approve, revoke, capture, feedback, undo, recall, get_context | a call is several steps over three stores, with one save at its end | one effect per key; no effect without a grant |
| **MCP node store** `core_store.py`, `event_store.py`, `core_oracle_host.py` | operations in prepared / core_committed / retry_pending / failed | create, append, undo, block, enqueue in two stores, found again by key | a crash between two commits | one event per operation, in the end in both stores |
| **Native host store** `native_host_store.py` | a subprocess, a response queue, a lock | request and response over lines | a time-out with a late answer | an answer is given to its own request |
| **Local-node protocol and channel** `packages/agent-local-node-protocol`, `android_local_node_store.py`, `tls_android_local_node_channel.py` | session, sequence numbers | hello, request, response | a lost response after a durable capture | a retry has no second effect |
| **Android event database** `apps/android/.../data/local/LocalEventDatabase.kt`, `LocalMemoryRepository.kt` | events, day ledgers and summaries, locators, agent idempotency | transactions of each | the answer of a gateway that comes after a capture; grants released in two steps | a summary is of its revision, and can be renewed |
| **Android agent transport, pairing** `data/transport/*` | pairing material, a server loop, endpoint | pair, serve, exchange, stop | one connection at a time over a network that breaks; revocation under way; persisted in two places | a revoked phone serves no more; a dead connection does not hold it |
| **Android capture adapters** `data/source/*` | persisted grants | capture, degrade | | |
| **Android executor, search** `data/MemoryIoExecutor.kt`, `ui/screens/SearchRequestCoordinator.kt` | an executor, a generation | open, run, search | cancellation during a hand-off | opened is closed once; old results are dropped |
| **AI processing reference** `packages/ai-processing-reference` | answers kept, tickets queued, evidence withdrawn, budget spent | create_candidate, enqueue, drain, invalidate | contexts of any age; a provider that answers after a withdrawal | withdrawn evidence is neither kept nor used; budgets hold |
| **Inference gateway, Android UI, contracts, skills, scripts, research** | none of their own | | | |

How they interact:

- An agent calls the MCP mock; the mock authorizes, records idempotency, and
  calls a node store: the Event Core in process, the Event Core in a subprocess
  (native host), or an Android device over the local-node channel, where the
  endpoint answers from the Android database.
- `delete_source` is the place where the parts of the Event Core meet.  In one
  transaction it marks the source, recomputes or tombstones its events, episodes
  and ledgers, stages its raw objects, and opens a deletion job with a durable
  job.  The files are removed after the commit, and the proof is recomputed then,
  at each retry or acknowledgement, and whenever the core is opened.
- The sync peers do not call the Event Core; the simulator carries envelopes
  between them.

## Modules

| Module | Models | Checked by |
|---|---|---|
| `RawDeletion` | the vault, its rows and files, deletion jobs, crash and recovery | `raw_deletion`, `raw_deletion_live`, two violation runs, `RawDeletion_proofs` |
| `DeletionPromise` | the abstract promise: readable, lost, doomed, erased; kept, erasing, proved | through the refinement |
| `RawDeletionRefinement` | the refinement mapping | `raw_deletion_live`, `RawDeletionRefinement_proofs` |
| `RawDeletion_proofs`, `RawDeletionRefinement_proofs` | theorems about `RawDeletion` and its promise | TLAPS |
| `DurableQueue` | the durable job queue | `durable_queue`, `DurableQueue_proofs` |
| `DurableQueue_proofs` | theorems about `DurableQueue` | TLAPS |
| `EventLedger` | events, revisions, episodes, ledgers, tombstones, rebuild | `event_ledger`, `event_ledger_hidden`, `EventLedger_proofs` |
| `EventLedger_proofs` | theorems about `EventLedger` | TLAPS |
| `HostStore` | the store behind the MCP server: requests over the Event Core and control.json | through the next |
| `AgentMemory` | the MCP server over that store: grants, captures, feedback, undo, contexts, crashes | `agent_memory`, `AgentMemory_proofs` |
| `AgentMemory_proofs` | theorems about `AgentMemory` and the `HostStore` in it | TLAPS |
| `LocalNodeChannel` | an MCP server, a TLS connection, and the phone that stores its captures | `local_node_channel`, `LocalNodeChannel_proofs` |
| `LocalNodeChannel_proofs` | theorems about `LocalNodeChannel` | TLAPS |
| `ScopedRuntime` | the AI reference: candidates, cache, batch queue, budgets | `scoped_runtime`, `ScopedRuntime_proofs` |
| `ScopedRuntime_proofs` | theorems about `ScopedRuntime` | TLAPS |
| `SyncPeer` | one peer: emission, reception, drain, projection | through the next |
| `SyncSimulation` | peers composed with delivery, offline queues, receipts, the outcome | `sync_simulation`, `sync_receipt`, `SyncSimulation_proofs` |
| `SyncSimulation_proofs` | theorems about `SyncSimulation` and its peers | TLAPS |
| `CapturePromise` | the abstract promise of a store to its agents: made, answered, gone | through the refinements in `AgentMemory` and `LocalNodeChannel` |
| `MC...` | instances for TLC | |

Operators whose comment calls them a *mutant* or a *mistake* are not used by the
specifications.  Each is a definition with a plausible bug, and is there to show
that the property named in `PROJECT.json` notices it.

### RawDeletion

One process owns the database, so commands run one after the other.  A SQLite
transaction is one step.  What is not one transaction is cut at each commit:
`delete_source` is `DeleteSource` (the transaction), then a loop whose turns are
`FinalizeRaw` or `FinalizeRawFails` (unlink and commit of one object, with its
outcomes: both, unlink alone, neither), then `ReconcileDeletion`.  `Crash` can
come between any two steps and leaves rows and files as they are; `Open` and the
actions after it are the constructor's recovery.  A store has three actions for
its three ends.  Commands that raise after a rollback change nothing and are not
actions.

`manifest` holds the three columns `state`, `deletion_state` and
`pending_deletion_state`; `files` is the set of objects with ciphertext in the
vault directory; `job` the row of the deletion job with its proof; `proc` what the
process is doing.  Objects have unit size and the quota counts objects; contents,
keys, hashes and the instants of expiry are left out (the objects a purge takes
are any of those that expire).  `LoseFile` is the environment: a file disappears.

### DurableQueue

Instants are the time left until them, so that time can go on without bound.
`LeaseNext` includes the release of expired leases, as the code does, and may
have its answer lost; `ReplayLease` is the same call under the same key.  `hold`
is what a worker believes it holds and may be wrong.  `Requeue` and `Prove` are
`_update_deletion_job_tx`, which completes or requeues the delete job whoever
holds it; when they happen is left to the environment of the queue here and is
the matter of `RawDeletion`.

### EventLedger

One owner, one space.  A revision has a state, whether its fact status is
"conflict", its evidence and its day (date and zone); text, confidence and
lineage edges are left out, as are the revision numbers and the coverage values
of ledgers.  A ledger is the set of its entries, an entry names an event or an
episode with its revision.  Evidence is a set of sources, with one observation
each.  `DeleteSource` is the whole of the structured part of `delete_source`.

### HostStore and AgentMemory

Three stores with no common transaction: the Event Core of the host process
(`source`, `event`, `job`, `slot`; a command is one step and is recorded under its
key in the same transaction), the host's control.json (`operation`, `queue`,
`blocked`; replaced as a whole), and the server's mcp-control.json (`grant`,
`pack`, `record`, `undo`; replaced at the end of a handler).  `work` is the
request the host is working on, and each value of `work.at` is a place where the
process can stop: before the operation is written, before each command of the
Event Core, before the operation is written again, and before the answer is read.
`call` is the tool call of the server, cut where it waits for the host.

`create_event`, `append_revision` and the two kinds of undo run through the same
steps; what is a failure for good and what waits for a retry is as in the code.
The undo token of a capture is known by the key of the capture.  A server that
stops leaves a host that goes on with its request (`OrphanEnds`); a new server is
started when that host has ended, which is assumed.  A timeout of the server is
`HostStops`: it terminates the host and never reads a late line.

`ImplementsPromise` maps this onto `CapturePromise`.  A slot of the promise is a key
together with what is captured under it, an event or a revision.  What was *made* under
it are the versions of the Event Core that name it, what was *answered* is what agents
were told under that key, and *gone* are the events with a tombstone and the revisions
followed by an undo.

Left out: activity entries, the feedback log, budgets, truncation and text
filters of a context, queries.  `recall` shows what `GetContext` shows, and keeps
nothing.

### LocalNodeChannel

On the host `call` is the capture in progress and `worker` the thread of
`_exchange_bounded`, which outlives a capture that has given up; `store` and
`channel` are closed separately, as the code does it.  `conn` has for every
connection the lines under way in both directions and which ends are open.  A
connection that breaks delivers nothing any more, not even its end.  On the phone
`phone.at` is the place of the serve loop; making a listener, publishing it, and
using it are three steps, because `close()` may come between them.  `Handle` is
the endpoint with the transaction behind it.

A hello stands for its proofs: they are those of the pairing secret, which both
sides have until the listener is closed.  Frames carry session, sequence and
request; TLS keeps them whole and in order.  Only captures are sent;
`enqueue_delivery` takes the same way.  Pairing itself is not modelled.

`ImplementsPromise` maps this onto the same `CapturePromise`: a slot is a key, what was
made are the events of the phone that name it, with their text, what was answered is
what agents were told with "ok".  Nothing is taken back on this way.

### ScopedRuntime

A scope is a pair of space and purpose, as its digest tells no more.  The key of a
cached answer or a ticket is a digest of the fields it is bound to, so both are
records of those fields (`Bound`).  Names of tasks, versions, adapters and
fixtures are the same in all requests and are left out.

The runtime is plain synchronous code and calls out at one place,
`provider.generate`.  `create_candidate` is therefore cut there: `CreateCandidate`
up to the call, `ProviderReturns` from it on with the context it began with, and
whatever the surroundings of the provider do with the same runtime in between.
The second check of evidence in `cache_put` is there for this.  The other calls
are one step each.  `result` is what the last call returned and `asked` counts
the calls of providers.

`Refuse` may happen to any request: the data of an observation can be at fault in
ways that are not modelled.  What matters is that the withdrawals its context
names are remembered all the same.

### SyncPeer and SyncSimulation

`receive` is cut by its early returns into the disjuncts of `Receive`; the drain
loop behind it has one step per envelope, and nothing else happens until it ends.
A digest is the envelope itself.  The harness may deliver any emitted envelope to
any peer at any time, also again, which covers lost, late and repeated delivery;
`Strays` are envelopes that are in no outbox, for a sequence used twice and for
an envelope of another space.  `audit` is the audit log without its order.

## Runs

Each passing run explores its instance completely.

| Run | Instance | Question |
|---|---|---|
| `raw_deletion` | 2 sources, 3 objects (two of one source), one that expires of each, 1 replica, quota 3, clean-up may fail; 129,862 states | Do rows, files and proofs agree over every crash, fault, retry, purge, late or repeated acknowledgement? |
| `raw_deletion_live` | 1 source, 3 objects, quota 2, files may vanish; 6,100 states | Does the vault implement the promise, keep within its quota, finish deletions? |
| `raw_deletion_residue` | 1 source | violation, see Findings |
| `raw_deletion_stuck` | 1 source, files may vanish | violation, see Findings |
| `durable_queue` | 2 jobs, 2 workers, 3 attempts, lease of 2 ticks; 69,976 states | Do leases and settled states hold, and do ordinary jobs end? |
| `event_ledger` | 2 sources, 2 events, 1 episode, 3 revisions, 2 days; 142,364 states | Do projections follow revisions, and is evidence live? |
| `event_ledger_hidden` | the same | violation, see Findings |
| `sync_simulation` | 2 peers, one event and field, two schemas, 3 envelopes and a stray; 325,349 states | Are cursors, projections and outcomes sound in every order? |
| `sync_receipt` | the same with a stray of another space | violation, see Findings |
| `agent_memory` | 6 calls under 3 keys, 2 grants of which one may lapse, one crash, timeout or locked database; 140,368 states | Do the three stores agree and implement the promise, has a key one effect, does a capture that is repeated settle? |
| `local_node_channel` | 3 calls under 2 keys, 3 requests, 2 connections, one break, stop of the phone or failed transaction; 470,567 states | Do server, network and phone implement the promise, is what is told durable; does the phone stop serving, and never hang? |
| `scoped_runtime` | 2 callers, 2 purposes of a space, 3 pairs of generations, a bundle of 2 pieces of evidence, budget 1, 2 answers and 2 tickets kept; 113,677 states (up to symmetry) | Is withdrawn evidence neither kept nor used, are drains current, do budgets hold? |

Two properties are proved and have no run of their own, since a refinement that is
checked implies them: `ProofIsFinal` of the vault (`DeletionPromise` has no step out of
"proved") and `OneEventPerSlot` of the phone (`CapturePromise` makes one thing in each
slot).

Why the bounds are enough:

- **Vault.** Every interaction is between the objects of one job, between two
  jobs, or between a purge and a job: two objects of one source (some clean, some
  failed), a second source, and an expiring object in each give all of them.
  Three objects against a quota of two give a store that is refused.
- **Queue.** Two workers disagree about one job, the second job competes for the
  lease; three attempts give a first, a middle and a last one, and the backoff
  reaches its cap.  `MaxRequeues` bounds how often a proof falls short.
- **Ledger.** Two sources make a recomputation and a deletion of the same event
  differ; two events make an episode lose one and keep one; two days differ in
  date *and* zone, the case in which the ledgers that are refreshed are not all
  that an event was in.  `MaxRevisions` counts every command that revises an event
  except deletions, which are bounded by the sources.  Deadlock is not checked
  where a bound stops the system.
- **Sync.** The calls are chosen so that in one instance there is a gap, a
  control envelope that overtakes it, a key used twice, a schema one peer does
  not know, two competing revisions, a revocation and an expiry.  Two emissions of
  one peer and one of the other are the least with a gap and a competitor.

- **Agents.** An event under two texts of one key, a revision and a correction
  that compete for the head of that event, a report and a note under the key of
  the correction: every pair of calls that can meet, does.  The offline calls add
  the delivery to the steps.  One fault is put at every step of every call; what a
  second fault meets is a state that the retry of the first already went through.
- **Channel.** Two connections give one that is left and one that follows, and
  three requests a first attempt, its retry and another capture.  The stop of the
  server, a revocation and the expiry are not counted as faults and may come with
  the one that is.

- **AI runtime.** Two callers ask at one time for the last call of a budget; two
  purposes share deletions and not revocations; of three pairs of generations two
  differ in each half alone.  Each context that names withdrawn evidence names a
  part of the bundle only.

The callers and the purposes of `scoped_runtime` are interchangeable as well.  The
sources of the ledger runs are interchangeable (no constant tells them
apart and no liveness is checked there), hence the symmetry.

### Fairness

`raw_deletion_live`: an opened process recovers, and a loop that has begun goes
on; that is how the program runs.  The rest is assumed of its surroundings: the
caller retries a deletion that is not proved, an unlink and a commit that are
tried again and again succeed at last, and crashes cease.  No code in the
repository calls `retry_deletion_job` or `lease_next_job` outside the tests: the
durable job of a deletion is only queued.  So `DeletionFinishes` says that the
core can be brought to finish, not that it does so unattended.

`agent_memory`: the two processes go on, what has stopped is started again by
whoever uses it, and an agent repeats a capture until it is answered, which is
what the key is for.  A capture can be begun only when the server is free, hence
strong fairness.  Nothing is assumed of grants, of other calls, or of time, and
faults are finitely many.

`local_node_channel`: the serve loop and the thread of an exchange go on, and
their timeouts (five seconds each in the code) come.  Nothing is assumed of the
network, the user or the server.

`durable_queue`: time passes, each worker that is free again and again does ask
for jobs of any kind, and a worker ends what it holds, if only by forgetting it.
A worker that is free only at times gets to ask (strong fairness).  Nothing is
assumed of how jobs end.

## Proofs

Every theorem holds for every value of the constants that the assumptions of its
module allow: any number of sources, jobs, peers, calls, connections, any bounds.
The properties the runs check are seldom inductive.  Each module of proofs
therefore states an invariant that is, made of named parts, proves that the initial
states have it and each action keeps it (one lemma per action or per part), and
derives the properties from it.  `PROJECT.json` lists the theorems worth knowing.

| Module | Inductive invariant | Properties that follow |
|---|---|---|
| `RawDeletion_proofs` | `VaultAgrees` | `CompletedJobIsClean`, `DeletedSourceUnreadable`, `DeletedManifestHasNoFile`, `OutcomeIsNotStolen`, `ProofIsFinal`, `DiskWithinQuota` |
| `RawDeletionRefinement_proofs` | `VaultAgrees` | `ImplementsPromise` |
| `DurableQueue_proofs` | `QueueIsSound` | `TypeOK`, `DeleteJobFollowsProof`, `LeaseIsKept`, `SettledStays` |
| `EventLedger_proofs` | `LedgerIsSound` | `TypeOK`, `ProjectionsInStep`, `EvidenceIsLive`, `TombstoneLeavesEpisodes`, `RebuildIsFaithful` |
| `SyncSimulation_proofs` | `SimulationIsSound`, `SimulationAccounts` | `TypeOK`, `JudgedOnce`, `CursorIsGaplessPrefix`, `DeletedStaysDeleted`, `RevokedStaysOut`, `DivergenceIsExplained`, `ConvergenceMeansDeleted`, `MergeIsByGeneration` |
| `AgentMemory_proofs` | `IInv`: `HostIsSound`, `AgentsAreSound` | `TypeOK`, `StoresAgree`, `OneEffectPerKey`, `ContextIsRightful`, `DoneLasts`, `ImplementsPromise` |
| `LocalNodeChannel_proofs` | `ChannelIsSound` | `TypeOK`, `OneEventPerSlot`, `ToldIsDurable`, `RevokedServesAtMostOne`, `DoneLasts`, `ImplementsPromise` |
| `ScopedRuntime_proofs` | `Clean`, `ChargesAgree` | `NothingForbiddenIsKept`, `DraftIsRightful`, `DrainIsCurrent`, `BudgetIsKept` |

### The vault

`RawDeletion_proofs` holds for all sets of sources, objects and replicas, every
assignment of objects to sources, every quota, and whether or not clean-up may
fail and files may vanish.  The assumptions are those of `RawDeletion`: `SourceOf`
is a function, `Expiring` a set of objects, `Quota` a number, the flags Boolean.

`CompletedJobIsClean`, for one, follows for an acknowledgement only because
`localComplete` was recorded when all objects were clean, and stays true only
because a row never leaves "deleted" and a file never comes back to such a row.
`VaultAgrees` says all of this at once:

- types, and which values of the three columns of a row occur together;
- no row says deleted with a file beside it;
- a job exists exactly for a deleted source, its objects belong to that source and
  are staged for, or have, the outcome "deleted"; `localComplete` implies that
  they are clean; "completed" is `localComplete` with no replica outstanding;
- a deleted source has no active row;
- a readable row has its file, unless files vanish by themselves;
- the jobs the process is to reconcile exist.

`VaultConsistency` proves `Spec => []VaultAgrees`: one lemma per action that
changes rows or jobs, one (`FileStep`) for all that change files alone, types and
the process in lemmas of their own.  `VaultAgrees` is also an invariant of
`raw_deletion`; `DeletedManifestHasNoFile`, which `DeletedMeansGone` is about, is one
of its conjuncts.  `QuotaHolds` counts with the cardinality theorems: the files on
disk are finitely many, every step but a store only removes some (`QuotaShrinks`),
and a store was admitted when there was room for one more (`QuotaHasRoom`).  It
needs `~CleanupMayFail`; without it the property is false (see Findings).

`Refinement` proves that `RawDeletion` implements `DeletionPromise`.  `MappingReads`
says what each of the abstract values means in rows and jobs; then there is one
lemma per action that moves an object or a promise (a store adds, a purge and a
deletion doom, a finalization erases, a reconciliation proves, an acknowledgement
counts, an opening may find a file lost), and `Stutters` for all others.  An
acknowledgement that is repeated, a retry of what is done, and each step of a
recovery turn out to be a stutter or an idempotent step of the promise.
`VaultAgrees` is what makes "proves" a step the promise allows.

### The queue

`QueueIsSound` says of each row: a delete job is completed exactly when it is proved,
an ordinary job that waits has an attempt left, none has had more than its
attempts, and what is leased was counted as an attempt.  The lemmas take the row operators
(`Enqueued`, `Released`, `Leased`, `Failed`, ...) one by one, the actions then touch
one row each.  `LeasesAreKept` and `OutcomesAreFinal` are action properties; the first
rests on `WhoMoves`, which tells for any step which row may have left "leased" and by
whom.  `AttemptsRunOut` states the bound on attempts, which the run has inside
`TypeOK`.  `TypesHold` needs that `2^n` is a natural number, for the backoff.  The
provers do not know that, so the lemma `PowersOfTwo` counts: `2^n` is the number of
subsets of a set with `n` elements.

### The ledger

`LedgerIsSound` is `Typed`, `EventsAgree`, `EpisodesAgree` and `LedgersAgree`.
`EvidenceIsLive` alone is not inductive, since an undo brings back a revision of the
past: what makes it so is that an event without a tombstone has no deleted revision
and that the undo checks the evidence it brings back.  `ProjectionsInStep` needs that
the row is the head of the history, or that head with the state of a tombstone.
`TombstonesLeaveEpisodes` and `RebuildsAreFaithful` are action properties proved
from the invariant; `RefreshedInStep` is the lemma about a ledger that is made anew,
and is cited for each action that refreshes one.

### The sync

`SimulationIsSound` says of each peer: sequence numbers of a device are seen once
(`SeenOnce`); what waits was seen, and took effect early exactly if it is a control
envelope (`WaitsKnown`); what was judged was seen and waits only if it took effect
early (`AuditKnown`); an envelope has one verdict (`OneVerdict`); and `Gapless`, which
holds in the middle of a drain too, where `CursorIsGaplessPrefix` says nothing: all up
to the cursor was read, all that was read beyond it waits, and the next one was not
read, unless a drain is about to take it.
There is one lemma for each way `receive` can end (`Hold`, `Take`, `SetAside`) and for a
turn of the drain, each about one peer; `StepIsSound` puts them together.
`DeletionsStay` and `RevocationsHold` are action properties that need the types alone.

`DivergencesAreExplained` is the deepest of them: *any* number of peers that have
read the same envelopes, in whatever order, show the same.  `Accounts` says, of a peer
that has recorded no reason against an envelope, what its key records, tombstones,
revocations and revisions are in terms of what it has *seen*: each is there because
an envelope was read (`AppliedTell`, `KeysTell`), each envelope read took effect under
its key or waits (`SeenTell`), and of several under one key the first in sequence has
it (`FirstWins`).  A peer that is not partial has nothing waiting, and then what has
been applied is a function of what was seen (`AppliedByBoth`).  Key records do not
identify tombstones between peers, so their number is compared by a bijection
(`AsManyTombstones`).  `ConvergencesDelete` follows from the same: what a peer that is
not partial has read of a deletion is among its tombstones, and peers that show the
same show the same deletions.

`MergesAreByGeneration` is about what the fold over base revisions computes: each
field comes from the newest generation that writes it, and generations count only as
far as none is missing.  It takes an induction over generations.  The library's
induction rules have an operator as parameter, so `Induction` states the rule for a
*set* of numbers instead, from the well-foundedness of `<`; `MergesExist` and
`MergesStepwise` use it to say that merging the bases below `n` is defined and that the
next base merges into it, and `MergedByGeneration` says what has come of it below each `n`.
That a last writer exists is `GreatestNumber`, for which the revisions of an event, and
the changes in each, have to be finite (`RevisionsStayFinite`).

### The agents

`AgentMemory_proofs` holds for any keys, calls, grants and any number of faults.  It
assumes `CallsAssumption` (each call has the fields of its kind, and a note of
feedback is offline), `GrantsAssumption` (the grants that read, and those that
lapse, are grants) and `FaultsAssumption` (the bound on faults is a number).

`StoresAgree` speaks of the ends of a chain: record, operation, revision.  To show
that each crash leaves it true one has to say what every link knows of the next,
and that is the invariant:

- `CoreIsSound`, of the Event Core alone.  A slot names the revision that was made
  under its key (`SlotsAgree`), and a revision names its slot and rests on a source
  captured for its event (`VersionAgrees`); a source belongs to one key
  (`SourcesAgree`); a tombstone is the last revision of its event; a job is for what
  was made under its key.
- `OperationsAgree`, of control.json.  An operation that is committed has its slot; an
  undo names the source, or the revision, that it is to take back.
- `WorkAgrees`, of the request under way.  `RequestAgrees` says for each step where the
  process can stop what is already so: before the command of the Event Core the
  source is captured under this key, before the operation is written again the slot
  is there, before the queue is written the job is.  `Achieved` says what an answer
  "ok" means.
- `CallAgrees`, of the tool call.  It waits for a request of its own, and when it waits for
  the delivery the store has done its part (`Held`).
- `RecordsAgree`, of mcp-control.json.  A record is of a call whose effects are there;
  agents were told of nothing else; an undo that is used is committed.
- `PackAgrees`: a pack that is ready is of a grant in force.

What makes this inductive is that effects last.  `CoreKeeps` and `ControlKeeps` say that
a slot, a revision, a job, a deletion, a committed operation and an entry of the
queue stay whatever the next step is, so what one process knows of another's store
does not go stale.  There is one lemma for each command of the Event Core, one
for each step of a request with all its outcomes (`...Serves`), put together in
`HostGoesOn`; then one for each action of the agents; `StepIsSound` joins them.  A stop
of the host is harmless because a request knows only what is in the stores, and a
stop of the server because a record is written after what it claims.

`EffectsAreSingle` follows from `VersionAgrees`: two revisions made under one key are named by
one slot, hence are one.  `StoresTellTheSame` goes down the chain from the record
(`SettledIsHeld`, `CommittedIsInCore`, `UndoneEventIsGone`).  `PacksAreRightful` is an action
property: `get_context` alone makes a pack (`PacksMove`), of what is visible, and what
was undone or blocked is not (`HiddenIsNotVisible`).

`WhatIsDoneLasts` makes a property of every step out of what the invariant needed:
slots, revisions, jobs, committed operations, records and answers stay, and what is
deleted, blocked, undone or revoked stays so (`CoreKeeps`, `ControlKeeps`, `AgentsKeep`).

`CapturesArePromised` proves that all this implements `CapturePromise`: whoever looks
only at what was made, answered and taken back sees neither stops nor retries.
`Reading` says what the abstract values mean in versions, tombstones and undos.  A step
of the host either adds nothing under a slot or adds versions that are all one and the
same (`Adds`), so it makes one thing at most, and that under a slot that was empty.  The
hard part is `TakeBack`, which the promise allows only for what somebody was answered.
That is not in `IInv`, so a second invariant is proved on top of it: a request to undo is
of something its agent was told of (`UndoIsAsked`), and it stays so while the host works
(`UndoStaysAsked`), since answers last.  Deleting a source takes back one event, and all that is
taken back in a step lies under one slot (`AddTakesBack`, `DeleteSourceIsPromised`).  Then
there is one lemma for each kind of step (`AcceptEventIsPromised`,
`AppendRevisionIsPromised`, `UndoRevisionIsPromised`, `ToldIsPromised`), and
`NothingIsPromised` for the steps that stutter.

### The channel

`ChannelIsSound` has four parts.  `Typed` and `Related` are the types and what
the variables of one side say of each other.  `Stored` says what the endpoint has
made durable: an event for each slot that is taken, with its text.  `Known` is about the
network: a request number stands for one request, wherever it occurs, on a line, at
the worker, or on the phone (`NumbersKnown`), and every answer on its way, on the phone, on a
line, or at the server, is true of the request it answers (`AnswersTrue`).
`Capture` alone takes a new number and `Handle` alone makes a new answer; every other
step moves lines or drops them.  So each action is first shown to be a `MovingStep`
(the lines after it are among those before it and one that its sender had) or a
`QuietStep`, and `KnownGoesOn` is proved once for all of these.  `ToldIsDurable` follows
since events are never removed (`DurableStays`).  `ServedLate` is what
`RevokedServesAtMostOne` needs: while a late connection may still be accepted there has
been none.

`WhatIsDoneLasts` says of every step that slots and events of the phone and records and
answers of the server stay.  For a record it needs `CallIsNew`: a capture in progress
is under a key without a record, so its end overwrites none.  `CapturesArePromised` proves
that the channel implements `CapturePromise`.  `Reading` says how a slot of the phone
gives what was made, and that each answer is of that; `Handle` is then `Make` or a
stutter, an answer told to an agent is `Answer`, and all else, the network with its faults
included, is a stutter.

### The AI runtime

`ScopedRuntime_proofs` holds for any sets of callers, spaces, purposes, evidence,
generations and contexts, under `ContextsAssumption` (contexts and bundles have
their types).  `KeptIsRightful` is inductive as it stands once it is said of the
two sets apart (`Clean`): a withdrawal is written down in the same step that
removes what rests on it (`SurvivingIsClean`), and what is added was allowed under
what was written down (`BoundIsClean`).  `BudgetHolds` needs `ChargesAgree`: every
call of a provider was charged before.  `DraftsAreRightful` and `DrainsAreCurrent`
are about what a step returns, and are proved of every step from any state.
`TypesHold` states the types, which no run checks.

### Only model-checked

- Liveness under fairness (`DeletionFinishes`, `EveryJobSettles`, `CapturesSettle`,
  `PhoneLetsGo`) and `ENABLED`
  (`EverySourceDeletable`): outside of what the prover can do.

## Findings

1. *A completed deletion can leave ciphertext of its source*
   (`raw_deletion_residue`): an object a purge has staged is not among the objects
   of the deletion.  It is removed by the next purge or opening.
2. *A lost file blocks the deletion of its source* (`raw_deletion_stuck`): the row
   is "missing", staging refuses it, and nothing takes it out of that state.
3. *A deleted event in conflict stays visible* (`event_ledger_hidden`): its fact
   status overrides the state "deleted" in the current view, the search index and
   the ledger until a rebuild, while the deletion job is completed.  Recording a
   conflict on a deleted event brings it back in the same way.
4. *A refused tombstone is acknowledged on its second delivery* (`sync_receipt`):
   the duplicate receipt counts as a proof.

Without a run of its own: an event that moves to another date and another zone
in one revision leaves its entry in the ledger of the old day, until a rebuild or
`set_day_coverage` of that day (`_append_event_revision_tx` refreshes the old and
the new date in the new zone only).  `OwnDayInStep` is therefore about the day the
event is on.  And an orphan of a store whose clean-up failed does not count
against the quota before the next opening, so `DiskWithinQuota` is checked where
that clean-up works.

Met while modelling the other parts, within what the models do except the last two,
which are about code that is not modelled:

- *Offline feedback.* Every attempt makes a new `feedback_id`.  If the host has
  queued the delivery and the server stops before its save, each retry under the
  same key asks for another payload, is refused by the Event Core as a conflict,
  and is answered "retryable" for ever
  (`docs/engineering/MVP接口与错误契约.md:118`).  `CapturesSettle` is therefore about
  captures.
- *Undo of an event that was revised after the crash of its first undo.* The
  operation was prepared with the source of the first revision; the retry deletes
  that source, the event rests on another and is not tombstoned, and each retry
  ends in an error.  `StoresAgree` holds because nothing claims that the undo was
  done.
- *A revision.* `append_revision` looks for an active event before it looks for the
  recorded result, so a retry of what was done is refused once the event is gone;
  and a conflict leaves the captured source without a revision.
- *The retry of a capture over the channel.* The payload of `create_event` holds the
  time of the attempt (`android_local_node_store.py:545`), so the retry of a capture
  whose answer was lost has another digest and is answered with
  `IDEMPOTENCY_CONFLICT` for ever, although the event is stored.
  `docs/engineering/MVP接口与错误契约.md:20` promises the original result for the same
  key and content.  `ToldIsDurable` says what is left: whoever is told of a conflict
  has not lost what he sent before.
- *Idle sessions.* The phone closes a connection on which nothing comes for five
  seconds; the next capture fails, and only a restart of the server connects again.
- *Revocation.* `AgentLocalNodeRuntime.close()` cannot find a listener that is made and
  not yet published; that one serves one more connection, and
  `RevokedServesAtMostOne` shows that it is no more than one.
- *A late drain.* `drain_batch` under an older context empties the queue of its scope
  and drops the tickets of the current generation as invalid; nobody is told which.
- *A failed provider leaves a draft of deleted evidence.* A valid answer is checked again
  before it is stored, but the draft of the rules that stands in for an invalid one
  is not (`pipeline.py:131`).  It takes a deletion through the same runtime while
  `generate` is at work.  `DraftIsRightful` leaves these drafts out.
- *A summary of a day on the phone cannot be refreshed.* Once a day has a summary and
  another event is captured, the day is "Stale" whatever its ledger says
  (`LocalEventDatabase.kt:412`), `completeDaySummary` finds no "Processing", and the
  answer of the gateway is dropped, every time, until an event is deleted and the old
  summary with it.
- *A generation that is interrupted.* The death of the app leaves the ledger
  "Processing", and the screen shows no button until an event changes.

## Not modelled

- Encryption, hashes, key handling, paths; text, confidence, lineage, search
  ranking: data that no property here tells apart.
- Addenda and locators of the Event Core: checked insertions that nothing else
  reads.
- `JsonStore` as an event store: a fixture of one file without a second store to
  disagree with.
- The summary of a day on the phone: two rows of one database and a screen; see the
  notes of its hazards and the last two points above.
- The persistence of a pairing in two places (`AgentPairingManager`) and the release of
  persisted grants by the system and by the database: two writes in a row, whose
  hazard is the place where the process dies between them.
- The hand-off of an opened repository to a caller that is cancelled
  (`MemoryIoExecutor.kt:31`) and the search tokens (`SearchRequestCoordinator.kt`): a
  few lines each, which rest on the coroutine library.
- The rules, contract validation and evaluation of the AI reference, its observer, and
  `no_summary_when_unavailable`: sequential functions without state.
- UI, inference gateway, scripts, contracts, skills, research: no state of the
  kind modelled here.

## Plan

Done, in this order: `RawDeletion` with its promise and proofs, `DurableQueue`,
`EventLedger`, `SyncPeer` with `SyncSimulation`, `HostStore` with `AgentMemory`,
`LocalNodeChannel`, `ScopedRuntime` with its proofs.

Proved, in this order: the vault and the AI runtime, the refinement of the
promise of deletion, the quota, the queue, the ledger, the sync, the channel, the agents,
the merge, what lasts, and the promise of a capture for both stores.

Every invariant and action property that the passing runs check has its theorem, and so
have the refinements; the rest is listed under "Only model-checked".  Next would be
further action properties of the other modules of the kind of `WhatIsDoneLasts`: that
history, tombstones and deleted sources of the ledger last, that what a peer has seen and
judged lasts, and that no step of the vault brings a file back to a row that is deleted.
