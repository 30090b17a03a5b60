# A verification project for GeneralManager

GeneralManager turns declarative Python classes ("managers") into a Django
application: ORM models, a GraphQL API, a dependency-tracked result cache, file
uploads, workflow events, search indexes, remote interfaces and chat. This
project models the parts whose correctness depends on an order of steps: protocols
spread over several worker processes that share only a database, a cache backend,
an object store or a message broker, objects that several threads use at once, and
chains of calls that answer from what earlier calls remembered.

Paths below are relative to `src/src/general_manager/` unless they start with
`docs/`.

## 1. Inventory

| Component | State it keeps | Operations | What is hard | What makes it correct |
|---|---|---|---|---|
| Dependency cache (`cache/cache_decorator.py`, `dependency_publish.py`, `dependency_index.py`, `dependency_shards.py`, `signals.py`) | shared cache backend: values, dependency index, compute leases, index lock, generation, change counter and flag | `@cached` miss, lease, publish; `@data_change` begin, mutate, invalidate, end | publishers race mutations; TTL locks; death half way; caller transactions | a visible value is fresh and can be invalidated; the barrier stays up during changes and comes down after them |
| Run context and its budget (`cache/run_context.py`, `run_context_lru.py`) | per-run memo, prefetched hits, buffered publications; process-wide LRU | get/set, prefetch, flush, discard, evict | late batch publication, budget shared by threads, eviction by another thread | nothing buffered is published stale; totals are those of the entries |
| Dependency matching (`cache/dependency_matching.py`, `dependency_index.py`) | stored dependencies of cached results | record a query, invalidate for a changed row | lookup suffixes, negation, merged lookups, two index formats | no stale result survives a change |
| Upload transfer (`uploads/services.py`, `views.py`) | `UploadIntent` rows, staged objects | admit, claim transfer, stream, complete, reset, preflight, sweep | finite leases under slow handlers, retries, expiry races | accepted bytes stay; a running lease is exclusive; quotas; nothing leaks |
| Upload finalization (`uploads/finalization.py`, `adapters.py`, `s3.py`) | intents, file field of the model row, staged/final/replaced objects, cleanup leases | claim in the mutation, copy, complete, supersede, reject, clean up | no common transaction of database and store; crashes anywhere; lost answers; replaced files | a key stored in a row has bytes; every claim is decided; cleanup completes |
| Workflow events (`workflow/event_registry.py`, `tasks.py`, `models.py`) | outbox rows, delivery rows, claim tokens, Celery messages | publish, claim, route, attempt, finalize, retry, replay | lost and repeated tasks, expired claims, running time-outs | handlers do not overlap, completed work is not redone, every event is settled |
| Workflow engine (`workflow/backends/celery.py`, `tasks.py`) | execution rows | start, execute, resume, cancel | races on the correlation id, late outcomes | one live execution per correlation id; an outcome is final; a handler runs once |
| Search (`search/invalidation.py`, `reconciliation.py`, `async_tasks.py`, `indexer.py`) | `SearchIndexState` rows (mark, generation, claim), documents of an external index | mark, dispatch, acknowledge, claim, rebuild, clear | queued work overtaking later work, claims that expire | a clean pair is current; a mark is only cleared by work that saw it |
| Subscriptions, remote invalidation (`api/graphql_subscriptions.py`, `remote_invalidation*.py`, `notification_batching.py`) | channel groups, websocket sessions, event streams | subscribe, join, listen, dispatch, batch, stop, reconnect | changes while groups are joined one by one, cancelled tasks | a stream at rest has shown the last change; an ended one is in no group |
| Warm-up (`api/graphql_warmup*.py`) | recipes, their indexes, locks in the cache backend | register, warm, refresh, sweep | lock TTLs, index sets rewritten as a whole | nobody frees another's lock; recipes stay reachable |
| Chat (`chat/consumer.py`, `views.py`, `models.py`) | conversations, pending confirmations, time-out tasks | ask, confirm, time out, disconnect | answer against time-out, two connections, crash after a claim | a mutation runs once and only when confirmed; no conversation stays locked |
| Remote interface (`interface/requests.py`, `bucket/request_bucket.py`, `api/remote_api.py`) | fetched payloads, pages, idempotency keys | retry, paginate, compile lookups | a retry of what was done, pages that move | a change asked for once happens at most once; a fetched bucket is complete |
| ORM managers (`interface/capabilities/orm/*`, `as_of.py`, `manager/general_manager.py`) | rows, history tables, calculation run, historical context | create, update, delete, deactivate, read at a date | caller transactions, row locks, buffered dates | the newest record is the committed row; a settled date shows one state |
| GraphQL requests and lists (`api/graphql_view.py`, `mutation.py`, `graphql_mutations.py`, `graphql_resolvers.py`, `graphql_search.py`) | atomic blocks and date of a request | batch, field, refuse, complete | awaitables, nested blocks, two permission paths | what is reported is kept; a list shows what the checks allow |
| Classes and capabilities (`manager/meta.py`, `bootstrap.py`, `interface/capability_*`, `infrastructure/*`) | class attributes, registries of hooks and checks | define, validate, use, bind, start up | fast paths without the lock, re-entrancy, failing builds | nobody uses an unvalidated class; hooks run in order |
| Read-only sync (`interface/capabilities/read_only/management.py`) | declared rows in tables | synchronise at start-up | several starting processes | rows stay as declared |
| Buckets, groups, permissions, inputs, payloads, measurements (`bucket/*`, `manager/input.py`, `manager/group_manager.py`, `permission/*`, `measurement/*`) | lazy queries, memories of a run | derive, filter, slice, group, check, convert | answers from remembered snapshots; two evaluations of one rule; names that meet by suffix | an answer is the one the definition gives |

How they meet: a mutation of an ORM manager runs inside `data_change`, which raises the
cache barrier, sends the signals that search invalidation, subscriptions and the workflow
signal bridge listen to, and drops dependent cache entries before the row is committed; a
mutation with a file argument also claims an upload intent in the same transaction and
finalizes it on commit; an event handler usually starts a workflow execution under the
event's id; a calculation run buffers what the cache will publish. The full list of parts,
with what is left out and why, is `components` in `PROJECT.json`; the places where these
protocols can go wrong in a way a test would hardly reach are in `hazards`.

## 2. Modules

| Module | Models | Checked by | Proved in |
|---|---|---|---|
| `DependencyCache` | cached functions against data changes | `dep_cache_*` | `DependencyCacheProofs` |
| `UploadTransfer` | how an intent gets its bytes | `leases` | `UploadTransferProofs` |
| `UploadFinalization` | how the bytes get bound to a row | `upload_replace`, `upload_tidy`, `upload_stale_save` | `UploadFinalizationProofs` |
| `WorkflowDelivery` | outbox, claims, deliveries, replay | through `WorkflowSystem` | `WorkflowSystemProofs` |
| `WorkflowEngine` | executions | `workflow` | `WorkflowEngineProofs` |
| `WorkflowContract` | what callers rely on for a correlation id (abstract) | `KeepsContract` | `WorkflowEngineProofs`, `WorkflowSystemProofs` |
| `WorkflowSystem` | delivery and engine composed: handlers call `start()` | `workflow` | `WorkflowSystemProofs` |
| `SearchIndexing` | one manager/index pair, its mark and documents | `leases` | `SearchIndexingProofs` |
| `Chat` | one conversation, several clients | `services` | `SharedStateProofs` |
| `LiveUpdates` | event streams, groups, batches, remote clients | `services` | `ServiceProofs` |
| `RunContext` | memory of a run of a thread | `services` | `ServiceProofs` |
| `RunCacheBudget` | the memory budget of all runs | `values` | - |
| `DependencyMatching` | from a bucket's lookups to the invalidation of its results | `values` | - |
| `GraphQLWarmup` | recipes, indexes, locks, workers | `services` | `SharedStateProofs` |
| `ReadOnlySync` | starting processes and their declared rows | `services` | `SharedStateProofs` |
| `RemoteRequests` | attempts, idempotency, payloads, pages | `services` | `ServiceProofs` |
| `S3Adapters` | both S3 adapters, request by request | `services` | `SharedStateProofs` |
| `Capabilities`, `ManagerClasses` | handlers, hooks and checks; classes under threads | `services` | - |
| `OrmManagers` | a row, its history, managers, runs and dates | `services` | - |
| `GraphQLRequests` | a batch of operations in its atomic blocks | `services` | - |
| `DatabaseBuckets`, `CalculationBuckets`, `Groups` | lazy collections and their fast paths | `values` | - |
| `RequestPlans`, `ListQueries` | lookups compiled for a service; list fields of GraphQL | `values` | - |
| `Permissions`, `Measurements` | rules; units | `values` | - |
| `ManagerInputs`, `FieldPayloads` | construction; arguments of mutations | `values`, `values_periods`, `values_updates` | - |
| `MC*` | constants for TLC; `MCWorkflow`, `MCLeases`, `MCServices` and `MCValues` join instances | - | - |

Definitions keep the names of the functions they model where a function is one action;
where a function has several atomic steps, each step is an action named after what it does.
`map` in `PROJECT.json` gives for every definition the lines it stands for. Definitions
marked external stand for Celery, the cache backend, the database, S3, pint or project code,
modelled from how the code uses them. Mutated variants of an action (their comment begins
with "Mutant") show that a property notices the bug; no specification uses them.

### 2.1 The cache

*DependencyCache.* A step is one operation of the cache backend (`get`, `set`, `add`, `delete`)
or one database transaction. The acquisition of the index lock is merged with the first
operation it protects, its release with the last. A *row* is a unit of data a change can
touch; a cached value is the versions of the rows it was computed from; `Reads[k]` says which
rows the function behind key `k` reads. `Call`, `AcquireLease`, `WaitForHit`, `StartCompute`,
`ReadRow`, `UseNestedHit`, `ComputeReturns` are the wrapper of `cached` with its tracker;
`PublishCheck`, `PublishRecord`, `PublishStore`, `ReleaseCheck`, `ReleaseDelete` are
`publish_dependency_cache_entry` and the lease; `BeginGeneration` to `EndFlag` are `data_change`.
With `CallerOwnsTransaction` the atomic block is a savepoint and `OuterCommit` or `OuterRollback`
follows. `Crash`, `LockTimeout`, `LockExpires`, `LeaseExpires`, `Evict` are failures.

*RunContext* has one action per access of a run, with the flush at its end publishing in
batches; *RunCacheBudget* separates what a context does to its own dictionary from what the
budget does under its lock. *DependencyMatching* takes one manager with two columns, every
lookup the code distinguishes, and both index formats.

### 2.2 Uploads

A time stamp is abstracted to whether it has passed; a storage call and a database
transaction are steps of their own. `UploadTransfer` covers admission under four quotas, the
proxy endpoint, direct uploads and their preflight, and the expiry sweep.
`UploadFinalization` starts from UPLOADED: the mutation's preflight and commit
(`PrepareClaim`, `CommitClaim`), the finalizer (`BeginFinalization` ... `CompleteFinalization`,
`RecordFailure`), terminal cleanup (`ClaimTerminal`, `DeleteStage`, `DeleteFinal`,
`PlanOldCleanup` ... `MarkOldCleanup`, `FinishTidy`) and the ordinary updates of the row that run
beside them. Objects have an identity (`inode`), because the cleanup of a replaced file
compares it. `S3Adapters` refines the storage side: it begins with the choice of an adapter for
the storage's settings, and every adapter operation is a sequence of S3 requests, any of which may
be lost, or its answer. Objects are numbered in the order they are put; a bucket without versions
keeps one object per key, and a recorded version then only has the bytes to go by.

### 2.3 Workflows

`WorkflowDelivery` has one action per transaction of `DatabaseEventRegistry`. Tokens are
reused once nobody holds them, so that a finite set stands for fresh UUIDs.
`WorkflowEngine` splits `start()` into its read and its insert, because nothing in its
transaction keeps two callers apart but the partial unique constraint. `WorkflowSystem`
extends both: steps of one leave the other's variables alone, except the handler body, in
which the worker that is inside `_attempt_handler` calls `start()` with the event id as
correlation id. `WorkflowContract` is what a caller sees of one correlation id: absent, one
of the states of its execution, completed for good; `WorkflowEngine` and `WorkflowSystem`
implement it under the mapping `SlotOf`, which picks the execution the unique constraint
lets through.

### 2.4 Search, chat, streams

`SearchIndexing` follows a change from its commit through the on-commit handoff, a task or
inline work that reads the row and writes the document in two steps, the acknowledgement
of the mark by generation, and the reconciler's claim, rebuild and clearing. `Chat` has one job
per received event and one per time-out task of a durable confirmation row; a step ends
where the code awaits. `LiveUpdates` has the joining and leaving of groups one at a time,
because a task can be cancelled between any two. `GraphQLWarmup` reads and writes an index of
recipes in two steps under a lock that may expire. `ReadOnlySync` has a process per starter that
compares, reads a row, writes it and deactivates the rest, in one transaction per interface;
what it reads is the committed table overlaid with its own writes. `RemoteRequests` separates
sending a request from its answer, so that the answer may be lost and the call repeated.

### 2.5 The suites

`MCServices` and `MCValues` check components that share no state with each other, so a
behaviour is one of a single component, named by `part`:

* `MCServices` extends the components with a theorem that have no run of their own, so that what the run
  checks is the very property the theorems state (`Services.cfg` has their constants): `run`, `chat`,
  `live` (item and class stream of one operation), `warm`, `sync`, `remote` (two callers, two
  retry policies; a service that takes every lookup itself and knows no idempotency keys, or
  one that honours keys and pages) and `s3`. It instantiates those without: `wiring` and `circle`
  (capabilities without and with circular references), `classes`, `orm` and `soft` (deleting and
  deactivating interfaces; dates pass in the first, two authors write in the second) and
  `graphql`; and two second instances, `distant` (item stream and remote
  connection) and `chain` (one caller that chains two of three lookups, also where the service
  does not say how many rows match). `ManagersSound` joins what is instantiated.
* `MCValues` instantiates those that compute answers, and those that decide which answers are kept:
  `permissions`, `database`, `calculation`, `payload`, `measure`, `plans`, `inputs`, `lists`, `groups`;
  `budget` and `matching`, which `CachesSound` joins. Two of its parts are also run alone, against what
  the documentation says of them: `UpdatesSpec` is `payload`, and `PeriodsSpec` is `inputs` with one more
  declaration (`PeriodsDepend`), a period that depends on another input.

Two smaller modules join instances in the same way. `MCWorkflow` has the composed `system` and the
`engine` alone; the engine of the first runs synchronously inside the handlers, that of the second has
messages, and callers that cancel, resume and park. `MCLeases` has `transfer` (uploads) and `search`,
in both of which claims run out and a sweep tidies up. Variables of the part a behaviour is not of keep
their initial values, in which nothing is enabled for which fairness is assumed.

## 3. Runs

| Run | Instance | Shows |
|---|---|---|
| `dep_cache_safety` | 2 workers, 2 keys over 1 row, 3 changes, 1 crash, lock time-outs | a value whose computation started while no change was open is never stale; a visible value can be reached by invalidation, also after deaths half way; the barrier is up during changes and nothing is published then |
| `dep_cache_live` | 2 workers, 1 key, 2 changes inside a caller's transaction | compute leases are released by their owners, changes end and the barrier comes down |
| `upload_replace` | 2 uploads for one row, 2 workers, 1 fault, replaced files deleted | a key in a row has bytes; decided intents and owned leases are respected; a claimed upload is decided |
| `upload_tidy` | 2 clients, an update and a create, a concurrent whole-row save | one upload, one row; a completed cleanup left nothing; cleanups complete |
| `leases` | `transfer`: 2 requests on one intent, a direct upload competing for the quota, 1 death; `search`: 1 row, 2 changes, 2 sweeps, 1 fault | accepted bytes stay, quotas hold, a running transfer lease keeps others out, what expires is closed and swept; a clean pair is current, older work never clears a newer mark, every mark is worked off |
| `workflow` | delivery: 1 event, 2 registrations of which one applies, 2 workers, 2 executions, 1 replay, 1 fault, sync and async publishers; engine alone: 2 callers, 1 correlation id, 3 executions, three kinds of definition, unbounded loss and repetition of messages | handlers do not overlap, what is settled stays, processed events left an execution, every event is settled; one execution per correlation id, a handler runs once, outcomes are final, the contract is kept, executions end |
| `services` | the parts of `MCServices`, each with 2 actors and 1 fault where it has them (1.2 million states) | `RunSound`, `ChatSound`, `LiveSound`, `WarmSound`, `SyncedStaysDeclared`, `RequestsSound`, `S3Sound`: one per component with a proof; `ManagersSound` for the others: no step of another thread, and no step that fails, leaves a class, a history or a request half done |
| `values` | the parts of `MCValues`: enumerated declarations, rows and chains of 2 to 3 operations (1.2 million states) | `PermissionsSound`, `BucketsSound`, `DataSound`: answers are those the definitions give; `CachesSound`: the budget adds up and a cached result is current |

Four runs end in a counterexample, each a disagreement between the code and what the
repository says of it (quoted in `findings`):

| Run | What happens |
|---|---|
| `dep_cache_overlap` | A computation that starts after a change has raised the generation, reads before the change commits and publishes after it has ended passes every check: the end of a change does not raise the generation. The entry is stale until the next change of the row |
| `upload_stale_save` | An update of another field that read the row before an upload was committed saves the whole row afterwards and brings back the old key, whose object cleanup then deletes |
| `values_updates` | A generated update declares its arguments with the defaults of the model fields, so an update that leaves one out stores the default over what the row holds. `ArgumentsReachTheirFields`, which `values` checks, allows an update those defaults and asks nothing of them; of a create it requires them |
| `values_periods` | The normaliser of a monthly, quarterly or yearly input is called with the value and the dependency values by position, so with `depends_on` the first dependency is taken for the domain and every date raises. The property is the one `values` checks of declarations without such an input |

### Bounds and why they are enough

Two workers suffice for every pairwise race; the hazards listed are all between a pair
(publisher and mutator, finalizer and cleaner, stale owner and new owner). Two keys with one row
let one cached function use the other's entry while a change of their common row is under way; a
third change lets two changes overlap and one follow. A bound of one fault puts one crash, error,
loss or overrun at every point of every behaviour; recovery from it is what the code promises.
Two transfer attempts give a stale and a current owner. Three executions give a failed, a live
and a racing row under one key. Two changes of a searched row let the work of the first overtake
that of the second; two sweeps let one claim expire under its owner. In the suites the bounds
count the operations that can follow each other (`MaxCalls`, `MaxWrites`, `MaxLookups`,
`MaxChatMessages`, `MaxRows` and so on); an operation past the last read of a bucket or a run
changes nothing anyone looks at and is left out. `DepCacheSafety.cfg` uses symmetry of the two
workers (an invariant and an action property, no liveness). `CHECK_DEADLOCK FALSE` is set where a
run ends because its bounded work is done; the runs of the cache never stop and are
checked for deadlock. In `workflow` the handlers' executions are bounded by 2 and those of the engine
alone by 3.

### Fairness

* Cache: a worker that can take a step does (weak fairness). A worker that waits for the index lock
  gets it if it is free again and again (strong fairness): `acquire_lock_with_retry` sleeps with random
  jitter. TTLs pass. Nothing is assumed of the callers: nobody has to call or to change anything.
* Uploads: a running worker goes on, leases run out, and the cleanup command is scheduled. An intent
  that is eligible again and again is picked up (strong fairness), because a failed one is put behind
  the others by its `updated_at`. Requests end because bodies are finite.
* `leases` and `workflow` assume the fairness of both of their parts, each with the bounds of its own.
* Workflow: Celery beat drains, workers take tasks and end them, clocks advance. Deaths and losses
  are not fair and are bounded in `WorkflowSystem`.
* Search: callbacks, tasks and sweeps that began go on, the reconciler is scheduled and claims
  expire.
* The suites check safety only and state no fairness.

## 4. Proofs

Each theorem holds for every value of the constants that the named `ASSUME`s of its module
allow; TLC evaluates those assumptions in the runs. Every inductive invariant was checked by TLC
on a small instance before it was proved.

### DependencyCacheProofs

`TypeCorrect`, `BarrierCorrect`, `IndexCorrect`, `NoPublishCorrect`, and `QuietEntriesCorrect` under the
premise `Sound`, the setting the cache is designed for (ORM-backed manager, no caller
transaction; with one, a value computed between savepoint and commit is stale afterwards).

*Barrier*: `BarrierUpDuringChange` is not inductive, because a change that ends decides by the
counter whether to take the flag down; `BarrierInv` adds that whoever is inside a critical section
owns the lock, and that the counter is at least the number of open changes (this is where
cardinalities enter). *Index*: `IndexInv` adds what a publisher and an invalidation know while they
hold the lock. *Freshness*: a quiet computation whose snapshot equals the current generation has
seen current data only (`ComputationInv`); when a change is about to commit, no entry depends on its
row (`InvalidatedInv`), because the entries were deleted under the barrier and nothing could be
published since; uncommitted writes exist only inside `data_change` (`TransactionInv`).

### UploadTransferProofs

`TransfersSoundCorrect`, `QuotasRespectedCorrect`, `LeaseKeepsTransferCorrect`. The attempt number is the
fence: `AttemptInv` says that every number was given out once, `RowInv` what a state says about the
recorded key and the sweep, `StageInv` that no request can delete an accepted upload any more, and
`SweepInv` that what a sweep has passed holds only what a handler is about to delete. `QuotaInv` bounds
the number and the bytes of intents that are open and unexpired; an admission counts at least those.

### UploadFinalizationProofs

* `TypeCorrect`; `FinalizersKeepOrderCorrect`: a worker whose lease ran out neither reopens what is
  decided nor takes a lease from its owner; `SingleUseCorrect`: one upload, one row.
* `BindingSoundCorrect`: `~StaleSaves => (Spec => []BindingSound)`. Without updates that save a whole row
  read earlier, a stored key has its bytes; `upload_stale_save` shows that the premise is needed.
  `BoundInv` says that a stored key is of an upload being or been finalized and that a replaced key is
  never stored again, `StageInv` that a staged object stays until its intent is decided, `BytesInv` what a
  worker that has found the final object complete may rely on.
* `CleanupLeavesNothingCorrect`: `Spec /\ NoOverrun => []CleanupLeavesNothing`. `NoOverrun` excludes the step
  in which a lease passes under a worker that still works: a finalizer that has lost its lease may
  save the final object after the cleanup has looked for it. `TidyInv` says what each worker that
  holds its lease has established about its intent.

### WorkflowEngineProofs, WorkflowSystemProofs

* Engine: `EngineTypeCorrect`, `UniqueCorrelationCorrect`, `HandlerRunsOnceCorrect`, `TerminalFinalCorrect`.
  `EngineInv` joins types with `BegunInv` (a pending row's handler has not begun, no row's has begun
  twice) and `UniqueCorrelation`, which is inductive because no step but the insert moves a row into
  the states the constraint covers.
* Refinement: `KeepsContractCorrect`. Initial states map to the initial state, and every step of the
  engine to a step of `WorkflowContract` or a stutter; `SlotOf` picks "the" execution of a key with
  CHOOSE, and `UniqueCorrelation` is what makes the choice unique.
* Composition: `SystemImplementsEngine` (delivery uses the engine only as its specification allows)
  and `SystemKeepsContract`, which follows from it and the engine's refinement.
* Delivery: `DeliverySoundCorrect`, `ProcessedBackedCorrect`, `SettledStaysCorrect`. `RunInv`: unless a run
  outlived its time-out, the delivery row of a worker inside a handler is running and nobody else
  executes it. `LoopInv` and `DoneInv`: what a worker has noted about the registrations it passed is so,
  and a handler that returned left an execution. `AttemptsInv`: a row that may still be processed has
  attempts left.

### SearchIndexingProofs

`SearchTypeCorrect`, `MarksRespectedCorrect`, `SearchSoundCorrect`. The invariant `SearchInv` joins

* `MarksInv`: types, `Committed` (a callback belongs to a committed change), `Bounded` (no token is of a
  later generation than the pair's, no two sweeps share a claim), `Acks` (only the one change made
  since the pair was clean may be acknowledged) and `Reads` (a rebuild that may still clear the mark has
  read what is marked); this alone gives `MarksRespected`;
* `Chores` and `Past`: what callbacks and tasks in flight can be, and that what they or a rebuild read is
  the row as it is or as it was;
* `Fence`: a deletion the pair's generation lets through is of the last change of its row; without it an
  old deletion removes the document of a later change;
* `ClaimedFresh` and `ExactReads`: a claim taken while a mark may still be acknowledged is of that mark,
  and a rebuild that may still clear the pair read every row as it is, unless the mark of a change is
  on its way; without them a late rebuild writes an old document and clears the mark;
* `FineClean` and `FineAck`: a pair that is clean, about to be cleaned or about to be acknowledged has for
  each row a current document that nothing older will overwrite, or something that repairs it, or an
  excuse (lost or overtaken work).

### SharedStateProofs

*Chat*: `ChatSoundCorrect`: `~StableToolIds => (ChatSpec => []ChatSound)`. `ChatInvariant` ties the three places
where a question is remembered: the durable row (`RowsFine`: nothing has run for an open row, what ran
did so once and after a yes), the jobs of each client (`JobsFine`: a job that executes holds a row that
was confirmed and has not run) and the consumer's fields (`Waits`: who waits has a time-out task that
can end the wait), and says that two clients never hold the same row (`Apart`). The premise is that the
ids of tool calls are not used again: with the stable ids of some providers a late answer claims the
row of a newer question and executes the old mutation.

*Declared rows*: `SyncRowsStay`: `SyncSpec => []SyncedStaysDeclared`, for any processes, keys and
declarations, a key declared twice included, and any rows there before. That a process has just
finished is not enough: another one, which read older rows, may still write. `SyncInvariant` shows
that it only writes what is declared: the rows a process has gone through are as declared in what it
sees (`Passed`), the copy of a row it read is still the row, or others have since made the row what it
should be (`Copied`, which is why saving a whole stale row does no harm), after the last row all are so
(`Settled`) and a row that is not declared is inactive or about to be (`Swept`).

*Warm-up*: `WarmSoundCorrect`: `WarmSpec => []WarmSound`. `WarmInvariant` says that, with scripts in the cache,
whoever believes to own a lock does, until it expires; and, while nothing expires or fails, that a
worker between the read and the write of an index owns the index's lock, so that what it read is still
the index (`Undisturbed`), and that a recipe missing from an index has an update of that index among the
operations some worker still has to make (`Indexed`). The batches and sweeps a worker makes are
sequences sorted from finite sets; the assumption that keys are finitely many naturals is for them.

*S3*: `S3SoundCorrect`: `S3Spec => []S3Sound`, for any storage settings that `Configure` accepts. The core of
`S3Invariant` is `Named`: a recorded version names at most one object of its key, now and later, by its
number where the bucket has versions and by its bytes where anyone may replace the object. So what an
operation that deletes has recorded (`S3JobFine`) is still what the intent allows when its DELETE
arrives, whatever other workers did since it looked; and the final key, only ever written under
If-None-Match, has one object for good, which is what a consumed intent refers to (`IntentFine`). What was
removed stays accounted for (`RemovedFine`), because the record that allowed it is never withdrawn.

### ServiceProofs

*Runs*: `RunInvariantHolds` and `RunSoundCorrect`: `RunSpec => []RunSound`. A result carries the generation in
which it was begun. While that is still the generation and no change was open then, none has opened
since (`Steady`), so the result is the committed row's wherever it waits: in the call, in the buffer of
the run or in the backend (`Fresh`). Publishing relies on the backend's counter being zero only where no
change is open (`Counted`, with the finiteness of the threads), and a change that has invalidated the
entries finds none until it has committed. `Leased` and `Written` are the same for leases and for
snapshots against the run's own writes; that the mutating threads exclude each other is part of
`Written`, from the row lock of the database. No premise is needed: results begun during a change are
marked by `quiet` and nothing is claimed of them (`dep_cache_overlap`). The assumption is that the threads
are finitely many and that `Nobody` is none of them.

*Streams*: `LiveSoundCorrect`: `LiveSpec => []LiveSound`. The news a stream has not shown is always on its way, in
its channel, among the sends that are left, or in the open batch (`Informed`); a message only reaches it
while it is in all of its groups, which its own memory of the groups it joined describes exactly, even
where joining or leaving was interrupted (`Member`). The assumption is that the three kinds of stream
are different streams.

*Remote requests*: `RequestsSoundCorrect`: `ReqSpec => []RequestsSound`, for any callers, rows, lookups,
services and retry policies. `ReqInvariant` is about the key of a call: keys are numbered by the calls that
made them (`KeysGiven`), a key is one call's alone, and the service remembers it exactly when it acted on
the call (`CallFine`); so an attempt sent again finds its own answer. What may be repeated without a key
either changes nothing or deletes a row that never comes back, and a call that may not be repeated has
had no effect while it is still being tried. A fetched bucket holds only rows that matched; its count is right
where the service tells totals or does not page, and there a bucket with lookups of the client's own holds every
match, because a page that leaves matches out is refused there (`ItemsFinite`, `FetchedIsComplete`). The
assumption is that the rows are finitely many and that 0 is none of them.

### Only model-checked

* Liveness (`LeasesReleased`, `ChangesSettle`, `FinalizingDecided`, `CleanupCompletes`, `ExpiredIsTidied`,
  `EventsSettle`, `ExecutionsEnd`, `SearchSettles`): TLAPS supports neither fairness nor ENABLED.
* `PermissionsSound`, `BucketsSound`, `DataSound` of the values suite: their modules evaluate chains of
  operations of any length, fold over sequences made from sets, and compare with reference
  definitions that are recursive, which needs induction over data. (Where a proof only needs a least
  element of the naturals, as for the last of several rows of one key, it is made by hand.)
* `CachesSound` (the budget's totals are sums over dictionaries, the matching compares two index
  formats by folds) and `ManagersSound` (histories, capability graphs): induction over data as well, or
  their invariants have not been worked out for every instance. Two parts of the
  latter, second instances of LiveUpdates and RemoteRequests, are covered by the theorems about those modules.

## 5. Faithfulness

Left out of actions on purpose: logging, metrics, audit records, error texts, serialization, and
the validation of inputs that fails before any state changes. Transactions are atomic steps where
their statements do not meet another actor, and several steps where they do. Integers that only
grow (generations, attempts, ids) are naturals; a clock is what it tells (due, stale, expired).
Decimals are exact rationals, except for the digits a column keeps.

## 6. Known and not covered by a run

Behaviour met while modelling that no run asserts, by component.

*Dependency cache.* `end_dependency_data_change` may time out on the index lock; the counter then
stays up, and because neither the counter nor the flag has a TTL, publishing is off until the cache is
cleared (liveness is therefore checked without time-outs). A live holder overtaken by the TTL of the
index lock is not modelled, that of a lease is. `release_compute_lease` reads and deletes in two steps,
so a lease taken over in between is deleted; only duplicate computation follows. Inside a caller's
transaction the barrier comes down at the savepoint, before the commit. A manager without ORM
transaction changes its data before it invalidates.

*Run context.* A run keeps the compute lease of every buffered result until it ends, so two runs that
wait for each other's results do so until the wait times out. `_remove_run_value` may meet an eviction
and raise `KeyError`; a value too large for the budget is returned without evicting others
(docs/api/cache.md:524).

*Dependency matching.* Composite dependencies of the legacy index compare only what both know;
unsupported suffixes never match (docs/api/cache.md:283); merged lookups
(`bucket/database_bucket.py:1119`) keep the last value of a key.

*Uploads.* If the process fails after a replaced object was deleted and before that was recorded, every
retry fails on the missing object. The replaced file is deleted by the plan made in the mutation,
without reading rows again: two rows that share one stored key (copied by project code) are outside of
the model. The update that marks a transfer as uploaded may be committed and still be reported as
failed (`uploads/views.py:628`); the handler then deletes the staged bytes. An intent that expires while
a claiming mutation holds its row leaves the quota and enters it again once it is finalizing
(`uploads/services.py:1415`). S3: an ETag returns when the same bytes do, so on a bucket without
versions a precondition can pass for another object; a copy that runs after an abort leaves a final
object nobody recorded.

*Workflows.* The loser of an insert race queries again inside the atomic block its failed insert has
broken, so `start()` raises instead of returning the winner's execution. A delivery has no owner token:
the late failure of a superseded run marks the delivery failed while the run that took over still
works (`DeliverySound` and `ProcessedBacked` except such runs). A lost `execute_workflow_handler` message
leaves its execution pending, and `start()` keeps returning it. Two overlapping
`workflow_replay_dead_letters` commands can overwrite a processed row. Local engine: cancelling a
pending placeholder lets a second start replace its event; a handler that starts its own correlation id
waits for itself.

*Search.* Ties under a descending sort may differ between pages; `merge_permission_filters` overwrites a
user's filter of the same key; repeated `types` give double hits; an offset cursor skips when the index
changes; `total_is_exact` is false at the limit.

*Chat.* Stable tool-call ids, see 4. *Warm-up.* A re-warm is skipped while a stale warm-up holds the lock; a
failing due recipe at the limit blocks later ones; pruning races with registration. *Streams.* A change
between the first read and the joining of the groups is missed; a join cancelled in the middle leaves
the group it was joining; dependencies are fixed when a stream starts; nothing is repeated after a
reconnection.

*Remote interface.* A repeated DELETE reports not-found; the package's own remote API ignores idempotency
keys; an unpickled bucket that was not fetched is empty; local predicates read a payload by the
lookup's name; `supports_exclude` without `exclude_remote_name` sends an exclusion under the filter's
parameter; a later lookup of one key replaces the earlier; `count()` of a partial page is the
upstream's total.

*ORM managers.* Updates save all fields; updating a manager of an explicit date returns old values; a
manager object keeps values that were rolled back; a hard-deleted row can be constructed at a later
date; lists at a date beyond the buffer include deactivated rows; dates within the buffer mix values
and relations.

*GraphQL.* An undeclared awaitable (every `@graph_ql_mutation async def`) is closed unread; without
`ATOMIC_MUTATIONS` the sibling fields of a failed one stay committed; ordinary errors with a path do not
roll back other fields under it; under `ATOMIC_REQUESTS` an error rolls back the batch while other fields
are reported successful; a custom mutation that fails after its manager call keeps its write; argument
managers are built before the permission check; two `none` relation filters become one exclude; an
exclude with two keys means both in databases and either in calculations; a foreign key named "..._id"
cannot be written by id; an explicit null for a list relation is ignored.

*Inputs, groups, buckets.* `x` and `x_id` both given: `x_id` wins; `bool("false")` casts to True; equality
ignores class and date. A grouped page past the end raises where
an ungrouped one is empty; grouped Decimals combine to None (`manager/group_manager.py:280`;
docs/api/core.md:301). A slice of a calculation bucket shares the projection columns of the whole
(`bucket/calculation_bucket.py:743`; docs/api/core.md:557); filtering it starts from all rows; `|` merges
common constraints. Snapshots named by `id(self)` can meet a reused address (`bucket/base_bucket.py:331`).

*Permissions, sync, classes, measurements.* Rows without a basis use default rules only in the instance
check; a page without size is cut at 10 while the total says one page. Losing an insert race fails a
read-only sync; rolling deployments mix declarations. `register_system_checks` runs before
`_autoload_app_managers_modules` in `ready()` (docs/api/core.md:124); concrete ORM interfaces share one
hook identity; the startup loop iterates a list a schema's use removes from. `EUR.to(...)` with a rate
multiplies and relabels for any unit; `to()` the same unit ignores the rate; money times a percentage is
not "currency".

## 7. Plan

Done: every protocol of the inventory is modelled and checked, and the safety properties of the cache,
runs, uploads with their S3 adapters, workflows, search, chat, streams, warm-up, read-only
synchronisation and remote requests are proved, with the engine's refinement of its contract.

Open:

1. An abstract cache (an entry is absent or current) that `DependencyCache` implements in the `Sound`
   setting for quiet entries.
2. `OrmManagers` and `ManagerClasses`, whose invariants are about one row and one lock and need no
   induction; `RunCacheBudget`, whose totals do.

Not planned: generation of the GraphQL schema, tokens, form posts, providers of language models, search
clients, factories and seeding, which are sequential or pure input and output.
