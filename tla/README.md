# Verification of ReplayDB

ReplayDB is a NestJS service that stores events per aggregate in PostgreSQL and
reconstructs the state of an aggregate, now or as of an earlier event, by
folding its events through rules the client registered. This directory holds
TLA+ models of its core, the TLC configurations that check them on small
instances, and TLAPS proofs of what matters most.

File paths below are relative to the repository's `src/` directory, as in
`events/events.service.ts`, unless they name a test (`test/...`) or the
repository's own `README.md`.

1. [The system's parts](#the-systems-parts)
2. [The modules](#the-modules)
3. [The runs](#the-runs)
4. [Where the documentation and the code differ](#where-the-documentation-and-the-code-differ)
5. [Fairness](#fairness)
6. [Proofs](#proofs)
7. [What is not modelled](#what-is-not-modelled)
8. [Plan](#plan)

To run: `tlc -config <cfg> <module>` for a configuration of the table in
section 3, `tlapm <module>.tla` for each of the `...Proofs` modules.

## The system's parts

| Part | State it keeps | Operations | What makes it correct |
|---|---|---|---|
| Event append (`events/`) | tables `aggregates`, `events` | `POST /events`: insert the aggregate if it is new, lock its row, take the next sequence number, insert the event, all in one transaction; then delete the latest cache entries and perhaps enqueue a snapshot job | sequence numbers 1..n without holes or duplicates per aggregate; one event per acknowledged append; no aggregate without events |
| State reconstruction (`aggregates/`) | nothing of its own | `getState`, latest or as of a sequence number: state cache, snapshot lookup cache, nearest snapshot, events after it, rules, fold, fill the cache | each event folded in exactly once, up to the point asked for; what an answer may miss; whose rules folded it, and who is told |
| Redis cache (`cache/`) | entries per aggregate and point, TTL 300 s | `get`, `set`, `del`, all fail-open | staleness ends |
| Snapshots (`snapshots/`) | table `snapshots`; queue `snapshot-creation` | `shouldSnapshot` (20 events since the last snapshot), `createSnapshot`, the worker | a snapshot is what a fold would have given |
| Reducer rules (`event-reducers/`) | table `event_reducers` | upsert, list | the fold of the rules composes: state + later events = full fold |
| Replay jobs (`replay-jobs/`) | table `replay_jobs`; queue `replay-jobs` | create, find, the worker: snapshot every aggregate of the scope | a job's row tells what happened to it |
| Tenancy (`organization/`, `projects/`, `api-keys/`, `common/auth/`) | tables `organizations`, `projects`, `api_keys` | create, read, issue a key, verify a key | a tenant is created whole or not at all; tenants stay apart |
| Request pipeline (`observability/metrics/http-metrics.interceptor.ts`, `common/filters/`) | the status of each response; counters | guards, interceptor, validation pipe, exception filter | an answer tells what was done; each request let in is counted once |
| Queue metrics (`observability/metrics/queue-metrics.service.ts`) | gauge `queue_depth`, an interval | polling the two queues | gauges do not understate a queue, and follow it |
| Health (`modules/health/`) | nothing of its own | `GET /health/ready` asks database and Redis | a server that has let go of Redis is not ready |
| Start and stop (`main.ts`, `observability/tracing/`) | process state | three listeners per signal | the process ends only when asked; what `app.close` waits for is finished |

### How the parts interact

- **Requests.** Every route of a project passes `ApiKeyGuard` (a query) and
  `ProjectAccessGuard` (no await) before its handler. Several requests are
  served at once by one event loop, and several server processes share the
  database and Redis; every `await` is a point where anything else may happen.
- **Append → cache, snapshots.** After its transaction has committed, `append`
  deletes the two `latest` entries, reads the latest snapshot, counts the events
  after it, and adds a job to `snapshot-creation`. Each of these is a separate
  await without a transaction, and a failure of any is logged and swallowed.
- **getState → cache, snapshots, events, rules.** Up to six awaited reads and
  two writes, each seeing a different instant.
- **Snapshot worker, replay worker → createSnapshot → getState.** Snapshots are
  made *from the answers of* `getState`, thus also from cached ones, so an error
  in a cached state would become permanent. Inserting a snapshot deletes the
  same two `latest` entries.
- **Replay jobs.** `create` inserts a row, then adds a job under the row's id;
  the worker writes its progress to the row. BullMQ runs a job again when its
  worker stops renewing the lock.
- **Metrics.** The interceptor sits between the guards and the handler of every
  request; the polls ask the same queues the appends and jobs use.
- **Stopping.** One signal starts the tracer's handler, Nest's and `main`'s. The
  last two run the same hooks side by side: the Redis client of the cache quits
  first, while requests are still accepted; then the HTTP server, then queues
  and workers close.
- **Rules.** An upsert touches `event_reducers` only. Cached states and
  snapshots made before it stay.

### What is hard about each part

| Part | Hard behaviours |
|---|---|
| Event append | first appends of one aggregate racing for its row; the number read in one statement and used in the next; rollbacks that set others free; a COMMIT whose answer is lost |
| State access across projects | an entry whose key names no project, read before the row's project is looked at, while workers, failures and expiry change what is there |
| State reconstruction, cache, snapshots | fills that were read before an invalidation and land after it; a snapshot lookup cached past newer snapshots; duplicate and out-of-order snapshots by two workers; deletions that fail silently; a crash between commit and deletion; bounds that are off by one |
| Reducer rules | operations in any order on one field, each meeting the others' kind of value; partial updates of a rule; resuming from a snapshot |
| Replay jobs | two writers (row and queue) with no transaction; failures before, inside and after the loop; a job run twice, one after the other or at once; lost answers to updates |
| Tenancy | inserts that must run on the transaction's client; a raw key that exists only in one answer; keys that end while a request is under way |
| Request pipeline | who sees a status code first; a COMMIT whose answer is lost |
| Queue metrics | polls that overlap; two counts that are not one snapshot; a rejection nobody awaits |
| Start and stop | three handlers per signal of which two close the same things; work that hangs; requests served after Redis was let go |

The full list, each at its line and with the properties that would catch it, is
under `hazards` in `PROJECT.json`.

## The modules

| Module | Models |
|---|---|
| `AppendOnlyLog` | abstract: what the event store promises its clients |
| `EventStore` | the append transaction, statement by statement; refines `AppendOnlyLog` |
| `StateReconstruction` | `getState`, both cache layers, `createSnapshot`, both of its workers, and `append` after its commit |
| `StateAccess` | `getState` called for several projects: whose rules fold what it answers, caches and leaves to snapshots, and whom it tells |
| `ReduceEvents` | the fold over JSON values and the upsert of rules |
| `ReplayJobs` | a replay job from request to result, with BullMQ's redelivery |
| `Tenancy` | organizations, projects, API keys and the guards |
| `HttpApi` | `Tenancy` with the status of each answer and the request counters |
| `QueueMetrics` | the polls of the queues' depths |
| `Server` | `QueueMetrics` in a process that answers readiness probes and is asked to stop |
| `MC...` | each of the above on a small instance |
| `EventStoreProofs`, `StateReconstructionProofs`, `StateAccessProofs`, `ReduceEventsProofs`, `ReplayJobsProofs`, `TenancyProofs`, `HttpApiProofs`, `ServerProofs` | the theorems |

`EventStore` is where the transaction of an append is opened up; its result,
gapless numbers that commit one at a time, is what `StateReconstruction` builds
on: there an append commits in the single step `CommitAppend`, and the events of
the aggregate are 1..`nEvents`. Likewise `StateReconstruction` treats the fold as
the sequence of pairs *(event number, version of the rules it was folded with)*,
which loses nothing a fold could depend on, while `ReduceEvents` says what a fold
computes; and `ReplayJobs` treats `createSnapshot` as one step with its possible
outcomes, while `StateReconstruction` opens it up. `StateReconstruction` follows one
project at its own aggregate, `StateAccess` several at each other's: it forgets which
events a state holds and keeps by whose rules it was folded.

### EventStore

`events/events.service.ts` (`append`), `events/events.repository.ts`, on
PostgreSQL under READ COMMITTED: a statement sees what was committed before it
started and what its own transaction wrote.

| Variable | Code |
|---|---|
| `aggregates`, `events` | the committed rows of the two tables |
| `rowOwner` | an uncommitted row of `aggregates`, on which an insert of the same key waits |
| `lock` | the row lock of `SELECT ... FOR UPDATE` |
| `seqNo` | the local `sequenceNumber` of `append` |
| `pc`, `key` | the statement a request runs next; what it appends to |

`InsertAggregate` is `INSERT ... ON CONFLICT DO NOTHING`; `SelectForUpdate`,
`NextSequenceNumber`, `CreateEvent` and `Commit` are the statements that follow.
A missing row, or a violation of the unique index, leads to `"raised"`, from
which only `Rollback` leads on: the states are in the model, that they are
unreachable is a property. `CommitUnacknowledged` is a commit whose answer is
lost; `Rollback` stands for an exception, Prisma's transaction timeout, a lost
connection or a crash, at any statement.

`AppendOnlyLog` has one log per key and, per request, a status and the position
answered. The refinement maps the log of a key to the requests of its committed
events in the order of their numbers (`StoredRequests`), so the abstract
`Accept` ("one append, at the end, answered with its position") can only be
implemented by a commit that takes the number right after the last.

### StateReconstruction

`aggregates/aggregates.service.ts`, `aggregates/aggregates.repository.ts`,
`snapshots/*.ts`, `cache/redis-cache.service.ts`, and `events/events.service.ts`
after the transaction; one aggregate, any number of readers, snapshot workers,
replay workers and appenders.

| Variable | Code |
|---|---|
| `nEvents`, `rules`, `snapshots` | table `events` of the aggregate, the version of its rules, table `snapshots` |
| `stateCache`, `lookupCache` | `aggregate-state:<id>:<point>`, `snapshot-lookup:<id>:<point>` |
| `queued` | waiting jobs of `snapshot-creation` |
| `pc`, `call` | the call a process is about to make; the locals of `getState` and `createSnapshot` |
| `own`, `since` | the locals of `append`: its event, and the number of the snapshot it found |
| `call[p].committed`, `call[p].invalidated`, `call[p].hit`, `invalidated` | history, for the properties |

There is one action per await: `ReadStateCache` (part of the action that begins
a call), `ReadLookupCache`, `FindSnapshot`, `FillLookupCache`, `ReadEvents`,
`ReadRules` (with the fold, which has no await), `FillStateCache`; then
`CheckLatest`, `CreateRow`, `InvalidateLookup` for `createSnapshot`; and
`CommitAppend`, `InvalidateLatest`, `FindLatest`, `CountEventsSince`, `Enqueue`
for `append`. A Redis failure is a choice inside the action (the cache is
fail-open), a failing query is `GetterFails` or `AppenderFails`, `Crash` loses
everything a process was doing and gives its snapshot jobs back to the queue.
Entries expire at any time (`ExpireState`, `ExpireLookup`); TTLs are not counted.

### StateAccess

`aggregates/aggregates.service.ts` once more, at another level of detail: here
several projects call it, and what a state holds is only by whose rules it was
folded. The keys of both cache layers name the aggregate and the point, and not
the project (`cache/cache-keys.ts`); one point stands for each.

| Variable | Code |
|---|---|
| `owner` | `project_id` of the aggregate's row, if there is one |
| `snapshots` | the states in table `snapshots` |
| `entry` | the entries of Redis, under `StateKey` and `LookupKey` |
| `call` | the calls of `getState` under way, by requests and by `createSnapshot` (`job`), and what each has so far |
| `answer` | what the last request of each place was told, of which aggregate, and for which project it asked |

`Hit` comes first, as in the code; only after a `Miss` is the row looked for under
the call's project (`Find`, `Refuse`). `Miss` may also be a failure of Redis.
Then come the lookup (`LookupHit`, `LookupMiss`, `NoSnapshot`) and the fold by the
rules of the call's project (`Fold`). A job goes on to `Snapshot`. That the project
of the path is the key's own is the guards' work, in `Tenancy`; that a job is for
an aggregate of its own project is how both workers make their calls.

### ReduceEvents

`aggregates/reduce-events.ts`, `event-reducers/*.ts`. A JSON value is a scalar,
an object or a list; state and payloads are objects. `Upsert` covers the
dto's validation (merge and append require a field) and what Prisma does with an
omitted `field` (it leaves the column alone, so a rule that turns from append into
set keeps its old field) and with a `null`, which `@ValidateIf` lets pass for set
(it is written). `AppendEvent` adds an event. The fold is a function, not
an action; the properties compare it with `Reference`, which computes each field
from the events that wrote it last, without folding.

### ReplayJobs

`replay-jobs/*.ts` and BullMQ as the code configures it: one attempt, and
`maxStalledCount` 1, the default.

| Variable | Code |
|---|---|
| `rows` | table `replay_jobs`: status, scope, result, whether `error` is set |
| `creating` | calls of `create` between the insert and `queue.add` |
| `queue`, `lock`, `stalled` | BullMQ's state of each job in Redis |
| `pc`, `run` | the call each worker slot is about to make, the locals of `process` |
| `written`, `existing`, `troubled` | history: snapshots really written, aggregates that existed at creation, jobs with a failed query or `queue.add` |

`Update` is an update of the row that succeeds, fails, or takes effect with its
answer lost; `MarkRunning` stands outside the `try`, `MarkFailed` inside the
`catch`, as in the code. `Crash` kills a slot. `RecoverDead` is BullMQ's stalled
check finding a dead slot's job; `RecoverBlocked` finds the job of a slot whose
event loop is blocked and which then goes on running beside the second.

### Tenancy

`organization/`, `projects/`, `api-keys/`, `common/auth/`: the five routes of these
directories, with and without a first project for the first (`POST /organizations`,
`POST /organizations/:orgId/projects`, `POST /projects/:id/api-keys`,
`GET /organizations/:id`, `GET /projects/:id`). Requests arrive with a key some client
holds, or none, and a path that names any row;
`Verify` is `ApiKeyGuard` with the access guard behind it, if the route has one:
`GET /organizations/:id` has none and compares the ids in its handler
(`ReadOrganization`, `RefuseRead`). The other routes below `/projects/:id` have the
same guards; their handlers are in the modules of their components, and what they
do with a second id in the path is theirs to check (`StateAccess`). The inserts of a transaction stay in
`pending` until `Commit`. A raw key reaches a client by `Reply` alone; `Fail`
rolls back or loses the answer; `EndKey` is an expiry or a revocation. Row ids
are the ids of the requests that insert them.

### HttpApi

`observability/metrics/http-metrics.interceptor.ts`,
`common/filters/all-exceptions.filter.ts`, `main.ts:19-27`, around the requests of
`Tenancy`: each action is an action of `Tenancy` with its effect on the response.

| Variable | Code |
|---|---|
| `statusCode` | `response.statusCode`: 200 from Express, the route's success status once the guards have passed, an error's status by the filter |
| `answer` | the status the client gets, if it gets any |
| `counted` | the `status_code` labels recorded for a request |

`Tenancy`'s `Fail` becomes three things here: `RejectBody` (the validation pipe,
before the handler begins), `QueryThrows` (500; at `"reply"` this is a COMMIT that took effect and
whose answer was lost) and `Drop` (connection or process gone).

### QueueMetrics and Server

`observability/metrics/queue-metrics.service.ts`; `main.ts:29-35`,
`observability/tracing/tracing.ts:35-39`, the `onModuleDestroy` hooks of
`prisma/`, `cache/` and the metrics, and `modules/health/health.service.ts`.

| Variable | Code |
|---|---|
| `job` | what Redis has of each job (external) |
| `gauge`, `interval` | `queueDepth`, `intervalHandle` |
| `polls` | per queue, the calls of `recordQueueDepth` under way: the first answer, and as a history the jobs that stayed in the queue |
| `process`, `asked` | up, or which handler ended it; whether the signal has come |
| `closer` | how far Nest's handler and `main`'s `app.close()` are |
| `probe` | the two checks of a readiness probe and its answer; as a history, whether it began after the Redis client had quit |
| `mishaps` | a bound on failing calls and stalled jobs |

The two calls of a poll are in one order, and the calls of all polls of a queue
go through one connection that keeps their order. So a slow poll cannot
overwrite what a later one recorded, although the interval does not wait; this
is in the model by `polls` being a sequence. What may happen is that a job is
counted in both states.

`Signal` starts all three listeners. Each `closer` runs the destroy hooks, closes
the HTTP server to new requests, waits for those under way, and waits for the
jobs under way while the worker takes no more. The first to reach the Redis
client makes it quit; the second may be refused, which ends the process with an
error (`DestroyHookFails`). The order among the hooks of one closer is not told
apart. `TracerExits` may come at any time after the signal.

## The runs

| Run | Configuration | Distinct states | Checks |
|---|---|---|---|
| `append` | `MCEventStore_append.cfg` | 7 500 | `TypeOK`, `Gapless`, `NeverRaises`, `AggregateHasEvents`, `ImplementsLog`, `EveryAppendEnds` |
| `reads` | `MCStateReconstruction_reads.cfg` | 677 000 | `TypeOK`, `FoldsEachEventOnce`, `NeverBeyondPoint`, `MissCoversCommitted`, `CacheConverges`, `CrossingNoticed` |
| `workers` | `MCStateReconstruction_workers.cfg` | 632 000 | `FoldsEachEventOnce`, `MissCoversCommitted`, `CacheConverges` under all failures |
| `projects` | `MCStateAccess_projects.cfg` | 136 000 | `TypeOK`, `FoldedByOwnRules`, `CachedStateEnds` |
| `fold` | `MCReduceEvents_fold.cfg` | 164 000 | `TypeOK`, `FoldsToReference`, `NoRuleIsSilent` |
| `replay` | `MCReplayJobs_replay.cfg` | 855 000 | `TypeOK`, `QueueAgrees`, `ResultTruthful`, `EndIsFinal`, `PendingCompletes` |
| `tenants` | `MCHttpApi_tenants.cfg` | 167 000 | `TypeOK`, `ApiTypeOK`, `WholeTenants`, `KeysStayInTenant`, `AnswerTellsEffect`, `LetInCountedOnce`, `LockedOutForGood` |
| `server` | `MCServer_server.cfg` | 730 000 | `TypeOK`, `ServerTypeOK`, `ExitsOnlyWhenAsked`, `MainExitsDrained`, `NotReadyAfterQuit`, `DepthNotUnderstated`, `GaugesConverge` |
| `stale_read` | `MCStateReconstruction_stale.cfg` | violation | `NoStaleRead` |
| `snapshot_rules` | `MCStateReconstruction_transparent.cfg` | violation | `SnapshotTransparent` |
| `replay_unrecorded` | `MCReplayJobs_unrecorded.cfg` | violation | `FailureIsRecorded` |
| `foreign` | `MCStateAccess_foreign.cfg` | violation | `StatesStayInProject` |

### What they show, and why the bounds suffice

- **append.** Three appends, two aggregates. Three is the smallest number at
  which one transaction holds the row, a second waits for it and a third arrives
  in between, or a rollback sets two waiters free; two keys let work on another
  aggregate interleave. Gaplessness, the absence of exceptions and the
  refinement are also proved for any number of both.
- **reads.** One reader alternating between the latest state and point 2, the
  snapshot worker and three appends. With a threshold of 2 in place of 20 the
  three events cross it, so there is a snapshot before the last event, a point
  before, at and after it, and a point that does not exist yet. One change of the
  rules. Nothing fails here, so `CrossingNoticed` is at work: an append whose query
  for the latest snapshot and whose count are separated by a new snapshot.
- **workers.** The two workers over the same aggregate with failing Redis,
  failing queries and crashes at every step, threshold 1, two events: every
  append enqueues a job, and two snapshots can be created in either order. The
  bounds are smaller since the failures multiply the states; the invariants are
  proved without them. `CacheConverges` needs no more than two events: a fill can
  be behind by one or two, and each entry is on its own once appends have stopped.
- **projects.** Two projects, two aggregates, two calls at a time of any kind, every
  failure of Redis and of a query. Two projects are what a foreign call needs; two
  calls let it stand between any two steps of the owner's call or of a worker; a
  second aggregate may be of either project. A state is a set of projects, so the
  run goes over every way a state could travel from call to entry, snapshot,
  lookup and back, and `FoldedByOwnRules` is also proved for any numbers.
  `foreign` needs one aggregate.
- **fold.** Three event types, so one field can be set, merged into and appended
  to; two field names; payloads holding a scalar, a list and an object under the
  field and a key besides; three events, so each operation meets the result of
  two others. Rules vary over everything upserts can reach, histories over all
  sequences up to three, resumption over every prefix. The theorems have no bounds.
- **replay.** One job, two slots, two aggregates of two types, every failure: of
  any query, with or without effect, of `queue.add`, of `createSnapshot`, and up to
  two crashes or stalls, one more than BullMQ forgives, so that being forgiven and
  being given up both happen. `EndIsFinal` and `QueueAgrees` are false once a job
  is run twice (a blocked slot may mark a job failed after another completed it),
  and speak of the behaviours in which slots have kept their locks so far. Jobs
  share nothing but the slots, so one job is run again rather than two at once.
- **tenants.** Three requests suffice for a tenant, a second tenant and a request
  across them, or for bootstrap, a second key and its use. `KeysStayInTenant` is
  about chains: a key made with a key opens that one's organization exactly,
  whatever was rolled back or ended in between. A request that was verified and whose
  key ends then may still mint a key; `LockedOutForGood` counts it as a way in
  until it is through. (`EndedHasNoEffect`, a theorem that no run repeats, speaks of
  keys that ended before the request arrived, and not of that window.) Requests are
  symmetric. The guards' and transactions' properties do not depend on the
  response; `AnswerTellsEffect` and `LetInCountedOnce` relate the two.
- **server.** One queue with two jobs, two polls that overlap, one call that fails
  or one job that stalls, one probe at a time and both closers. The two queues of
  the code are polled independently, so one stands for each; two jobs are the
  smallest number at which one is counted twice while another ends. The probe is
  also the request that hangs.

Deadlock checking is off where requests and jobs are used up or the process ends
(`tenants`, `replay`, `replay_unrecorded`, `server`); elsewhere it is on. `EventStore` has an explicit `Terminating` step.

Symmetry is used for the event types of `fold` and the requests of `tenants`, in
configurations that check no liveness.

## Where the documentation and the code differ

Four runs check a sentence of the documentation against the code and find a
counterexample.

1. **A stale read after an invalidation** (`stale_read`). `events/README.md:10`:
   the latest entries are deleted after the commit "so no subsequent read can
   return stale state". A `getState` that read the events before the commit can
   write its answer after the deletion
   (`aggregates/aggregates.service.ts:111`), and later reads are answered with it
   until the TTL ends. `CacheConverges` is what remains true.
2. **Snapshots keep the rules they were made with** (`snapshot_rules`).
   `snapshots/README.md:3`: "deleting every snapshot changes nothing about
   correctness, only speed". After an upsert of a rule, a read continues from a
   snapshot folded under the old rule; without the snapshot everything would be
   folded under the new one.
3. **A failure the row does not show** (`replay_unrecorded`).
   `replay-jobs/README.md:12`: a job is marked "`failed` if something outside the
   per-aggregate loop throws". `markRunning` is called before the `try`
   (`replay-jobs/replay-job.processor.ts:32`): when it throws, BullMQ fails the
   job, and the row says `pending` for ever. The same happens when `markFailed`
   itself throws.
4. **A cached state knows no project** (`foreign`). The repository's
   `README.md:169`: "keys are project-scoped and cannot read or write across
   project boundaries (enforced at both the guard and database level)". `getState`
   asks the state cache first (`aggregates/aggregates.service.ts:43-48`), under a
   key made of the aggregate's id, and looks at the aggregate's project after that
   (line 50). While an entry is there, a request of another project that names the
   id in its path is answered with it; without one it gets 404. What remains true
   is that such requests never change what the owner is told (`FoldedByOwnRules`)
   and that the entry ends with its time to live (`CachedStateEnds`).

Further observations from modelling, which no run checks:

- A point in time that lies in the future is answered, with the events there are,
  and the answer is cached under that point, which no append deletes: asked again
  once the event exists, the query is answered without it until the TTL ends.
  `cache/README.md:20` ("an asOfSequence=15 query gives the same answer today and
  forever") takes for granted that event 15 exists.
- The interceptor's `tap` reads `response.statusCode` while an exception is on its
  way to the filter that will set it
  (`observability/metrics/http-metrics.interceptor.ts:54`), so a rejected body or a
  failed query is counted under the route's 200 or 201, and a request a guard
  refused not at all, where `metrics.providers.ts:13` has "Total number of HTTP
  requests handled, labeled by method/route/status code". `LetInCountedOnce` is
  what remains true.
- `createSnapshot` takes the current state from the cache, so the job an append
  enqueued may snapshot a state before that append, or find nothing new and end
  with `null`; nothing tries again until the next append counts the events.
- A row of `replay_jobs` whose `queue.add` failed stays `pending`; nothing looks
  for such rows.
- When the answer to `markCompleted` is lost, the `catch` turns the completed row
  into a failed one that has both a result and an error. The result it keeps is
  true (`ResultTruthful` covers it).
- When the answer to a bootstrap is lost, the organization and project exist with
  a key nobody holds, and no route leads back in (`LockedOutForGood`).
  `organization/README.md:11` and `projects/README.md:11` want "at least one
  usable key"; the rows are all there (`WholeTenants`), whether such a key is
  usable is a matter of reading. An organization created without a first project
  has no way in either.
- A client that is answered 500 knows nothing: a COMMIT may have taken effect
  although its answer was lost. 4xx and 2xx can be trusted (`AnswerTellsEffect`).
- `src/README.md` speaks of a graceful shutdown. The tracer's handler exits as
  soon as its spans are flushed, whatever `app.close()` is waiting for; it is also
  what makes the process stop when a request or job hangs.
- While the server closes, its Redis client has quit before the last requests are
  served: the cache deletions of appends under way are lost, which the fail-open
  cache turns into entries that stay until their TTL (`CacheConverges`).
- `test/README.md:28` reports that `app.close()` in the end-to-end tests does not
  always close the workers' connections, and lays it to the tests, which start many
  applications in one process. `MainExitsDrained` takes BullMQ's `Worker.close` at
  its word: it waits for the jobs under way.
- The 404 of the two `findOne` handlers cannot come up: what the guards let in names
  a row that was there, and nothing deletes rows.
- A replay job with an empty `aggregateType` is a job for the whole project.

## Fairness

Weak fairness only, and only where something in the system is bound to go on:

- `EventStore`: PostgreSQL executes each statement that is not waiting for a
  lock. A waiting statement is a disabled action, so that waiters are served
  follows from the release of locks and is not assumed.
- `StateReconstruction`: queries and Redis calls under way are answered (possibly
  with a failure), a free snapshot worker takes a waiting job, entries expire.
  Entries have a TTL of 300 s, so expiry is certain; in the model an entry that
  is rewritten may expire early, which only adds behaviours.
- `StateAccess`: entries expire, for the same reason. Nothing is assumed of calls.
- `ReplayJobs`: live event loops run, BullMQ hands out waiting jobs, its stalled
  check runs (every 30 s).
- `Server`: the interval fires while it is armed, and Redis answers the oldest call.
  Nothing is assumed of requests and jobs, which may hang, nor of the closers and
  the tracer.

Nothing is assumed of callers, who need never ask or append, nor of failures.
`Tenancy`, `HttpApi` and `ReduceEvents` state no liveness.

## Proofs

Every safety invariant and action property that a passing run checks is also a
theorem, and so is the refinement of the abstract log: they hold for all values of
the constants that satisfy the modules' assumptions, which TLC evaluates on each
run.

| Assumption | Says |
|---|---|
| `EventStore!NoneAssumption` | None is not a request |
| `StateReconstruction!ConstantsAssumption` | the sets of processes are disjoint, the marker values are no points or entries, the bounds are natural numbers, the threshold is positive, the snapshot workers are finitely many so that a crash can count their jobs |
| `StateAccess!ConstantsAssumption` | None is not a project |
| `ReduceEvents!ConstantsAssumption` | the markers for no field, an omitted field and no rule are none, the bound is a natural number, payloads' keys are among the field names |
| `ReduceEvents!PayloadAssumption` | the items of a list in a payload are a sequence, as JSON has it |
| `ReplayJobs!ConstantsAssumption`, `ResultAssumption` | aggregates are finitely many and have a type, the marker values are no types, slots or results, the bounds are natural numbers |
| `Tenancy!ConstantsAssumption`, `HttpApi!StatusAssumption` | None is no request, and no status |
| `QueueMetrics!QueueMetricsAssumption` | jobs are finitely many and have a queue, None is no count, the bounds are natural numbers and allow a poll |

Each proof is of an inductive invariant `IInv`, since hardly any property is
inductive by itself. TLC has checked each `IInv` on the instances of the runs.

### EventStoreProofs

| Theorem | States |
|---|---|
| `TypeCorrect` | `[]TypeOK` |
| `SequenceNumbersGapless` | `[]Gapless` |
| `AppendsNeverRaise` | `[]NeverRaises` |
| `AggregatesHaveEvents` | `[]AggregateHasEvents` |
| `StoreImplementsLog` | `Spec => ImplementsLog` |

None of the properties is inductive. `IInv` adds three facts:

- `LockDiscipline`: the row lock of a key is held by exactly the transaction
  between its SELECT and its end. So at most one transaction per key is there.
- `RowDiscipline`: a transaction past its INSERT sees the row, committed or its
  own, because the INSERT waits for an uncommitted row. This excludes the missing
  row and, at commit, gives the new aggregate its event.
- `FreshNumber`: while a transaction holds its number *n*, the committed numbers
  are exactly 1..*n* - 1. `NextSequenceNumber` establishes it by `NextSeqFresh`;
  no other transaction can commit to the key by `LockDiscipline`. So the unique
  index is never violated and a commit extends 1..*n* - 1 to 1..*n*.

Type correctness depends on gaplessness: the greatest number of an arbitrary set
of rows need not exist. The refinement proof shows, from `IInv`, that
`CommitRows` appends the request to the mapped log of its key and leaves the
others (`PublishAppends`, `PublishRefines`), and maps each action to a step or a stutter.

### StateReconstructionProofs

| Theorem | States |
|---|---|
| `TypeCorrect` | `[]TypeOK` |
| `FoldsAreExact` | `[]FoldsEachEventOnce` |
| `PointsAreBounds` | `[]NeverBeyondPoint` |
| `MissesCoverCommitted` | `[]MissCoversCommitted` |
| `CrossingsAreNoticed` | `CrossingNoticed` |

The argument goes in a circle which only an invariant over all stores closes:
caches are filled from folds, snapshots are made from caches or folds, folds
start from snapshots or cached lookups. `FoldsEachEventOnce` therefore speaks of
all of them at once. What it lacks is what a call holds between its queries:
`ReadsConsecutive` says the events read are the consecutive numbers from the
base to some *m* that was committed when they were read and covers what was
committed when the call began. `FoldExact` then gives the fold, and nothing else
needs to be known about the time that has passed in between. The theorems make
no assumption on faults, on the threshold or on the bounds.

The lemmas on `EventsInRange` and `Fold` are stated once (`RangeConsecutive`,
`FoldExact`) and cited.

`CrossingNoticed` is about a step: an append that goes idle without a job, and
without a failure, leaves fewer events than the threshold after the latest
snapshot. The number of the snapshot it counts from comes from an earlier query and
may be outdated. `CountsFromLatest` says on which side: it is at most the latest
snapshot's, so a count of the events since can only be too high, which errs towards a job.

### StateAccessProofs

| Theorem | States |
|---|---|
| `TypeCorrect` | `[]TypeOK` |
| `OwnRulesFold` | `[]FoldedByOwnRules` |

The states travel in a circle, from calls to entries and snapshots and back, so the
property speaks of all the places where they rest, and `PastTheCheck` adds those
under way: a call that is past `findForProject` is of the project of the row, and
what it has so far was folded by that project's rules or by none. An append can
change the project of an aggregate that has none, and of such an aggregate nothing
is cached, kept or answered, since no state holds the mark of an absent row
(`NoneInNoState`). A `Hit` needs no check to be of the own rules: what is not
checked is who asked, and that is `StatesStayInProject`, which is false.

### ReduceEventsProofs

| Theorem | States |
|---|---|
| `TypeCorrect` | `[]TypeOK` |
| `NoRuleIgnored` | `[]NoRuleIsSilent` |
| `SnapshotsChangeNothing` | the fold resumed from a snapshot of any earlier event is the whole fold |
| `FoldIsPromised` | `[]FoldsToReference` |

These hold for payloads, rules and histories of any size. The loop of
`reduceEvents` is the recursive function `StatesOf`. What it computes is proved by
induction on the number of events; since the induction theorems of the library
cannot be instantiated, the induction is the search for a least counterexample
(`UpTo`, from the well-foundedness of the natural numbers). `LoopEnds` shows that
the function exists, `LoopRounds` what a round does, and `ReduceInTwo` that folding
in two parts is folding at once.

`NoRuleIsSilent` needs `RulesHaveFields`, which an upsert that omits the field
could break since it keeps the old one, and the well-formedness of every state of
the loop, without which the last item of a list would mean nothing.

`FoldIsPromised` compares the fold with `Reference`, which knows no states: it
finds, for each field, the last event that wrote it and the run of merges or
appends that ends with it. `RoundIsReference` is the induction step, by the
operation of the event: a field it does not write keeps its writers and so its
value (`Unwritten`); a set value is that of the last writer; a merge or append
makes its run longer by one (`RunGrows`), whose value is the old one and the new
payload (`MergedMore`, `ListedMore`). `applyRule` knows nothing of runs and goes
by the kind of value it finds; that this comes to the same is shown in
`MergeValue` and `AppendValue`, from `RunIsLast`.

### ReplayJobsProofs

| Theorem | States |
|---|---|
| `TypeCorrect` | `[]TypeOK` |
| `ResultsAreTrue` | `[]ResultTruthful` |
| `QueueAndRowAgree` | `[]QueueAgrees` |
| `EndsAreFinal` | `EndIsFinal` |

For any jobs, slots, aggregates and number of crashes. There are two
strengthenings, for two kinds of behaviour. `RunSound` holds in all of them:
whichever slots run a job, at once or after each other, the tally of each is true
of the snapshots written, and every aggregate that existed at the creation of the
job is counted in it or still to do. It mentions one slot only, and what was
written stays written, so other slots cannot disturb it. `Undisturbed` holds while
no slot has died or stalled: the slot that runs a job holds its lock, and the row's
status is that of the slot's place in the code (`StatusAt`). From this BullMQ's end
and the row's agree, and an ended row is final.

### TenancyProofs and HttpApiProofs

| Theorem | States |
|---|---|
| `TypeCorrect` | `[]TypeOK` |
| `TenantsAreWhole` | `[]WholeTenants` |
| `NoKeyLeavesItsTenant` | `[]KeysStayInTenant` |
| `EndedKeysOpenNothing` | `[]EndedHasNoEffect` |
| `NoWayBackIn` | `LockedOutForGood` |
| `ApiImplementsTenancy` | `ApiSpec => Spec` |
| `ResponsesTyped` | `[]ApiTypeOK` |
| `AnswersAreTrue` | `[]AnswerTellsEffect` |
| `CountersAreTrue` | `[]LetInCountedOnce` |

For any number of requests at once. The invariant of `Tenancy` adds:

- `RequestsKept`: a request that was let in arrived with a key that had not ended,
  and what granted it access still does, since rows are never deleted.
- `TransactionsWhole`: what a transaction has inserted when it comes to a query is
  determined by the kind of its request, and is all of one tenant.
- `RowsCommitted`: a committed row bears the id of a request past its commit, and
  then all rows of that request are there.

- `RowsUnique`: a project's or a key's id has one row, so that "the organization of a
  key" is one thing, before and after a step. `NoKeyLeavesItsTenant` is the
  induction along the chain of keys: the one presented opens one organization when
  the new key is inserted, and both keep it (`MadeKeyStays`).

`NoWayBackIn` follows from what a step can bring: a new row of an organization
needs a request that was let in with a key of it, and `Usable` counts those.

Every step of `HttpApi` is one of `Tenancy` or leaves its state alone
(`ApiImplementsTenancy`), so what is proved of `Tenancy` holds of the pipeline.
`ApiInv` adds that a request which was let in carries the success status of its
route until it is answered (`Unanswered`). That is why a success is counted under
its own status, and also why an error is not (section 4).

### ServerProofs

| Theorem | States |
|---|---|
| `MetricsTyped`, `ServerTyped` | `[]TypeOK`, `[]ServerTypeOK` |
| `OnlySignalsEndIt` | `[]ExitsOnlyWhenAsked` |
| `MainCutsNothingShort` | `[]MainExitsDrained` |
| `LateProbesAreTold` | `[]NotReadyAfterQuit` |
| `GaugesMissNoJob` | `DepthNotUnderstated` |

For any queues, jobs, polls, probes and failures.

- `PollsSound`: the jobs that stayed during a poll are there, and of them no more
  are waiting than the first call was told. A job that stays can only move from
  waiting to active, which is where the order of the two calls is needed; the
  second call then counts the others.
- `PhasesDrained`: what a closer has waited for does not come back, although the
  other closer is elsewhere: what let it in was shut in a phase some closer has
  already left (`Reached`).
- `LateProbesFail`: a probe that began after the Redis client had quit finds it so.
- `StopsOnce`: closers run only while the process is up and was asked to stop.

### Model-checked only

The liveness properties (`EveryAppendEnds`, `CacheConverges`, `CachedStateEnds`,
`PendingCompletes`, `GaugesConverge`): they need reasoning about fairness and
ENABLED, which the prover does not do. Every other property of a passing run has
its theorem. The statements of the four `violation` runs are false.

## What is not modelled

- **Start-up** (`main.ts`, up to `listen`): the process of `Server` runs from the
  start. In the other components the exit of a process is a crash at any point,
  which includes every order the signal handlers can produce.
- **Correlation ids**: set on the request and the answer, read by nothing.
- **Durations and routes** of the HTTP metrics, and the wording of errors.
- **Configuration and wiring, JWT scaffolding, generated client, scripts**: no
  behaviour of their own; no route uses the JWT guard.
- **Payloads** in `EventStore`, **several aggregates** in `StateReconstruction`
  (cache keys, rows and jobs all carry the aggregate's id; several of several
  projects are in `StateAccess`), **several aggregate
  types** in `ReduceEvents` (the unique key and the query carry it), and the **read
  routes** of replay jobs, which change nothing.
- **Time**: the TTL and the stalled interval are steps that may come at any time.
- **What the body parser rejects**: a malformed body is answered 400 before the
  guards and never counted. `RejectBody` is a body the validation pipe rejects.
- **Nest's re-raised signal**, which starts the hooks once more in a process that
  is already closing.

## Plan

Done, in this order: the append transaction with its abstract log and proofs; the
read path with caches and snapshots, and its proofs; the fold; replay jobs;
tenancy; the request pipeline around it; queue metrics; the server's end; state
access across projects.

Considered and left: replay jobs with `createSnapshot` opened up, as an instance
of `StateReconstruction` per aggregate. The two meet in the outcome of
`createSnapshot` alone, which `ReplayJobs` leaves open, and the product is beyond
TLC.

The safety invariants and action properties were then proved, component by
component, in the order of the section on proofs.
