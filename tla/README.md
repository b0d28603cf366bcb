# Ladoo in TLA+

Ladoo is a Rust web framework (`crates/ladoo`, with `ladoo-macros`) and two companion
crates that keep state in a database: a persistent job queue (`crates/ladoo-jobs`) and
a migration engine (`crates/ladoo-migrate`). This directory models their control:
what each operation may do, in which order, and what may happen between two of its
steps. TLC checks the models on small instances, and TLAPS proves the most important
results about the job queue, its scheduler, the in-process job runner, the server's
shutdown, the in-memory stores, the WebSocket channels, the migration engine and the way
of an HTTP request for every instance.

## 1. Inventory

| Component | State | Operations | What is hard |
|---|---|---|---|
| Job table and stores (`store.rs`, `sqlite/`, `postgres/`, `outbox.rs`) | `_ladoo_jobs` rows: status, attempts, max_retries, run_at, locked_by | push, claim, complete, fail; outbox inserts in the caller's transaction | claim (SQLite) and fail (both) are two statements; nothing reclaims a running row |
| Worker (`worker.rs`, `registry.rs`) | semaphore, claimed batch, spawned tasks, shutdown flag | run loop, dispatch | tasks race each other and other processes; panics, store errors, kills, exit without awaiting tasks |
| LISTEN/NOTIFY (`postgres/notify.rs`) | watch channel version, stored receiver | trigger, listener task, subscribe, select | lost notifications, wakeups between claim and subscribe |
| Cron scheduler (`scheduler.rs`) | list of entries; nothing is persisted | a turn every 60 s | truncated seconds, drift, early and double firing |
| Migration engine (`engine.rs`, `plan.rs`, `table.rs`, `lock.rs`, `driver/`) | `_migrations` rows, schema, advisory lock of a session | migrate, rollback, repair, baseline, status | crash between statements, concurrent processes, pooled connections, MySQL's implicit commits |
| Migration sources and CLI (`source/`, `checksum.rs`, `cli/`) | files on disk | load, parse, checksum; options to commands | files change between runs; directives are recognised by position |
| In-process job runner (`job/`, derive(Job)) | attempt counter of each spawned job, App state set once | enqueue, attempts, backoff, wait | retry bound, attempt timeouts, overflow, late wiring |
| WebSocket channels (`ws/`) | joined topics per connection, broadcast ring, forwarder flag | join, leave, handle, broadcast, publish, forward | lag, own echoes, double join, panicking callbacks |
| HTTP server (`server.rs`, `shutdown.rs`) | open connections, shutdown flag, hooks | accept, handshake, serve, drain, hooks | drain timeout against requests in progress |
| Rate limiter and cache (`rate_limit.rs`, `cache.rs`) | concurrent maps with expiry | check_and_increment, reset, reaper; get, set, delete, has, remember | steps of two callers around an expiry |
| Routing, middleware, builders (`router.rs`, `app.rs`, `middleware.rs`) | built once, then read | register, nest, match, chain | precedence, which middleware wraps what, answers outside the chain |
| HTTP features (CORS, auth, roles, request id, health, pagination, headers, static answers) | none or per request | decide and set headers | interaction with errors and with each other |
| Extractors, requests, responses, errors (`extract/`, `request.rs`, `response.rs`, `error.rs`) | the body, taken once | extract, convert | order of extraction, what an error reveals |
| Configuration, logging, test client, macros | process environment, built App | load, derive, run in memory | layering, production or development |

Interactions. Producers and workers meet only in the job table; the scheduler is a
producer; the listener turns commits into wakeups of the worker loop. Migration
processes meet in the `_migrations` table and the advisory lock. The HTTP server
drives the rest of `crates/ladoo`, one task per connection: a request goes through
routing, middleware, extraction and handler, and back; an upgrade turns the connection
into a WebSocket task, which meets the others in the ring of its instance and, through
Redis, in those of other instances. Rate limiter and cache are shared by all tasks.
The job runner gets its state from the App it is provided to.

`PROJECT.json` lists every component with its status, every definition with the lines
it stands for, and every hazard with the properties that watch it.

## 2. Modules

### Persistent jobs

* **JobTable**: one operator per SQL statement. Time is relative: `row.due` is
  `run_at` minus now, and `AgeRows` is one second passing. `locked_by = NULL` is
  `NoLock`, which matches nothing (`LockMatches`).
* **JobLifecycle**: the abstract specification, what an enqueued job may go through,
  without workers, locks and clocks.
* **JobWorker**: `Worker::run` in several processes. `wpc` is where the loop is
  (`claim` before the UPDATE, `reply` before its result arrives, `spawn`, `wait`), a
  task is a record with the statement it is about to run. Each statement is a step;
  each may fail (`"db"`), a handler may panic, a process may be killed at any point or
  exit after `run()` returned. `runs`, `wins` and `restarts` are history variables. The
  constant `Sqlite` selects the store. `worker_id()` is process id and counter: `WorkerId`
  draws an id nobody uses or, where `Recurring` holds, one that a predecessor of the
  process left in the table (`past`), as long as this process has not issued it itself
  (`issued`). The mapping to JobLifecycle is by status.
* **JobNotify**: trigger, listener, watch channel and select.
* **CronScheduler**: the scheduler's turns, in ticks finer than a second.

### Migrations

* **MigrationSource**: file names, directives and the line-by-line parser. A file is a
  sequence of kinds of lines; `ParseFile` follows the parser's mode and pending state, and
  `MCMigrationEngine` compares it with a reading by position for every file of up to
  five lines (the assumption `MCParser`, evaluated by every run of that module). The
  attributes of the migrations in the runs are computed from such files.
* **MigrationPlan**: the decisions, `MigrationPlan::build`, which repeatables run, which
  rows a rollback selects. Versions are numbers (they are compared as strings of equal
  length); contents are numbers, so equal contents and equal checksums coincide; 0 is a
  missing file.
* **MigrationCli**: which engine command a combination of options stands for.
* **MigrationEngine**: each command is a process that locks, reads, works statement by
  statement and unlocks. `schema` records what of each migration is in effect and of
  which content; `"half"` is an @up or @down that stopped in the middle. A transaction
  is one step where DDL is transactional, and several on MySQL. `holder` is the process
  *and connection* that has the advisory lock; lock and unlock pick any connection of
  the pool, as the drivers do.

### The ladoo crate

* **JobRunner** and **JobDerive**: the attempts of each spawned job, its handle, and
  the configuration derive(Job) generates. `U32Max` and `DurationMax` stand for the
  widths of the two integer types: the sum `max_retries + 1` wraps or panics at the
  former (both builds are outcomes), the backoff saturates at the latter.
* **ServerShutdown** implements the abstract **ServerLifecycle**. The detailed module
  has the accept loop, handshakes, the watch channel, `JoinSet::abort_all`, hook tasks
  and clocks; the abstract one has only accepting, draining, running hooks, stopped,
  and open connections.
* **WsChannels**: connection tasks, the ring of each instance, publishing and the
  forwarder. Channel callbacks are the user's: they answer freely, broadcast, or panic.
  The direct topic of a connection is a name among others: a client may join it where a
  pattern of the router matches it.
* **Clock**, **RateLimit**, **Cache**, **MemoryStores**: both in-memory stores under
  one clock. Each call is split where another task can come in between: reading the
  clock, having the lock of the key's entry, and reading the clock again for what the
  client is told; `get` and the removal of what it found expired; the steps of
  `remember`. Time passes between those steps, for a lock or the reaper's turn up to
  `Lag` ticks, and a client is told whole seconds of `Second` ticks.
* **Routing**: patterns, matching, precedence, nesting. **HttpMiddleware**: what each
  built-in middleware does on the way in and on the way out. **HttpExtract**: the
  extractors, validation, pagination, configuration layers, health aggregation and
  error conversion. **HttpApp**: the builders of App and Router. **HttpPipeline**
  composes them: a process starts in an environment, then serves exchanges one after the
  other, each taken through route, enter, extract, call and leave.

The `MC*` modules hold the constants that a .cfg cannot write.

## 3. Runs

| Run | Instance | States | Shows |
|---|---|---|---|
| `job_safety` | 2 SQLite workers, 2 jobs, batch 2, 1 permit, 1 retry, delays 0 and 1, all faults, one restart under a process id that recurs | 2,390,000 | exclusive execution, retry budget, at most one success, permits, refinement of JobLifecycle |
| `job_live` | 1 Postgres worker, 2 jobs (one without handler), batch 2, 1 permit, no faults, fair | 4,400 | every visible job settles while the worker stays up; a told worker stops |
| `job_orphan` | 1 worker, 1 job | - | violation: a 'running' row nobody executes (section 5) |
| `notify_wake` | 3 jobs, batch 1, lossy listener, no fair poll | 2,800 | no lost wakeup; noticed rows are claimed |
| `cron_turns` | 2 entries, all start phases, 5 ticks a second, occurrences more than two windows apart, lags of 0 or 1 tick | 24,000 | nothing skipped, nothing pushed three times |
| `migrate_safety` | Postgres, 1 process, 3 versioned (one @no-transaction, one without @down, one dependency), 1 repeatable, 2 contents each, a database already at version 1, every command line, errors and crashes | 1,360,000 | the table tells the truth; requirements, orders and repeatables stay consistent |
| `migrate_concurrent` | MySQL, 2 processes with 2 connections, 2 versioned (one @no-transaction), 1 repeatable, errors and crashes | 146,000 | with implicit commits, lock timeouts and misdirected unlocks, PARTIAL blocks, and a @down runs only for what is recorded |
| `job_attempts` | a hand-written job and a derived one at the u32 limit, any answers, 2 Apps | 4,600 | attempts stay in budget and in order, wait() tells what happened, every job ends |
| `server_drain` | 2 connections with or without TLS, 2 hooks, timeouts of 1, 2 and 1 ticks | 45,600 | the server stops in time, cuts nothing short before, implements ServerLifecycle |
| `ws_channels` | 2 connections to one of 2 instances over Redis, a pattern `*`, ring of 1, 2 events, 2 frames that call back | 4,770,000 | deliveries are right, loss only through a full ring, presence is truthful |
| `stores` | 3 requests under a simple limit or two tiers, locks and reaper up to a tick late, seconds of 2 ticks, 3 callers of two cache entries, time 0 to 4 | 1,574,000 | rate bounds and reported quotas, no stale read, no lost fresh value |
| `http_requests` | 3 applications, 6 environments, server and test client, some 200 kinds of requests | 77,000 | routing, guards, headers, errors, arguments, startup, health |

**Bounds.** Statements of the job queue touch one row or one batch and its hazards are
between two parties, so two workers and two jobs meet every race. The batch is larger
than the semaphore so that the loop blocks on permits; retries and delays include both
sides of their comparisons. `MaxAge` bounds how long overdue rows keep their order and
`MaxDelay` is the 60-second cap; both only affect which due row goes first. Worker ids
are recycled once nothing refers to them, so four suffice. One restart (`MaxRestarts`)
is what it takes for a row left running to be handed out again; the theorems hold for
any number. The shutdown signal reaches the workers in `Signalled`: none in
`job_safety`, where `Exit` follows the error of a claim, and every one in the other two.
JobNotify has more jobs (`Pushed`) than a batch (`Batch`), so that rows are left over
after a claim. Three versions give a prefix, a target in the middle and a rest; two contents give edits (`MaxContent`). `Horizon` ends
the scheduler after three periods of an entry whose period is not a multiple of the
window, which meets every phase. `U32Max` and `U64Max` are small so that sums and
products do reach the limit. The server's two connections meet in different states of
the drain, and its timeouts differ so that either may end a phase. The ring of one
event overflows with the second (`MaxEvents`), which may be the other instance's; two
frames (`MaxFrames`) are a join and a second join, a leave or a message, or the joins of
both clients. The lifetimes of the cache are one and two ticks and the windows of the
limiter two and three, so time 4 (`MaxTime`) covers an expiry, a fresh period and its
expiry, and a request that waited for its lock across the end of a window (`Lag`). The
requests but one, the callers and the connections are interchangeable: no constant and
no property names one of them, and none of these runs checks liveness, so their
symmetry is sound. The
HTTP applications have a pattern for each precedence rule, groups in groups, each
middleware and extractor, and each way to fail; the requests include a token without the
role that a group requires. Deadlock checking is off where a bound,
a shutdown or a finished job ends the run.

**Fairness.** JobWorker: weak fairness of the loop's and the tasks' steps, since tokio
polls every ready task and handlers are assumed to return; of `Tick` and `Wake`, since
time passes and the poll interval elapses; strong fairness of `Stop` only, since
`select!` chooses at random among ready branches and the shutdown branch is ready again
in each turn; callers end their outbox transactions. JobNotify assumes nothing of the
poll. JobRunner: weak fairness of each job's runtime steps (poll, attempt timeout,
backoff timer); a handler need not return. ServerShutdown: weak fairness of `serve()`'s
own steps, of time, of the handshake timeout and of a polled connection seeing the
signal; nothing is assumed of clients, handlers, sockets or hooks. The other modules
have no liveness property: the WebSocket and HTTP code promises no progress that does
not depend on clients or user code, and the stores' callers take a fixed number of
steps.

**Assumptions about the environment.** The SQL of a migration does not touch other
migrations' objects or `_migrations`; a file never returns to an earlier content;
pooled connections are not closed while a command runs; an operator adopts an existing
database with `baseline`, at the version it is really at, before any other command
(`Unadopted`). hyper's graceful shutdown, the signature check of tokens and serde's
parsing of bytes are external and modelled from their use.

## 4. Proofs

`JobWorkerProofs` proves for any sets of jobs, workers and ids, any batch size,
concurrency, retries, either store and all faults: `TypeCorrect`, `Exclusive`,
`Budget`, `OneSuccess`, `Permits` (`PermitsBalance`) and `Refinement` (every step of
JobWorker is a step of JobLifecycle or a stutter), also where process ids recur.

None of these invariants is inductive alone. Exclusive execution needs to know that a
row is locked by the claim that has it in its batch or task, that ids are not shared
between claims, and that a job is in one batch or one task: `LockInv`, with the parts
`RowsInv`, `ClaimsInv` and `TasksInv`. Ids that come back do not break it, because of
`NamesInv`: claims and tasks go by ids their own process has issued, no two processes
have issued the same id, and none that a predecessor left has been issued again. The
counts need in addition that `runs` exceeds `attempts` by the attempt under way and by
no more than the restarts (`Revivals`), also for a row that a claim may still hand out
again (`HandOut`), and that the attempt of a task is counted neither as failed nor as a
success before its time: `CountInv`. Their conjunction `IInv` holds initially,
is kept by each action (one step per action, `LockNext` and `CountNext`) and implies
the rest. `PermitsInv` adds that a worker's tasks are finitely many and a dead one has
none; that a task which goes on is counted once rests on `LockInv`, by which no other
task has its job. The assumptions are those of the modules (`DelayAssumption`,
`WorkerAssumption`): types of the constants, and ids different from `NoLock`. That an
unused id exists is not assumed; that two processes alive at once have different process
ids is part of the model (`WorkerId`), which on one SQLite file the operating system
guarantees unless they are in containers of their own.

The same module proves `WakeupKept` (`NoWakeupLost`) of JobNotify: the stored receiver
stays at version 0, so a clone has seen nothing, and one delivery raises the version above
it (`ReceiverInv`).

`JobRunnerProofs` proves `Budget` (`AttemptBudget`), `WaitTells` (`WaitTruthful`) and
`Retries` (`RetriesInOrder`) for any jobs, configurations and answers and any width of
the integer types. The attempt
count alone is not inductive: `BudgetInv` adds that an attempt is left, or the sum has
wrapped to 0, whenever a task is at the head of its loop or sleeps; `WaitInv` ties what
was waited for to what the ended task left. `TotalIs` computes the u32 sum, `DelayType`
the saturating backoff. For the order, `OrderInv` says that a task about to begin has not
ended otherwise, and that its last pause was not longer than the next one will be, which
`DelayGrows` carries from one failure to the next through both saturations; `TaskSteps`
lists what a step does to one task. `PowerAssumption` (powers of two are numbers and
grow) is stated because the provers have no theory of exponentiation; TLC evaluates it.

`ServerShutdownProofs` proves `InTime` (`StopsInTime`), `CutShort` (`NothingCutShort`)
and `Refinement` (ServerShutdown implements ServerLifecycle) for any connections, hooks
and timeouts. `ClockInv` says that the elapsed time and what is left of a phase add up
to its deadline, `HookInv` in which phases hooks run, `TaskInv` that tasks are marked and
aborted only after the timeout, and that without it none is left when the hooks start;
`ConnKeeps` treats the steps of a connection, `HooksStart` both ends of the drain.

`MemoryStoresProofs` proves `Serves` (`ServedFresh`), `Keeps` (`FreshSurvives`), `Limits`
(`RateBounds`) and `Quotas` (`QuotaTruthful`) for any callers, keys, lifetimes, requests,
limits and windows. The cache needs `CacheInv`: what a caller is about to remove had
expired when it was read and what it answers had not, and every entry is of the past.
The limiter's `RateInv` goes by the request that opened a window: whoever was counted
belongs to the window of a request of its key, came before its end and at most `Lag`
before its start (`WindowInv`); within a window no number is given twice (`NumbersInv`);
an entry's count is that of its opener's window, and each number up to it was given to a
request (`EntriesInv`). These hold after a `reset()` too and are all that `Quotas` needs,
with what rounding down leaves of a second (`ToldInv`). For the bound, two windows of a
key that was not reset begin a window apart, up to `Lag` less (`ApartInv`), because the
one in the store is the last (`LatestInv`); they can be closer than a window only where
the reaper removed the one before. The requests let through in an interval then go
one to one into pairs of a number below the limit and an index below `Windows`
(`WindowsMet`): distance to the interval's start divided by `w - Lag`. Assumed of the
constants (`CacheAssumption`, `RateAssumption`): their types, a finite set of requests
and windows that are not zero. `Limits` says nothing of windows as short as `Lag`.

`WsChannelsProofs` proves `Presence` (`PresenceTruthful`), `Reaches` (`NothingLost`) and
`Delivers` (`DeliveredRight`) for any connections, topics, instances and ring size.
`PresenceInv` says that the channels know of a topic while it is joined and for as long as
leave() takes after that, `ForwarderInv` that only a forwarder that is up has a
subscription, `RingsInv` that no ring holds an event twice and its own instance's events
are in order, `SeenInv` that a client's events come from the part of the ring its task
has read, `AdmittedInv` that each was sent to it or has a topic a channel let it join,
which some pattern matches, and `OwedInv` that an event owed to it was sent, skipped by lag, or is in the
part not read yet.

`CronSchedulerProofs` proves `Twice` (`AtMostTwice`) for all constants and `Misses`
(`NeverMissed`) under `Timely(lag)`: no push and no timer is late by more than `lag`, the
lags of two turns together stay below a second, and two occurrences of an entry are at
least a window and a second apart. The last one is needed: section 5 says what happens
to an entry that occurs more often. `FiredInv` says in whose windows a pushed occurrence
lies, so that a third turn is past it; `DriftInv` bounds how late a turn is, and
`CoveredInv` says that a turn leaves nothing unpushed in its window and finds nothing
left behind it. `UpcomingIs` computes the next occurrence after a truncated second.

`MigrationEngineProofs` proves, for any migrations, requirements, edits, processes and
faults, `Orders` (`OrdersContiguous`), `Requirements` (`RequiresClosed`), `Repeatables`
(`RepeatableTruthful`), `Undoes` (`UndoneIsRecorded`) and `Blocks` (`PartialBlocks`)
under `OneAtATime`: the driver has an advisory lock, or there is one process. SQLite has
none, and with two processes they are false (section 5). `LockInv` says that who is at
work holds the lock, on whichever connection; `TableInv` that the rows are numbered from
1 to n, requirements are older rows, and a PARTIAL row is the newest. What makes these
inductive is `WorkInv`: what a process took from the table and the files before is still
true when it acts on it. The plan stands, next_order is one more than the number of
rows, the rows of a rollback are the newest, a repair has the one PARTIAL row, loaded
contents are not newer than the files. `SumsInv` bounds a repeatable's checksum by what
its file was and what ran. There is one lemma per action (`...Keeps`), and one per loop
(`Loop...`) for where it goes next.

`Truthful` (`TableTruthful`) needs more, and each hypothesis is a case in which the code
fails (section 5): `TransactionalDdl`, because MySQL commits an effect before its row,
and `Adoptable`, because baseline is not a transaction: no version to adopt, or a single
one and a single process. `Truth` adds to the statement what a process knows before it
tells the table: an @up that ran before its row is marked, an @down before its row is
deleted, and that what baseline records is there (`Aware`).

`HttpPipelineProofs` proves the seven properties of HttpPipeline for any number of
applications, environments and requests: `RouteChosenAlways`, `HandlersGuarded`,
`HeadersAlwaysKept`, `ErrorsAlwaysSanitised`, `ArgumentsAlwaysSound`,
`StartupAlwaysSound` and `HealthAlwaysTruthful`. They share the invariant `IInv`
(`ExchangeInvariant`), whose parts are:

* `AppInv`, that the app stays well built and a serving one has the mode of its
  environment and a configuration that loads, and `ShapeInv`, the shape of the exchange at
  each place of its course;
* `RouteInv`, where handler and chain are from. That the route is the best one is what
  the fold of `find()` computes (`FindChosen`): after each route the best so far is the
  first of the best among those seen. The fold is a recursive function on sets of
  positions (`Loop`), which exists (`LoopExists`); the rest argues with a smallest
  number of routes for which it would be wrong;
* `GuardInv`: every guard passed accepts the request, its user stays in the per-request
  state until another middleware provides the same type, and so a requirement behind it
  was met by that user and not by another guard's;
* `HeaderInv`, that each middleware passed on the way out has left its headers and no
  later one removed the handler's own; `ErrorInv`, that a detail in a response means
  development; `HealthInv`, that the middleware around the health route changes neither
  its status nor its word;
* `ArgumentInv`, that the arguments made so far are sound and the one made from the body
  left none of it for another.

`PipelineAssumption` states what is assumed of the constants. The environments hold
values, the numbers of a query are numbers, and every application is `WellBuilt`, as the
builders leave it: types (a `SecureHeaders` has no names but its own, the literal of a
`#[config(default)]` has its field's type), and for each need of a handler the guard and
the requirement in its chain (`Enforced`). The last is the user's declaration, so it is a
hypothesis on the group a handler is added to; that the builders carry it to the finished
application is proved: `AddKeepsNeeds`, `UseMwKeepsNeeds` (also for middleware added after
the handler, `UseMwEarlyOrLate`), `MergeKeepsNeeds` (groups in groups) and
`AppGroupKeepsNeeds`. `App::use` after a group is not among them: a second guard for the
same type appended to the global chain comes between a global guard and a requirement in
the group, and the requirement then sees the user of the second one.

Only model-checked:

* liveness (`EveryJobSettles`, `ShutdownStops`, `NoticedIsClaimed`, `EveryJobEnds`,
  `ShutdownCompletes`), which rests on fairness, out of the prover's reach;
* the migration file parser: that `ParseFile` agrees with a reading by position for every file
  would be an induction over its lines (`MCParser` compares them up to five).

All other properties of the passing runs are proved, `NeverMissed` and the properties of
the migration engine under the hypotheses named above.

## 5. What the models show

One finding has a run, `job_orphan`: `JobStatus::Running` is documented as "Currently
being executed", but `run()` returns on shutdown without awaiting its tasks and claims
only pending and scheduled rows, so that after the process has exited an interrupted
row stays running for ever. The finding in `PROJECT.json` quotes both places.

The following was met while modelling; most of it needs only another constant in one
of the runs above to be seen.

Job queue and scheduler

* The worker clones a receiver that has never seen a version: after the first NOTIFY
  every `changed()` is ready at once and the loop spins without waiting.
* An occurrence may be pushed twice, by two turns whose windows overlap, and a job is
  pushed, due at once, up to a minute before its occurrence. A failed push is dropped.
* A turn pushes at most the next occurrence of an entry. An entry that occurs once a
  window or more often (every minute) is skipped when the drift of the turns crosses an
  occurrence: `Period = 15` in `cron_turns` violates `NeverMissed`, `Period = 20` does not.
* `worker_id()` is process id and counter. Two processes with the same id one after the
  other (the first process of a container is always 1) issue the same ids, and a SQLite
  claim then also returns the rows its predecessor left running. Such a row is handed out
  again although its attempt was not counted, and even if the handler had succeeded and
  only complete() was missing: `RetryBudget` and `SuccessAtMostOnce` allow for one more
  time per restart (`Revivals`). On Postgres, and with `Recurring = FALSE`, it is zero.
  Two live processes with the same id on one SQLite file are not modelled.

Migrations

* The runs with a lock model the drivers as they are meant. A real Postgres has the
  columns of `_migrations` as TEXT and INTEGER (`table.rs:32`), which the driver reads as
  a timestamp and an i64 (`postgres.rs:99`, `postgres.rs:120`), so that reading a row
  fails; MySQL takes no `TEXT PRIMARY KEY` (`table.rs:27`). The CLI's only driver is
  SQLite.
* The advisory lock belongs to a session, but lock and unlock are sent on any pooled
  connection: an unlock on another one leaves the lock in place, and a closed idle
  session drops it.
* SQLite takes no lock; the read of the table and the rollback that follows are not
  serialized between processes (`Driver = "sqlite"` in `migrate_concurrent` violates both
  `PartialBlocks` and `UndoneIsRecorded`).
* MySQL commits each DDL statement, and `execute_sequential` writes no PARTIAL row: with
  `Driver = "mysql"` and statement errors `TableTruthful` fails.
* `baseline` inserts row by row without a transaction; interrupted midway it cannot be
  repeated, and migrate then runs what the database already has. If the rows it did
  record are rolled back, a second baseline records as applied what was undone
  (`Legacy = 2` in `migrate_safety` violates `TableTruthful`).
* `rollback --to v` stops at the first row whose version is not greater, so an older
  migration that was merged late hides newer ones.
* A changed repeatable gets a new checksum, but keeps the stored @up and @down of its
  first version.

The ladoo crate

* In tiered mode the rate limiter's key is the tier's name alone: all clients of a tier
  share one bucket, though the comment at `rate_limit.rs:427` speaks of a prefix.
* A request reads the clock before it has its entry's lock. One that waits across the end
  of a window is counted in the next one, so that an instant may see the limit of two
  windows; `Windows` bounds how many an interval meets.
* `retry-after` and `x-ratelimit-reset` are whole seconds rounded down: within a window's
  last second they are 0 although the window is full.
* A pattern ends in `*` (`ws/router.rs:47`; its comment has `:*`). `route("*")` and other
  prefixes of `__direct:` match direct topics too: a connection that joins one gets that
  socket's messages if the channel's `join()` lets it. `DeliveredRight` says what holds.
* CORS in a nested group can answer `*` together with credentials.
* Query, pagination and JSON errors carry the parser's text in production too; other
  errors are replaced by a generic message.
* 404, 413 and malformed requests are answered outside the middleware chain (a 405 is
  answered inside it), and an error passes through `SecureHeaders` without headers, though
  its docs speak of every response (`secure_headers.rs:26`). `HeadersKept` is about the
  answers no middleware outside turned into an error.
* A forwarder that ended is never started again, and `send_to` reaches only connections
  of its own instance.
* `allow_no_expiry` also accepts tokens whose expiry has passed. Two health checks may
  have the same name; a detailed answer then shows only one of them.

## 6. Not modelled

* Output: status and create messages, log lines, tracing layers, the text of error
  bodies, assertions of the test client. They change no state a property could relate.
* Database URLs, `migrate.toml` and the test helpers of ladoo-migrate: lookups in a
  fixed order whose result is handed to the driver.
* Redis stores of cache and rate limiter: each call is one command or one script, run
  atomically on a server outside the repository.
* Loading of TLS certificates, validation of a token's audience: single library calls.
* Payloads: the bytes of requests, frames, jobs and SQL, and what serde makes of them,
  are attributes of a message.
* `ladoo-cli`, which prints its version.
