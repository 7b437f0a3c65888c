# A TLA+ model of zerotal

zerotal is a TypeScript framework for server applications: about forty packages under
`src/packages`. This directory holds TLA+ modules for the parts of it whose
correctness rests on the order in which things happen, TLC configurations that
check them on small instances, and theorems about them with proofs for TLAPS.
It is meant to be read beside the code: every definition that models code is
listed in `PROJECT.json` under `map` with the lines it stands for.

1. [The system](#1-the-system)
2. [Modules](#2-modules)
3. [Runs](#3-runs)
4. [Fairness](#4-fairness)
5. [Theorems](#5-theorems)
6. [Where the code falls short of what it says](#6-where-the-code-falls-short-of-what-it-says)
7. [What is not modelled](#7-what-is-not-modelled)
8. [Plan](#8-plan)

## 1. The system

An application is one or more processes, each a JavaScript event loop. Inside a
process nothing is preempted, but every `await` is a point where anything else
may run. Processes share a database, a redis, or nothing. Some packages start
threads of their own (the queue's worker pool) or long-lived connections
(broadcasting, the client's socket). The hard behaviours are therefore
interleavings at awaits, statements of several processes between one another's,
processes that die between two statements, clocks (visibility timeouts, TTLs,
retry delays, reset timeouts), and callbacks that answer late.

### Components

| Component | Modelled in | State it keeps | Operations | Talks to | Hard behaviour | What makes it correct |
|---|---|---|---|---|---|---|
| queue: SQLite driver | `JobStore` | tables of jobs, failed jobs, batches | push, pushDebounced, pop, retry, delete, fail, batch counts, flush | `QueueManager` of every process | two processes' statements interleave; a claim lapses; a unique index refuses a retry | a claim is exclusive; a key has one waiting row; batch counts agree with the jobs |
| queue: redis driver | `RedisQueue` | a list, two sorted sets, a hash of debounce keys | as SQLite's | `QueueManager` | every operation is several commands | a job is in one place; the same abstract queue (`TaskQueue`) |
| queue: manager | `JobQueue` | active jobs, shutting-down flag | dispatch, chains, batches, processNext, retry and discard of failed jobs, drain | driver, worker pool, job classes | a crash between any two statements; an error after success; drain against a claim in flight | no job lost; attempts as the policy says; chains in order; a batch's callbacks once and right; drained means quiet |
| queue: worker pool | `WorkerPool` | slots, backlog, threads | run, terminate, replies and deaths of threads | `queue-worker.ts` threads by messages | replies that name no job; deaths and respawns beside waiting calls | a result belongs to its own call; every call answered; no leaked thread |
| queue: sync driver | - | memory | as SQLite's | the manager | a dispatch runs the queue it pushes to | as SQLite's |
| core: locks | `Lease`, `ManagedLock` | the key's record; a lock's `_acquired`, interval and signal | try, block, refresh, acquire, release, forceRelease | memory, SQLite or redis | pauses, lost refreshes, crashes, late answers | mutual exclusion while TTLs are honoured; loss is noticed; nothing left locked |
| client: circuit breaker | `CircuitBreaker` | state, failures, openedAt, probing | call, reset | the callers' requests | requests settle in a state other than the one that admitted them | opens at the threshold; stays open its time; recovers |
| client: socket | `Presence` | connection, channels, reconnect timer | connect, disconnect, join, leave, frames and close events | the broadcasting server, the auth endpoint | late events of an old connection; a signature for it still under way | one connection; resubscribes exactly what is wanted |
| broadcasting: manager | `Presence` | channels, connections, members | subscribe, unsubscribe, close | sockets | authorisation awaited while the connection closes | members are the open connections; every subscriber's view agrees |
| cache: remember | `OnceOnly` | entries with TTL, in-flight computations | remember, get, set, forget | drivers, locks | a computed value stored after it was invalidated | one computation at a time; a stale value heals |
| cache: idempotency | `OnceOnly` | stored responses, in-flight requests | the middleware | cache, locks | a crash or a lost lock between effect and stored response | one effect and one answer per key |
| scheduler: tasks | `ScheduledTask` | running flag, lock handle, interval | a tick, its run and release | locks | a flag read before an await and set after it; fields shared by a host's runs | no overlap; nothing left locked |
| scheduler: cron expressions | `CronExpression` | parsed fields | match, nextRunAfter, nextRunAfterIn | - | clocks that skip or repeat an hour under a search that skips days | the first due minute is found |
| session, rate limiting | - | stores keyed by session or client | load, save, regenerate; hit | requests | concurrent requests on one key | no lost regeneration; limits hold across windows |
| orm | - | connection, transactions, migrations table | query, transaction, migrate | database | nesting, savepoints, concurrent migrators | a transaction is all or nothing; a migration runs once |
| container, events, lifecycle, health | - | bindings, listeners, providers | resolve, emit, boot, stop | everything | re-entrancy, listeners changed while emitting | scopes isolated; order of start and stop |
| flow | - | component snapshots, browser protocol | call, hydrate | browser | requests that overtake one another | state is the one the last call left |
| auth, validator, i18n, views, http, inertia, admin, media, notifications, telemetry, ai, audit, monitor, devtools, testing, tenancy, arch, scaffolding | - | request-scoped or external | | | little: sequential code, whose correctness is in data | |

How they compose: `QueueManager` runs jobs of a driver inline or through the
worker pool; the cache's `remember`, the idempotency middleware and the
scheduler's overlap guard are clients of the lock manager; the socket and the
broadcast manager are the two ends of one protocol. The last three pairs are
composed in the modules: the clients of the lock over `Lease`, which
`ManagedLock` is shown to implement, and both ends of the protocol in
`Presence`. Otherwise what crosses a boundary is small: to the queue, the pool
is an answer "ok" or "failed" that comes some time after the question.

`PROJECT.json` lists the components with their sources and status, and the
hazards of the code, each at the line where it bites, with the properties that
would catch it.

## 2. Modules

```
JobStore          the SQLite driver: one operator per statement
  JobQueue        QueueManager, provider, commands, processes and time over it
    MCJobQueue    instances;  JobQueue_{claims,workflow,console}.cfg
    JobQueue_proofs
TaskQueue         what a queue driver promises, abstractly
  RedisQueue      the redis driver and its workers; implements TaskQueue
    MCRedisQueue, RedisQueue_redis.cfg
    RedisQueue_proofs
WorkerPool        the pool and its threads
    MCWorkerPool, WorkerPool_threads.cfg
    WorkerPool_proofs
CircuitBreaker    the HTTP client's breaker
    MCCircuitBreaker, CircuitBreaker_recovery.cfg
    CircuitBreaker_proofs
Lease             what a lock driver promises, abstractly
  ManagedLock     locks over the three drivers; implements Lease
    MCManagedLock, ManagedLock_sections.cfg
    ManagedLock_proofs
  OnceOnly        remember and the idempotency middleware, over Lease
    MCOnceOnly, OnceOnly_once.cfg
    OnceOnly_proofs
  ScheduledTask   withoutOverlapping, over Lease
    MCScheduledTask, ScheduledTask_overlap.cfg
CronExpression    matching and the two searches
    MCCronExpression, CronExpression_{nextrun,spring}.cfg
    Scheduler_proofs   of both of the scheduler's modules
Presence          Socket and BroadcastManager, one presence channel
    MCPresence, Presence_members.cfg
    Presence_proofs
```

A definition named `X_something` beside `X` is a variant of `X` with a plausible
mistake. None is used by a specification; each is there to show that some
property depends on `X` being as it is (`PROJECT.json`, `mutants`).

### JobStore and JobQueue

`JobStore` is `SqliteDriver.ts`: the three tables are functions from row ids to
records, and every operator that primes a variable is one statement or one
transaction. A method of two statements (`fail`, `flush`) is two operators and
two steps of its caller. Timestamps are kept as distances from the present, as
all predicates compare only distances: `due` is the time until `available_at`,
`age` the time since `reserved_at`, capped at the visibility timeout.
`UpsertDebounced` is the `ON CONFLICT` upsert over the partial unique index
(free rows of one key), `RetryRefused` the same index refusing a retry,
`ClaimRow` the single `UPDATE ... RETURNING` of `pop`.

`JobQueue` adds who issues the statements:

* `Process`: up, draining, drained, timed out, down. `Shutdown` is
  `onStopping` and `drain()`, `Exit` and `Crash` forget everything in memory.
* `Runner`: one loop of `queue:work` or one firing of the provider's poll
  interval. `pc` names the statement it awaits; an action is that statement and
  the code that runs when its await resumes. `guarded` says whether the try
  block of `_processRecord` is on the stack, as `DbError` (any statement
  rejects) goes to its catch block if so and out of `processNext` otherwise.
* Job classes: one may be unknown to the registry (not `Registered`), or known
  with a `fromPayload` that throws on what was stored (`Unbuildable`). A claim of
  the one goes straight to `fail()`, a claim of the other to retry or bury
  without a handler being entered (`AfterClaim`); where a chained or callback job
  is queued, `Stored` takes the fallback policy for both.
* `Admin`: a console that retries, forgets or flushes failed jobs, in the
  separate statements the code uses; it may die between them.
* A batch is dispatched row first, then job by job (`DispatchBatch`,
  `SendNext`), while its first jobs may already be running.
* `Elapse` is a second that passes. A claim outlives the visibility timeout
  only where the budget has a lapse: the configuration's contract is that jobs
  end within it, and what depends on the contract says so (`InTime`).

Histories (`accepted`, `runs`, `succeeded`, `dropped`, `reports`) record what
happened for the properties and are read by no guard but one: a job is
dispatched once.

### TaskQueue and RedisQueue

`TaskQueue` is the promise of `QueueDriver.ts`: one worker at a time works on a
dispatched job; it goes back to waiting when it is returned or its worker
died; it ends once. `RedisQueue` is `RedisDriver.ts` with the workers that pop
and settle. A step is one redis command, or one script, and the code up to the
next; `pc` names the command a worker is about to send. `_promoteDue` is four of
them: the search (`scan`), the `ZREM` that only one worker wins (`claim`,
`promote`), the `LPUSH`, and the `HDEL` of the debounce key. A member of a
sorted set is the job and its attempts, as two encodings of one job differ in
nothing else. `pop` stamps its reservation with the time it began at, so
`Reserve` leaves it any part of the visibility timeout; none at all is a lapse.
`ImplementsQueue` maps each job to the place its member is in
(a member between two structures, in a worker's hand, is where it is going) and
each worker to the job it handles.

### WorkerPool

The parent's methods are functions on the pool's state (`Settle`,
`DrainPending`, `Spawn`, `WorkerLost`, `Reply`) composed exactly as the code
nests its calls, because the order of these calls is where the pool can go
wrong; a handler runs without awaiting and is one step. Each thread has its
inbox, its outbox and what it runs. A thread that ends posts its close event
behind whatever replies it had posted; one that throws may fire error and close,
which are two notices (`Notices`), and the second may be handled after the
slot's next thread was spawned. `misled` records that step. `Accept` and
`Finish` are `queue-worker.ts`.

### CircuitBreaker

A call is refused by `Reject` or admitted by `Admit`, the code of `call()` before
its await, and settles by `Succeeds`, `Fails` or `Uncounted` (an error that
`isFailure` does not count, such as a 4xx, from a healthy upstream or not), each
with the finally block; anything may come in between. `openFor` is the time
since `_openedAt`, `rested` the time since the circuit was last opened or failed
while open. `upstream` is the environment.

### Lease and ManagedLock

`Lease` states the promise in the comments of `LockDriver.ts`: one holder per key; the
key passes on only through being free; only its holder moves its deadline.
`ManagedLock` is `LockManager.ts` with its three drivers over one key. Each lock
is one call of `try` or `block`. `op` is the position within the driver's
`acquire()`: the memory driver needs one command, redis `SET NX`, `GET`, `EXPIRE`,
SQLite `DELETE`, `SELECT`, `INSERT` or `UPDATE`; other processes' commands come
between them. `stage` is the position in `_runHeld`: a section whose lock is
lost goes through its finally block and is then "stray", because its callback
runs on. `beat` is a refresh whose answer has not been read. A command and its
effect at the store are one step, its answer another. At most one refresh is
in flight per lock, and `Every < Ttl` is assumed (`refreshEvery` is not
validated by the code; its default is a third of the TTL). A setting fixes the
driver and the faults of a behaviour: pauses (a tick while a lock has something
to do), `forceRelease` calls, crashes, second `acquire()` calls by the
callback, and driver errors. `KeepsPromise` maps the record to `Lease`'s holder
(nobody once it has expired) and `_acquired` to its believers.

### OnceOnly

`CacheManager.remember` and `IdempotencyMiddleware.handle` have one shape: look
(`Look`), join a call of the same process (`Coalesce`), wait for the lock
(`Acquire`, `Enter`, `GiveUp`), look again (`Check`), work, store, release and
answer those who joined (`Leave`). `StoreFails` is a `set()` that rejects, and
the call with it, after its work was done; the value may have been stored.
Requests are compared by body, as under `validateBody`;
calls of equal bodies are the default without it. `mode` says which of them a behaviour is
about: `remember` with its lock, which is refreshed (`Beat`) and whose loss
starts the factory again while the first one runs on (`Lose`, `StrayStores`);
`bare`, without a lock; and `idempotent`, whose lock is not refreshed and whose
entries are compared with the request's body (`Replay`). A value is known by who
made it and from which state of the data (`from`), which is what stale means.
`Invalidate` is a change of the data followed by `forget()`.

### ScheduledTask

One task under `withoutOverlapping()`, fired by several hosts. `running`,
`handle` and `beat` are the fields `_running`, `_lockHandle` and
`_lockHeartbeat` of each host's task object, which all its runs share; `run` is
where each run's handler is: past the flag (`guarding`), waiting for the driver
(`asking`, `granted`), running, waiting for its release (`releasing`, `released`),
over. `timers` are the intervals not yet cleared, whatever `beat` says. A call of
the driver is three steps: it is made (`Beat`, `Finish`), carried out (`Extends`,
`Release`) and answered (`Lost` or `Beaten`, `Released` or `ReleaseFails`), with
whatever else comes in between. A run has one refresh under way at most. The
calls of one host are answered in the order they were made (`Awaits`), as the
memory and SQLite drivers, which are synchronous, and redis over its one
connection do; section 6 says what another driver would break.

### CronExpression

`FieldMatches`, `DayMatches` and `Fires` are the matchers, and a behaviour is
one search: `Scan` tests a minute, goes to the next one, or skips to the next
day, as `nextRunAfter` does by the clock of the process (`NextDay` sets it to
midnight) and `nextRunAfterIn` by that of a zone (it adds what remains of 1,440
minutes); `Exhaust` gives up. There are two clocks in every search. A Date is
read and moved by its process's own, the `home`: `Local` is what it shows,
`Instant` the instant a Date is set to by its local fields, which is the first of
two in an hour that is repeated and past the gap in one that is skipped. So
`Later` (`setMinutes`) and `NextDay` may land elsewhere than so many minutes on.
And `Wall`, what the matchers of a zone read, is a Date that `wallClockIn` builds from the
zone's fields, shown by the home clock again. A clock changes at most
once. `Due` is the reference, in crontab's terms and by the zone's clock itself,
with values counted out from a token's first rather than by remainders. A field
is `Star` only if it is the text "*"; "*/1" is a token, as in the code. Hours,
days and the calendar are constants.

### Presence

One presence channel, the `Socket` of each client and the server's
`BroadcastManager`, with the connections between them: frames travel in order
in `up` and `down`, a connection `Drop`s and each end notices by itself
(`Notice` and then `OnClose`; `ServerClose`), a failed one maybe with `OnError`,
which sets the state "error", before its close event. `ws` is `_ws`, `timer` the pending
reconnect, `fetches` the requests to the auth endpoint and `asked` the calls of
the server's authorize callback that are still to be answered. A close event
says nothing about which connection it is of, as in the code. A behaviour is
signed (auth endpoint) or not (authorize callback).

## 3. Runs

`tlc -config X.cfg M` in this directory. Deadlock is checked for the circuit
breaker, which always has a step to take; the other configurations set
`CHECK_DEADLOCK FALSE` because those systems may rightly come to rest (no more
jobs, calls, frames or minutes in the bounded scenario).

| Run | Instance | Shows |
|---|---|---|
| `claims` | two debounced jobs of one key on two queues, two processes with a runner each (one a `queue:work` loop), visibility 2; one crash and one database error, or two console operations | `NoDoubleProcessing`: claims are exclusive; `KeysUnique`: a key has one free row; `NoJobLost` |
| `workflow` | a batch of two jobs, the first with a chain, the second retried; two processes, one crash; the `then` job's class is not registered, and `fromPayload` throws for the chained and the `catch` job | `ChainOrdered`; `AttemptsHonoured` (a job that failed had all its attempts, if it could be built, and no more where nothing crashes); `SuccessStands`: whatever else fails after it, crash or next job that cannot be built, a job whose handler returned is not retried or buried; `BatchCallbacksSound` (once, last, and `then` only if every job succeeded); `WorkflowProceeds`: chain and batch come to their end where nothing crashes |
| `console` | one job, one runner with a pool, two consoles, two operations, one crash, one shutdown | `EveryJobSettles`: done, failed or discarded |
| `redis` | two debounced jobs of one key and a plain one, two of the three dispatched; two workers, visibility 2, one crash | `OnePlace`; `ImplementsQueue`, the refinement of `TaskQueue`; `EveryTaskSettles` |
| `threads` | three calls, two threads, a backlog of one, one respawn per slot; two notices of threads that die, each death giving one or two | `ResultsBelong` (done means its own handler returned; one job per thread) and `NoLeakedThread`, both up to the step that takes a second notice for the successor's; `CallsAnswered` while no thread dies |
| `sections` | two locks, TTL 2, refresh every tick, all three drivers with every fault that keeps the promise | below; `KeepsPromise` is the refinement of `Lease` |
| `recovery` | three callers, threshold 2, reset time 2 | `TripsAtThreshold`: exactly; `OpenRests`: an open circuit admits nothing before its whole time is over, and closes earlier only by `reset()` or the late success of an older request; `Recovers` |
| `once` | three calls in two processes, one with another body; lock TTL 2, entries live 1; one crash, lapse, change of the data or rejected `set()` | `OneAtATime`; `OneEffect`: an idempotency key has one answer, and one effect for it beside those whose response was never stored; `StaleHeals`; `EveryCallAnswered` |
| `overlap` | three ticks on one host, one on another; TTL 2; two of crash, lapse and driver error | `NoOverlap`; `ReleasedWhenDone`; `LockComesBack` |
| `nextrun` | 324 expressions, three starts, six clocks, of which five change, any two of them as the home's and the zone's; days of three hours of two minutes, ten days of a real calendar | `FirstFound`: a search passes over no due minute and finds a due one, but for the minutes that section 6 describes (`Unseen`, `Overshot`); `SearchEnds` |
| `members` | two clients with two connections each, signed and unsigned; a drop and a leave, a leave and a disconnect, or a drop and a refusal | `NoGhost`; `OneConnection`; `ViewsAgree`: what the callbacks were told is who is there; `MembershipFollows` what each client wants |
| `spring` | as `nextrun`, by a zone's clock that skips an hour, in a process whose clock is steady | expected violation of `NothingSkipped`, section 6 |

Bounds, and why they are enough. The hazards are races of two actors about one
row, member, slot, probe, record or channel, so two runners, workers, consoles,
threads, locks or clients meet every pairwise interleaving; a third call
(`threads`, `recovery`, `once`) or tick (`overlap`) is there because a waiting
or late one must exist beside two that race. Visibility and TTL of 2 leave room
for a tick before the deadline, on it and (after a crash) past it. One crash is
enough to reach every point of every handler; what a second crash would add is
the crash of the recovery, and the theorems of section 5 allow any number. A
second connection per client is the reconnect after a drop or a `disconnect()`.
The cron instance keeps what its arithmetic rests on: several hours to a day,
several minutes to an hour, a change inside a day, at its first and at its last
hour, steps that do not divide their range, Sunday as 0 and as 7, both day
fields restricted, the end of a month. `MaxFailures` caps the breaker's
counter; `MaxLost`, `Flaps`, `MaxResets`, `Dispatched`, `Horizon` and the
`Faults`, `Events` and `setting` records bound what the environment does.

What the lock properties say: `TrustedExclusive`, two sections that both have
good reason to believe they hold the key (told so, and refreshed or within the
TTL) do not exist while processes and store are prompt; `LossNoticed`, a
refreshed section runs without its record no longer than to its next refresh;
`NothingLeftHeld`, a section that is over owns nothing; `Unblocks`, a dead
holder's key comes free, and `block` ends.

Where a property is checked without some fault, it is because the code breaks
it with that fault; section 6 lists these. `ReservationHeld` and
`FlagMeansFlight`, and the types of the redis queue, the breaker, the scheduled
task, the search and the presence channel, are not checked by a run of their
own; all of them are proved.

## 4. Fairness

* `JobQueue`: weak fairness of each runner's polling and of its next
  statement, of a batch being sent, of a console's started operation, of a
  process's drain timeout, exit and restart, and of time. The poll interval
  fires for ever (`QueueProvider.onStarted`), a database answers or rejects, a
  handler ends (its outcome is free), and a supervisor restarts processes.
  Dispatches, operations, faults and shutdowns are never required.
* `RedisQueue`: weak fairness of each worker's next command and of time.
* `WorkerPool`: weak fairness of "some thread or its parent makes progress".
  Nobody has to call `run` or `terminate`.
* `CircuitBreaker`: clients keep calling, requests settle, time passes (weak). An
  upstream that is up may answer with errors that are not counted, but not with
  them only: `Succeeds` is strongly fair. Whether it is up is free; the second half of `Recovers`
  speaks of behaviours where it stays so.
* `ManagedLock`: weak fairness of what the event loop and the store do for a
  lock, and strong fairness of `Tick`: time cannot be stopped by commands, and
  is not always enabled because a tick while something is due needs a pause
  from the budget. That a callback ever returns is not assumed.
* `OnceOnly`: weak fairness of each call's next step once it has begun (handlers
  and factories end, the cache answers), of the work that runs on after its
  lock was lost, and strong fairness of `Tick`, for the same reason.
  No call has to be made, no refresh to be lost.
* `ScheduledTask`: the driver answers and a running task ends (weak), time
  passes (strong). No tick of the cron is required.
* `CronExpression`: the search is a loop and goes on.
* `Presence`: frames on their way arrive, or their connection breaks and both
  ends notice; the auth endpoint and the callback answer; a reconnect timer
  fires. Users owe nothing, and nothing has to drop.

## 5. Theorems

Checked by `tlapm`, for all values of the constants that satisfy the modules'
named assumptions. The budgets are constants like the others, so that crashes,
lapses, errors and drops may be as many as one likes.

* `JobQueue_proofs!TypeCorrect`: `Spec => []TypeOK`. The type invariant carries
  `AwaitsOK` (what a runner at each await has in hand), without which the types
  of chains and callbacks are not preserved.
* `JobQueue_proofs!ClaimsExclusive`: until the first lapse (`InTime`), no two
  runners work on the same row, and a runner that still has to settle its job
  holds the row's reservation. Neither is inductive: a claim could be of an id
  that is yet to be given out, or a runner past its last statement could share
  its id with a row. `Exclusive` adds that claimed ids have been given out
  (`ClaimsKnown`) and that past the last statement the row is gone
  (`SettledRowsGone`); ids are never reused (`AUTOINCREMENT`). The proof goes
  statement by statement. The later ones go by what happens to the state
  instead: `RowsFrom` and `FailedFrom` say where the rows of the next state can
  have come from, `RunnerMoves` what a runner can do next, `AcceptedFrom` who
  dispatches a job, `SpendsOne` what a fault costs.
* `JobQueue_proofs!DebounceIndex`: `KeysUnique`. A key's free rows are one and
  the same (`OneHolder`), as the upsert replaces the one there is, and a retry that
  would add another is refused.
* `JobQueue_proofs!JobsKept`: `NoJobLost` until the first lapse. What is proved
  is more: a job that has neither succeeded nor been dropped stands in a row
  that no runner is about to delete, or in a failed row that no console is about
  to forget (`AllSafe`). The two statements of burying and of retrying a failed
  job write before they delete, so a crash between them duplicates the job and
  never loses it. `OwnRow` ties what a runner holds to the row it claimed.
* `JobQueue_proofs!ChainsInOrder`: `ChainOrdered`, if `LinksApart`: a link of a
  chain follows one job only, and is dispatched in no other way. Without
  it the property says nothing of the code, as a link dispatched by itself is queued before
  its turn by its dispatcher. `Linked`: what is left of a chain, in a row, in a
  runner's hand or in the failed table, is what the definition has after that job.
* `JobQueue_proofs!AttemptsKept`: `AttemptsHonoured`, through every fault, lapses
  included, if `RunsInline`: nothing is debounced and nothing runs in the pool
  (both break it, section 6). A job that cannot be rebuilt fails without its
  handler, and only the jobs that can (`Buildable`) are said to have had all their
  attempts. A row's attempts are at most the times the handler
  was entered (`RowsWithin`, `ClaimsWithin`); a runner buries what has no
  attempt left and returns what has one (`Verdicts`). That no handler is
  entered too often needs `Calm`: before the first fault a reserved row is in
  a runner's hands, so that a claim is of a free row, which has an attempt left.
* `JobQueue_proofs!BatchesSound`: `BatchCallbacksSound` through any crashes,
  stops and console operations, if nothing is debounced, a `then` job is dispatched
  by its batch only (`ThenApart`), and the behaviour was `Careful` so far: no
  claim lapsed and no statement was rejected, as either can count one job twice
  (section 6). A token of a batch is the id of one of its jobs that is
  queued or in hand and not yet counted. `Accounted`: the tokens and the jobs
  still to be sent are no more than the `pending` column says, and none is left
  when the batch was reported. `OnTheWay`: while nothing failed, a job of the batch
  that has no token has succeeded. `ThenReady`: `then` jobs in a runner's hand
  have that behind them.
* `JobQueue_proofs!SuccessHeld`: the action property `SuccessStands`. Between a
  handler's return and the end of its job there are a deletion, a chained job, a
  batch's count, a read and the callbacks, all but the last inside the try block
  whose catch retries or buries. Of what can happen there, a crash, a batch that
  turns out to have failed, a next job whose class is unknown or whose
  `fromPayload` throws, only a rejected statement leads to that catch block. It
  needs no assumption about the scenario, and crashes, lapses and console
  operations may come between.
* `RedisQueue_proofs!TypeCorrect`, and `PlacedOnce`: until a reservation lapses
  under its worker, no job is in two places, through crashes of every kind. The
  invariant `PlaceInv` says it of the structures (`Distinct`, `Apart`), of the
  workers' hands (`OneHand`) and between them (`Exclusive`); every reservation
  but an expired one is some worker's (`Attended`). The hard case is a worker that
  searched a set and promotes what it found after others have: `Stale` says that
  the members of an old search which are still reserved have expired, and that
  a job's attempts only grow, so that `ZREM` of an old member fails unless it is
  the same reservation.
* `RedisQueue_proofs!PromiseKept`: `ImplementsQueue`, the refinement of
  `TaskQueue`, if `Timely`: no worker dies with a member in hand, and no reservation lapses
  (section 6 says what happens otherwise). `Ended` adds that a job which
  succeeded, failed or was replaced is in no place. There is a lemma for
  every command, which names the step of `TaskQueue` that it is.
* `WorkerPool_proofs!TypeCorrect`, and `ResultsTrue`: `ResultsBelong` and
  `NoLeakedThread` for any number of threads, calls, deaths, notices and respawns, up to
  the step in which the parent takes a second notice of a thread for one of its
  successor (`misled`; section 6 says what happens then). The types hold beyond
  it. A reply names no call, so that everything rests on `Sound`: a thread that lives,
  or whose events have not all been handled, is its slot's; it has work or an
  answer only while its slot is busy, and then it is for the call the slot holds
  (`Serves`). The parent's handlers are compositions of functions of the pool's
  state, and the lemmas follow them: each function returns a sound pool if it is
  given one, also between two of them.
* `CircuitBreaker_proofs!TripsExactly`: types, `TripsAtThreshold` and
  `FlagMeansFlight`. The strengthening `CountsStreak` ties the counter to the
  number of consecutive failures while the circuit is closed.
* `CircuitBreaker_proofs!OpenRestsWhole`: the action property `OpenRests`. Every
  way into "open", and every late failure in it, sets the stamp anew
  (`StampTells`), and only a call that finds the stamp old enough leaves it for
  "half-open". The ways out to "closed" that the property names are the code's:
  `reset()`, and the success of a request admitted before.
* `ManagedLock_proofs!TypeCorrect`, and `ManagedLock_proofs!LeaseKept`: every
  step of the locks over any of the three drivers is a step of `Lease` or a
  stutter, for any number of locks, under `AcquiredOnce`: a lock of the SQLite
  or redis driver is not acquired a second time by its callback. The assumption
  is needed (section 6). The inductive invariant `Newcomers` says that a lock
  that has not been granted the key yet does not own the record, so that no
  lock ever takes the path that extends a record found to be its own.
* `ManagedLock_proofs!SectionsExclusive`: `TrustedExclusive`, for any driver, TTL
  and refresh interval. A lock's `age` is the time since it was granted or
  refreshed, and it says nothing about the store by itself, whose deadline was
  set some commands before or after. The invariant `TimelyInv` bounds the
  record's deadline from below by each lock's age: no time passes within a
  pending acquire (`Fresh`), so what its commands found still holds
  (`Founded`); a section that was told yes owns the record for the TTL less its age,
  or, if it refreshes, for long enough to see its next refresh (`Backed`).
* `ManagedLock_proofs!LossesNoticed`: `LossNoticed`. `Noticing`: the time since
  the loss and the time to the next refresh are together within the interval.
* `ManagedLock_proofs!NothingStaysHeld`: `NothingLeftHeld`. `Spare`: a lock
  that has not asked, was refused, was told of its loss or has released does not own the record.
* `Scheduler_proofs!RunsAlone`: types, `NoOverlap` and `ReleasedWhenDone`.
  The flag alone gives neither, since two ticks may pass it together; between
  hosts, `NoOverlap` speaks of tasks whose lock is refreshed and has not lapsed.
  `RunFields` says that a host's flag, handle and interval belong to its one
  running run, `Holders` that a run which passed the flag while another of its
  host was on its way finds the key taken or that other over. `Calls` says who
  waits for which answer: a run for those of its own refresh and release, and
  no other run of its host is running until both have come. The lock of a run
  can lapse only while it runs, as the driver's answer to a run that asks comes
  within the TTL.
* `OnceOnly_proofs!WorkedOnce`: types, `OneAtATime` and `OneEffect`. `Leads`:
  a call that works is the one its process's other calls join. `Guarded`: until
  a disturbance only the holder is past the lock. `Effects`: handlers that
  succeeded number at most the crashes and rejected `set()`s (`Unstored`) plus
  one, the one whose response is stored or about to be, and only that response
  is ever seen.
* `Presence_proofs!NoGhosts`: types, `NoGhost` and `OneConnection`. `Asked`:
  callbacks are pending only in unsigned behaviours and for connections that
  opened. `Sole`: unless somebody connected hastily, a live connection is the
  `_ws` of its client, which has none while a close event of another is still
  to come.
* `Presence_proofs!ViewsHold`: `ViewsAgree`, unless somebody connected hastily.
  `Shown` looks through the frames under way: for every connection, the last
  one that speaks of it (a `here` frame speaks of all) tells the truth of its
  membership, or, if there is none, the view does. Hasty connects are excluded because
  the property is false with them (section 6).
* `Scheduler_proofs!FindsFirst` and `SearchMovesOn`: for any calendar, any
  expressions and lengths of hour and day, and any clocks of the process and of
  the zone, skipping or repeating, what a search finds is the first due minute
  after its start, but for the minutes `FirstFound` excepts; and its cursor
  never falls back. The clocks are assumed `Tame`: what a change skips or repeats is at most
  half a day and, with the hour after one that is skipped, within one date. (An
  hour that is skipped within the last of a day, or skipped or repeated over a
  midnight, is left out.) The lemmas are about quotients and
  remainders, and about the two clocks: a Date set by its local fields shows
  them but for the gap, moves on with them, and never stands on the second of
  two instants that show alike; the minutes a day skip passes over share the
  day that was found not to match, or are what the zone's clock gained.

Every invariant and every action property that a passing run checks is the
subject of a theorem, under the conditions named above. Only model-checked: the
liveness properties, which are outside this prover's reach, as are ENABLED and
induction over data.

## 6. Where the code falls short of what it says

One run checks a statement of the repository that the code violates, and
PROJECT.json lists it under `findings`:

* `spring`: `nextRunAfterIn` skips a day by adding what remains of 1,440 minutes
  (`CronExpression.ts:345`), so on a day that is an hour short it passes over
  the first hour of the next; its comment (line 342) says that a change costs
  extra probes "and nothing else". `NothingSkipped` is that sentence without an
  exception; `FirstFound`, which `nextrun` checks, has the exceptions that are
  listed under "Scheduler" below.

Met while modelling, and the reason why some property is checked without some
fault or shape of input.

Queue, SQLite driver:

* `retry()` and `delete()` go by row id alone, so a runner whose claim lapsed
  frees the next runner's claim (`SqliteDriver.ts:253`, against the comment at
  line 210). This is what `InTime` excludes.
* A database error after the handler returned reaches the catch block meant for
  the handler: the job is retried or buried although it succeeded
  (`QueueManager.ts:385`, against the comment at 493). `SuccessStands` says that
  nothing else does this.
* A job whose class is registered but whose `fromPayload` throws spends its
  attempts and is buried without its handler being entered (`QueueManager.ts:378`;
  `jobPolicy.test.ts:157` wants it so). `FailedAfterMaxAttempts` speaks of the others.
* A database error while a finished job's batch is counted leads to the same
  place, whose own count is then the second one for that job
  (`QueueManager.ts:387` and the catch block): the batch may finish, and be
  reported, while another of its jobs is still to run. `BatchesSound` excludes
  errors.
* After a crash a row is claimed again whatever its attempts
  (`SqliteDriver.ts:217`, against `Job.ts:7`). `AttemptsBounded` speaks of
  behaviours without faults.
* A debounced replacement inherits the attempts of the row it replaces
  (`SqliteDriver.ts:195`), and two jobs of a batch that collapse into one row
  leave the batch unfinished (line 194). `FailedAfterMaxAttempts` and
  `BatchFinishes` are checked for jobs without a key.
* A crash between the row's deletion and the chain's push or the batch's count
  loses the rest of the workflow (`QueueManager.ts:384-387`).
  `WorkflowProceeds` speaks of behaviours without crashes.
* On the inline path, a batch with a job of an unregistered class never
  finishes (`QueueManager.ts:379`; `docs/queue.md:561`).
* A claim in flight when `drain()` is called is not waited for
  (`QueueManager.ts:246`; `docs/queue.md:438`).
* A pool that refuses a job spends one of its attempts
  (`QueueManager.ts:258`, against `WorkerPool.ts:20`).
  `FailedAfterMaxAttempts` is checked on the inline path.

Queue, redis driver:

* A worker that dies with a member in hand, between the command that removed it
  from one structure and the one that adds it to the next, loses the job
  (`RedisDriver.ts:176`). The fault `torn` is this; `redis` has none.
* The debounce key is given up after the promotion by `HDEL`, whoever holds it by then
  (`RedisDriver.ts:185`): a job dispatched in between loses its key and the next
  dispatch no longer replaces it.
* A reservation that lapses under a live worker is worked on twice, and both
  settle it (fault `lapse`). It is stamped with the time `pop` began at, before the
  promotions (`RedisDriver.ts:214`, 229), so that a slow `pop` leaves its worker less
  than the visibility timeout, or nothing.
* `flush()` deletes the counter that ids come from, so that ids are used again
  while workers may still hold old ones.

Worker pool:

* A thread's death while calls wait hands the next one to the dead thread
  (`WorkerPool.ts:168`; its comment at line 88): it is posted to a thread that no longer
  reads, and its slot marked free (line 100). Unless the next thread dies before the slot
  is given another call, nothing answers it. `CallsAnswered` speaks of behaviours without deaths.
* If one death fires both `error` and `close`, the second notice fails the
  call already given to the replacement and spawns a further thread
  (`WorkerPool.ts:137`). From that step on the replacement is leaked, and its answer
  is taken for that of the call its slot holds by then: `ResultsBelong` and `NoLeakedThread`
  are stated up to it.
* A job posted to a replacement that is still loading is answered with an error,
  which spends one of its attempts although no handler ran (`queue-worker.ts:62`).
* `run()` after `terminate()` waits for ever: the list of workers is empty, for
  which the check for live workers does not apply (`WorkerPool.ts:205`).

Circuit breaker and locks:

* The success of a request that was admitted before the circuit opened closes it
  at once, with none of its time over and no probe (`CircuitBreaker.ts:109`,
  137). The table of transitions (lines 51-55) has no way from "open" to "closed".
  `OpenRests` allows for it by name; nothing else opens the circuit to calls early but `reset()`.
* The breaker lets a second probe through when an old request's finally block
  clears the flag (`CircuitBreaker.ts:123`; line 49).
* One failed refresh counts as a lost lock (`LockManager.ts:371`; line 24).
* A second `acquire()` by the same lock is not atomic over redis
  (`RedisLockDriver.ts:84`) and SQLite (`SqliteLockDriver.ts:45`): if the key
  lapses and is taken in between, it moves another's deadline and answers
  true. With a pause `KeepsPromise` fails.
* A refresh answered after the release sets `expiresAt` again on a lock that is
  no longer held (`LockManager.ts:151`). Nothing reads it back.

Cache and idempotency:

* A value made before `forget()` is stored after it and served until its TTL
  (`CacheManager.ts:170`). `StaleHeals` says no longer than that.
* The idempotency lock is not refreshed, and a waiter gives up on it and runs
  the handler (`IdempotencyMiddleware.ts:291`): a slow request runs twice. This
  is what `Undisturbed` excludes.
* A `cache.set` that rejects after the handler ran fails the request
  (`IdempotencyMiddleware.ts:262`), whose retry runs the handler again. `OneEffect`
  counts one more effect for each.
* A request that joins one in flight gets its response whatever its own body is,
  also under `validateBody` (`docs/cache.md:317`: the same key with another body
  is answered 422).

Scheduler:

* Two ticks of one host may both pass the running flag (`ScheduledTask.ts:494`,
  comment at 336). The lock refuses the second; without a lock manager, or with
  `crossProcess: false`, both run. `runNow()` uses neither flag nor lock.
* A driver that answers later than the lock's TTL gives a run a lock that has
  lapsed.
* The handle and the interval are fields of the task, and the code that a
  refresh's or a release's answer resumes clears them, whosever they are by then
  (`ScheduledTask.ts:345`, 369, 399). With a driver that answers a host's calls out of
  order, the next run of that host loses its interval, and with the handle the way to
  release its lock. The drivers of the repository answer in order.
* `SchedulerManager.add` replaces a task of the same name without stopping it.
* In the hour that a process's clock repeats, a Date moved by its local fields
  goes to the first of two instants that show alike (`CronExpression.ts:327`, 338).
  Started in the second, either search may return an instant before the one it
  was given (its comment: strictly after); and due minutes of the second are found by neither.
* In the hour that a process's clock skips, `wallClockIn` cannot hold another zone's
  time, as it builds a local Date of it (`CronExpression.ts:44`): the searches and
  `matchesIn` take such a minute for one an hour later, and a task due in it
  is missed or, due in the other, runs twice. Servers on UTC have neither hour.
  `FirstFound` excepts these minutes (`Unseen`).
* A day skip of `nextRunAfterIn` adds minutes by the process's clock
  (`CronExpression.ts:345`). If the zone's clock gains on it between (the zone springs
  forward, or the process falls back), it lands past the zone's midnight by what
  was gained, and the minutes before are not looked at: `spring`, and
  the exception `Overshot` of `FirstFound`.
* A day field "*/1" is restricted, as the code compares the text with "*"
  (`CronExpression.ts:206`, 366): with a weekday beside it either will do. A
  field `n/step` matches only `n`.

Broadcasting and socket:

* A close event clears `_ws` whichever connection it is of (`Socket.ts:477`). If the
  user, or a pending reconnect timer, connects before it arrives, a second
  connection is opened beside the first. The model calls this hasty and
  `OneConnection` excludes it. A late `here` frame of the first is then taken for
  the second one's, whose view is wrong from there on; `ViewsHold` excludes that.
* An unsigned subscription is added after its callback, for a connection that
  may have closed meanwhile (`BroadcastManager.ts:314`): the member stays.
  `NoGhost` is stated for signed channels.
* An `error` frame, or the connection's own error event (`Socket.ts:307`), sets the
  socket's state to "error", in which channels joined later are not subscribed
  until it reconnects.
* A signature requested before a channel was left and joined again may be
  refused after the second one was accepted: the channel is told "denied" though
  it is subscribed.
* Members are known to the callbacks by user, to the server by connection: a
  reconnected user is announced as gone when the old connection's end is
  noticed. The model's members are connections, for which views do agree.
* A channel subscribed twice on one connection announces its member twice.

## 7. What is not modelled

Inside modelled components:

* Queue: the read-only listings and events, backoff policies other than a
  constant delay, payload serialisation; for redis also `flush`, the failed
  list's retry and removal, batches and chains (`JobQueue` has the manager's
  part of them, over SQLite).
* The liveness beat of the pool; `expiresAt` of a lock; the lock facade;
  several keys (they do not interact).
* Cache: drivers, tags, scopes, `increment`, `flush`, null values; the
  middleware's key from session or user and its 24 hours, which outlive all calls of
  the model.
* Scheduler: the builder, hooks and output of tasks, `runNow`, the manager's
  registry; parsing, validation and description of cron text.
* Broadcasting: public and private channels, which are presence channels
  without members; pings, backoff lengths, listeners; several
  channels of one socket.

Components marked `not_modelled` in `PROJECT.json`, each with its reason.
By lines most of the repository is request-scoped code, rendering, compilation
of templates, query building and user interface (flow, admin, monitor, orm,
inertia, validator): sequential transformations of data whose correctness is
not a matter of states and orders, and which its unit tests reach. So `map`
covers the packages where state is shared and time passes, and a small share of
the repository as a whole.

## 8. Plan

What would come next, in the order of its worth:

1. `SyncDriver` against `TaskQueue`, and `JobQueue` over it.
2. Session (regeneration beside concurrent requests) and rate limiter (windows).
3. ORM transactions with savepoints, and concurrent migrators.
4. Emitter, container and lifecycle; flow's request protocol.
