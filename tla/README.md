# A TLA+ verification of jobor

jobor is a job queue for Node.js: clients add jobs to named queues, an adapter
keeps them, and process functions work on them, with retries, cancellation, a
graceful stop, and buffers that hold jobs back until they are flushed. This
directory holds TLA+ models of its parts, translated from the source under
`packages/`, `bufstores/` and `adapters/`, the TLC configurations that check
them on small instances, and proofs of the properties that matter most for
every value of the constants.

Paths and line numbers below are those of the repository. Short names:
*strategy* is `packages/core/src/polling-job-queue-strategy.ts`, *in-memory
adapter* is `packages/core/src/adapters/in-memory-job-queue-adapter.ts`.

## 1. Inventory

### Parts, their state and their operations

| part | state | operations | talks to |
|---|---|---|---|
| `Job` (job.ts) | state, attempts, retries, settledAt, progress listeners | start, complete, fail, cancel, defer, setProgress | one object is shared by everyone who has the job |
| `ActiveQueue` (strategy) | running, activeJobs, the poll timer, one race per running job | runNextJobs, stop, onFailOrComplete | calls next and update of the adapter and the process function; listens to progress |
| `PollingJobQueueStrategy` | activeQueues, `started` of the base class | start, stop, cancelJob | owns the ActiveQueues |
| in-memory adapter | the map `jobs`, the lists `unsettledJobs`, eviction timer | add, next, update, findOne, findMany, removeSettledJobs | subclass of the strategy |
| `BaseJobQueueAdapter` | `_initialized`, `started` | init, destroy | starts the queues that were noted down before init |
| `JobQueue` (job-queue.ts) | running | start, stop, add | adapter, JobBufferService |
| `JobQueueService` | isStarted, queues | createQueue, start, stop, buffer methods | JobQueue, adapter |
| `JobBufferService`, `JobBuffer` | the set of buffers | addBuffer, removeBuffer, add, flush | user code collect() and reduce(), the store, the adapter |
| buffer stores | a list of jobs per buffer, in memory or in Redis | add, flush, bufferSize | Redis: LPUSH, LRANGE, DEL, SCAN |
| `BullMQJobQueueAdapter` | queue, worker, processor, `stopped` | init, destroy, start, stop, add, cancelJob, getState, findMany | BullMQ, Redis |
| `SubscribableJob` | nothing of its own | updates() | polls findOne of the adapter |
| queries | nothing | filters, sorting, pagination | read by findMany |
| `RedisHealthIndicator` | a timer | isHealthy | a connection of its own, PING |
| LoopBack component | nothing | the observer's start and stop | awaits start and stop of the service |
| facade, process context, logger | wiring | | |

### What is hard

The program is single-threaded, so nothing is a data race; what is hard is the
*await*. Between two awaits any other call may run, and the code often uses
after an await what it read before it:

- the loop counts its active jobs once and then awaits twice per job;
- a process function cannot be interrupted, so a stop, a cancellation or a
  second start meets process functions that go on and answer late;
- stop() is a signal that reaches only those who listen at that moment;
- one Job object is in a map, a list, an active list and user code at once;
- cancelJob, removeSettledJobs and the eviction change jobs that run;
- two flushes and an add of one buffer overlap, and collect(), reduce() and the
  adapter may throw in the middle;
- the Redis store flushes with two commands, either of which may fail;
- a client polls one job, or walks through pages of many, while they change;
- on BullMQ what is read of a job is put together from several answers;
- the time limit of a stream races with late answers;
- start(), stop() and createQueue() of the service overlap.

Nothing is persisted by the parts modelled here but the Redis list of the
buffer store and what BullMQ keeps: a job whose Worker is gone is found stalled
and tried again by BullMQ.

### What makes each part correct

- *ActiveQueue and adapter*: a job is in one hand at a time; nothing is
  dropped; never more than `concurrency` active jobs; at most `retries` + 1
  attempts; a job that is over stays over; every job settles; stop() resolves.
- *Buffers*: what a buffer collected is in the store or in one flush, and is
  queued once per visit of that flush; a flush that resolves has queued all it
  took of the buffers that are registered.
- *Service*: a queue that reports to be running has an ActiveQueue; a started
  service has forgotten no queue; the adapter is initialized exactly while the
  service is started.
- *BullMQ adapter*: it reports a job as removed only if it was, as far as its
  questions can tell; a cancelled job never runs afterwards; the Worker is open
  while the service is started and closed after.
- *SubscribableJob*: what a stream tells is true and moves forward, its last
  value is the settled job, and it ends.
- *Queries*: a page holds the right jobs in the right order, and the pages of a
  walk, put together, miss nothing that was listed all the time.
- *Job data*: a job has a copy of the client's data that nothing the client does
  later can reach, and keeps it through a buffer on Redis.

## 2. Modules

| module | models | proofs |
|---|---|---|
| `Job` | the methods of job.ts that change what happens to a job, as operators from record to record | lemmas in `PollingQueue_proofs` |
| `PollingQueue` | one queue name: in-memory adapter, strategy, ActiveQueues, process functions, clients | `PollingQueue_proofs`, `PollingQueueCustody_proofs`, `PollingQueueStates_proofs`, `PollingQueueActive_proofs` |
| `WorkQueue` | what a queue promises about custody, abstractly | refined by `PollingQueue` (TLC and TLAPS) |
| `BufStore` | what a `JobBufStore` promises: add and an atomic flush | refined by `JobBuffers` in memory (TLC and TLAPS) |
| `JobBuffers` | JobQueue.add, JobBufferService, both stores | `JobBuffers_proofs` |
| `JobData` | the constructor of Job, and the conversion of a job to a string on Redis and back, as operators | |
| `MCJobBuffers` | `JobBuffers` and `JobData` together, with what TLC needs | |
| `ServiceLifecycle`, `MCServiceLifecycle` | createQueue, start and stop from the service down to activeQueues and the eviction timer | `ServiceLifecycle_proofs` |
| `BullMQAdapter`, `MCBullMQAdapter` | the BullMQ adapter: queue, Worker, health check, findOne and cancelJob, on an external BullMQ | `BullMQAdapter_proofs` |
| `JobQueries` | findMany of both adapters, as operators, and what a page is | lemmas in `JobReads_proofs` |
| `JobReads` | updates() and a walk through the pages, while the jobs change | `JobReads_proofs` |

`PollingQueue` extends `Job`; `JobReads` extends `JobQueries`; `PollingQueue`
instantiates `WorkQueue` and `JobBuffers` instantiates `BufStore`, each with a
refinement mapping.

### `PollingQueue`

A step is the code between two points where a function gives up the thread.

| variable | code |
|---|---|
| `jobs` | the Job objects, shared by reference, hence one entry per job |
| `store` | keys of `InMemoryJobQueueAdapter.jobs` |
| `unsettled` | `unsettledJobs[queueName]` |
| `registered`, `running`, `active` | `activeQueues`, `ActiveQueue.running`, `activeJobs`; a stopped ActiveQueue lives on as long as its loop and runs do, so each start() takes a fresh index |
| `loop`, `index`, `held` | where runNextJobs is, its `i`, its `nextJob` |
| `stopping` | the promise of `ActiveQueue.stop()` |
| `runs` | one record per call of process: the race, then the then-callback, the finally-callback and onFailOrComplete, and whether the function is still at work |
| `cancelling` | cancelJob calls between findOne and cancel() |

| action | code |
|---|---|
| `Add` | in-memory add |
| `CancelJobBegin`, `CancelJobFinish` | cancelJob before and after its await |
| `RemoveSettledJobs`, `EvictSettledJobs` | removeSettledJobs, by a client or the timer |
| `StartQueue`, `StopQueue` | start, stop up to their first await |
| `PollTimer` | setTimeout(runNextJobs): the count and the first next() |
| `Accept`, `NothingToDo` | next() resolved: push and update(), or the next turn |
| `Launch`, `LaunchThrows` | update() resolved: process is called and the race subscribed, or process threw and the catch ended the pass |
| `ProcessEnds`, `CancellationTick` | the process function ends, the cancellation poll fires; with `StopQueue` the three ways to decide a race |
| `Settle` | the then-callback: defer, cancel, complete or fail |
| `FinallyReturns`, `FinallyUpdates`, `RemoveFromActive` | the finally-callback: its early return, update(), removeJobFromActive |
| `ReportProgress` | setProgress and every listener still attached |
| `StopDrained`, `StopTimedOut` | pollActiveJobs |

Timers fire only when no promise callback is due (`Quiet`), as in Node.js.
Clients and process functions step at any moment.

Abstracted: payload, result, error, dates and priority, which decide nothing
here; time, so a RETRYING job may or may not be through its back-off at any
poll, and any set of settled jobs may be old enough to be evicted; ids, which
the code draws at random (two jobs never get the same one in the model);
the filter on queue names of removeSettledJobs (there is one queue); the
optional `waitingJobs` of next(), which nobody passes; a throwing
backOffStrategy; findOne of one tick of the cancellation poll, taken as one
step, since it sees the shared object.

### `JobBuffers`

Each call of `JobQueue.add` (`adding`, `asked`, `collectedBy`) and of
`JobBufferService.flush` (`flushing`, `wanted`, `todo`, `at`, `taken`, `batch`) is
an actor. Each await of the code is a boundary between two actions. collect() may
say yes, no or throw; reduce() returns the jobs, or one job that stands for all
of them, or throws (which has the effect of the first). The in-memory store
answers in one step, Redis one command per step.

`JobBufferService.buffers` is a JavaScript `Set`, through which add() and flush()
go while buffers come and go. It is modelled by `places`, one for each call of
addBuffer(), and `live`, the places that were not removed; a loop is at a place
and goes on to the next live one (`NextOf`). Only ids that are registered at the
moment are refused, so a buffer that was removed may be registered again, also
while the store has jobs of it. It then has a new place at the end, and a loop
that was at its old one comes to it once more: add() may collect a job for it
twice, and flush() may reduce and queue the same jobs twice. `Collections` and
`visited` count these visits.

A buffer has the *set* of its jobs, as in the in-memory store. A list on Redis
would have a job twice that was collected twice, which is not told apart.
`queued`, `wanted` and `visited` are history: how often the adapter was given the
work of a job, which ids a flush was called with, which places it came to.

| action | code |
|---|---|
| `AddBuffer`, `RemoveBuffer` | addBuffer, removeBuffer |
| `Add`, `Declined`, `Collected`, `CollectThrows` | JobQueue.add and the loop over the buffers: collect() says no, yes, or throws |
| `StoreAnswers`, `StoreThrows` | the store has the job, or the push to Redis was refused |
| `Enqueue`, `EnqueueThrows` | adapter.add of a job nobody buffered; its error is swallowed |
| `FlushMemory` | flush() of the in-memory store |
| `FlushRedis`, `Scan`, `ReadList`, `DeleteList`, `ParseThrows` | flush() of the Redis store: SCAN, then LRANGE and DEL per key; a string that cannot be parsed rejects the flush after its list was deleted |
| `Visit`, `Reduce`, `AddReduced`, `AddReducedThrows` | the rest of JobBufferService.flush |

`BufStore` is what the interface promises: a job is held until exactly one flush
returns it, and a flush that names no buffer clears and returns all. The
refinement maps `stored` to `held`, `taken` to `given` and `wanted` to `asked`;
everything that happens between the answer of the store and the end of the call
is a stuttering step, which is the claim that nothing a flush was given changes
afterwards. The interface says of the empty list of ids "clear for _all_ bufferIds"
(job-buf-store.ts:38), and so does `BufStore`. The in-memory store does not keep
this: it tests the list with `??`, so an empty one clears nothing. The refinement
is therefore stated for the calls that name buffers (`NamedImplementsBufStore`); a
call with the empty list is a stuttering step of it, so it changes nothing. Redis
takes the empty list for all buffers, but does not implement `BufStore`, as
`buffers_redis` shows.

### `JobData`

The objects of a client are a heap: objects with fields, which hold scalars,
dates and references, also circular ones. `EnsureDataIsSerializable` is the
recursion of the constructor with its depth limit, `NewJob` the constructor,
`ToJobConfigString` and `ToJob` the conversion to what superjson writes and
back. Strings are not spelled out: one stands for the configuration it is parsed
to. `CopyIsFaithful` follows every path of keys through the client's objects and
through the copy; what a getter returns is handed on uncopied, so it is shared
with the client (job.ts:256), and such objects are left out of
`BufferedJobIsSame`. The data is not in the state of `JobBuffers`: the
properties `DataIsCopied` and `JobSurvivesBuffer` of `MCJobBuffers` speak of all
data within the bounds at once, at the step that adds the first job.

### `ServiceLifecycle`

| action | code |
|---|---|
| `CreateQueue`, `CreateQueueEnds` | createQueue before and after the await of its start |
| `Start`, `Initializing`, `StartNext`, `StartEnds` | JobQueueService.start: init(), the loop of doInit(), the loop over the queues |
| `ArmTimer`, `EvictionTimer` | doInit() of the in-memory adapter arms the eviction timer, which arms itself again when it fires |
| `Stop`, `Destroy`, `StopEnds` | JobQueueService.stop: all queues stopped at once, then destroy() up to its await, and doDestroy(), which clears the timer the adapter refers to |

`timers` are the timers that are armed, `timer` the one the adapter refers to.
A timer that nobody refers to any more can never be cleared.

The loop of an ActiveQueue is left out: starting one adds it to `active`,
stopping takes it out, and how long it drains is the gap between `Stop` and
`StopEnds`. The continuations of different calls come in any order here, while
the event loop serves them in the order in which they became due. The model
so has more behaviours than the program; a property that holds of the model
holds of the program. The one violation reported for it needs no such
reordering: a stop() that waits for a running job, and a start() meanwhile.
`awaited` is chosen once: whether the clients of this run await start() and
stop() before they call one of them again. createQueue() is free either way.

### `BullMQAdapter`

The service drives the adapter as in `ServiceLifecycle`, but its calls of
start() and stop() are awaited here, and the steps of init(), stop() and
destroy() between which the service or Redis gives up the thread are apart.

| action | code |
|---|---|
| `Start`, `InitQueue`, `InitProcessor`, `StartNext`, `StartEnds` | init() of the adapter (Queue and isPaused, processor), then the loop of JobQueueService.start |
| `CheckConnects`, `CheckTimesOut`, `PingAnswers`, `CheckFails` | the health check, if there is one: connection with its time limit, ping without any, errors |
| `ResumeThrows` | isPaused() or resume() fails |
| `CreateQueue` | createQueue, at any time: while init() waits it makes a Worker without a processor (`idle`) |
| `Stop`, `Destroy`, `Quit` | stop(), whose flag is never reset; destroy() up to close(), and after it |
| `Add`, `RemoveSettledJob` | add, removeSettledJobs |
| `FindBegin`, `Ask`, `Conclude`, `Disconnect` | findOne: getJob, then one question of getState per step |
| `CancelBegin`, `CancelAsk`, `CancelRemove`, `CancelReturn`, `CancelDisconnect` | cancelJob: getJob, isActive, remove, getState |
| `Take`, `Complete`, `Throw` | the Worker takes a job and runs the processor |
| `Promote`, `Stall` | BullMQ itself |

BullMQ is external: a job is in one of its lists (`place`), a Worker that is not
closed takes any waiting job, a failed job is delayed until its attempts are
used up, a job whose Worker was closed by force is found stalled and tried again
or given up, and a locked job cannot be removed. A job that is added with a
priority waits in a list of its own (`prioritized`), which getState() does not
ask for, so that it is reported CANCELLED while it waits. A start() whose
init() fails leaves the flags `_initialized` and `isStarted` up (phase
`failed`): only a stop() leads on from there, and a second start() does nothing.
The lists waiting-children, paused and repeat (nothing puts a job there), data
and dates are left out. findMany is in `JobReads`. `seen` and `back` of a findOne
call are history variables for `UnknownStateIsRemoved`. The options are taken to
hold connection options and not an ioredis object; with such an object destroy()
quits the caller's connection and a second start() cannot work.

### `JobQueries` and `JobReads`

`JobQueries` has findMany of both adapters as operators from the stored jobs and
the options to a page: sorting by one property after the other with a comparison
that never answers equal, filters with the operands that applyFilters looks at,
pages; and for BullMQ the choice of lists and the Lua script. `IsPage` says what
a page is without saying how it is found. Sorting is not left to a library:
`Ranked` puts the elements of a set in an order by how many come before each, and
`Arranged` and `Remaining` take the elements of a list at given places, so that
TLC can evaluate and TLAPS can reason about the same definition.

`JobReads` lets jobs change, in the steps that a reader can tell apart, and has
one reader per behaviour:

| action | code |
|---|---|
| `Add` to `Cancel`, `RemoveSettled` | what PollingQueue and BullMQAdapter do to a job: added, started, progress, completed, failed, given back, cancelled, removed |
| `LateOutcome`, `LateUpdate` | in memory a cancelled job that is not over goes on: it is picked, its process function ends or reports progress, and update() stores it, also when it was removed (`Updates`) |
| `PutBack` | cancelJob, or a run whose outcome was set before the job was removed, stores it again |
| `TickTimesOut`, `TickThrows`, `TickReads`, `TickAsks` | a tick of interval(): the time limit, a job without an id, findOne() in memory, findOne() on BullMQ |
| `GetJob`, `GetState`, `FindOneThrows` | the answers of findOne() on BullMQ; switchMap() forgets a call that the next tick overtakes |
| `Emit` | distinctUntilChanged, takeWhile, and the tap that throws for FAILED |
| `WalkBegins`, `PageFromMemory` | a client asks for one page after the other until one is empty |
| `Script`, `FromId`, `CreateJoborJob`, `FindManyThrows` | findMany() on BullMQ: the script, each job, each state |

On BullMQ a job may be added with a priority (`urgent`). While it waits it is in
the list `prioritized`, which neither getState() nor ALL_JOB_TYPES names
(`IsHidden`): findOne() reports it CANCELLED, and it is on no page of findMany().
In memory update() is a `Map.set`, so a removed job that a run still has comes
back at the end of the map; `putBack` are the jobs to which that has happened. A
job is `over` when it has COMPLETED or FAILED; a job that its own progress listener
has put into the list a second time (see `FinishedIsFinal`) is left out here.

In memory an answer is the live Job object, so distinctUntilChanged compares it
with itself; on BullMQ it is a copy. `heardSettled`, `there` and `onlyGrew` and
the times in an update are history variables. updates() may also be called on
what add() returned for a buffered job (its id is 'buffered') or for a job the
adapter refused (no id). The operand `contains`, `filterOperator`, which the
code declares and never reads, and findManyById are left out.

## 3. Runs

| run | checks | instance |
|---|---|---|
| `polling_restart` | `TypeOK`, `ConcurrencyLimit`, `SingleCustody`, `ActiveAccounting`, `ImplementsWorkQueue` | 3 jobs, 1 retry, back-off, concurrency 2, 2 process functions on the queue name, one job's process throws synchronously, stopped and started again |
| `polling_cancel` | `AttemptsBounded`, `CustodyMatchesState`, `FinishedIsFinal` | 2 jobs with 1 retry, one cancellable at any moment, one that reports progress, settled jobs removed, restart |
| `polling_liveness` | `InCreationOrder`, `EveryJobSettles`, `CancelFreesPlace`, `StopResolves` | 2 jobs, one with a process function that never returns and that may be cancelled |
| `buffers` | `TypeOK`, `MemoryKeeps`, `MemoryTakesOnce`, `QueuedOncePerVisit`, `FlushDelivers`, `NamedImplementsBufStore`, `DataIsCopied`, `JobSurvivesBuffer` | 2 buffers and 2 registrations, 2 jobs, 2 flushes (1 on Redis), both stores, failing adapter, pushes and parses; data of 2 objects with 2 keys, depth limit 2 |
| `service` | `TypeOK`, `RunningIsServed`, `AdapterFollowsService`, `StartedRunsAll`, `OneEvictionTimer` | 3 queues, 2 of them active names, 3 starts and 3 stops, awaited or not |
| `bullmq` | `TypeOK`, `UnknownStateIsRemoved`, `CancelledIsOver`, `StartedHasWorker`, `NoWorkerLeftBehind` | 1 job with 1 retry, with or without a priority, 2 queue names of which one is active, a findOne, 2 calls of cancelJob, 2 starts, failing checks |
| `reads` | `TypeOK`, `CompletedTellsOutcome`, `OutcomeIsReal`, `CopiesEndStream`, `UpdatesMoveForward`, `StreamEnds`, `WalkMissesNothing`, `WalkRepeatsNothing`, `PageIsRight` | 3 jobs of 2 queues, two of which may have a priority, 5 changes, both adapters, a stream with 4 ticks before its time limit, or a walk with pages of 1 or 2 jobs and every kind of filter and sorting |

What the properties say is stated above each of them in the modules. In short:

- `SingleCustody` and `ImplementsWorkQueue`: although stop() gives a job back
  while its process function still works, a second attempt begins only after
  the first has let go of the job; late answers are ignored. The refinement
  maps an entry, the hand of a loop and an open run to `waiting`, `claims` and
  the rest to `finished`, and every step is a step of `WorkQueue` or none.
- `ActiveAccounting`: `removeJobFromActive` splices at indexOf without a test
  for -1; the job is always there, so no other job is ever dropped.
- `CustodyMatchesState`: nothing is dropped but by the two known paths, the
  early return of the finally-callback after stop(), and a synchronous throw.
- `FinishedIsFinal` and `SingleCustody` leave out jobs that report progress: the
  progress listener of an attempt outlives it (it is taken off in the
  finally-callback), and update() of a job that is back in the list inserts it a
  second time. `CustodyMatchesState` holds in spite of it. So does
  `ActiveAccounting`, with the same job twice in one list; for that the instance
  would need concurrency 2 beside cancellation and progress, which is too large,
  and the theorem has to do.
- `CancelFreesPlace`: the job of a running race that is cancelled leaves
  `activeJobs`, although its process function never returns, unless the queue is
  stopped first or the job is removed from the map. In both cases the code lets it
  stay there for ever: the finally-callback returns early, and the cancellation
  poll does not find the job.
- `EveryJobSettles` assumes that the queue is started and not stopped and that
  clients do not cancel for ever, and ends in "settled, or behind a process
  function that never returns and is not cancelled".
- `UnknownStateIsRemoved`: getState() asks for one list after the other. Asked in
  the order in which a job goes through the lists, a job that only moves on
  cannot slip past all questions; one that is tried again can, and is then
  reported CANCELLED although it will run. The property says exactly that much.
- `NoWorkerLeftBehind` and `StartedHasWorker` look at the second start and stop,
  when the flag `stopped` makes stop() do nothing.
- `OutcomeIsReal`: a stream reports as the end what is the end. In memory a
  cancelled job may still run, since cancelJob leaves it in the list. On BullMQ a
  CANCELLED job is removed, unless it went back while its state was asked, or
  waited with a priority then: the code takes such a job for a removed one.
- `UpdatesMoveForward`: fields and state of an update are read at different times,
  and yet no update is older in anything than the one before, because switchMap
  never lets two calls answer.
- `WalkMissesNothing` asks only for walks during which the list did nothing but
  grow: skip counts places, so a job that leaves moves the others, and one of
  them is then missed. On BullMQ, where the newest come first, a growing list
  makes a walk return jobs twice; hence `WalkRepeatsNothing` speaks of memory.
  It leaves out the jobs that cancelJob or a run that went on stored again at the
  end of the map, where the walk meets them a second time.
- `PageIsRight`: on BullMQ a job that waits with a priority matches the filter and
  is on no page, and a filter for RETRYING finds nothing; of the jobs in the lists
  that are asked for, a page has those it should.
- `MemoryTakesOnce` and `QueuedOncePerVisit`: no flush gets what another has, even
  when a buffer is removed and registered again; where such a buffer is visited
  twice by one add() or one flush(), the work is counted twice, and no more often.
- `NamedImplementsBufStore`: no add() and no other flush comes between what a flush
  in memory reads and what it clears.
- `OneEvictionTimer`: doInit() arms a timer whatever timer there is; with awaited
  calls destroy() has always cleared it before.
- `StartedRunsAll` needs no discipline of the clients; `RunningIsServed`,
  `AdapterFollowsService` and `OneEvictionTimer` need start() and stop() to be
  awaited, as the observer of the LoopBack component does.

Runs that find a statement of the repository violated:

| run | statement | what happens |
|---|---|---|
| `polling_stop` | "sets long-running jobs to pending on destroy" (job-queue-service.unit.ts:292) | stop() between the pick of a job and the subscription of its race reaches nobody |
| `buffers_redis` | "Clears all jobs ... and returns those jobs" (job-buf-store.ts:38) | a push between LRANGE and DEL is lost |
| `service_restart` | "Starts all registered JobQueues." (job-queue.service.ts:97) | the destroy() of an earlier stop() hits the adapter of the started service |
| `bullmq_names` | "Defines the queues that will run in this process." (job-queue.service.ts:36) | the one Worker takes the jobs of every queue, and fails those it has no process function for |
| `reads_updates` | "The returned Observable will emit a value for every update to the job" (job-queue.ts:67) | in memory the stream compares the Job object with itself and never sees a change |

Cases that the properties above leave out because the code does lose something in
them. Each is in the model, and no property catches it:

- a job that fails once its queue is being stopped leaves by the early return of the
  finally-callback (strategy:120): it is RETRYING and in no list, and keeps its place
  in `activeJobs`;
- a process function that throws before it returns a promise (strategy:103) leaves
  its job RUNNING in `activeJobs` for ever;
- the process function of a cancelled job that was removed from the map is never
  told (strategy:97);
- what a flush took from a buffer that is no longer registered is queued nowhere
  (job-buffer.service.ts:63), and so is the rest of a flush that rejects (line 77);
- a stop() during the loop of start() (job-queue.service.ts:105) leaves the queues
  running that the loop starts afterwards;
- overlapping start() and stop() leave eviction timers that nobody can clear
  (in-memory adapter:148);
- a queue created while init() waits makes a BullMQ Worker without a processor, and
  the started service processes nothing (bullmq-job-queue-adapter.ts:276);
- a job that waits on BullMQ with a priority is reported CANCELLED by findOne() and
  updates(), and missing from findMany() (bullmq-job-queue-adapter.ts:336,
  constants.ts:5).

Further places where code and documentation differ, each of which one look or
one test shows, so that they have no run: flush() without arguments, said to flush
all buffers (job-queue.service.ts:176), and flush([]) of a store, said to clear all
(job-buf-store.ts:38), flush none in memory; errorOnFail, said to be false by default
(subscribable-job.ts:41), is true; `filterOperator` and the operand `in` of the
filters are declared and never read; totalItems of the in-memory findMany is
counted after the page was cut out; on BullMQ a filter for RETRYING looks into
the list `repeat`, while jobs that are retried are in `delayed`; the progress
listener that outlives its attempt inserts a job twice, where update() is
documented as "Update the job details in the store." (strategy:260).

### Bounds, and why they are enough

- `JobCount` = 2 or 3: every hazard of the inventory concerns one job and at most
  one other that takes its place; with concurrency 2 a third is the one that
  must wait. `MaxQueued` = 3 bounds the entries that add() and duplicated
  progress updates may create; it is never below `JobCount`, so it cuts off
  nothing but further duplicates.
- `Removing` says whether settled jobs are removed from the map. Only cancelJob
  and the cancellation poll look into the map, so it is off in the runs without
  cancellation.
- `MaxStarts` = 2: one stop and one restart, which is where an old ActiveQueue
  and a new one meet. `MaxRuns` = 3 traces of process calls alive at a time, one
  more than there are jobs, for an old call that still works beside a new one;
  in the run with restarts a loop with no free trace waits, which hides no state
  of fewer traces.
- `RetryCounts` up to 1: the boundary of `retries >= attempts` is crossed both
  ways; larger counts repeat it, and the proof covers all of them.
- Two buffers, two registrations (`MaxPlaces`), two jobs: a job is collected by two
  buffers, or one buffer is removed and registered again while a loop is at its old
  place. Two flushes in memory, so that one is over or under way when the other
  finds what it left; on Redis one (`RedisFlushes`) where everything may fail, and
  two in `buffers_redis`, where they race. One buffer with three registrations
  gives nothing new, and passes too.
- `MaxDepth` = 2 for the 10 of the code: copies end above, at and below the limit,
  also for circular data; a path one key longer than the limit shows the cut.
- `reads`: `LastTick` = 3 leaves room for a first value, a change, an equal answer
  and the time limit; `MaxChanges` = 5 takes a job through a whole life (start,
  progress, failure, retry, end), or from its end to its removal and back, or moves
  several under a walk; three jobs make two or three pages. `UrgentJobs`: of the
  jobs of a walk, the one that is there from the start and one that is added may
  have a priority, beside a third that has none.
- `bullmq`: one job, since calls on different jobs share nothing but the Worker;
  two cancelJob calls, since each may remove what the other has asked about; two
  starts, since `stopped` makes the second stop() differ from the first.
- Three queues and three calls each of start() and stop(): a start() and two
  overlapping others, and a queue that activeQueues leaves out.

The runs do not check for deadlock: a system without jobs to add or calls to
make has nothing to do, and the bounds stop it too.

### Fairness

`FairSpec` of `PollingQueue`, used by `polling_liveness`:

- promise callbacks: weak fairness. The event loop runs them as soon as the
  thread is free, and nothing but their own step disables them.
- timers: strong fairness. A timer that is due fires when no callback is due,
  so it is enabled again and again but not continuously.
- the poll: strong fairness per job, which says that a back-off ends: if a
  poll may pick job j again and again, one of them does. `next()` moves a job
  in back-off to the tail, so that no job is passed over for ever.
- process functions return, except those of `HangingJobs`.
- nothing is assumed of clients.

`FairSpec` of `JobReads`, used by `reads`: interval() of an open stream goes on
ticking (weak fairness of the four ticks together). Nothing is assumed of
findOne(): `StreamEnds` holds although an answer may never come.

## 4. Proofs

Checked by TLAPS for every value of the constants that the named assumptions
of the modules allow (`MaxStarts`, `MaxRuns`, any number of jobs, any
concurrency of at least 1, any set of processes; for the service any finite set
of queues and any set of active names; for the readers any number of jobs, ticks
and changes). Every safety invariant and action property of a passing run has a
theorem here, but for the two about `JobData`.

- `PollingQueue_proofs`: `TypeCorrect`, `ConcurrencyLimited`,
  `AttemptsAreBounded`. The inductive invariant is `TypeOK /\ LoopOK /\ RunsOK
  /\ AttemptsBounded`. `ConcurrencyLimit` is not inductive: the loop appends to
  the active list on the strength of a count it took before two awaits.
  `LoopOK` says what that count is still worth: while the loop waits for next()
  the list is at most as long as `index`, while it waits for update() at most
  one longer, and otherwise within the limit. Only the loop appends, all
  others remove, so a stale count is an upper bound.
  `AttemptsBounded` is inductive only together with what runs may
  do to a job (`RunsOK`: a run of the race has a job and a queue). Its clause on
  PENDING jobs, no attempts used, is what makes defer() harmless; the lemmas on
  StartJob, FailJob, CancelJob, DeferJob and CompleteJob carry it.
  The invariants of the next three modules are kept together with this one.
- `PollingQueueCustody_proofs`: `SingleCustodyCorrect`, `FinishedIsFinalCorrect`
  and the refinement `QueueIsWorkQueue`. `SingleCustody` alone is not inductive:
  it does not exclude that update(), which Accept and the finally-callback call
  for a job they still have, puts it back into the list. `Custody` adds what does
  (`StateFits`): a job in a hand or in an open race is RUNNING or CANCELLED and
  so is not inserted, and what waits in the list is PENDING, RETRYING or
  CANCELLED and so not over. `Known` says that nobody knows a job before add(),
  and that a loop has a job in its hand only between its awaits.
  `QueueIsWorkQueue` assumes that no process function reports progress; with
  progress a job can be claimed twice, and the refinement does not hold.
  `FinishedIsFinal` follows from where a job that is over can be.
- `PollingQueueStates_proofs`: `CustodyMatchesStateCorrect`, for all jobs, those
  that report progress included. The property is inductive together with `Known`.
- `PollingQueueActive_proofs`: `ActiveAccountingCorrect` and `CreationOrderKept`.
  The first counts entries of a list and runs; it is inductive, and the work is in
  what push and splice do to the number of entries (`CountAppend`, `CountRemove`).
  That a run which is to be removed counts is what makes its job's index exist.
  `InCreationOrder` speaks of the list alone and is not inductive, since a job that
  is out of the list comes back to its head. `InPlace` adds that whatever may come
  back, the job in a hand or in an open race, is older than all that wait. For two
  such jobs at once that could not be kept; with one ActiveQueue that runs one job
  at a time there is only one, which is what `ActiveAccounting` is needed for.
- `ServiceLifecycle_proofs`: `TypeCorrect`, `StartedRunsAllCorrect`,
  `RunningIsServedCorrect`, `AdapterFollowsServiceCorrect`,
  `OneEvictionTimerCorrect`. The inductive
  invariant says where the loops are in their lists, that a queue which is
  registered was created, that while the service is started every queue that
  may run and does not run is still ahead of a start() in its loop, and that
  with awaited calls at most one call is under way and nothing is noted down
  while the adapter is initialized. `OneTimer` follows the eviction timer from
  the moment init() arms it until destroy() has cleared it; `OneEvictionTimer`
  alone, which speaks of moments without calls, is not inductive.
- `BullMQAdapter_proofs`: `TypeCorrect`, `UnknownStateIsRemovedCorrect`,
  `CancelledIsOverCorrect`, `StartedHasWorkerCorrect`,
  `NoWorkerLeftBehindCorrect`, for any number of jobs, calls, queues and starts.
  `OneWorker` says which Worker may be open in which phase. `Found` carries
  `UnknownStateIsRemoved`: a call without an answer has not yet asked for a list
  behind the one its job is in, unless the job went back, is gone, or is where
  nobody asks; it is kept because lists are asked for in the order in which a
  job goes through them. `Removed` says that what cancelJob removed stays gone.
- `JobBuffers_proofs`: `TypeCorrect`, `MemoryKeepsCorrect`,
  `MemoryTakesOnceCorrect`, `FlushDeliversCorrect`, `QueuedOncePerVisitCorrect`
  and the refinement `MemoryIsBufStore`, for any number of buffers, jobs and
  flushes.
  `PlacesGrow` says that places are added at the end and keep their buffers, so that
  what is said of a place is still true when its buffer was removed and came back.
  `AsksInOrder` says that an add() goes through the places in their order, so that
  each collects a job once; `FlushesAtOnce` that a flush in memory that has not begun
  has nothing, which is the precondition of the abstract Flush.
  `MemoryKeeps` and `MemoryTakesOnce` are inductive with these two: a collection
  adds one to the number of places that have collected, and at most one to where the
  job is (`CollectedInMemory`).
  `FlushDelivers` speaks of flushes that are over. `FlushInv` says the same of one
  under way (`DeliveredBy`): what it took of the live places it has come to has been
  queued, or is awaited at the place where it is, which has jobs in the result and
  in its batch what is left of them (`AtWork`). A buffer registered again gets a
  place behind the loop, so that it is still to come.
  `QueuedOncePerVisit` bounds a number; `OnceInv` says what is counted: a job that
  no buffer collected is queued by its add() or not at all (`EnqueuedAlone`), and a
  collected one at most once for each visit that is over (`Handed`), a set that
  only grows.
- `JobReads_proofs`: a theorem for each property of `reads` but `StreamEnds`.
  `ReadsInv` is about the stream. That an update is nowhere older than the one
  before is not inductive: it must be known of the answers under way, and
  `UpdatesInv` says that the call which is listened to read its fields no earlier
  than the state of the last update. That at most one is listened to is part of
  `StreamTypes`, and that a job with an outcome is over of `JobsInv`.
  `WalkInv` is about the walk. `NothingMissed` says where the jobs are that were
  listed when it began: returned, in the page under way, or ahead in the list
  behind the place that skip counts to; a list that only grows pushes a job further
  back and never before that place (`AheadStays`). Also, an id that is to be fetched
  is still listed, so that no page ends empty before the list does.
  `NothingRepeated` says that what is ahead has not been returned.
  Both rest on what findMany() computes for any list of jobs: `RankedLists` (the
  elements of a set one after the other), `SortOnShuffles` and `ApplySortShuffles`
  (sorting loses and doubles nothing, and the last property decides), `RemainingIs`
  (a filter keeps the order), `WindowIs` (a page is cut out of the list), and for
  BullMQ `SoughtIsMatching` (the lists that are looked into hold what the filter
  asks for). With `WindowIsPage` they give `PageIsRightCorrect`: the number of
  matching jobs that come before a job of the page is what its place says.

Only model-checked: `DataIsCopied` and `JobSurvivesBuffer` of `JobData`, whose copy
is recursive over the data, and what it gives for all data would take an induction
that the provers cannot instantiate. Liveness (`EveryJobSettles`,
`CancelFreesPlace`, `StopResolves`, `StreamEnds`) stays with TLC: TLAPS does not
reason about ENABLED, on which fairness rests.

## 5. Not modelled

- How many process functions are at work: a race that a cancellation decides
  frees a place while its process function goes on, so that number exceeds the
  concurrency. The model shows it (`working` of a run), and JavaScript leaves
  the code no choice; no property speaks of it.
- A backOffStrategy that throws (in-memory adapter:106): the entry is out of the
  list by then, and the job is nowhere.
- BullMQ: overlapping calls of start() and stop(), the progress a Worker writes,
  findManyById (also in memory), which is findOne several times.
- bufferSize of both stores, which only reads; a Redis cluster, of which the
  store scans the first node only.
- *Facade, process context, logger*: an adapter and a store are chosen by name
  once, the mode is read once (checkProcessContext ends a worker process that
  uses the in-memory adapter), and the logger is output. No state that a later
  call of another part depends on. Of the *LoopBack component* only the observer
  matters, as the client that awaits its calls.
- *Test suite package*: tests of adapters, read as documentation.

## 6. Plan

1. Done: `Job`, `PollingQueue`, `WorkQueue`, `JobBuffers`, `ServiceLifecycle`,
   `BullMQAdapter`, `BufStore`, `JobData`, `JobQueries`, `JobReads` with their
   runs, and the theorems above.
2. Next: overlapping start() and stop() on BullMQ, and a backOffStrategy that
   throws.
3. Then: that the polling queue without cancellation and the readers' view of it
   (`Becomes` and `Leaves` of `JobReads`) agree, as a refinement.
