# Tianshe Client: specifications, model checking and proofs

TLA+ modules for the parts of Tianshe Client (`src/`, an Electron / TypeScript
desktop application that runs browser automations, plugins, schedules and an
HTTP/MCP interface side by side) whose correctness depends on the order in which
asynchronous calls interleave. Modelled are the **resource coordinator**, which
decides who may use a browser profile; the **browser pool**, which keeps at most
one live browser per profile and lends it to one request at a time; the **task
queue** and the **pipeline** on top of it; **durable capability runs**; the
**scheduler** of stored tasks; and the **HTTP and MCP sessions** with their invoke
queues, browsers and idempotency keys. Durable runs and the scheduler hold the
coordinator's leases, and use its abstract specification for them. Below them are
the **relay** through which a Chromium extension is controlled, with the debugger
it shares and the events it reports, and the **queues of the datasets**. The rest
of the system is listed below with what makes it correct.

Contents: 1 the system, 2 the modules, 3 the resource coordinator, 4 the browser
pool, 5 the task queue and the pipeline, 6 durable runs, 7 the scheduler, 8 HTTP
and MCP sessions, 9 the extension's relay, 10 the dataset queues, 11 runs and
bounds, 12 proofs, 13 where the code departs from what it says, 14 what is not
covered, 15 how to run everything.

Paths below are relative to `src/src/` unless they start with `docs/`.

## 1. The system

Everything of interest runs in one Node.js event loop (the Electron main
process). Concurrency is the interleaving of `async` functions at their
`await`s, of timers and of events. Two tools restrict it: an `async-mutex`
around a section (the coordinator, the pool's map, each wait queue) and a FIFO
semaphore (the creation of browsers).

| Component | State | Operations | Interacts with |
| --- | --- | --- | --- |
| Resource coordinator, `core/resource-coordinator.ts`, `resource-lock-core.ts`, `resource-handoff-protocol.ts`, `resource-owner-view.ts` | per resource key: owner token, entry count, FIFO of waiters; the handoff requests; the lease context of the running call | `acquire`, `runExclusive`, `handoff`, `requestHandoff`, `approve/pause/complete/cancelHandoff`, `expireHandoffRequests`, lease `release`, `clear` | scheduler, durable runs, profile launch, HTTP browser adapter, profile and account IPC |
| Browser pool, `core/browser-pool/` | map of browsers (creating / idle / locked / destroying), creation semaphore, per-profile count of destructions, cancelled creations, pending factories; per profile and runtime a wait queue with timers | `acquire`, handle `release`, `renew`, `takeoverLockedBrowser`, `adoptSamePluginLockedBrowser`, `releaseByPlugin`, `destroyProfileBrowsers`, `forceRelease`, `stop`; timers: lock timeout, idle eviction, health check; events: browser closed | profile service, browser factory and destroyer, plugins, HTTP adapter |
| Task queue, `core/task-manager/queue.ts` | task records with controller, retry count, status; the concurrency limit | `add`, `cancelTask`, `cancelAll`, `pause`, `resume`, `clear`, `stop`; retries, time limits, delayed clean-up | pipeline, plugins |
| Pipeline, `core/task-manager/pipeline/` | the status column of the rows it processes | poll, claim a row, run a stage's handler, write the result | task queue, data tables |
| Scheduler service, `main/scheduler/` | stored tasks, a timer per task, the executions under way | create, pause, resume, cancel, trigger, restore, dispose; runs with retries and a time limit, missed runs | resource coordinator, DuckDB |
| Durable capability runs, `core/ai-dev/orchestration/durable-capability-run.ts` | stored runs with attempts and checkpoints; a controller per run under way | start, resume, reconcile, `requestCancel`, recover after a restart | resource coordinator, DuckDB |
| Capability registry and confirmations, `core/ai-dev/orchestration/` | capabilities, one-time confirmation tokens | invoke, confirm | idempotency store |
| Idempotency store, `main/orchestration-idempotency-duckdb-store.ts` | one row per namespace and key: running or completed | `reserve`, `get`, `set`, delete, expiry | HTTP and MCP calls |
| HTTP and MCP sessions, `main/http-session-manager.ts`, `mcp-http-session-runtime.ts`, `orchestration-http-routes.ts`, `mcp-http-adapter.ts`, `http-server-lifecycle.ts` | sessions with invoke queues, closing flags and signals, a browser handle, a cache of idempotent results | open, invoke, acquire and recycle a browser, sweep, close, stop | browser pool, resource coordinator |
| Extension relay, `main/profile/extension-control-relay.ts`, `extension-control-extension-*.ts`, `browser-pool-integration-extension.ts` | in the main process: queued and pending commands, a poll kept waiting; in the extension: the loop of its page, the users of the debugger, the queue of captured events; Chrome's process | dispatch, register, poll, result, event, stop; network and console capture, navigation, input, dialogs; launch and closing | the browser object of `core/browser-extension/`, the pool's factory and destroyer, Chrome |
| Dataset queues, `main/duckdb/dataset-storage-service.ts` and the services that use it | per dataset a chain of promises; the attached databases; metadata rows and files | query, preview, lookup, dictionary filter, export, delete, record changes | one DuckDB connection, the file system |
| Sync, `main/sync/` | outbox events, metadata, local entities | append, mark, apply | the engine is a stub in this edition |
| Start, readiness and shutdown, `main/runtime/` | steps with labels and time limits | run in order | every service |
| Plugin life cycle, `core/js-plugin/` | registry of plugins, their contexts and running commands | install, load, reload, disable, stop, uninstall | browser pool (`releaseByPlugin`), windows |

Windows and web views, profiles, the rest of the data layer, other drivers, stealth,
screen and image functions, site adapters, cloud clients, IPC and the renderer
are listed in `PROJECT.json` with the reason they are not modelled: they are
input and output, pure data, or callers of the components above.

### What is hard, and what correctness means

* **Resource coordinator.** A wait timer, an abort and a grant compete for one
  waiter; an acquire of several keys fails half-way; a displaced lease is
  released late; a handoff that was approved under one owner completes under
  another. Correct: one owner per key, no waiter on a free key, first come first
  served, no key owned for a call that is over, no deadlock between sorted
  acquires, and a person never loses a profile without a say.
* **Browser pool.** The same profile is created, destroyed and created again
  while factories, resets and destroyers are under way; a release, a timer and an
  eviction serve the same queue; a handle outlives its lock. Correct: never two
  live instances of one profile (they would share its files), a handle holds its
  lock until somebody takes it on purpose, nobody sees a browser during its
  reset, no wake-up is lost, every acquire is answered, and nothing (permit,
  count, instance) is left behind.
* **Task queue.** A cancellation, a time limit, `clear()` or `stop()` may fall
  between any two steps of a task; functions that ignore their signal run on; a
  delayed clean-up meets a newer task of the same id. Correct: every task is
  answered, and told of once, in agreement with its promise; a cancelled task
  never starts; an open task can be cancelled; `stop()` returns and leaves no
  attempt under way.
* **Pipeline.** The rows of a query are claimed by others before their tasks run;
  a claimed row whose task fails, times out or is stopped. Correct: a row is
  handled by whoever claimed it, a row whose task failed gets its error status,
  rows that wait are taken up.
* **Scheduler.** Pause, resume and cancel against an execution and the next
  timer; missed and one-shot tasks across a restart; handlers that never end.
  Correct: a one-shot task runs at most once, an active task has its timer, a
  fired timer leads to the next one, pause, cancel and dispose return.
* **Durable runs.** Recovery and cancellation against an execution, lost updates
  of the record, a crash between two queries. Correct: one handler at a time, at
  most one fresh start, a settled run stays so after a restart until a user's
  call is let in for it, a run that nobody cancels comes to an end or
  to a review, and handlers that name one key do not overlap.
* **Idempotency store.** Two calls with one key, in one session or in several,
  between each other's queries. Correct: at most one works on it at a time.
* **Sessions.** A call that times out, is aborted, or ignores both; a cleanup beside
  a call, a late browser, or another cleanup; sessions that close each other.
  Correct: the tasks of a session never overlap, no browser is released under a
  task that has not been told, every call is answered, every browser released.
* **Extension relay.** Connections that break on either side of a request, polls
  that are dead without anybody noticing, a page that is reloaded while a command
  is executed, callers that have given up, an exit of Chrome at any time. Correct:
  commands begin once and in order, a caller is told of its own command, nothing
  waits in a stopped relay, a closed browser goes.
* **Debugger and events.** Commands that fail between two requests to Chrome, a
  dialog's handler beside them, a user who detaches; batches that fail after they
  were handled. Correct: counts and flags agree with Chrome, a capture that was
  started is served, entries are neither lost uncounted nor out of order, a
  cleared capture shows nothing old.
* **Dataset queues.** Operations that know a dataset from before its deletion,
  that use a second dataset, or that wait in one queue from within another.
  Correct: one operation at a time per dataset, in order; nobody finds a dataset
  detached; a deleted dataset does not come back; every operation ends; no queue
  is kept for nothing.
* **Shutdown.** A step that ended late beside the next one.

The hazards that matter most, each at its line and with the properties that
cover it or the reason none does, are in `PROJECT.json`.

## 2. The modules

| Module | Contents | Builds on |
| --- | --- | --- |
| `ResourceLease` | the abstract promise of the coordinator | |
| `ResourceCoordinator` | the coordinator | implements `ResourceLease` |
| `ResourceCoordinatorProofs` | theorems about its locks, about who loses a key, and the implementation of the lease | extends `ResourceCoordinator` |
| `BrowserPool` | pool, wait queues, strategies | |
| `BrowserPoolProofs` | theorems about its instances and counts, handles and locks | extends `BrowserPool` |
| `TaskQueue` | the task queue | |
| `Pipeline` | a stage of a pipeline, or a plugin, on its queue | extends `TaskQueue` |
| `PipelineProofs` | theorems about queue and stage | extends `Pipeline` |
| `DurableRun` | durable runs over their store | uses `ResourceLease` |
| `DurableRunProofs` | theorems about it | extends `DurableRun` |
| `Scheduler` | the scheduler over its table | uses `ResourceLease` |
| `SchedulerProofs` | theorems about it | extends `Scheduler` |
| `InvokeQueue` | the invoke queue of a session | |
| `HttpSessions` | sessions, their calls, browsers and idempotency keys | extends `InvokeQueue` |
| `HttpSessionsProofs` | theorems about it | extends `HttpSessions` |
| `ExtensionRelay` | relay, page of the extension, launch and closing of Chrome | |
| `NetworkTracking` | the users of Chrome's debugger in a tab | |
| `RelayEvents` | the queue and the posts of captured events | |
| `ExtensionTab` | a tab: both together | extends `RelayEvents`, instance of `NetworkTracking` |
| `ExtensionProofs` | theorems about relay and tab | extends `ExtensionRelay`, `ExtensionTab` |
| `DatasetQueues` | the datasets' queues and the operations that go through them | |
| `DatasetQueuesProofs` | theorems about it | extends `DatasetQueues` |
| `MC...` | instances for TLC | |

`DurableRun` and `Scheduler` are composed with the coordinator through
`ResourceLease`: their executions ask, enter, wait, withdraw and leave with its
actions, and `rc_handoff` shows that the coordinator offers these and no others.

Further components would be the plugin life cycle and shutdown.

Each module has its parameters as constants with a named assumption, one action
per section of the code between two `await`s, invariants as conjunctions of named
parts, and no recursive operators.

## 3. The resource coordinator

`ResourceCoordinator.tla`. Every section run under the coordinator's mutex is one
action, together with the promise callbacks it resolves; what an `acquire` does
between two sections is in the `phase` of the call.

| State | Code |
| --- | --- |
| `owner`, `refs`, `queue` | `ResourceState.ownerToken`, `refCount`, `waiters` |
| `phase`, `want`, `got` | the local state of one `acquire`: the normalised keys, `acquiredKeys`, the lease |
| `aborted` | the caller's `AbortSignal` |
| `request` | the record in `handoffRequests`; `grounds` is what justified its approval, `deadline` whether `expiresAt` has passed |
| `lost`, `orphan` | history: keys of a lease that were given away, keys granted to a call that had given up |

Keys are numbers in the order `normalizeKeys` sorts them. A token has a kind
(a person, an automation that may be interrupted or not), which is what
`inferInterruptibility` computes from the metadata. The actions:

| Actions | Code |
| --- | --- |
| `BeginAcquire`, `TryAcquire` (`Enter`, `Enqueue`) | `acquire`, `acquireOne`, `tryAcquireImmediately` |
| `Abort`, `GiveUp` | the signal fires; timer or abort listener runs `cancelWaiter` |
| `Withdraw`, `WithdrawTooLate` | the acquire finds after queuing that its signal had fired already |
| `BeginRelease`, `ReleaseOne` | `releaseKeys`, largest key first, also to undo a failed acquire |
| `Takeover` | the low-level `handoff()` |
| `RequestHandoff`, `ApproveHandoff`, `PauseHandoff`, `CompleteHandoff`, `CancelHandoff` | the functions of these names, with every early return and assertion |
| `DeadlinePasses`, `ExpireHandoffRequests`, `UseOverdue` | time, the sweep, a use of an overdue request |
| `Clear` | `clear()`, under the constant `MayClear` (tests use it only) |
| `Again` | a settled operation is reused for a new call |

A nested call names its `Parent`, shares its token and runs while the parent
holds its lease, as `runExclusive` arranges with its lease context. Only
`runExclusive` shares tokens; the other callers let `acquire` mint one.

`ResourceLease.tla` is the abstract promise: each key has at most one holder and
a set of parties that want it; a key is never left while somebody wants it, it
passes from one who leaves to one who wants, and only an heir of a handoff takes
keys from a common holder. Under the mapping `holder` = `owner`, `wanted` = the
set of queued calls, the detailed module implements it (run `rc_handoff`, theorem `KeepsItsPromises`).

**Fairness** (`FairSpec`): weak fairness of every section a call in progress has
to run (the mutex serves in order), of timers and abort listeners that are due,
and of the release in the `finally` of a caller. Nobody has to call anything, no
request has to be answered.

## 4. The browser pool

`BrowserPool.tla` models `GlobalPool`, `BrowserPoolManager`, `WaitQueue` and the
strategy classes as threads: one per `acquire` (`Requests`), and `Workers` for
releases, timers and maintenance jobs. A thread's `task` is its program counter
and locals; `then` is what follows the call it is in.

| State | Code |
| --- | --- |
| `entry` | `GlobalPool.browsers`: status and the request id in `lockedBy` |
| `home`, `life` | the profile and the real instance behind an entry: starting, running, gone |
| `reap`, `cancelled` | clean-ups hanging on a pending factory; `cancelledCreatingBrowsers` |
| `destroying` | `destroyingSessionCounts` |
| `permits`, `line` | the creation semaphore and the threads waiting for it |
| `queue` | the wait queue of a profile, by priority and age, with anti-starvation |
| `phase`, `handle` | an acquire and the browser its promise was resolved with |
| `stopped` | `stop()` has run |
| `revoked` | history: requests whose lock a job took on purpose |

| Actions | Code |
| --- | --- |
| `Acquire`, `Reuse`, `Lock`, `Create`, `GetPermit`, `Place`, `AwaitFactory`, `Finish`, `Discard`, `Abandon`, `Enqueue`, `GiveUp`, `BuildHandle` | one acquire: reuse strategy, creation under a permit with the second check, placeholder, factory, time limit, late or cancelled factory, wait queue |
| `Launch`, `ReapCreated` | the factory (external) ends; its clean-up |
| `Release`, `Return`, `Reset`, `Settle` | release of a handle, reset of the pages, idle or destroyed |
| `Peek`, `Lookup`, `Dequeue`, `Take`, `Check`, `Clean`, `Hand`, `Refuse` | `process()` and `transferBrowserToWaiter` |
| `Destroy`, `Destroyer`, `Destroyed`, `Report` | `destroyBrowser` and the wake-up of waiters |
| `StartDestroy`, `Sweep`, `Evict`, `StopPlugin`, `DestroyProfile`, `Stop` | close event, health check or destroying release; lock timeout; idle eviction; plugin stop; profile destruction; `stop()` |
| `Takeover`, `Seize` | takeover and adoption of a locked browser |

Two rules of the event loop are in the model. A thread whose next step waits for
nothing but a free mutex goes on before the next timer, event or result from
outside (`Turn`, `Outside`); and the mutexes are never held across an action.
Time is abstract: a timer that may fire may fire at any turn.

A behaviour belongs to one `scene` of the constant `Scenes`: who asks for which
profile, the places of the pool (`MaxBrowsers`), how many jobs run beside each
other (`AtOnce`), and what may go wrong outside, in `Hazards`: the factory is
refused for a passing (`refused`) or a final (`fatal`) reason or outlives its
time limit (`slow`), the profile lookup throws (`lookup`) or finds nothing
(`deleted`), a reset fails (`reset`), a timer acts on its list one browser after
the other (`batch`). `Jobs` chooses the maintenance jobs, `Impatient` the
requests with a timer or a signal, `Twice` the handles released twice, `Takers`
the requests that take over.

**Fairness** (`FairSpec`): strong fairness of each thread's next step, of wait
timers and of factories ending: the event loop reaches every timer and every
result, and resets and destroyers return. It is strong because the turn rule
disables the other threads for a while again and again. Nobody has to call,
release or start a job.

## 5. The task queue and the pipeline

`TaskQueue.tla` models a queue in which every call of `add` is a task of its own,
`task[t]`. p-queue is external: it starts the head of `line` when a place is free
and it is not paused (`Startable`), and orders `line` by priority (`Place`).

| State | Code |
| --- | --- |
| `task[t].exec` | where the attempt stands: queued, in the race of function, time limit and abort, lost or ended, in the delay before a retry, leaving p-queue, over |
| `task[t].status`, `tries`, `settled`, `aborted`, `promise` | `TaskInfo.status`, `retryCount`, the record's `settled`, the controller, the deferred |
| `told` | how many terminal events were emitted |
| `body[t]` | the task function, which may outlive its attempt |
| `record`, `due` | `taskRecords`; the clean-ups under way (5 s after an attempt) |
| `paused`, `stop`, `todo`, `awaited` | p-queue's pause; how far `stop()` is, the ids it has still to cancel, the promises it waits for |

Actions: `Add`, `Start`, `RunBody`, `Timeout`, `EndAttempt`, `EndDelay`, `Leave`
(the life of a task), `CleanUp`, `Trim` (its record), `CancelTask`, `Signal`,
`Pause`, `Resume`, `Clear`, and `Stop`, `StopCancel`, `StopAwait`, `StopReturn`,
the pieces of `stop()` between its `await`s. Timers take their turn when no
promise callback is left (`Turn`).

`Pipeline.tla` extends it by a stage: `Query`, `Submit`, `Settled`, `Again`,
`LoopEnds` are the polling loop, `Claim`, `Handle`, `Apply` the task function,
`LateUpdate` the error status that nobody awaits, `StopWorker` the end,
`RivalClaims` and `RivalApplies` another worker on the same table, `Crash` the
death of the process and a new one on the same rows. A claim, the write of a result
and the update to the error status may fail (`MayFail`); a failure of the last is only
logged, and the history `unmarked` keeps its row. The constant `Clients` says
whether the queue is a plugin's, which may call anything, or a stage's.

**Fairness** (`StageFairSpec`): the queue's own steps, timers, the polling loop
and the database's answers go on. It is one weak fairness of their disjunction:
the steps are bounded but for the rounds of the loop, which are queries that find
nothing and are left out. No task function and no handler need ever return, and
nobody has to resume a paused queue.

## 6. Durable runs

`DurableRun.tla`. An action is one query of the store with what its answer leads
to, up to the next query; `updateRun` is two of them, a read of the record
(`call[c].base`) and a write of all of it. A call of `start`, `recover`,
`requestCancel`, or of the recovery after a restart, is a `c` in `Calls`.

| State | Code |
| --- | --- |
| `run` | the table: status and the number of the checkpoint |
| `call` | the local state of each call; `at` names the next query or event |
| `control`, `aborted` | `runningControllers` and the signals |
| `holder`, `wanted` | the lease, see `ResourceLease` |
| `sweep` | the list `recoverPending` has still to go through |
| `started` | history: fresh starts of the handler |

`Start`, `RecoverWith`, `Cancel` are the calls up to their first decision; `Open`
to `Finish` an execution, `Enter`, `Wait`, `GiveUp`, `Leave` its lease; `Note` a
checkpoint; `Clean`, `Cleaned` the cancel handler; `Crash`, `RecoverNext` the
restart. A call is `"over"` when it has ended, `"refused"` when it threw or returned the
run as it was and changed nothing, and `"lost"` when it died with the process. A crash
loses the calls under way only: users may start, recover and cancel runs before it,
beside `recoverPending` and after it. `recoverPending`, which no code of the repository
calls yet, goes through its list with one recovery at a time, and ends with the first
that throws. What a caller of `recover` brings along (a handler or none, a version,
a way to resume or to reconcile) is chosen from `Contracts`.

**Fairness**: the store answers, handlers end, and whoever waits for the lease
gets it; every call makes a bounded number of steps, so that one weak fairness of
their disjunction is enough. Nobody has to call.

## 7. The scheduler

`Scheduler.tla`. A thread is one asynchronous call: a fired timer, a call from
outside, or `restoreActiveTasks`; an action is one query or event with what
follows up to the next.

| State | Code |
| --- | --- |
| `status`, `past` | the table: a task's status, and whether its `nextRunAt` has gone by |
| `timers`, `running`, `suppress`, `disposing` | `timers`, `runningTasks`, `tasksSuppressSchedule`, `disposing` |
| `thread`, `aborted` | where each call stands; the executions whose controller is aborted |
| `todo`, `late` | the list the restoration has read |
| `holder`, `wanted` | the lease |
| `fired`, `excused`, `unscheduled`, `fires`, `crashed` | history and bounds |

`Fire`, `Look`, `Marked`, `LookAgain`, `StoreNext`, `Disable` are
`onTimerFired`; `Recorded` to `Close` an execution (`Enter`, `Wait`, `GiveUp` the
lease, `Attempt`, `Answer`, `TimeLimit`, `Interrupt` the handler and its race
with the signal); `Pause`, `Cancel`, `Resume`, `Create`, `Trigger`, `Dispose`
begin the calls of those names and `StorePaused`, `Delete`, `Activate`, `Renew`,
`Reschedule`, `Disposed` end them; `Restore`, `RestoreNext` the restoration;
`Tick` and `Crash` are time and the restart. `Execute` and `Schedule` are
`executeTask` and `scheduleTask` up to their first query, used by several.

**Fairness**: the database answers, time limits pass, and waits for the lease
end. Handlers need not answer, timers need not fire.

## 8. HTTP and MCP sessions

`InvokeQueue.tla` is `enqueueInvokeTask` with its helpers: the calls of a session
are chained on one promise; a time limit, or the abort of the session, rejects the
answer of the call that executes and leaves its task 1500 ms to stop, after which
the session is closed. `HttpSessions.tla` extends it with everything that acts on
sessions. A call `c` has a handler, which answers the client, and a task, which
the queue executes; an action is a query, an event or a timer with what follows
up to the next.

| State | Code |
| --- | --- |
| `invokeQueue`, `execution` | `session.invokeQueue`, `pendingInvocations`, `activeInvocations`; how far `execute()` of a call is |
| `signal`, `closing`, `closeSignal` | the invocation controllers that are aborted; `closing` and `closeController` of a session |
| `session`, `cleanup`, `terminate` | the lists of sessions; how far a cleanup is; `terminateAfterResponse` |
| `handle`, `browser`, `raw` | `browserHandle`; the browsers by who acquired them; acquires under way (`rawAcquirePromise`), which go on when their call does not |
| `handler`, `task`, `uses` | the two threads of a call, and the browser its task works with |
| `row`, `cache` | the idempotency table; `idempotencyCache` of each session |
| `stop` | how far `stopHttpServer` is |
| `adrift` | history: sessions the browser property leaves out, section 13 |

| Actions | Code |
| --- | --- |
| `Create`, `Acquired`, `Shown`, `Initialize` | `POST /sessions`; the first request of an MCP session |
| `Request`, `Prune`, `Reserve`, `Insert`, `Remove`, `Store`, `QueryFails` | `POST /invoke` and `tools/call` up to the queue; the result is stored |
| `TaskStarts`, `TaskRefused`, `TaskTimesOut`, `TaskAborted`, `TaskGivenUp`, `WorkEnds` | the queue executes a task, and it ends, or not |
| `BeginRest`, `BeginMcp`, `Ensure`, `RawAcquired`, `RawShown` | the task up to its capability; `ensureSessionBrowserHandle` |
| `CloseOther`, `CloseReturns`, `Flush` | `closeSession` of another session, and of one's own after the response |
| `Delete`, `Sweep`, `Stop`, `StopReturns`, `Drained`, `Purge` | the ways a session ends, and its cleanup |
| `Crash` | a browser closes of itself (external) |

Time is abstract. Calls with one key have one payload. Only an MCP call
closes a session (`Target`): the REST routes do not give their calls the gateway that
does (`mcp-http-adapter.ts:224`). The lifetime of an entry
(300 s) is taken to exceed that of the calls that reserved or found it; without
that, a reservation can expire under its call (section 13). The two drains of
1500 ms, the queue's and the registry's, are one. A client may name any idempotency
namespace (`x-airpa-idempotency-namespace`), so also the id of another session;
`TasksDoNotOverlap` leaves out such a key (`Borrowed`) once that session has been
deleted (`Dropped`), for the reason given in section 13.

**Fairness** (`FairSpec`): the server's steps go on: queries and acquires come
back, timers fire, the sweeper finds sessions whose clients are quiet. Capabilities
need not return, even when told to; nobody has to call, delete or stop. The steps
of a behaviour are finite in number, so that one weak fairness is enough.

## 9. The extension's relay

Chromium is controlled through an extension. Its offscreen page registers with an
HTTP server in the main process, fetches commands by long polling, has the service
worker execute each one, and posts the result; the worker posts events on
connections of its own. Three modules look at three parts of this.

`ExtensionRelay.tla`: commands and connections, launch and closing.

| State | Code |
| --- | --- |
| `call`, `commandQueue`, `pendingPoll`, `server` | the promises in `pendingCommands`, `commandQueue`, `pendingPoll`, `server` and `stopPromise` of the relay |
| `page`, `wire`, `current` | where `pollLoop` stands, its request or the answer to it, the command it was given |
| `strays` | requests of connections that broke, which the relay has still to read |
| `outcome` | what the service worker made of each command |
| `chrome`, `launch`, `cleanup` | the process, the factory that waits for the client, `cleanup()` |

| Actions | Code |
| --- | --- |
| `Dispatch`, `CommandTimeout` | `dispatchCommand` and its time limit; a command that timed out stays in the queue |
| `Read`, `ReadStray` | `handleRegister`, `handlePoll`, `handleResult` (`Handle`), for the page's request and for one whose connection is dead |
| `PollTimeout`, `Stop`, `ServerClosed` | the 25 s of a poll; `stop()` and the answer of `server.close()` |
| `Send`, `Receive`, `Finish`, `Wake` | one round of `pollLoop`, the worker's execution of a command, the sleep after an error |
| `Break`, `Exit` | a connection breaks or Chrome reloads the page; Chrome exits (external) |
| `LaunchTimeout`, `BeginCleanup`, `Asked`, `Linger`, `Kill`, `StopRelay` | `waitForClient`, `requestGracefulChromeClose`, `killChromeProcess`, the end of `cleanup` |

`browser.close`, the command that asks Chrome to close, is sent without the target
that the worker demands of every command, so it fails always (`Finish`), and
Chrome is killed when it does not exit of its own accord. `postResult` is not
repeated: a result that is lost on its way leaves the caller to its time limit.

`NetworkTracking.tla`: who needs the debugger. A run of steps is a command or the
handler of a closed dialog; a step is an `await`, of a post to the relay, of a request to
Chrome or of a dialog. Commands are executed one at a time, as the page fetches the next
one when it has posted the result of the last; those that overlap all the same are left
out (section 14). Chrome may refuse to attach and fail any command sent to it, attached
or not (`Outcomes`). `enabled`, `users`,
`cdpEnabled`, `debuggerAttached`, `console` are the fields of the tab's state of
these or similar names; `attached`, `domain`, `pageDomain` are Chrome's own view, and `inbox` its
answers and the news that the user has detached the debugger, which the worker
sees in this order. `Start`, `Stop`, `Goto`, `ConsoleStart`, `ConsoleStop`,
`Input`, `Dialog`, `Disarm`, `DialogCloses` begin a run, `Dialog` those of `dialog.arm`,
`dialog.wait` and `dialog.handle`, of which `DialogWaited` and `DialogHandled` are the
later parts (`Behind` says which part of a command follows another); `Acquire`, `Attach`,
`EnsureEnabled`, `Release`, `DetachIfIdle` are the functions runs are made of, and
`AttachAnswered` to `SendAnswered` what follows Chrome's answers. `capture` and
`left` are history: whether a client may rely on the capture, and whether a command for a
dialog, or a navigation that failed, has left the debugger attached (`Keeps`,
`KeepsFailed`) and nothing has let go of it since (`Lets`). The module has no parameter: its
state space is finite as it is.

`RelayEvents.tla`: the queue of captured entries. `Capture` is `queueRelayEvent`,
`Flush` the start of a batch, `BatchDelivered` and `BatchFails` the end of its
post, which the relay has or has not handled (`ReadBatch`); `StartCapture`,
`ClearEntries`, `ReadReset`, `ResetDelivered`, `ResetFails` are a start of the
capture with `clearExisting`, whose `network-reset` has a connection of its own.
`dropped` is `relayDroppedEventCount`; `received`, `newest` and `cleared` are history.

`ExtensionTab.tla` composes the two, and the run checks them together. The start of
a capture with `clearExisting` is an action of both: its post of `network-reset`
(`Clear`) decides whether the debugger is asked for (`Cleared`) or the command
fails (`NotCleared`); and entries are captured (`Observe`) only while the worker
listens and Chrome reports or has reports on their way. Otherwise one of them
moves and the other does not (`TabStep`; `Posting`, `Relayed`). A behaviour belongs
to one of `Scenes`, which bound its entries and failing posts and say whether
commands other than those of the capture occur.

**Fairness**: in `ExtensionRelay`, timers fire, the relay reads what reaches it,
the page goes on, a killed Chrome exits, a launch that failed is cleaned up.
Nothing says that the worker ever ends a command (`QueueMoves` has the exception)
or that Chrome exits when asked. In `ExtensionTab`, the timer fires and a post is
read and answered, or fails (`Posting`); failures are bounded. Nobody has to send a
command, and Chrome need not answer.

## 10. The dataset queues

`DatasetQueues.tla`. Every dataset is a database file; operations attach it to the
one DuckDB connection and take turns in its queue, a chain of promises.

| State | Code |
| --- | --- |
| `queryQueues`, `promise`, `after` | `queryQueues`; the promises made by `executeWithQueue`, and what each is chained to |
| `on`, `number`, `arrived` | the dataset of a promise; history: its place among those of the dataset |
| `op`, `pc`, `uses` | an operation, where it stands, the datasets it has attached |
| `meta`, `file`, `attached` | the metadata rows, the files, the databases of the connection |

An operation is of one of six kinds, by its way through the queues: `query` (reads
the metadata in the queue), `attached` (before it is queued), `lookup` (two
queues, in sorted order), `dictionary` (a second dataset outside its queue),
`export` (the second dataset's queue from within the first's) and `delete`. Its
actions are the pieces between its `await`s: `Call`, `Look`, `Enter` (`Enqueue`),
`Start` (`Begin`), `Read`, `ReadOther`, `AttachMain`, `AttachOther`, `Use`,
`Detach`, `Remove`, `Forget`, `Return`, `Leave` (`Settle`). Any of those that
touch the database may fail. The second queue of a lookup is entered in a step of
its own, although the code does so in the same turn of the loop as the beginning
in the first: the model has the behaviours of the code and more.

**Fairness** (`FairSpec`): the database and the file system answer. `Work(o)` is
fair for each operation, since an operation whose turn has come is disturbed by
nobody; nobody has to call.

## 11. Runs and bounds

| Run | Instance | Checks |
| --- | --- | --- |
| `rc_locks` | three owners, two keys, a wait timer, a signal, a low-level takeover, `clear()`, fair | `NoIdleWithWaiters`, `LeaseIsOwned`, `FifoGrants`, `AcquireSucceeds` |
| `rc_handoff` | a person's call with a nested one, an automation with a timer, two handoff requests (one by a person), `clear()`: any four of them over one key, three over two | `OwnershipBacked`, `PendingOwnerCurrent`, `HumanKeepsControl`, `ImplementsLease` |
| `rc_abort_race` | a signal that fires before the acquire | finding: `FailedOwnsNothing` fails |
| `bp_pool` | four scenes of three requests: `EveryJob`, `TwoJobs`, `OnePlace`, `Mild` | `LocksMatchHandles`, `OneLiveInstance`, `NoLostWakeup`, `NothingLeftBehind` |
| `bp_answered` | two requests with timers, destructions, sweeps, `stop()`, fair | `AcquireAnswered` |
| `pl_stage` | a queue with one place; three tasks, two of one id, one urgent, one with two retries; a plugin or a stage with a rival and a crash; fair | the queue: `TasksAccounted`, `Answered`; the stage: `HandlerOwnsRow`, `RowsMove` |
| `dr_runs` | one run with a user's start, recovery and cancellation, or two runs with one key and a user's starts, with or without a recovery; a crash anywhere and the recoveries of `recoverPending` after it, users' calls before, beside or after them; fair | `OneHandler`, `SettledStays`, `RunsEnd` |
| `sd_tasks` | a one-shot and two interval tasks, two timers, two calls from outside, a crash, fair | `OnceOnly`, `ActiveHasTimer`, `NothingHangs` |
| `hs_calls` | eight scenes of one or two sessions, REST or MCP, with up to three calls, a deletion, a stop or a crashing browser, fair | `TasksDoNotOverlap`, `NotUnderCalls`, `CallsAnswered`, `BrowsersReturned` |
| `er_commands` | two commands and the one of the closing, two broken connections or reloads, fair | `OnceInOrder`, `CallersTold`, `QueueMoves`, `BrowserGoes` |
| `et_tab` | a tab with every kind of command that uses the debugger but interception and emulation, any request of which may fail, the handler of a closed dialog and a user who detaches, one entry and one failing post; or with starts and stops of a capture, six entries, a queue of three, batches of two and two failing posts; fair | `DebuggerSettles`, `CaptureIsServed`, `EventsAreHeard`, `QueueIsPosted` |
| `dq_operations` | two operations of any kind and a query or deletion behind them, two datasets, failures anywhere, fair | `InTurn`, `QueuesForgotten`, `AttachedInUse`, `DeletedIsGone`, `OperationsEnd` |

The type invariant of the coordinator is part of `LockInv`, the inductive invariant
of section 12, which is proved. Those of the other modules (`TypeOK`, `StageTypeOK`)
hold on the same instances, but are left out of the runs; most are proved as well.

A property may be the conjunction of named parts, each stated in its module:
`LocksMatchHandles` of `ResetUndisturbed`, `HandleHoldsLock` and `LocksHaveHandles`;
`NoLostWakeup` of `NobodyWaitsForIdle` and a browser for those who wait;
`TasksAccounted` of `ToldOnce`, `OpenIsRecorded` and `StopIsFinal`; `RowsMove` of
`RowsAreMarked` and `RowsAreServed`; `NothingHangs` of `Answered` and `Rescheduled`;
`CallersTold` of `ToldTheTruth` and `StopIsFinal`; `DebuggerSettles` of
`UsersBalanced`, `FlagIsTrue` and `NothingLeftAttached`; `EventsAreHeard` of
`InOrder`, `LossesCounted` and `ClearedIsFresh`. The mutants in `PROJECT.json` break
most parts one by one.

What some properties say, in short. `FifoGrants`: a released key goes to the waiter that came first.
`LeaseIsOwned`: a lease owns the keys it did not lose to a takeover, also when a
displaced lease is released late. `AcquireSucceeds`: an acquire ends with its
lease unless its timer or signal fires, a takeover displaces it, `clear()` drops
everything, or `rc_abort_race` happens. `HumanKeepsControl`: a key leaves a
person's hands only by their own release, by completing a request that they, or
the user interface for them, approved, or by `clear()` (the instance has no
takeovers).
`OwnershipBacked`: a key has an owner exactly when its entry count is not zero,
and the count never exceeds the leases, unfinished acquires and orphaned grants
of that owner.
`OneLiveInstance`: no profile has two instances starting or running, but where
section 13 says so.
`NothingLeftBehind`: at rest, the pool's entries are the live instances, nothing
is counted as being destroyed, every permit is back.

Why the bounds are enough. Two keys are what sorted order, partial failure and
undoing need; three calls give a holder, a waiter and a rival that queues while
the waiter gives up; two requests give a completion after another completion.
In the pool one profile has one queue and one place, so two browser ids show an
instance beside a late one; a third request waits behind the one a thread has
peeked at; a second profile competes for `MaxBrowsers = 1`. `EveryJob` has one
profile and one job at a time, of every kind; `TwoJobs` two at a time, of those that
only give browsers back; `OnePlace` everything that may go wrong, where only the
pool's books and its instances are asked for; `Mild` has jobs that come late and
failing resets but nothing worse, where handles, locks and wake-ups are asked for. `MaxTries` stands for the 100
iterations of a `process()` loop: 2 shows a failed one and the next. `bp_answered`
has `MaxTries = 1`, which only makes the loop give up sooner.
In `pl_stage` one place makes tasks wait; two tasks of one id show a record or a
row that is used again, and `Keep = 1` a history that is trimmed. A stage submits
at most two rows at a time (`Batch`). In `dr_runs` each call is made at most once
and a behaviour makes the calls of one of three sets (`Plays`): everything that can
happen to one run; two runs with one key, where a caller's signal ends the wait for it;
and two runs that `recoverPending` goes through while a user recovers one of them. A
handler saves one checkpoint (`MaxSeq`), and the process dies once. In `sd_tasks` a behaviour has the tasks and
the users of one of six `Scenes`, the pairs of calls that touch the same state;
timers fire twice in all (`MaxFires`) and at most two fired timers are under way;
the process dies once. A crash is what lets a task of the first life meet the
restoration; a second one would meet the same rows.
In `rc_handoff` the parties that meet at a time are limited
(`FewParties` in `MCResourceCoordinator`): competing requests, nested leases and a
waiting automation in every combination but all of them, and two keys for a
request whose owner gives back one of them.
In `hs_calls` a behaviour has the sessions, calls and events of one of eight
`Scenes`: two REST sessions with a common key, one of them deleted, or the server
stopped; three calls in one session, more than its queue takes (`MaxQueueSize` 2),
two of them with one key; the deletion of a session with a call in its own
namespace; the same with a call of another session in that namespace; three calls of an MCP session that lose their browser and one of which
closes the session; an MCP session at a stop; two MCP sessions that close each
other. Each call is made once, and acquires at most once.
In `er_commands` two commands make an order, and the closing one is sent beside
them; two breaks leave a dead poll beside a request that is read late. `et_tab`
has a queue that a failed batch overflows, one that it does not, and entries
behind both; its other scene needs no bound but for the entries and the failing
post, since one command runs at a time. In `dq_operations` two datasets and three
operations are two that stand in each other's way and one that waits behind them:
the third is a query or a deletion, and operations are called in the order of their
names (`OrderedSpec` in `MCDatasetQueues`), which they are interchangeable in
otherwise.
Workers and browser ids are symmetric, except where liveness is checked.
Deadlock is not checked for the pool, the queue, the runs, the scheduler, the
sessions, the relay, the tab and the datasets: they may rest with nothing to do,
every request, task, call, command, entry or operation being used once.

Choices of an instance that keep something out: `rc_*` gives every call outside a
nest its own token; `bp_answered` has neither failing lookups nor fatal creations;
an id serves one open task at a time in `pl_stage`. Conditions that properties name:
`Orderly` scenes (one job at once, no impatient request, equal priorities in a
profile) without takeovers, late jobs or failing lookups in `LocksMatchHandles`, no
slow factory and no `Discarded` instance in `OneLiveInstance`, `Smooth` scenes
(nothing destroyed under its creator, no deleted profile, a place and a permit for
every profile) in `NoLostWakeup`, `LateCancel`, `unmarked` and `OutOfTasks` (a row whose
update to the error status failed), `Calm`, `LetIn`, `Undisturbed`, `LeftBehind`, `excused`,
`unscheduled`, `adrift`, a capture that is `"lost"`, a debugger that is `left` attached,
`Outsiders`, `Early` and `Exporting`. Each of these marks a place
where the code departs from the property; they are in section 13.

## 12. Proofs

Every theorem below holds for any number of keys, calls, tasks, sessions and so on;
what it assumes of the constants is the named `ASSUME` of the module, which TLC
evaluates with the constants of the runs, unless a hypothesis is mentioned. Each
inductive invariant was checked by TLC, with the constants of the runs, before it
was proved.

`ResourceCoordinatorProofs.tla` proves `TypeCorrect`, `Spec => []TypeOK`;
`LockInvariant`, `Spec => []LockInv`; and
from it `NobodyIsForgotten` (`NoIdleWithWaiters`), `QueuesAreExact`
(`QueueMatchesWaiters`) and `OwnershipIsBacked` (`OwnershipBacked`): for any set
of keys, any finite sets of calls and requests, any tokens, shared or not, any
nesting. The only assumption is `CoordinatorAssumption` of the module.

None of the three is inductive alone. A release grants a key to the head of its
queue, so that the head is a call that really waits, for this key and for no
other, is needed for the entry counts; that a free key has no queue is kept by
a withdrawal only because each call is queued at most once; and that a failing
call gives back what it got needs the counts. `LockInv` is the conjunction of
`TypeOK`, `LockShape` (a call that is not running has no key, an orphaned grant
belongs to a call that is giving up or has, a pending request has no lease yet),
`QueueMatchesWaiters`, `NoIdleWithWaiters` and `OwnershipBacked`. The counts are compared with the size
of the set of claimants of each key; the lemmas on `Cardinality` of a set that
gains or loses one element, and on sequences that lose one, carry the argument.
There is one lemma per group of actions and under it one step per conjunct the
action can disturb. `rc_locks` and `rc_handoff` check the parts that are properties
of their own on small instances.

The second part of the module is about control. `OwnerStep` lists the steps that change
the owner of a key. From it and `LockInv` follow `NobodyOvertakes` (`FifoGrants`) and,
with two conjuncts more (`RequestInv`), `PendingIsAddressed` (`PendingOwnerCurrent`) and
`PersonKeepsControl` (`HumanKeepsControl`): `PendingOwnerCurrent` itself, which a release
or a takeover keeps by expiring every request on the key, and `HumanAsked`, that an
approved request for a human's key has the human's or the host's word, which
`completeHandoff` relies on and does not look at again. `LeasesOwnTheirKeys`
(`LeaseIsOwned`) assumes that every call has a token of its own (`OwnTokens`): with a
shared token a late release can take the key from a second lease, a departure listed
below. `PersonKeepsControl` assumes `Takeovers = {}`: the low-level `handoff()` asks
nobody.

The third part proves `KeepsItsPromises` (`Spec => ImplementsLease`, with
`Takeovers = {}`): an owner is a holder, the set of a queue's calls are the parties that
want the key, and each step is `Take`, `Ask`, `Withdraw`, `Leave`, `PassOn`, `Transfer`,
`Forget` or leaves both alone. `LockInv` is needed because a set forgets order and
repetition: that a call is queued at most once makes a removal from the queue a removal
from the set. So what durable runs and the scheduler take from `ResourceLease` holds of
the coordinator for any number of keys and calls.

`DatasetQueuesProofs.tla` proves `OneByOne` (`Spec => []InTurn`) and `NoQueueLeaks`
(`Spec => []QueuesForgotten`) for any set of datasets and of operations, of any
kinds, from `QueuesAssumption`. `InTurn` says nothing of what a promise is chained
to and is not inductive. `QueueInv` adds that the promises of a dataset are numbered
without gaps or repetitions (`Numbered`), that one that waits is chained to the one
with the number before, or to nothing when that is settled (`Chained`), that the map
holds the newest one while it is not settled, and nothing then (`NewestKept`), and
that what has begun has only settled ones before it (`Begun`). One lemma for each of
`Enqueue`, `Begin` and `Settle` shows that they keep it, `OpInv` that operations use
them only with promises of their own and on datasets, and the actions of the module
are each one of the three, or none.

Built on this, `StaysAttached` (`AttachedInUse`) and `DeletedStaysGone`
(`DeletedIsGone`) follow from `HeldInv`, which says what queues an operation holds at
each of its labels, and `DataInv`, what nobody else can therefore do meanwhile: what an
operation has attached in its queue stays attached until it leaves it, what it has
found in the metadata stays there until it has attached it, and between the steps of
a deletion nobody attaches what it detached, but the kinds that look or use outside
of the queue (`Outsiders`, `Early`). The assumption on the constants gained that
`None` is not an operation.

`ExtensionProofs.tla` proves, of the relay, `CommandsInOrder` (`OnceInOrder`) and
`CallersAreTold` (`CallersTold`) for any number of commands and of broken
connections, from `RelayAssumption`. `OnceInOrder` speaks of numbers, and numbers say
nothing by themselves of commands that are dispatched later. `RelayInv` adds that what
is queued, on its way or begun was dispatched, and that dispatches are in order with
the closing command as the last (`Dispatching`), so that an appended command is newer
than all others; that the relay keeps a live poll exactly while the page waits for its
answer, and a command answers polls only (`Connected`), so that a late register or a
dead poll hands nothing to a page that did not ask; and that a result under way, on
the page's connection or on a broken one, is of a command that is over (`Reporting`).
`FlushFacts`, `HeadIsOldest` and `NewestIsLast` are about the queue; there is one lemma
for each handler of the relay and for each action or group of actions, and `QuietFacts`
serves the steps that send no command. TLC agrees that `RelayInv` holds with the
constants of `er_commands`.

Of the tab it proves `EventsHeard` (`EventsAreHeard`), `DebuggerIsSettled`
(`DebuggerSettles`) and `CapturesAreServed` (`CaptureIsServed`) for any
limit of the queue that a batch fits in, any numbers of events and failures, and any
scene, from `EventsAssumption` and `ScenesAssumption`; the first from the invariant
`EventsInv`, the others from `DebuggerInv`. The events come first. A batch that was read and then
failed for the worker is posted again, so that the main process hears of it twice; the
order holds because a batch goes back to the front of the queue whole as far as the
limit allows, from its newest on. `EventsInv` says this with positions: batch and queue
are one increasing sequence (`InLine`), and the next batch to be posted ends no earlier
than the last that was heard of (`Reaches`), whether it is under way, would be cut from
the front of the queue, or is all of it; here the assumption that the limit is no less
than a batch is needed. A batch that was read has been heard of (`Heard`), and what is
under way was captured after the entries were last cleared (`Fresh`). That every loss
is counted compares the number of unheard events with `dropped` when a batch is put
back and its oldest do not fit. A step of the tab that is about the debugger changes
nothing of this (`TabStepsEvents`), nor one of the events of the debugger
(`TabStepsDebugger`).

`DebuggerSettles` speaks of a tab at rest; `DebuggerInv` says what is true on the way.
Chrome owes one answer to each run that waits for it, and none to others (`Mail`). The
flag is right once the inbox has been read (`FlagOK`): Chrome is attached if the flag
is set and no message will lower it, or if the answer to an `attach` will set it behind
all messages that lower it. This needs the answers of a command and of the handler
of a dialog to come in one order, which is why the model has one inbox. `UsersOK` says for each kind
of command and each step who is counted: a navigation until its page is ready, a
capture from its start on. There is an exception: a first start that failed gives its
user back and leaves `enabled` set, and a navigation to a data: URL gives its user
back twice (`capture = "lost"`, section 13). `HeldInv` says who wants an attached
debugger, will let go of it, or has left it so or will (`left`). For `CaptureIsServed` the network domain must be
enabled whenever the worker takes it for enabled, up to news that are under way and to
a capture that was lost (`DomainOK`); that Chrome's answer to `Network.enable` is
believed only when no such news precede it is a condition of its own (`InTime`). The lemmas
`Mail...` say what a message taken or appended does to the inbox; `Asks`, `GoesOn`,
`EndsOK` and `FailsOK` what the four ways for a command to go on need, and the
functions of the source (`LetsGoOK`, `ReleasesOK`, `EnsuresOK`, `AttachesOK`,
`AcquiresOK`) are proved from these, the commands from the functions. TLC agrees that
`DebuggerInv` holds in the scenes of `et_tab`.

`DurableRunProofs.tla` proves `RunTypes`, `OneHandlerOnly` (`OneHandler`) and
`SettledForGood` (`SettledStays`). `OneHandler` counts handlers; the invariant says
where they come from. As long as no execution of a run was aborted, one that is under
way is the one registered in `control` (`Registered`), which start and recovery look
at without an `await` in between; and a fresh start happens in a run that was
`pending`, which every write of a record ends, and its own write comes before the
handler (`Afresh`, `LeftInv`). That handlers of two runs with one key exclude each
other follows from the lease alone (`Leased`), by the actions of `ResourceLease`.
`SettledStays` is about runs that no user's call was let in for since the restart (`LetIn`).
Only a recovery of `recoverPending` can write to such a run; each has a run of its own, and
neither the run nor what the recovery has read of it is settled while it goes on, nor was
the run before its turn (`Swept`, `Unsettled`). The three lemmas are that a call once
let in stays let in (`LetInStays`), that a user's call leaves other runs alone
(`UsersStep`), and what a step of such a recovery does (`SweepsStep`).

`SchedulerProofs.tla` proves `SchedulerInv`, `SchedulerTypes`, `BegunOnce`
(`OnceOnly`) and `ActiveIsScheduled` (`ActiveHasTimer`). A one-shot task has one
chance to be begun by the scheduler itself: its row that is still to be inserted, its
timer, its place in the list of the restoration, or a call on the way to it; `Single`
says that these are exclusive, and that a call that is past its decision has disabled
the row, which is why a crash gives no second chance. `CoverInv` says who will give an
active task without a timer its timer, stop it, or disable it: a fired timer, a
restoration, an execution that schedules the next run when it is over; and that one
which suppresses this is waited for by somebody who stops the task (`SuppressOK`).

`HttpSessionsProofs.tla` proves `SessionsInv`, `SessionTypesHold`, `CallsExclude`
(`TasksDoNotOverlap`) and `ToldBeforeRelease` (`NotUnderCalls`). The invariant has
five parts. `QueueInv`: only the first call of a session's queue executes; a task
the queue has given up on is in a session that is closing, where no other starts.
`CleanupInv`: who cleans a session up has taken it off the list and aborted its
tasks. `OneTask`: the tasks of a session exclude each other, which follows from the
first two at every start of a task. `KeyInv`: between the reservation of a key and
the storage of its result the row is the call's own, or its session knows the result,
or the session was deleted and the row with it, when no other task of it is left to
ask. `BrowserInv`: whoever uses a browser is of its session, a browser that is still
being acquired is used by nobody, and a session's handle is given up only when each
task that is left has been told. Actions are first sorted by what they change; a
lemma for each part says that steps which do not touch it keep it, and the others
have a lemma each.

`BrowserPoolProofs.tla` proves `PoolInv`, `OneInstance` (`OneLiveInstance`),
`NothingIsLeft` (`NothingLeftBehind`), `HandlesAndLocksAgree` (`LocksMatchHandles`)
and `PoolTypes` (`TypeOK`), for any number of permits, places, threads,
browsers and profiles, in any scene. A browser is tied to its profile by its entry or
by a destruction that waits for its factory; `OneTied`, that one is at most, holds
because a placeholder needs a profile without entries and without counted
destructions, so that the counts must be right: `Books` compares the permits and
`destroying` with the sets of threads and browsers they stand for. `LivesInv` says who
will deal with what is not settled: the one thread that creates a browser (`Creation`)
knows of its entry, instance and clean-ups, a thread that destroys one
(`Destruction`) finds it in the map or gone, and an instance outside the map has a
clean-up or a creator that discards it. `ThreadsInv` is what the threads need to get
there: which calls may follow which. The steps that only move locks and
requests are `PlainStep`s, which `PlainStepOK` deals with at once; of the others each
disturbs one browser, and `FocusOK` says that the rest of the invariant is kept.

Handles and locks need a second invariant, `Order`. Its first part, `Calls`, holds in
every scene: a thread makes the call of its own request or of the waiter it owes an
answer, no two threads owe the same one (`OweOne`), a queue has each request once and
only such as wait in it (`QueueOK`), and only a locked entry has a holder (`EntryOK`). The
second, `Locks`, is about scenes with one job at a time. A request that takes a browser
over does so while nobody else is at a prompt step and no answer is on its way
(`SeizeInv`), so that the entry it saw is the entry it changes; and all else that can disturb a lock on its way is
the one job under way (`WorkInv`). `WorkerAt` says for each step of that job whose lock the
browser in its hands carries: the head of the queue's (`HeadAt`, `DequeueAt`), nobody's
during a reset (`ResetAt`), its aim's (`AimAt`). Then a lock has its handle or is in the
job's hands (`LocksInv`), a handle has its lock (`HoldsInv`), and a browser that is left
in a stopped pool is one its job will destroy (`StopInv`). Each action of a job preserves its part (`Worked`), each step
of a request or from outside leaves the job its browsers (`Elsewhere`). TLC agrees that
`Order` holds in the scenes of `bp_pool`. `PoolTypes` follows from both invariants and
`LineInv`: whoever waits for a permit is in the semaphore's line, which is therefore not
empty when its head is served.

`PipelineProofs.tla` proves `TasksAreAccounted` (`TasksAccounted`),
`HandlersOwnTheirRows` (`HandlerOwnsRow`) and `StageTypes`, for any tasks, ids and
priorities, any number of retries, places and rows, and a queue that a plugin or a
stage uses; rows must be finitely many. The lemmas of the first part are about one
task's record: `Life` says, for each place a task can be at, what it has told, what its
promise is and whether its record must still be there, and `GoesOn` that a step
advances it: no task is opened twice, none enters the line again, and once
its record may be cleaned up (`Cleanable`) it may be for good. Each action then has a
lemma that it is a `StepOK`: the tasks go on, records are only lost, and none is lost
that must be found. The clean-ups and the trimming meet only finished tasks because
timers wait for the promise callbacks (`Turn`, `TimersForgetFinished`). `add` and a
batch are the only steps that open tasks (`AddingKeeps`), and those of a stage need
that nothing is open when a batch is submitted (`BatchOK`). A handler has its row for
itself because a row that waits is at no handler and no rival (`RowsOK`), which only
the conditional update of the claim turns into an owner.

What the proofs found. `LocksMatchHandles` and `NoLostWakeup` were each stated with
too few exceptions, and TLC confirmed what the proof could not exclude in wider
instances: locks go astray by a takeover on the way to a waiter, a job that comes to
a browser late, unequal priorities or a failing lookup; wake-ups by failing
lookups, fatal errors, slow factories, deleted profiles, two profiles in one place, or,
without any job or failure, two profiles with one permit (section 13).
`OpenIsRecorded` claimed a record for the whole delay before a retry; the proof failed
at `EndDelay`, and TLC confirmed with a second retry that the record may be gone by
then (section 13): `pl_stage` has one with two retries now. The
proof of `OneInstance` stopped at `Discard`: an instance
that a stopped pool discards is tied to nothing. Three browsers and two permits
confirmed that its profile may get another one (section 13), which the one permit of
`bp_pool` hides. `Saved` in `DurableRun` had two guards that overlapped, of
which `CASE` allowed TLC one: they are disjuncts now. `TasksDoNotOverlap` was stated
without an exception and is false: the deletion of a session drops the rows of every
key whose namespace is its id, those other sessions use included (section 13); the
assumption of the module excluded the case in the instance, and the eighth scene of
`hs_calls` has it. `TypeOK` of the scheduler says now what a record of a thread is.
Assumptions that came with the proofs say that symbols differ (`None`, `"none"`,
`"done"` are no call, run or operation; the calls of a restart are not those of a
user) and that only MCP calls close sessions.

Checked by TLC only: all liveness, which stays with TLC for good, and one invariant of
the pool. `NoLostWakeup` would have to say which threads can be between two
steps together along the chain of creation permits, and which of them will look at
the queue last; that needs an order on the threads in `line` and a count of the
attempts of a `process()` loop (`MaxTries`), and was not attempted.

## 13. Where the code departs from what it says

One departure has a run of its own, `rc_abort_race`: `acquireOne`
(`core/resource-coordinator.ts:557`) looks at the signal after it has queued; a
release in between grants the key, and the acquire throws with the key owned for
ever. Others show up when an instance is widened, or when an exception is taken
out of a property; no run is kept for them.

*Coordinator and pool*

* `process()` (`core/browser-pool/wait-queue-coordinator.ts:171`) locks the browser
  for the request it peeked at and hands it to the one it dequeues after an
  `await` (`Orderly` in `LocksMatchHandles`: no timers, equal priorities).
* A token that acquires again after its lease was displaced loses the key to the
  release of the old lease (`resource-coordinator.ts:694`), and an approved,
  paused request lets a displaced automation believe in its lease until it reads
  the event (291).
* An overdue request found on use is marked expired without an event (889).
* A waiter taken off the queue has no timer any more; if the profile lookup of
  `transferBrowserToWaiter` throws (`wait-queue-coordinator.ts:73`), or the
  replacement's creation does (line 96), nobody answers it (`lookup`,
  `AcquireAnswered`).
* A factory that outlives its time limit runs beside the next one: two instances
  of one profile (`global-pool.ts:477`; `"slow"` in `OneLiveInstance`).
* A creation that finds the pool stopped takes its entry out of the map before it
  closes its instance, and does not count the profile as being destroyed
  (`global-pool.ts:451`); a creation for the same profile that waited for a permit
  does not look at `stopped` again (359) and starts a second instance beside it,
  although the file promises one (14). Three requests for two profiles, three
  browsers, `MaxCreating = 2` and a `stop` show it when `Discarded` is taken out of
  `OneLiveInstance`.
* `checkLockTimeout` and `evictIdleTimeout` work through a list made earlier
  without looking again (954, 904; `"batch"`, `HandleHoldsLock`).
* A takeover while a release looks up and resets is undone by the release's
  `handoffLock` (`wait-queue-coordinator.ts:124`; `Takers`, `HandleHoldsLock`).
* A creation refused for a passing reason queues its request with nobody to
  serve it before its time limit (`browser-creation-strategy.ts:70`; `refused`,
  `NoLostWakeup`); so does a placeholder that is destroyed before its
  creator has queued again (`global-pool.ts:833`; `destroy`).
* The place a destroyed browser leaves in a full pool is offered to its own
  profile only (`pool-manager.ts:481`; two profiles, `MaxBrowsers = 1`).
* A request passes the first check of `createBrowser` while the browser of its profile
  is still to be made by another one, and waits for a permit behind the creation of
  another profile (`global-pool.ts:359`); meanwhile the first browser is made, used and
  released to an empty queue. The second check then refuses (375), the strategy makes
  nothing of the error (`browser-creation-strategy.ts:69`), and the request queues
  beside an idle browser until the next release or its time limit, although requests
  enter the queue "when no browser is available" (`wait-queue.ts:4`). Two profiles with
  a place each, `MaxCreating = 1` and three requests show it, without any job or mishap
  (`NobodyWaitsForIdle`; `Smooth` in `NoLostWakeup`).
* Two `process()` loops over one queue lock a browser for nobody
  (`wait-queue-coordinator.ts:171`; `AtOnce = 2` with all jobs,
  `LocksHaveHandles`). The lock timeout ends it.

*Task queue and pipeline* (`queue.ts`, `pipeline.ts`)

* A task cancelled in the delay before a retry is rejected without an event, its
  status stays `running` (`queue.ts:555`; `LateCancel` in `ToldOnce`). A retry
  under way loses its record five seconds after it began, when the clean-up of
  the attempt before is due (573), and has none in the delay before the next one
  either: it cannot be cancelled by its id (`OpenIsRecorded` asks for the first
  attempt and the first delay).
* `add` with the id of an open task replaces its record: `clear()` or `stop()`
  then never answers the first one (158). `stop()` of a paused queue starts
  pending tasks before it clears them (329).
* A claimed row stays in its processing status, which no query selects, when its
  handler reports a skip, when the claim succeeded and a retry follows, and when
  the process dies (`pipeline.ts:247`, 309; `RowsAreMarked`), although the file
  speaks of resuming after a restart (9). So does one whose update to the error status
  fails, which is only logged (288; `unmarked` in `RowsAreMarked`). When the claim had
  failed as well, the next round takes the row up again, for which an instance may have
  no task left (`OutOfTasks` in `RowsAreServed`).
* `stop()` marks rows as errors that no task has claimed (288). The handler of a
  task that timed out writes its result over the error status when it ends (265).

*Durable runs* (`durable-capability-run.ts`)

* `updateRun` writes the whole record it has read: a cancellation request or a
  checkpoint in between is lost, and `cancel_requested` can be written over a
  terminal status (`capability-run-store.ts:159`; `Undisturbed` in `RunsEnd`,
  `LetIn` in `SettledStays`).
* After a restart users' calls touch runs that are settled: `recover` takes up a paused
  run again, as it is meant to (146), `requestCancel` writes over what has changed since
  it read the record, and `recoverPending` may write `paused_manual_review` over the
  `completed` of a user's recovery that ran beside it (483; `LetIn` in `SettledStays`).
* `recoverPending` ends at the first recovery that throws (228), because a user has
  ended that run meanwhile or is recovering it: the rest of the list is left
  (`LeftBehind` in `RunsEnd`).
* The last update of an execution is returned without `await`, so that the
  `finally` removes the controller before the status is written (367, 390).
* After an abort a recovery starts a second handler beside the first, whose
  `finally` then removes the second one's controller (447, 391; `Calm`).
* A store that throws between the registration of the controller and the `try`
  leaves the run unrecoverable until a restart (302). This is not in the model, which
  has no failing store.

*Scheduler* (`scheduler-service.ts`)

* A pause or a cancel between a fired timer and its query is not seen by the
  query that was sent before: the execution begins after `pauseTask` has returned
  (629). A pause writes `paused` over the `disabled` of a one-shot (297), which a
  resume then runs a second time (`excused`).
* The restoration works through a list read once (115): it schedules tasks that
  were paused or deleted meanwhile, may run a one-shot again that was created
  before it and fired meanwhile (`excused`), and leaves a task without a timer
  whose recovery meets an execution (`unscheduled`).
* `dispose` forgets executions that begin while it waits (496), and loses a
  one-shot that is between its mark and its execution.
* The lease of an execution that was aborted is released while its handler may
  still run (937). An immediate interval task counts as missed when its creation
  takes a millisecond, and gets no timer when it takes none (540, 570).
* `setMonth(getMonth() + 1)` on days 29 to 31 skips a month
  (`cron-parser.ts:127`).

*Sessions*

* An acquire whose call has timed out goes on (`mcp-http-session-runtime.ts:1047`).
  It looks at the signal of the call that executes by then; when that call has
  acquired a browser as well, the later of the two overwrites the other, which is
  never released (1076; `adrift` in `BrowsersReturned`).
* A `POST /sessions` that waits for its browser during `stopHttpServer` is
  registered after the lists were cleared, and nobody cleans it up
  (`http-server-lifecycle.ts:114`; `adrift`).
* A reservation whose call is refused before its capability, overflows the queue,
  times out or dies with its session stays `running`: the key is refused until the
  entry expires (`orchestration-http-routes.ts:625`). It also expires under a call
  that takes longer than 300 s with its wait in the queue. The deletion of a session
  removes the rows of its own namespace only.
* The deletion of a session also removes the rows of other sessions' keys, when a
  client has named its id as their namespace (`orchestration-http-routes.ts:219`, 561),
  although custom namespaces are meant to be durable across deletions
  (`schemas/orchestration-openapi-v1.json:785`). A task that was given up and still
  works loses its reservation this way, and the next call with the key executes beside
  it (`Borrowed`, `Dropped` in `TasksDoNotOverlap`).
* `set` deletes the row and inserts another one: a call between the two executes
  again, after the first, and one insertion fails, so that a client is told of a
  failure although its call succeeded (`orchestration-idempotency-duckdb-store.ts:162`).
* Any response of a session that is to terminate ends it, not only that of the call
  that closed it (`mcp-http-session-lifecycle.ts:22`): calls that execute or wait
  then are aborted or refused.

*Extension relay*

* A command whose caller has given up stays in the queue and is executed
  (`extension-control-relay.ts:383`). A reloaded page fetches the next command
  while the worker still executes the one before.
* A first start of the network capture sets `enabled`
  (`extension-control-extension-background-command-network.ts:89`) before two
  calls that may throw; the next start then takes the capture for running, counts
  no user, reports success, and nothing need be captured (`capture` is `"lost"`).
* A navigation to a `data:` URL that waits for a quiet network gives its user back
  before it waits and again when it has failed
  (`extension-control-extension-background-command-dispatcher.ts:37`, 69), and so
  ends a capture (`capture` is `"lost"`).
* `dialog.arm`, `dialog.wait` and `dialog.handle` attach the debugger
  (`extension-control-extension-background-prelude.ts:560`, 563, 617) and leave it so when
  they are through, or have thrown: only the time limit of `dialog.wait` lets go of it. A
  navigation that waits for a quiet network acquires it outside its `try`
  (`extension-control-extension-background-command-dispatcher.ts:22`), and what is undone
  when `Network.enable` fails is the count, not the attachment. It stays until the next
  command, or handler of a closed dialog, that lets go (`left` in `NothingLeftAttached`).
* `network-reset` is posted past the queue of entries
  (`extension-control-extension-background-command-network.ts:98`), so
  that entries from before a clearing start are listed after it (`cleared` in
  `ClearedIsFresh`).
* `dialog-opened` and `dialog-closed` have connections of their own and may be
  read in either order (`extension-control-extension-background-command-network.ts:496`);
  not in the model.
* Commands of a tab overlap when the page that fetches them is reloaded, and behind a
  click or a `dialog.handle` with `nonBlocking`
  (`extension-control-extension-background-command-dispatcher.ts:156`,
  `extension-control-extension-background-prelude.ts:658`); not in the model.

*Datasets*

* An export waits in the queue of each dataset it looks up from within its own
  (`duckdb-service-query-facade.ts:283`); two exports that look up in each other's
  dataset, or one that looks up in its own, never end (`Exporting` in
  `OperationsEnd`).
* The dictionary of a filter is attached outside its queue
  (`dataset-query-service.ts:425`), and a deletion detaches it under the filter; an
  export uses its second dataset after it has left that one's queue, as does a query
  with lookups (`queryWithEngine`, `duckdb-service-query-facade.ts:55-63`; `Outsiders` in
  `AttachedInUse`).
* An operation that read the metadata before it was queued attaches the file of a
  dataset deleted meanwhile (`dataset-service.ts:480`), which makes an empty one
  (`Early` in `DeletedIsGone`).
* When the metadata of a dataset cannot be deleted after its file
  (`dataset-storage-service.ts:677`), the dataset stays listed, and its next use
  makes an empty file (`Forget` fails).

## 14. What is not covered

* In the coordinator: events and listeners, the wording of reasons, owner
  metadata beyond the kind, `snapshot` functions.
* In the pool: the sorting of the whole queue, with a bonus for long waits, at the first
  look after an enqueue (`wait-queue.ts:158`, 473; here a newcomer is put in its place, and
  no property speaks of the order), the `specific` reuse strategy, the closed-instance test of the
  reuse (`pool-reuse-strategy.ts:60-70`), several runtimes in one profile (one
  queue per profile here), `renew` (time is abstract), replacement of the
  semaphore by `setConfig`, the health check of entries without an instance,
  further browsers of a plugin or sweep in the same call unless `batch` is on,
  events, statistics and the runtime descriptors.
* In the task queue: `rateLimit`, progress, statistics. In the pipeline: pause
  and resume, failures of the query that polls, the other columns; several stages meet only in the
  statuses of rows.
* In durable runs: failures of the store, results, artifacts, grants, checkpoint
  numbers chosen by a handler, the rows of the attempts, the limit of the
  recovery list.
* In the scheduler: `deleteTasksByPlugin`, the registration of handlers, cron and
  interval expressions, statistics and executions in the table, failures of the
  database, the millisecond in which a task is due, timers of more than a day.
* In the sessions: heartbeats and read-only routes, preparation, visibility and
  viewports, the retry of `ensureCurrentSessionInteractionReady`, metrics,
  payloads that conflict, corrupted rows, an entry that expires while it is in use;
  pool and coordinator below the browser adapter, which appear as a choice of
  outcomes.
* In the relay: authentication, several tabs, the commands' own work, interception
  and emulation (which hold the debugger as the console does), commands of a tab that
  overlap (section 13), console and dialog events, `network.clear`, a `data:` URL that opens in time.
* In the datasets: SQL, imports, transactions and errors of the database other than
  a failing step, a `DETACH` that fails, plugin tables, several connections.
* Everything listed as not modelled in `PROJECT.json`.

## 15. Running

    tlc -workers 2 -config RCLocks.cfg MCResourceCoordinator
    tlc -workers 2 -config RCHandoff.cfg MCResourceCoordinator
    tlc -workers 2 -config RCAbortRace.cfg MCResourceCoordinator
    tlc -workers 2 -config BPPool.cfg MCBrowserPool
    tlc -workers 2 -config BPAnswered.cfg MCBrowserPool
    tlc -workers 2 -config PLStage.cfg MCPipeline
    tlc -workers 2 -config DRRuns.cfg MCDurableRun
    tlc -workers 2 -config SDTasks.cfg MCScheduler
    tlc -workers 2 -config HSCalls.cfg MCHttpSessions
    tlc -workers 2 -config ERCommands.cfg MCExtensionRelay
    tlc -workers 2 -config ETTab.cfg MCExtensionTab
    tlc -workers 2 -config DQOperations.cfg MCDatasetQueues
    tlapm ResourceCoordinatorProofs.tla
    tlapm BrowserPoolProofs.tla
    tlapm DurableRunProofs.tla
    tlapm SchedulerProofs.tla
    tlapm HttpSessionsProofs.tla
    tlapm PipelineProofs.tla
    tlapm ExtensionProofs.tla
    tlapm DatasetQueuesProofs.tla

The largest runs take about three minutes on two workers.
