# A TLA+ model of qubit-concurrent

This directory models the concurrent part of the crate: the dynamic thread
pool (`src/task/service/thread_pool`), the task handle
(`src/task/task_handle.rs`) that connects a submitted task with its owner, the
thread-per-task, Rayon and Tokio services, the fixed thread pool with its
work-stealing queues, the contract that all services share
(`src/task/service/executor_service.rs`), the facade over four of them
(`src/task/service/execution_services.rs`), the monitor they block on
(`src/lock/monitor.rs`), and the double-checked lock executor
(`src/double_checked`).
Source paths below are relative to the repository. The sections are: the parts
of the system, the modules, the runs, the fairness, the findings, the proofs,
what is not modelled, and the plan.

## 1. The system

### Inventory

| Part | State | Operations | What is hard |
|---|---|---|---|
| `thread_pool` (`ThreadPoolInner`, `ThreadPoolState`, worker loop) | lifecycle, a global queue, one local queue per worker, five counters, three statistics, core and maximum size, keep-alive policy; all under one monitor | `submit`, `prestart_core_thread`, `prestart_all_core_threads`, `set_core_pool_size`, `set_maximum_pool_size`, `set_keep_alive`, `allow_core_thread_timeout`, `shutdown`, `shutdown_now`, `wait_for_termination`; worker: `wait_for_job`, `job.run`, `finish_running_job`, `unregister_exiting_worker` | one condition variable for idle workers and termination waiters; notifications after the monitor is released; time-outs that race with jobs; policy read before a wait and changed during it; thread creation that fails; jobs that panic |
| `task_handle`, `task_runner` | result, `started`, `completed`, waker, `done` | `start`, `complete`, `start_and_complete`, `cancel`, `get`, `poll`, `is_done` | start against cancel, waker registration against completion, several completion endpoints |
| `lock::Monitor`, `MonitorGuard`, `ArcMonitor` | a mutex and a condition variable | `lock`, `read`, `write`, `wait`, `wait_timeout`, `wait_while`, `wait_until`, `wait_timeout_while`, `wait_timeout_until`, `wait_notify`, `notify_one`, `notify_all` | spurious wakeups, lost notifications, deadline arithmetic |
| `ThreadPerTaskExecutorService` | `shutdown`, `active_tasks`, submission lock, termination condition variable | submit, shutdown, shutdown_now, await_termination | notification without the waiter's lock |
| `RayonExecutorService` | as above, plus `queued_tasks` and a map of pending cancellations | the same, plus cancel of a handle | start/cancel/shutdown_now on separate atomics; `Notify` |
| `TokioExecutorService`, `TokioIoExecutorService`, `TokioTaskHandle` | as above, plus a list of abort handles | the same | abort handle stored late; aborted wrapper of a running closure |
| `ExecutorService` trait, `ShutdownReport`, `RejectedExecution` | none (the contract) | | |
| `ExecutionServices` | four services | `build`, `submit_*`, `spawn_io`, `shutdown`, `shutdown_now`, `is_shutdown`, `is_terminated`, `await_termination` | calls that visit four services in turn without a lock; services that answer, cancel and notify each in its own way; a build that fails halfway |
| `task::executor` (direct, delay, thread-per-task, Tokio) | none | `call`, `execute` | |
| `double_checked` | caller's data under a lock, prepare/commit/rollback actions | `call`, `execute`, `call_with`, `execute_with` | condition that changes between the two tests; one step of several failing |
| `lock` wrappers (`ArcMutex`, `ArcRwLock`, ...) | none of their own | forward to std, parking_lot, tokio | |
| `FixedThreadPool`, `WorkerQueue` (`fixed_thread_pool.rs`, `worker_queue.rs`) | lifecycle and live workers under a monitor; flags, counters of submissions, idle workers, wake tokens, queued and running jobs as atomics; a global queue, an inbox and a local queue per worker | `build`, `submit`, `shutdown`, `shutdown_now`, `wait_for_termination`; worker: `try_take_job`, stealing, `accept_claimed_job`, `finish_running_job`, `wait_for_fixed_pool_work`, `worker_exited` | a submission that takes no lock against shutdown; stealing; wake tokens; no `mod` names these files yet, so they are not exported |
| `thread_pool/cas.rs` | | | no `mod` names it and nothing uses it |

### How the parts interact

`ThreadPool::submit_callable` makes a `TaskHandle::completion_pair`, wraps its
two endpoints in a `PoolJob` (a run callback that calls `run_task`, a cancel
callback that calls `cancel`) and gives the job to `ThreadPoolInner::submit`.
A worker thread runs the run callback, `shutdown_now` (or a submit that has to
be rolled back) the cancel callback; either publishes the result in the task's
cell and wakes the owner. `submit_job` accepts a `PoolJob` with arbitrary
callbacks, which, unlike `run_task`, may panic. The other services use the same
cell with a scheduler of their own. All blocking goes through `Monitor`, except
in `ThreadPerTaskExecutorService`, which has a condition variable of its own,
and in the Rayon and Tokio services, which use `tokio::sync::Notify`.

### What makes each part correct

* Pool: an accepted job is in exactly one place until it is run once or
  cancelled once; counters and statistics are exact; the bound and the two sizes
  are respected; no queued job is left while every worker sleeps; nobody sleeps
  through a shutdown; a pool that is shut down terminates, for good, and its
  waiters return; a policy change reaches the sleeping workers.
* Task handle: start and cancel exclude each other; one result is published and
  reaches the owner; no owner sleeps beyond the completion.
* Other services: their counters are exact whoever starts, cancels, aborts or
  completes a task; termination is reported truthfully, is final and is
  reached; waiters are woken.
* All services: a task is accepted only before shutdown and then runs or is
  cancelled, never both (`ExecutorService`).
* Monitor: a state that becomes ready is noticed by a waiter; a timed wait keeps
  its timeout however often it is woken, and returns in spite of a poisoned
  mutex.
* Fixed pool: an accepted job is in one pair of hands, the counters that decide
  about termination follow it, and the last worker leaves no job behind.
* Facade: after a shutdown no service accepts a task, what `is_terminated` says
  leaves no task that may still run, and `await_termination` returns.
* Double-checked executor: of callers that race to make the condition false one
  succeeds; what was prepared is finalized by the right action; the result
  tells what the task did.

`PROJECT.json` lists the hazards at their lines, with the properties that
would notice them.

## 2. The modules

### `ThreadPool`

The monitor makes every critical section atomic, so one critical section is one
action. What a thread does outside the monitor is a separate action, with a
program counter (`worker[w]`, `caller[c]`) in between: `submit`'s `notify_one`
(`NotifyOne`), the `notify_all` of the four setters (`NotifyAll`), the run
callback (`RunJob`), the cancel callbacks (`CancelJob`), the second and later
rounds of `prestart_all_core_threads` (`PrestartNext`), and the way out of a
`wait` (states `woken`, `timed_out`), where the thread has left the wait set but
does not have the monitor yet. `worker_queues` has a mutex of its own that is
only taken under the monitor and therefore adds no interleaving.

| Variable | Code |
|---|---|
| `lifecycle`, `queue`, `queued_tasks`, `running_tasks`, `live_workers`, `idle_workers`, `submitted_tasks`, `completed_tasks`, `cancelled_tasks`, `core_pool_size`, `maximum_pool_size`, `allow_core_thread_timeout` | the fields of `ThreadPoolState` |
| `worker_queues` | the local queues of `ThreadPoolInner::worker_queues`, by worker |
| `worker`, `held` | where a worker thread stands in `run_worker`/`wait_for_job`, the job it holds |
| `caller`, `drained` | where a client stands inside a pool method, the jobs it still has to cancel |
| `fate` | what became of each job (a history variable; no guard but "submitted once" reads it) |

| Action | Code |
|---|---|
| `SubmitRejected`, `SubmitToNewWorker`, `SubmitSpawnFails`, `SubmitQueued`, `SubmitWithdrawn` | the outcomes of `submit`: refused; first task of a new worker; that thread cannot be created; queued, with a first worker if there is none; queued and taken back because that worker cannot be created |
| `SpawnWorker`, `SpawnFails` | `spawn_worker_locked` and its rollback |
| `PrestartOne`, `PrestartAll`, `PrestartNext` | `prestart_core_thread`, `prestart_all_core_threads` |
| `SetCorePoolSize`, `SetMaximumPoolSize`, `SetKeepAlive`, `AllowCoreThreadTimeout` | the setters (a refused value changes nothing and is a stuttering step) |
| `Shutdown`, `ShutdownNow`, `AwaitTermination` | `shutdown` (and `Drop`), `shutdown_now`, `wait_for_termination` |
| `TakeLocalJob`, `TakeGlobalJob`, `GoIdle`, `ExitWorker` | the ways through `wait_for_job` |
| `RunJob`, `FinishRunningJob` | `job.run()`, `finish_running_job` |
| `KeepAliveExpires`, `SpuriousWakeup`, `SpuriousReturn` | what the condition variable and its timer may do |

Abstractions: a timed wait may expire at any moment (durations are not
modelled); a local queue is any registered one (the code takes the next of a
wrapping round-robin cursor, which the number of steals moves arbitrarily); a
worker identity may be reused after its thread has exited (the code numbers
threads); `Injector` is a FIFO queue because it is only used under the monitor;
`steal_back`, despite its name, takes the oldest job, as `pop_front` does.

### `MCThreadPool`

`ThreadPool` with the symmetry sets TLC uses. Only runs without temporal
properties use symmetry.

### `TaskHandle`

The cell of one task: `result`, `started`, `completed`, `waker` under the
monitor and the atomic `done`. Runners execute `start_and_complete`, cancellers
call `cancel`, the owner may block in `get`, be polled, or turn from one to the
other. `Finish` is `finish` up to the release of the monitor;
`NotifyCompletion` and `Wake` are its two steps after that. A handle that has
delivered its result is used up (as the contract of `Future` and the signature
of `get` say).

### `Monitor`

The mutex is explicit here, since a wait function holds it from its test until
it is on the wait set. The protected state is a number of tokens: `Write` is
`write` with a callback that adds one, `WritePanics` one that panics and poisons
the mutex. `Lock`, `Test`, `Measure`, `Sleep`, `Relock` are the steps of
`wait_while`/`wait_until`, `wait_timeout_while`/`wait_timeout_until` (`Measure`
is the arithmetic on the remaining time) and, without a predicate,
`wait_notify`; `TimesOut`, `SpuriousWakeup` and `Notify` are the ways off the
wait set. Time is discrete (`Tick`) and kept relative to each call: `elapsed`
since `start`, `alarm` the rest of the present `wait_timeout`, `slept` what the
call has spent asleep. A sleeper may be woken late, as a real one. A program
that uses `wait_notify` beside predicates announces changes with `notify_all`
(`broadcast`), because a `wait_notify` would consume a single notification and
take nothing.

### `ExecutorService`

The contract of the trait, without threads, queues and counters: each task is
`new`, then `rejected` or `accepted`, and an accepted one is `running` and
`completed`, or `cancelled`. `Submit`, `Start`, `Complete`, `Cancel` and
`RequestShutdown` are its actions. With `CanAbort` a running task may be
cancelled, which only the Tokio services do. A service may refuse a task for
any reason (saturation, a thread that cannot be created) but may not accept one
after shutdown. The service modules instantiate it and state
`ImplementsService == Service!Spec`; all but one have the variables `status`
and `shutdown` themselves, the pool maps `fate` and `lifecycle` to them
(`ServiceStatus`; a panicked job is `completed`, a drained one is still
`accepted`).

### `ThreadPerTaskService`

`shutdown` and `active_tasks` are the atomics of the state; `status` is the task
as its handle reports it; `pc` says where the task threads and the clients are.
`submission_lock` is held exactly by clients in `check` and `notify`, so it is a
predicate (`SubmissionLockFree`), and likewise `termination_lock` by the client
in `tested`. `Submit` and `SubmitPanics` are `submit_callable` with a successful
and a panicking `thread::spawn` (which leaves the task counted: `lost`); `ThreadStarts`, `ThreadCompletes` and
`ThreadFinishes` are the body of the thread; `CheckTerminated` and `NotifyAll`
are the two steps of `notify_if_terminated`, which threads and clients take
without `termination_lock`; `AwaitTermination` and `Wait` are the test and the
wait of `wait_for_termination`; `Cancel` is `TaskHandle::cancel`. The two
shutdown calls are one action because the report of `shutdown_now` is a read.

### `RayonService`

One action per atomic operation: the two counters, the map of pending
cancellations and the cell of the task are changed in separate steps, by the
closure (`JobStarts`, `RemovePending`, `Dequeue`, `JobCompletes`, `Finish`), by a
client that cancels (`Cancel`, then the same bookkeeping steps) and by
`shutdown_now` (`ShutdownNow`, `ReadQueued`, `ReadActive`, `DrainPending`,
`CancelNext`, `CancelledAll`), whose report is modelled because it is
computed from two counters read at different moments. The cell is abstracted to
a status whose transition from `accepted` is what `TaskHandle` shows to have one
winner. `Submit` is one action: it holds `submission_lock`, and those who read
the counters without it do so only after shutdown. `DropFuture` is a caller that
gives up its `await_termination` future.

### `TokioService`

Both Tokio services; the variable `blocking`, chosen in `Init`, selects what the
wrapper awaits.
A wrapper is `spawned`, `polled`, then its guard is dropped (`DropGuard`),
because the body ended (`LastPoll`) or because the runtime dropped it
(`DropAborted`). `closure` follows the closure on the blocking pool, which
nobody can stop. `PushHandle` is the late store of the abort handle: between
`Submit` and it the wrapper may already run, end, or be missed by
`shutdown_now`. The lock of the abort handles is held during the whole abort
loop. The runtime is external and modelled from its documented behaviour.

### `FixedThreadPool` and `MCFixedThreadPool`

`submit` takes no lock, so an action is one atomic operation or one queue
operation, and the monitor is a variable. Operations are merged only where
nobody could tell, which the comment of the action says. The three looks of
`submit` at `accepting` are `BeginSubmit`, `Recheck` and `Accept`, with
`inflight_submissions` raised between the first two (`Enter`) and lowered by the
guard (`Leave`, `Announce`); `Route` and `Push` publish the job; `CountIdle`,
`AddWake`, `Notify` are `wake_one_idle_worker`. A worker goes through
`TryTakeJob`, `StealGlobal`, `StealWorker`, `AcceptClaimedJob`, `RunJob`,
`FinishRunningJob`, or, told to stop, `CancelWorkerJobs` and `CancelClaimedJob`,
after which `try_take_job` goes on with the queues it has not tried (`NextSource`);
`Decide` to `ConsumePendingWorkerWake` are `wait_for_fixed_pool_work`, whose
looks at the counters are separate steps under the monitor. `StopAccepting` to
`CancelBatch` are the two shutdowns; `SpawnWorker`, `SpawnFails` and
`StopAfterFailedBuild` are `build`. The atomics are taken as sequentially
consistent; a queue is a set, and a stolen batch any part of it (crossbeam is
external). The MC module gives the two configurations and the symmetry sets.

### `ExecutionServices`

Four instances of `ExecutorService`, in the order of the facade's fields, and
the facade's calls, which visit them one after the other (`next`, `stage`);
`answer` is what a client's last call has told it. The contract only says what
becomes of tasks. What a service answers, and whom it notifies, is modelled as
the services do it:

* `IsOver` is `is_terminated`. The Rayon and Tokio services count their tasks; the
  blocking pool (the dynamic pool, `BlockingExecutorService`) looks at its workers
  and queues, so its answer is the variable `stopped`, which `PoolStops` sets while
  a `shutdown_now` may still hold drained jobs.
* `shutdown_now` takes a batch (`ShutdownNow`) and cancels it one by one
  (`CancelNext`, `ShutdownNowDone`): the pool what is in its queues, Rayon the hooks
  of all tasks not started, which may start before their hook is called, Tokio the
  abort handles stored so far, and an abort may come too late. The Tokio services
  keep `submission_lock` meanwhile (`Locked`).
* A service notifies its waiters with the step that ends it (`NotifyIfOver`,
  `Woken`), possibly twice (`NotifiesAgain`). `AwaitTermination` tests, and only then
  registers (`AwaitRegisters`), except at the pool, where both are one critical
  section; who registers too late is `late`.

A single service may be shut down, or stopped, through an accessor (`AloneCalls`,
`alone`). `BuildFails` is a builder that drops the blocking pool because the CPU pool
cannot be built. Jobs that unwind a worker of the pool, which only
`blocking().submit_job` accepts, are outside this module.

### `DoubleChecked`

Each caller makes one call: `FirstTest`, `Prepare`, `Acquire`, `Retest`, `RunTask`,
`FinalizePrepare`. Which optional actions are configured is chosen in `DCInit`,
whether an action fails and how the task ends when the step is taken. `usage`
says who changes the condition: anyone (`free`), only those who hold the lock
(`guarded`), or only tasks, which make it false when they succeed (`once`).
`std_lock` says whether a panic poisons the lock (the locks over `std`, whose
`unwrap()` then panics in later callers) or not (parking_lot). `prepared`, `outcome` and `finalized` record what
the call did, for the properties and, in the case of `prepared`, because
the code branches on it.

### Proof modules

`ThreadPoolProofs`, `FixedThreadPoolProofs`, `TaskHandleProofs`,
`ThreadPerTaskProofs`, `RayonProofs`, `TokioProofs`, `ExecutionServicesProofs` and
`LockProofs` hold the theorems of section 6. `LockProofs` extends both `Monitor`
and `DoubleChecked`; that is why the specification of the latter is named
`DCSpec`, its initial predicate `DCInit` and so on.

Operators marked `Mutant:` in a comment are wrong versions of the definition
that follows them; no specification uses them. They record which slip in the
code each property would notice (`mutants` in `PROJECT.json`).

## 3. The runs

| Run | Instance | Shows |
|---|---|---|
| `pool_safety` | 3 workers, 2 clients, 3 jobs, capacity 1, core 0 or 2, maximum 2 or 3, thread creation may fail in `submit` | the safety properties below |
| `pool_liveness` | 2 workers, 2 clients (one may wait for termination), 2 jobs (one may panic), capacity 1, core 0 or 2, maximum 1 or 2, thread creation may fail anywhere, beside a running job too | nothing but drained jobs is unsettled on termination, jobs are served, workers above a lowered maximum leave, shutdown terminates and its waiters return, the contract is implemented in spite of the faults |
| `task_handle` | 1 runner, 2 cancellers, every outcome | the cell's safety and liveness |
| `monitor` | 1 writer, 2 waiters, timeouts 0 and 2, 2 tokens | a ready state is noticed, timeouts are kept, timed calls return |
| `per_task` | 3 tasks, 2 clients, `thread::spawn` may panic | truthful and reached termination, sleepers are woken, the contract is implemented |
| `rayon` | 2 tasks, 2 clients | exact counters, consistent reports, `shutdown_now` misses nothing, termination is reached, waiters are woken, the contract is implemented |
| `tokio` | 2 tasks, 2 clients, both services | no abort handle is lost, only aborted closures run on, termination is reached, waiters are woken, the contract (with aborts) is implemented |
| `fixed_pool` | 2 workers, 2 clients, 2 jobs; a small unbounded pool with local queues, and a large one without them that has room for one job | no job is lost, duplicated or left behind, tokens are left for queued jobs, the contract is implemented |
| `execution_services` | 1 task, 2 clients, four services, single services shut down or stopped beside the facade | true answers, nothing accepted after shutdown, `await_termination` returns unless it registered too late |
| `double_checked` | 3 callers, all uses, locks and outcomes | the properties below |
| `pool_lost_wakeup`, `rayon_lost_wakeup` | minimal instances | the first two disagreements of section 5 |

Properties of the pool: `CountersMatchThreads` (the counters are the numbers of
threads), `JobInOnePlace` (no job lost or duplicated), `StatsMatchFates`
(statistics tally with the jobs), `QueuedJobIsNoticed` (with a job queued,
somebody will look), `UntimedWaitersAreCore` (no worker sleeps without a
time-out that the present policy would not keep),
`NobodySleepsThroughShutdown`, `TerminatedLeavesOnlyDrained` (when `is_terminated` is
true, what is unsettled is in the hands of a `shutdown_now` about to cancel it); the
action property `WorkersStayWithinSizes` (no
step grows the pool beyond the maximum, no exit takes it below the core size);
the liveness properties `AcceptedJobIsServed`, `ExcessWorkersRetire` and
`TerminationIsAnnounced`; and `ImplementsService`. `AcceptedJobIsServed` says
what is left of `AcceptedJobFinishes`, which `pool_lost_wakeup` refutes: a job is
served unless a client waits for termination, or a worker was lost to a panic.

Properties of the monitor: `ReadyStateIsNoticed` (as long as a waiter sleeps
beside tokens, as many threads are on their way to take them),
`TimeoutIsKept` (no call sleeps longer than its timeout in total, and it gives
up only when the time is over and the state not ready), `TimedCallReturns`.

Properties of the other services: `CountsAreTrue` (Rayon: each accepted task is
taken out of each counter once, and the report of `shutdown_now`, made from two
reads, is consistent), `TerminatedMeansSettled` (no accepted task is unsettled
when `is_terminated` is true; for Tokio also that only closures of aborted tasks
still run), `TerminationIsAnnounced` (a service that was shut down terminates,
and a waiter that sleeps before termination is woken by it),
`ImplementsService`, and, for `shutdown_now`, `ShutdownNowLeavesNoneQueued`
(Rayon) and `UnabortedTaskIsTracked` (Tokio).

Properties of the fixed pool: `CountersMatchQueues` (every accepted job is in
one place, and the counters that decide about sleep and termination follow it),
`NoJobLeftBehind` (when the last worker leaves, what is not settled belongs to
a `shutdown_now` under way), `WakeTokensAreLeft` (if all workers sleep beside
queued jobs, a token tells the next worker that looks), `ImplementsService`.

Properties of the facade: `TerminationIsTrue` (after a true `is_terminated`, or a
return of `await_termination`, shutdown was requested everywhere and nothing runs or
may run; of the accepted tasks only jobs of the blocking pool that a `shutdown_now`
has drained can still be pending), `NothingAcceptedAfterShutdown`, and
`AwaitTerminationReturns` (after a shutdown of the facade every `await_termination`
returns, or began to wait at a service that had terminated already; section 5 has
what the documentation says).

Properties of `DoubleChecked`: `PrepareIsFinalized`, `ResultTellsOutcome`, and, where a successful task makes the condition false,
`OneSuccess`. `ConditionHoldsInTask` is proved (section 6) and not checked again.

Each module has a `TypeOK`, which documents its state. It is proved for
`ThreadPerTaskService`, is part of the invariants proved for `TaskHandle`,
`Monitor`, `DoubleChecked` (`DCTypeOK`), `RayonService` and `TokioService`, and has
a counterpart in those of `ExecutionServicesProofs` (`Types`), `ThreadPoolProofs`
(`TypeInv`) and `FixedThreadPoolProofs` (`PcType`, `DataType`, `WakeType`); TLC has
confirmed it on the instances of all runs.

Why these bounds: three workers allow a thief, a victim and a retiring worker
at once, or an excess worker beside two core workers; two clients allow one to
act between another's critical section and its notification; with capacity 1
and three jobs the queue saturates while jobs run, local queues are used, and
submissions are handed over and rejected. An unbounded pool uses only the
global queue, which the bounded one uses as well. Nothing
else is bounded: each job is submitted once, so the counters are bounded by the
number of jobs. For the other services, two clients let one shut down while
the other submits, cancels or waits, and two tasks let one start or end while
the other is cancelled, aborted or submitted; a counter that reaches zero too
early or too late needs no more. The double-checked
executor needs two callers for a race; a third can come between them. The
monitor has one writer (a second adds no order the first cannot make with its
next call), two waiters, of which one can consume what the other needs, and a
timeout of 2, so that a wakeup can fall within it. In the fixed pool two
workers steal from each other and two clients submit, or submit and stop; two
jobs make a batch. In the facade one task is enough, since the properties speak
of one task in one of four services; the theorems have any number.

Deadlock is checked in all runs but those of `ExecutionServices`, where all clients
may await the termination of services that nobody shuts down: `Shutdown` is always possible for an idle
client of a pool, `TaskHandle` has an explicit `Terminating` step and
`DoubleChecked` the step `AllOver`. `Monitor` and `FixedThreadPool` have steps
for the ends their callers can bring about (`Stuck`: every thread has unwound
or waits for a token nobody adds; `BuildHasFailed`). In the other services an idle
client can always call; a service in which all clients were stuck would be reported.

## 4. Fairness

`Fairness` of `ThreadPool` asks that a worker that is not waiting keeps going
and that a client inside a call goes on. Both are operating system threads that
hold no lock between actions, and the mutex is released after each critical
section; jobs are assumed to return. No client has to call anything, no timer has to
fire and no spurious wakeup has to happen, so a pass shows that the
notifications alone suffice. `TimedSpec`, which the violated liveness run uses,
adds that keep-alive timers fire; the counterexample is thus not one a timer
would rescue. `TaskHandle` asks that an accepted task is run, that a thread that
published goes on to notify, and that the executor polls a future whose waker
was called. The other services ask the same of task threads, closures and
wrappers (the operating system, Rayon and Tokio run what they are given, and
tasks return) and of clients inside a call. Waiting for termination without a
notification is no step of a fair client, and spurious wakeups and dropped
futures are possible but never required. `DoubleChecked` is checked for safety and for
deadlock: a caller only ever moves forward. `Monitor` asks that threads are
scheduled, that time passes, and, by strong fairness on taking the mutex, that
a mutex which becomes free again and again is granted at last: the mutex of
`std` promises no order, but starvation for ever is not what a timed wait can
guard against. `ExecutionServices` asks that a service that was shut down runs its
tasks to their end, that the blocking pool then stops, and that clients inside a call
go on. Nothing is asked of a service that was not shut down, because a client that
awaits termination can keep the blocking pool from serving a job
(`pool_lost_wakeup`); a shutdown wakes all its workers
(`NobodySleepsThroughShutdown`), and from then on the fairness is what
`TerminationIsAnnounced` shows of each service. A second notification is possible and
never required. `FixedThreadPool` is checked for safety only (section 5 says why).

## 5. Where code and documentation disagree

Seven formulas state what the documentation says and are violated by what the code
does. Two have runs of their own:

1. `pool_lost_wakeup` (`AcceptedJobFinishes`): a client that calls
   `await_termination` before the
   shutdown waits on the condition variable the idle workers wait on. The
   `notify_one` of a `submit` may wake that client, which finds the pool not
   terminated and sleeps again. The idle core worker sleeps without a time-out
   and the job stays in the queue. Without termination waiters the single
   notification suffices (`QueuedJobIsNoticed`, `AcceptedJobIsServed`).
2. `rayon_lost_wakeup` (`AwaitTerminationReturns`): `await_termination` creates its
   `Notified` after the test; `notify_waiters` in between is lost. The Tokio services
   do the same. A waiter that is already registered is woken
   (`TerminationIsAnnounced`).

The other five are defined in their modules, beside the properties that hold instead,
and TLC refutes each in seconds on the instance named here:

3. `RunningTasksAreHeld` of `ThreadPool` (2 workers, 1 client, 1 job, core and
   maximum 2, `SpawnFailures = {"prestart"}`): the rollback in `spawn_worker_locked`
   decrements `running_tasks` even when no first task had been counted, so that a
   prestart that fails beside a running job takes that job out of the count, although
   `thread_pool_state.rs:31` calls it the "Number of jobs currently held by workers."
   `CountersMatchThreads` is checked and proved for pools whose prestarts succeed.
   `pool_liveness` includes those that fail: the undercount does not make the pool
   report termination beside a running job (`TerminatedLeavesOnlyDrained`), but the
   worker that finishes that job may meet the underflow check and be lost.
4. `TerminatedMeansSettled` of `ThreadPool` (1 worker, 1 client, 1 job, core 0):
   `is_terminated` is true before `shutdown_now` has cancelled the jobs it drained
   (`fate` has the value `drained` for these, and the contract is checked with such a
   job still `accepted`); `executor_service.rs:119-120` says "`true` only after
   shutdown has been requested and all accepted tasks have completed or been
   cancelled." `TerminatedLeavesOnlyDrained` is what holds. `is_terminated` of the
   facade passes the early answer on (`TerminationIsTrue` names these jobs as the one
   exception).
5. `AwaitTerminationReturns` of `ThreadPerTaskService` (1 task, 2 clients,
   `FairSpec`): the service notifies without `termination_lock`; a notification
   between a waiter's test and its wait is lost, and `await_termination` blocks for
   ever, although its documentation (lines 195-196) says "A future that resolves after
   shutdown has been requested and all accepted OS-thread tasks have completed." A
   client that sleeps already is woken (`TerminationIsAnnounced`).
6. `NobodySleepsOnAJob` of `FixedThreadPool` (1 worker, 1 client, 1 job): the
   notification of a submission is sent without the
   monitor. A worker that has looked at the tokens and at the queue and is not yet on
   the wait set misses it; the token then stays, and later submissions, which see as
   many tokens as idle workers, do not notify either. The comment at
   `fixed_thread_pool.rs:301-303` says the tokens "close the lost-notification
   window". What does hold is `WakeTokensAreLeft`: the next worker that looks, for
   whatever reason, goes to work. The notification of the last submission to leave
   after shutdown can be missed in the same way.
7. `AwaitTerminationResolves` of `ExecutionServices` (1 task, 2 clients, `FairSpec`,
   `AloneCalls = {}`): `await_termination` of the facade inherits the second, in
   three of its four services. `execution_services.rs:652` says it "resolves after all
   execution domains have terminated."

Others are part of the models, and the properties of the passing runs are stated
so that they say exactly what holds in spite of them:

* `is_terminated` of the fixed pool can turn false again for a moment while a late
  `begin_submit` is counted, and can be true before `shutdown_now` has cancelled what
  it drained (`NoJobLeftBehind` speaks of both).
* A panic in a `submit_job` callback leaves the worker counted as live and its
  job as running (state `crashed`; `CountersMatchThreads` counts it).
* `set_core_pool_size` never creates a worker, with queued work or without
  (`SetCorePoolSize` only stores and notifies).
* `TaskCompletion::start` does not test `started`: two runners of one task may
  both execute (`Start`); the run has one runner per task, as the services do.
* A `thread::spawn` that panics leaves its task counted
  (`TerminationIsAnnounced` excepts `SpawnPanicked`).
* A `shutdown_now` of a Tokio service does not abort a task whose submitter has not
  stored the handle yet (`UnabortedTaskIsTracked` allows it).
* Aborting a Tokio wrapper does not stop its blocking closure, and the service is
  terminated while it runs (`TerminatedMeansSettled`).
* A task of the double-checked executor that panics skips commit and rollback
  (`PrepareIsFinalized` speaks of calls that return).

## 6. What is proved

Every invariant, action property and refinement that a passing run checks is also
a theorem, for every set of threads, clients and jobs or tasks, every capacity, all
sets of sizes and timeouts and every choice of fault constants. Three theorems
about the dynamic pool have further hypotheses on the fault constants; below is
said which and why.

The assumptions are those the modules state of their constants:
`ConstantsAssumption` (finite workers and jobs, a positive capacity or none, a maximum
size between 1 and the number of worker identities), `FixedPoolAssumption` (a finite
set of at least one worker, finite clients and jobs, a positive capacity or none),
`TaskAssumption`, `PerTaskAssumption`, `RayonAssumption`, `TokioAssumption`,
`MonitorAssumption`, `DoubleCheckedAssumption` (finite sets, distinct identities,
natural timeouts) and `AloneCallsAssumption` (the calls made of one service are the
two shutdowns).

### The dynamic pool

`ThreadPoolProofs`. The inductive invariant is `TypeInv /\ ThreadInv`.
`TypeInv` is weaker than `TypeOK` (counters are integers) and adds
core <= maximum; that counters are natural numbers follows only from what they
count. `ThreadInv` says that `live_workers`, `idle_workers` and
`running_tasks` are the numbers of threads in the states they stand for. It is
carried through the actions by `CountUpdate` (changing the state of one thread
changes a count by one at most) and `CountWoken` (a notification changes no
count). `running_tasks` is exact only if no prestart fails
(`NoPrestartFailures`; see section 5); the other two counts need no
assumption. From it:

* `CountersAreExact`: `[]CountersMatchThreads`;
* `PoolStaysWithinSizes`: `WorkersStayWithinSizes`; the pool grows only by a
  spawn and shrinks only by an exit, and both look at the sizes under the
  monitor.

Three results follow from that invariant alone:

* `TerminationStays`: `TerminationIsFinal`; a terminated pool has no thread by
  `ThreadInv`, hence nobody who could change its counters;
* `NobodySleeps`: `[]NobodySleepsThroughShutdown`, itself inductive relative to
  the invariant;
* `UntimedWaitsAreJustified`: `[]UntimedWaitersAreCore`; the step that starts
  an untimed wait needs that untimed waiters are live workers, which are no
  more than the core size at that moment.

The second half of the module is about jobs. `PoolInv` adds to the invariant where
the jobs are (`JobInv`: `QueueInv`, a job is queued exactly if it is in one of the
queues, which are injective, disjoint and empty for workers that have left;
`RunInv`, a job runs exactly if one worker holds it; `DrainInv`, a drained job
belongs to the one caller that is about to cancel it), what the statistics count
(`StatsInv`), and what a worker that looks can rely on (`FindInv`: nothing is queued
in a pool that is stopping, and the local queues of an unbounded pool are empty).
A submission puts a job into a queue, a thief takes one out of another's, and a
worker that exits hands what it has left to the global queue; the queues stay disjoint
through all of it. From it:

* `EveryJobIsInOnePlace`: `[]JobInOnePlace`;
* `StatisticsAreExact`: `[]StatsMatchFates`, for pools whose prestarts succeed
  (the rollback of section 5 makes `running_tasks` wrong in the others);
* `NoQueuedJobIsOverlooked`: `[]QueuedJobIsNoticed`, if no client waits for
  termination, no job panics and no prestart fails. The first hypothesis is the
  finding of `pool_lost_wakeup`: a waiting client can take the notification. The
  second is needed because a worker lost to a panic is still counted as live, so
  that `submit` queues for it. The third is the rollback again. `NoticeInv` is
  inductive because a worker sleeps or leaves only in a critical section in which it
  has found `queued_tasks` zero or no job to take, and what is counted as queued
  can be found (`FindInv`);
* `TerminationLeavesNoWork`: `[]TerminatedLeavesOnlyDrained`, with no hypothesis on
  faults: `queued_tasks` is exact in every pool, and a running job is held by a worker
  that is counted as live, whatever became of `running_tasks`. It is what
  `ExecutionServices` builds on (the guard of `PoolStops`);
* `PoolImplementsService`: `ImplementsService`, with no hypothesis on faults.

### The fixed pool

`FixedThreadPoolProofs`. Submissions, thefts and `shutdown_now` pass jobs around
without a lock, and counters are raised and lowered in steps of their own, so the
proofs need to know at each step whose hands a job is in. The states of the threads
are grouped into classes by what a thread there has in its hands (`Cl`), by what it
means for leaving the pool (`St`) and by what it means for sleep (`Ph`); an action
that does not change the class of its thread cannot disturb the invariants stated
with it. There are three invariants, each inductive relative to the ones before it:

* `CoreInv`: every unsettled job has one place, given by a pair of functions from
  jobs to kinds of places and to owners (`Located`), the place determines its status
  (`Graded`), and `queued_task_count` and `running_task_count` are the numbers of jobs
  whose place stands for a slot (`JobInv`). `LocalInv` is what keeps a stolen batch
  from overwriting a local queue. From it follow `QueuesAndCountersAgree`
  (`[]CountersMatchQueues`) and `FixedPoolImplementsService` (`ImplementsService`);
* `ExitInv`: `inflight_submissions` is the number of submitters between
  `begin_submit` and the end of the submission (`InflightInv`), `accepting` is cleared
  before the lifecycle changes (`GateInv`), a worker that leaves after `shutdown`
  leaves a pool to which no job can be added any more and which has none
  (`LeaveInv`), and the last round of `shutdown_now` over the queues finds all
  those it has visited still empty (`SweepInv`). From it follows
  `WorkersLeaveNoJobBehind` (`[]NoJobLeftBehind`);
* `TokenInv`: `idle_worker_count` is the number of workers that have marked themselves
  (`IdleInv`), and when all workers rest, the tokens, together with the
  submitters that still owe one, are as many as the jobs that wait, or there is one
  for each worker (`RestInv`). A submitter owes a token if it has yet to read the
  count of idle workers, or has read that all were idle (`Owing`): one that read less
  found a worker awake, which will look at the queues before it rests. From it
  follows `TokensAreLeftForSleepers` (`[]WakeTokensAreLeft`).

### Task handle and services

`TaskHandleProofs`. The invariant `Inv` adds to `TypeOK` that a runner past
`start` left `started` set while a successful cancel found it clear
(`StartInv`), that a completed cell holds its result until the owner takes it
(`ResultInv`), and that before completion the waker of a parked owner is in the
cell (`WakerInv`; without it the property about sleeping owners is not
inductive). From it follow `CancelWinsForGood`,
`CompletedHasResult`, `CompletionIsNoticed` and `FirstResultWins`.

`ThreadPerTaskProofs`. The invariant says that `active_tasks` is the number of
tasks whose thread has not given them back or could not be created
(`CountInv`), and how the state of a thread determines the status of its task
(`StatusInv`); a counter at zero therefore leaves no thread that could still
change anything. From it follow `PerTaskTypes`, `ActiveTasksAreExact`,
`TerminationIsTruthful`, `TerminationStays`, and the refinement
`PerTaskImplementsService`, where `StatusInv` is what makes a completion a
completion of the abstract service.

`RayonProofs`. A client inside a cancel hook has won the race for its task alone
(`HookInv`), the hook of a task that has not started is registered or in the batch of
a `shutdown_now` (`PendingInv`), nothing is registered once a `shutdown_now` has
drained (`StopInv`), and each counter is the number of tasks that have not yet passed
the step that takes them out (`CountInv`). For the report of `shutdown_now`, `ReportInv`
says that what it has cancelled and what it may still cancel were all queued when it
read the count, because after the shutdown that count only falls. From it follow
`CountersAndReportsAreTrue`, `ShutdownNowCancelsTheQueue` and `RayonImplementsService`.

`TokioProofs`. `active_tasks` is the number of wrappers that still have their guard
(`CountInv`), the state of a wrapper determines the status of its task
(`StatusInv`), a closure that has not ended is awaited or was left behind by an abort
(`ClosureInv`), and handles are in a client's hands only while it aborts them
(`BatchInv`; without it a second `shutdown_now` could overwrite a batch). From it
follow `NoHandleIsLost`, `TerminationIsTruthful` and `TokioImplementsService`.

`ExecutionServicesProofs`. A call has visited the services before `next`. The
invariant `Inv` adds to the types of the state (`Types`) and the stages of a call
(`Shape`) that the services a call has left behind are shut down, or have said that
they are over, as the call will claim (`Found`), and that an answer already given is
still what every service would say (`Said`; together `Honest`). What a service says
and what is true of its tasks are different things for the blocking pool: `Pool` says
that a drained job does not start and that a pool which has stopped has nothing
pending but drained jobs, `Requested` that whoever holds such jobs has requested the
shutdown. `Inv` is inductive because a requested shutdown is never taken back and a
service that is over stays so (`StepIsMonotone`), so that what was found at one service
outlives the visit of the next. From it follow `AnswersAreTrue`
(`[]TerminationIsTrue`) and `ShutdownClosesEveryService`
(`NothingAcceptedAfterShutdown`), for any number of tasks and clients.

### Monitor and double-checked execution

`LockProofs`, first part. The invariant of the monitor says, beside the types, which
call a thread is in by where it stands (`OpInv`), that a thread which has looked at
the state keeps the mutex until it sleeps, so that what it saw is still true
(`HoldInv`), and that the time a call has slept and the time its alarm still allows
are together within its timeout (`ClockInv`; only this sum is inductive, since every
tick moves time from the one to the other). `ReadyStateIsNoticed` is inductive
relative to it and gives `NoNotificationIsLost`; the hard case is a waiter that takes a
notification and times out, which is a helper until it has looked again. From `ClockInv`
follows `TimeoutsAreKept` (`TimeoutIsKept`).

Second part. The invariant of the double-checked executor, `CallsInv`, has mutual
exclusion (`LockInv`), what a call has recorded at each stage (`CallInv`), and, for
the use `once`, that a success leaves the condition false and is the only one
(`OnceInv`; without its first part the second is not inductive). From it follow
`TasksRunUnderTheirCondition`, `AtMostOneSuccess`, `PreparesAreFinalized` and
`ResultsTellOutcomes`.

### Only model-checked

The liveness properties: `AcceptedJobIsServed`, `ExcessWorkersRetire` and
`TerminationIsAnnounced` of the pool, `TerminationIsAnnounced` of the three other
services that have it, `OwnerGetsResult` of the task handle, `TimedCallReturns` of the
monitor and `AwaitTerminationReturns` of the facade. They rest on fairness, and so on ENABLED, which is outside the
prover's reach. The theorems about safety are what such arguments start from:
`NoQueuedJobIsOverlooked`, `NobodySleeps`, `CompletionIsNoticed` and
`NoNotificationIsLost` say that whoever has to act is awake or about to be woken, so
that fairness has only to carry it on.

## 7. What is not modelled

Thread names, stack sizes, error texts and, except in `Monitor`, durations; a
`build()` of the dynamic pool that fails after some workers were prestarted (they
are left without an owner); cancel callbacks that panic and so leave the loop of
`shutdown_now`; the growth of the list of abort handles of the Tokio services;
counter overflow of statistics (`usize`); poisoning, except in `Monitor` and
`DoubleChecked` (the services recover the guard of a poisoned mutex, so it has no
effect there); panics of the tester, prepare, commit and rollback callbacks of
the double-checked executor; a Tokio service used outside a runtime
(`tokio::spawn` panics, and the guard gives the count back); the statistics of
the fixed pool and memory orderings weaker than sequential consistency.

`task::executor` is not modelled: its executors keep no state, and each call
runs the task in place or drives one completion endpoint from a thread or a Tokio
task, as the runner of `TaskHandle` does. The lock wrappers forward to the locks
of std, parking_lot and tokio. `cas.rs` is not compiled and not used.

## 8. Plan

1. Done: all services, the pools, the task handle, the monitor, the facade and
   the double-checked executor, with their runs; theorems for every invariant,
   action property and refinement these runs check.
2. Open: theorems that say more than the runs check, among them that
   `TypeOK` of both pools holds (counters as natural numbers, where nothing but the
   counted sets says so), and that an answer of `is_terminated` of the fixed pool,
   once no submission is in flight, is final.
