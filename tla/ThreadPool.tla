----------------------------- MODULE ThreadPool -----------------------------
(***************************************************************************)
(* The dynamic thread pool of task/service/thread_pool.                    *)
(*                                                                         *)
(* The mutable pool state is protected by one monitor (a mutex and ONE     *)
(* condition variable shared by idle workers and termination waiters).     *)
(* Everything a thread does between acquiring and releasing that monitor   *)
(* is one action; what it does after releasing it (notify_one, notify_all, *)
(* a job's run or cancel callback) is an action of its own, so that other  *)
(* threads interleave there.  worker_queues has a mutex of its own, but it *)
(* is only taken while the monitor is held and adds no interleaving.       *)
(*                                                                         *)
(* Abstracted: durations (a timed wait may expire at any moment), the      *)
(* round-robin cursor (any registered queue may be chosen), worker indices *)
(* (any thread identity not in use), thread names and stack sizes.         *)
(***************************************************************************)
EXTENDS Integers, Sequences, FiniteSets, Functions

CONSTANTS
    Workers,         \* identities of worker threads, reused after an exit
    Clients,         \* threads that call the pool's methods
    Jobs,            \* the jobs that are ever submitted, once each
    QueueCapacity,   \* the bound of a bounded queue, or Unbounded (None)
    Unbounded,
    CoreSizes,       \* the core sizes clients configure
    MaxSizes,        \* the maximum sizes clients configure
    WaitingClients,  \* the clients that may call await_termination
    SpawnFailures,   \* the callers whose thread::Builder::spawn may fail
    PanickingJobs,   \* jobs whose run callback panics (submit_job only)
    NoJob

ASSUME ConstantsAssumption ==
    /\ IsFiniteSet(Workers) /\ IsFiniteSet(Jobs)
    /\ NoJob \notin Jobs
    /\ Unbounded \notin Nat
    /\ QueueCapacity \in (Nat \ {0}) \cup {Unbounded}
    /\ CoreSizes \subseteq Nat
    /\ MaxSizes \subseteq 1 .. Cardinality(Workers)
    /\ WaitingClients \subseteq Clients
    /\ PanickingJobs \subseteq Jobs
    /\ SpawnFailures \subseteq {"submit", "prestart"}

VARIABLES
    lifecycle,                  \* the fields of ThreadPoolState ...
    queue,
    queued_tasks,
    running_tasks,
    live_workers,
    idle_workers,
    submitted_tasks,
    completed_tasks,
    cancelled_tasks,
    core_pool_size,
    maximum_pool_size,
    allow_core_thread_timeout,
    worker_queues,              \* the local queue of each worker
    worker,                     \* where each worker thread stands
    held,                       \* the job a worker thread holds
    caller,                     \* where each client thread stands
    drained,                    \* the jobs a client still has to cancel
    fate                        \* what has become of each job

queues   == <<queue, worker_queues, queued_tasks>>
counters == <<submitted_tasks, completed_tasks, cancelled_tasks>>
sizes    == <<core_pool_size, maximum_pool_size, allow_core_thread_timeout>>
threads  == <<live_workers, idle_workers, worker, held>>
vars == <<lifecycle, queues, running_tasks, counters, sizes, threads,
          caller, drained, fate>>

Lifecycles == {"Running", "Shutdown", "Stopping"}

(* dead: no such thread; seek: before the monitor of wait_for_job; run,    *)
(* finish: before and after job.run(); wait, timed_wait: in the wait set   *)
(* of the condition variable; woken, timed_out: out of it, the monitor not *)
(* yet reacquired; crashed: unwound by a panic.                            *)
WorkerStates == {"dead", "seek", "run", "finish", "wait", "timed_wait",
                 "woken", "timed_out", "crashed"}

CallerStates == {"idle", "notify_one", "notify_all", "cancel", "prestart",
                 "wait", "woken"}

(* withdrawn: enqueued and taken back by a submit that failed.             *)
Fates == {"new", "rejected", "queued", "running", "completed", "panicked",
          "drained", "withdrawn", "cancelled"}

TypeOK ==
    /\ lifecycle \in Lifecycles
    /\ queue \in Seq(Jobs)
    /\ worker_queues \in [Workers -> Seq(Jobs)]
    /\ queued_tasks \in Nat /\ running_tasks \in Nat
    /\ live_workers \in Nat /\ idle_workers \in Nat
    /\ submitted_tasks \in Nat /\ completed_tasks \in Nat
    /\ cancelled_tasks \in Nat
    /\ core_pool_size \in Nat /\ maximum_pool_size \in Nat
    /\ allow_core_thread_timeout \in BOOLEAN
    /\ worker \in [Workers -> WorkerStates]
    /\ held \in [Workers -> Jobs \cup {NoJob}]
    /\ caller \in [Clients -> CallerStates]
    /\ drained \in [Clients -> SUBSET Jobs]
    /\ fate \in [Jobs -> Fates]

-----------------------------------------------------------------------------
(* ThreadPoolState *)

(* The sizes validate() accepts (a capacity of zero, which it refuses too, *)
(* is excluded by ConstantsAssumption).                                    *)
ValidSizes(core, max) == max # 0 /\ core <= max

Init ==
    /\ lifecycle = "Running"
    /\ queue = <<>> /\ worker_queues = [w \in Workers |-> <<>>]
    /\ queued_tasks = 0 /\ running_tasks = 0
    /\ live_workers = 0 /\ idle_workers = 0
    /\ submitted_tasks = 0 /\ completed_tasks = 0 /\ cancelled_tasks = 0
    /\ core_pool_size \in CoreSizes /\ maximum_pool_size \in MaxSizes
    /\ ValidSizes(core_pool_size, maximum_pool_size)
    /\ allow_core_thread_timeout \in BOOLEAN
    /\ worker = [w \in Workers |-> "dead"]
    /\ held = [w \in Workers |-> NoJob]
    /\ caller = [c \in Clients |-> "idle"]
    /\ drained = [c \in Clients |-> {}]
    /\ fate = [j \in Jobs |-> "new"]

IsBounded == QueueCapacity # Unbounded

IsSaturated == IsBounded /\ queued_tasks >= QueueCapacity

(* Mutant: workers that have not left are not asked for.                   *)
IsTerminatedByTasks ==
    lifecycle # "Running" /\ queued_tasks = 0 /\ running_tasks = 0

IsTerminated ==
    /\ lifecycle # "Running"
    /\ queued_tasks = 0
    /\ running_tasks = 0
    /\ live_workers = 0

WorkerWaitIsTimed ==
    allow_core_thread_timeout \/ live_workers > core_pool_size

(* Mutant: one worker too many may retire.                                 *)
IdleWorkerCanRetireEarly ==
    live_workers >= core_pool_size \/ allow_core_thread_timeout

IdleWorkerCanRetire ==
    \/ live_workers > maximum_pool_size
    \/ /\ WorkerWaitIsTimed
       /\ live_workers > core_pool_size \/ allow_core_thread_timeout

(* The workers whose queue is in worker_queues.  A thread that unwinds     *)
(* from a panic never removes its queue.                                   *)
Registered == {w \in Workers : worker[w] # "dead"}

-----------------------------------------------------------------------------
(* The condition variable of the monitor (std::sync::Condvar). *)

Waiting == {"wait", "timed_wait"}

Woken(pc) == [t \in DOMAIN pc |-> IF pc[t] \in Waiting THEN "woken" ELSE pc[t]]

(* notify_all, with the threads moved on to pcs ws and cs.                 *)
NotifyAllFrom(ws, cs) == worker' = Woken(ws) /\ caller' = Woken(cs)

(* Mutant: termination is not announced.                                   *)
NotifyNever(ws, cs) == worker' = ws /\ caller' = cs

NotifyIfTerminated(ws, cs) ==
    IF IsTerminated' THEN NotifyAllFrom(ws, cs) ELSE worker' = ws /\ caller' = cs

-----------------------------------------------------------------------------
(* Spawning a worker while the monitor is held. *)

(* A new thread that starts with the job first, or looks for one.          *)
SpawnWorker(w, first) ==
    /\ worker[w] = "dead"
    /\ live_workers' = live_workers + 1
    /\ running_tasks' = IF first = NoJob THEN running_tasks ELSE running_tasks + 1
    /\ worker' = [worker EXCEPT ![w] = IF first = NoJob THEN "seek" ELSE "run"]
    /\ held' = [held EXCEPT ![w] = first]

(* The rollback when the thread cannot be created: it takes one from       *)
(* running_tasks whether or not a first job had been counted.              *)
SpawnFails(first) ==
    LET started == IF first = NoJob THEN running_tasks ELSE running_tasks + 1
    IN  /\ running_tasks' = IF started > 0 THEN started - 1 ELSE started
        /\ UNCHANGED threads

-----------------------------------------------------------------------------
(* submit *)

(* A worker below the core size, or above it when the queue is full.       *)
HandsOver ==
    \/ live_workers < core_pool_size
    \/ IsSaturated /\ live_workers < maximum_pool_size

Enqueues == ~(live_workers < core_pool_size) /\ ~IsSaturated

Submitting(c, j) == caller[c] = "idle" /\ fate[j] = "new"

Reject(j) ==
    /\ fate' = [fate EXCEPT ![j] = "rejected"]
    /\ UNCHANGED <<lifecycle, queues, counters, sizes, caller, drained>>

SubmitRejected(c, j) ==
    /\ Submitting(c, j)
    /\ lifecycle # "Running" \/ ~(HandsOver \/ Enqueues)
    /\ Reject(j)
    /\ UNCHANGED <<running_tasks, threads>>

SubmitToNewWorker(c, j) ==
    /\ Submitting(c, j)
    /\ lifecycle = "Running" /\ HandsOver
    /\ \E w \in Workers : SpawnWorker(w, j)
    /\ submitted_tasks' = submitted_tasks + 1
    /\ fate' = [fate EXCEPT ![j] = "running"]
    /\ UNCHANGED <<lifecycle, queues, completed_tasks, cancelled_tasks, sizes,
                   idle_workers, caller, drained>>

SubmitSpawnFails(c, j) ==
    /\ Submitting(c, j)
    /\ lifecycle = "Running" /\ HandsOver
    /\ "submit" \in SpawnFailures
    /\ SpawnFails(j)
    /\ Reject(j)

(* The local queues are used by bounded pools without an idle worker.      *)
UsesLocalQueue == IsBounded /\ idle_workers = 0 /\ live_workers > 0

PushJob(j) ==
    IF UsesLocalQueue /\ Registered # {}
    THEN /\ \E w \in Registered :
               worker_queues' = [worker_queues EXCEPT ![w] = Append(@, j)]
         /\ UNCHANGED queue
    ELSE /\ queue' = Append(queue, j)
         /\ UNCHANGED worker_queues

(* The job is queued; the caller notifies one waiter after it releases the *)
(* monitor if it saw an idle worker.  A pool without workers gets one.     *)
SubmitQueued(c, j) ==
    /\ Submitting(c, j)
    /\ lifecycle = "Running" /\ Enqueues
    /\ submitted_tasks' = submitted_tasks + 1
    /\ queued_tasks' = queued_tasks + 1
    /\ PushJob(j)
    /\ IF live_workers = 0
       THEN \E w \in Workers : SpawnWorker(w, NoJob)
       ELSE UNCHANGED <<live_workers, running_tasks, worker, held>>
    /\ caller' = [caller EXCEPT ![c] = IF idle_workers > 0 THEN "notify_one" ELSE @]
    /\ fate' = [fate EXCEPT ![j] = "queued"]
    /\ UNCHANGED <<lifecycle, completed_tasks, cancelled_tasks, sizes,
                   idle_workers, drained>>

(* Mutant: the popped job stays counted.                                   *)
SubmitWithdrawnCounted(c, j) ==
    /\ Submitting(c, j)
    /\ lifecycle = "Running" /\ Enqueues /\ live_workers = 0
    /\ "submit" \in SpawnFailures
    /\ SpawnFails(NoJob)
    /\ submitted_tasks' = submitted_tasks + 1
    /\ caller' = [caller EXCEPT ![c] = "cancel"]
    /\ drained' = [drained EXCEPT ![c] = {j}]
    /\ fate' = [fate EXCEPT ![j] = "withdrawn"]
    /\ UNCHANGED <<lifecycle, queues, completed_tasks, cancelled_tasks, sizes>>

(* The first worker of an empty pool cannot be created: the job just       *)
(* pushed is popped again and cancelled after the monitor is released.     *)
SubmitWithdrawn(c, j) ==
    /\ Submitting(c, j)
    /\ lifecycle = "Running" /\ Enqueues /\ live_workers = 0
    /\ "submit" \in SpawnFailures
    /\ SpawnFails(NoJob)
    /\ caller' = [caller EXCEPT ![c] = "cancel"]
    /\ drained' = [drained EXCEPT ![c] = {j}]
    /\ fate' = [fate EXCEPT ![j] = "withdrawn"]
    /\ UNCHANGED <<lifecycle, queues, counters, sizes>>

-----------------------------------------------------------------------------
(* What a client does after it released the monitor. *)

(* Any one thread of the wait set is woken, a worker or a client that      *)
(* waits for termination; the notification is lost if there is none.       *)
NotifyOne(c) ==
    LET sleepers == {w \in Workers : worker[w] \in Waiting}
        awaiting == {d \in Clients : caller[d] \in Waiting}
    IN  /\ caller[c] = "notify_one"
        /\ \/ /\ \E w \in sleepers : worker' = [worker EXCEPT ![w] = "woken"]
              /\ caller' = [caller EXCEPT ![c] = "idle"]
           \/ /\ \E d \in awaiting :
                    caller' = [caller EXCEPT ![c] = "idle", ![d] = "woken"]
              /\ UNCHANGED worker
           \/ /\ sleepers = {} /\ awaiting = {}
              /\ caller' = [caller EXCEPT ![c] = "idle"]
              /\ UNCHANGED worker
        /\ UNCHANGED <<lifecycle, queues, running_tasks, counters, sizes,
                       live_workers, idle_workers, held, drained, fate>>

NotifyAll(c) ==
    /\ caller[c] = "notify_all"
    /\ NotifyAllFrom(worker, [caller EXCEPT ![c] = "idle"])
    /\ UNCHANGED <<lifecycle, queues, running_tasks, counters, sizes,
                   live_workers, idle_workers, held, drained, fate>>

(* The cancel callback of one drained job; the call returns after the last.*)
CancelJob(c) ==
    /\ caller[c] = "cancel"
    /\ \E j \in drained[c] :
         /\ fate' = [fate EXCEPT ![j] = IF @ = "withdrawn" THEN "rejected"
                                                           ELSE "cancelled"]
         /\ drained' = [drained EXCEPT ![c] = @ \ {j}]
         /\ caller' = [caller EXCEPT ![c] = IF drained[c] = {j} THEN "idle" ELSE @]
    /\ UNCHANGED <<lifecycle, queues, running_tasks, counters, sizes, threads>>

-----------------------------------------------------------------------------
(* prestart_core_thread and prestart_all_core_threads *)

(* One call; with next = "prestart" the caller calls again while a worker  *)
(* was started.                                                            *)
PrestartCoreThread(c, next) ==
    /\ \/ /\ lifecycle # "Running" \/ live_workers >= core_pool_size
          /\ caller' = [caller EXCEPT ![c] = "idle"]
          /\ UNCHANGED <<running_tasks, threads>>
       \/ /\ lifecycle = "Running" /\ live_workers < core_pool_size
          /\ \E w \in Workers : SpawnWorker(w, NoJob)
          /\ caller' = [caller EXCEPT ![c] = next]
          /\ UNCHANGED idle_workers
       \/ /\ lifecycle = "Running" /\ live_workers < core_pool_size
          /\ "prestart" \in SpawnFailures
          /\ SpawnFails(NoJob)
          /\ caller' = [caller EXCEPT ![c] = "idle"]
    /\ UNCHANGED <<lifecycle, queues, counters, sizes, drained, fate>>

PrestartOne(c) == caller[c] = "idle" /\ PrestartCoreThread(c, "idle")

PrestartAll(c) ==
    /\ caller[c] = "idle"
    /\ caller' = [caller EXCEPT ![c] = "prestart"]
    /\ UNCHANGED <<lifecycle, queues, running_tasks, counters, sizes, threads,
                   drained, fate>>

PrestartNext(c) == caller[c] = "prestart" /\ PrestartCoreThread(c, "prestart")

-----------------------------------------------------------------------------
(* Reconfiguration: the new value is stored under the monitor, all waiters *)
(* are notified after it is released.  A refused value changes nothing.    *)

(* Mutant: nobody is notified.                                             *)
ReconfiguredSilently(c) ==
    /\ caller[c] = "idle"
    /\ UNCHANGED <<lifecycle, queues, running_tasks, counters, threads,
                   caller, drained, fate>>

Reconfigured(c) ==
    /\ caller[c] = "idle"
    /\ caller' = [caller EXCEPT ![c] = "notify_all"]
    /\ UNCHANGED <<lifecycle, queues, running_tasks, counters, threads,
                   drained, fate>>

SetCorePoolSize(c, n) ==
    /\ n <= maximum_pool_size
    /\ core_pool_size' = n
    /\ Reconfigured(c)
    /\ UNCHANGED <<maximum_pool_size, allow_core_thread_timeout>>

SetMaximumPoolSize(c, n) ==
    /\ n # 0 /\ core_pool_size <= n
    /\ maximum_pool_size' = n
    /\ Reconfigured(c)
    /\ UNCHANGED <<core_pool_size, allow_core_thread_timeout>>

SetKeepAlive(c) == Reconfigured(c) /\ UNCHANGED sizes

AllowCoreThreadTimeout(c, allow) ==
    /\ allow_core_thread_timeout' = allow
    /\ Reconfigured(c)
    /\ UNCHANGED <<core_pool_size, maximum_pool_size>>

-----------------------------------------------------------------------------
(* Shutdown and termination *)

(* Mutant: shutdown wakes nobody.                                          *)
ShutdownSilently(c) ==
    /\ caller[c] = "idle"
    /\ lifecycle' = IF lifecycle = "Running" THEN "Shutdown" ELSE lifecycle
    /\ UNCHANGED <<queues, running_tasks, counters, sizes, threads, caller,
                   drained, fate>>

(* shutdown, and the drop of the pool.  notify_all is called under the     *)
(* monitor and subsumes the notification of a terminated pool.             *)
Shutdown(c) ==
    /\ caller[c] = "idle"
    /\ lifecycle' = IF lifecycle = "Running" THEN "Shutdown" ELSE lifecycle
    /\ NotifyAllFrom(worker, caller)
    /\ UNCHANGED <<queues, running_tasks, counters, sizes, live_workers,
                   idle_workers, held, drained, fate>>

(* Every queue is emptied under the monitor; the callbacks run later.      *)
ShutdownNow(c) ==
    LET jobs == Range(queue) \cup UNION {Range(worker_queues[w]) : w \in Registered}
    IN  /\ caller[c] = "idle"
        /\ lifecycle' = "Stopping"
        /\ queue' = <<>>
        /\ worker_queues' = [w \in Workers |->
                               IF w \in Registered THEN <<>> ELSE worker_queues[w]]
        /\ queued_tasks' = 0
        /\ cancelled_tasks' = cancelled_tasks + queued_tasks
        /\ fate' = [j \in Jobs |-> IF j \in jobs THEN "drained" ELSE fate[j]]
        /\ drained' = [drained EXCEPT ![c] = jobs]
        /\ NotifyAllFrom(worker, [caller EXCEPT ![c] = IF jobs = {} THEN "idle"
                                                                    ELSE "cancel"])
        /\ UNCHANGED <<running_tasks, submitted_tasks, completed_tasks, sizes,
                       live_workers, idle_workers, held>>

(* wait_for_termination: wait_until re-tests the predicate after a wakeup. *)
AwaitTermination(c) ==
    /\ caller[c] = "woken" \/ (caller[c] = "idle" /\ c \in WaitingClients)
    /\ caller' = [caller EXCEPT ![c] = IF IsTerminated THEN "idle" ELSE "wait"]
    /\ UNCHANGED <<lifecycle, queues, running_tasks, counters, sizes, threads,
                   drained, fate>>

-----------------------------------------------------------------------------
(* Workers *)

(* The worker is about to hold the monitor at the top of wait_for_job.     *)
AtMonitor(w) == worker[w] \in {"seek", "woken", "timed_out"}

(* Mutant: a worker never counts itself out.                               *)
IdleKept(w) == idle_workers

(* A worker back from a wait first counts itself out.                      *)
IdleAfterWait(w) == IF worker[w] = "seek" THEN idle_workers ELSE idle_workers - 1

(* Mutant: the queue is not looked at again after the time-out.            *)
RetiresWithQueuedJobs(w) == worker[w] = "timed_out" /\ IdleWorkerCanRetire

RetiresOnTimeout(w) ==
    worker[w] = "timed_out" /\ queued_tasks = 0 /\ IdleWorkerCanRetire

HasLocalJob(v) == v \in Registered /\ worker_queues[v] # <<>>

NoJobToTake == queue = <<>> /\ (IsBounded => \A v \in Workers : ~HasLocalJob(v))

MayTakeJob(w) ==
    AtMonitor(w) /\ ~RetiresOnTimeout(w) /\ lifecycle # "Stopping"

Claim(w, j) ==
    /\ queued_tasks' = queued_tasks - 1
    /\ running_tasks' = running_tasks + 1
    /\ idle_workers' = IdleAfterWait(w)
    /\ worker' = [worker EXCEPT ![w] = "run"]
    /\ held' = [held EXCEPT ![w] = j]
    /\ fate' = [fate EXCEPT ![j] = "running"]
    /\ UNCHANGED <<lifecycle, live_workers, counters, sizes, caller, drained>>

(* Mutant: the thief does not remove what it takes.                        *)
TakeLocalJobTwice(w, v) ==
    /\ MayTakeJob(w)
    /\ IsBounded /\ HasLocalJob(v) /\ (v = w \/ ~HasLocalJob(w))
    /\ Claim(w, Head(worker_queues[v]))
    /\ UNCHANGED <<queue, worker_queues>>

(* Its own local queue, or another worker's when its own is empty.         *)
TakeLocalJob(w, v) ==
    /\ MayTakeJob(w)
    /\ IsBounded /\ HasLocalJob(v) /\ (v = w \/ ~HasLocalJob(w))
    /\ Claim(w, Head(worker_queues[v]))
    /\ worker_queues' = [worker_queues EXCEPT ![v] = Tail(@)]
    /\ UNCHANGED queue

(* The global queue, when every local queue is empty.                      *)
TakeGlobalJob(w) ==
    /\ MayTakeJob(w)
    /\ IsBounded => \A v \in Workers : ~HasLocalJob(v)
    /\ queue # <<>>
    /\ Claim(w, Head(queue))
    /\ queue' = Tail(queue)
    /\ UNCHANGED worker_queues

GoIdle(w) ==
    /\ MayTakeJob(w) /\ NoJobToTake
    /\ lifecycle = "Running" /\ ~(live_workers > maximum_pool_size)
    /\ idle_workers' = IdleAfterWait(w) + 1
    /\ worker' = [worker EXCEPT ![w] = IF WorkerWaitIsTimed THEN "timed_wait"
                                                            ELSE "wait"]
    /\ UNCHANGED <<lifecycle, queues, running_tasks, counters, sizes,
                   live_workers, held, caller, drained, fate>>

ShouldExit(w) ==
    \/ RetiresOnTimeout(w)
    \/ lifecycle = "Stopping"
    \/ NoJobToTake /\ lifecycle = "Shutdown"
    \/ NoJobToTake /\ lifecycle = "Running" /\ live_workers > maximum_pool_size

(* What is left in the local queue goes back to the global one.            *)
ExitWorker(w) ==
    /\ AtMonitor(w) /\ ShouldExit(w)
    /\ queue' = queue \o worker_queues[w]
    /\ worker_queues' = [worker_queues EXCEPT ![w] = <<>>]
    /\ live_workers' = live_workers - 1
    /\ idle_workers' = IdleAfterWait(w)
    /\ UNCHANGED <<lifecycle, queued_tasks, running_tasks>>
    /\ NotifyIfTerminated([worker EXCEPT ![w] = "dead"], caller)
    /\ UNCHANGED <<counters, sizes, held, drained, fate>>

WaitForJob(w) ==
    \/ \E v \in Workers : TakeLocalJob(w, v)
    \/ TakeGlobalJob(w)
    \/ GoIdle(w)
    \/ ExitWorker(w)

(* The run callback, outside the monitor.  A panic of a callback given to  *)
(* submit_job unwinds run_worker: nothing it counted is taken back.        *)
RunJob(w) ==
    /\ worker[w] = "run"
    /\ LET panics == held[w] \in PanickingJobs
       IN  /\ worker' = [worker EXCEPT ![w] = IF panics THEN "crashed" ELSE "finish"]
           /\ fate' = [fate EXCEPT ![held[w]] = IF panics THEN "panicked"
                                                          ELSE "completed"]
    /\ UNCHANGED <<lifecycle, queues, running_tasks, counters, sizes,
                   live_workers, idle_workers, held, caller, drained>>

(* finish_running_job; expect() unwinds the worker when nothing is counted.*)
FinishRunningJob(w) ==
    /\ worker[w] = "finish"
    /\ UNCHANGED <<lifecycle, queues, live_workers, idle_workers>>
    /\ IF running_tasks > 0
       THEN /\ running_tasks' = running_tasks - 1
            /\ completed_tasks' = completed_tasks + 1
            /\ held' = [held EXCEPT ![w] = NoJob]
            /\ NotifyIfTerminated([worker EXCEPT ![w] = "seek"], caller)
       ELSE /\ worker' = [worker EXCEPT ![w] = "crashed"]
            /\ UNCHANGED <<running_tasks, completed_tasks, held, caller>>
    /\ UNCHANGED <<submitted_tasks, cancelled_tasks, sizes, drained, fate>>

(* The keep-alive timer of a timed wait fires, or a wait ends spuriously.  *)
KeepAliveExpires(w) ==
    /\ worker[w] = "timed_wait"
    /\ worker' = [worker EXCEPT ![w] = "timed_out"]
    /\ UNCHANGED <<lifecycle, queues, running_tasks, counters, sizes,
                   live_workers, idle_workers, held, caller, drained, fate>>

SpuriousWakeup(w) ==
    /\ worker[w] \in Waiting
    /\ worker' = [worker EXCEPT ![w] = "woken"]
    /\ UNCHANGED <<lifecycle, queues, running_tasks, counters, sizes,
                   live_workers, idle_workers, held, caller, drained, fate>>

SpuriousReturn(c) ==
    /\ caller[c] = "wait"
    /\ caller' = [caller EXCEPT ![c] = "woken"]
    /\ UNCHANGED <<lifecycle, queues, running_tasks, counters, sizes, threads,
                   drained, fate>>

-----------------------------------------------------------------------------
WorkerStep(w) == WaitForJob(w) \/ RunJob(w) \/ FinishRunningJob(w)

Environment(w) == KeepAliveExpires(w) \/ SpuriousWakeup(w)

(* What a client that is inside a call does next.                          *)
ClientStep(c) ==
    \/ NotifyOne(c) \/ NotifyAll(c) \/ CancelJob(c) \/ PrestartNext(c)
    \/ caller[c] = "woken" /\ AwaitTermination(c)

Submit(c, j) ==
    \/ SubmitRejected(c, j)
    \/ SubmitToNewWorker(c, j)
    \/ SubmitSpawnFails(c, j)
    \/ SubmitQueued(c, j)
    \/ SubmitWithdrawn(c, j)

ClientCall(c) ==
    \/ \E j \in Jobs : Submit(c, j)
    \/ PrestartOne(c)
    \/ PrestartAll(c)
    \/ \E n \in CoreSizes : SetCorePoolSize(c, n)
    \/ \E n \in MaxSizes : SetMaximumPoolSize(c, n)
    \/ \E allow \in BOOLEAN : AllowCoreThreadTimeout(c, allow)
    \/ SetKeepAlive(c)
    \/ Shutdown(c)
    \/ ShutdownNow(c)
    \/ caller[c] = "idle" /\ AwaitTermination(c)

Next ==
    \/ \E c \in Clients : ClientCall(c) \/ ClientStep(c) \/ SpuriousReturn(c)
    \/ \E w \in Workers : WorkerStep(w) \/ Environment(w)

(* Threads inside the pool keep running: a worker that is not waiting, a   *)
(* client in the middle of a call.  Nobody has to make a call, no timer    *)
(* has to fire and no spurious wakeup has to come to the rescue.           *)
Fairness ==
    /\ \A w \in Workers : WF_vars(WorkerStep(w))
    /\ \A c \in Clients : WF_vars(ClientStep(c))

Spec == Init /\ [][Next]_vars

FairSpec == Spec /\ Fairness

(* Timers do fire: with this, a sleeper that is never woken has no timer.  *)
TimedSpec == FairSpec /\ \A w \in Workers : WF_vars(KeepAliveExpires(w))

-----------------------------------------------------------------------------
(* Safety *)

IdleStates == {"wait", "timed_wait", "woken", "timed_out"}
HoldStates == {"run", "finish", "crashed"}

(* The counters that drive every sizing decision agree with the threads    *)
(* they count: live_workers the worker loops (a panicked one stays counted *)
(* for ever), idle_workers those inside wait() or on the way out of it,    *)
(* running_tasks those between taking a job and finish_running_job.        *)
CountersMatchThreads ==
    /\ live_workers = Cardinality(Registered)
    /\ idle_workers = Cardinality({w \in Workers : worker[w] \in IdleStates})
    /\ running_tasks = Cardinality({w \in Workers : worker[w] \in HoldStates})

(* running_tasks as ThreadPoolState documents it: the number of jobs that  *)
(* workers hold.  A failed prestart refutes it (README, section 5), so     *)
(* CountersMatchThreads is for pools whose prestarts succeed.              *)
RunningTasksAreHeld ==
    running_tasks = Cardinality({w \in Workers : worker[w] \in HoldStates})

QueuedJobs == Range(queue) \cup UNION {Range(worker_queues[w]) : w \in Workers}

(* No job is lost or duplicated while it moves between the global queue,   *)
(* the local queues, thieves, exiting workers and shutdown_now: a queued   *)
(* job is in exactly one queue of a registered worker or the global one, a *)
(* running job is held by exactly one worker, a drained one by one caller. *)
JobInOnePlace ==
    /\ \A j \in Jobs : fate[j] = "queued" <=> j \in QueuedJobs
    /\ IsInjective(queue)
    /\ \A w \in Workers :
         /\ IsInjective(worker_queues[w])
         /\ worker[w] = "dead" => worker_queues[w] = <<>>
         /\ Range(queue) \cap Range(worker_queues[w]) = {}
         /\ worker[w] = "run" => held[w] \in Jobs /\ fate[held[w]] = "running"
         /\ \A v \in Workers \ {w} :
              /\ Range(worker_queues[v]) \cap Range(worker_queues[w]) = {}
              /\ worker[w] = "run" /\ worker[v] = "run" => held[w] # held[v]
    /\ \A j \in Jobs : fate[j] = "running" =>
         \E w \in Workers : worker[w] = "run" /\ held[w] = j
    /\ \A j \in Jobs : fate[j] \in {"drained", "withdrawn"} <=>
         \E c \in Clients : caller[c] = "cancel" /\ j \in drained[c]
    /\ \A c, d \in Clients : c # d => drained[c] \cap drained[d] = {}

JobsWith(fs) == {j \in Jobs : fate[j] \in fs}

(* The statistics of stats() tally with what became of the jobs; for       *)
(* queued_tasks this is the debug assertion of shutdown_now and the        *)
(* absence of the "counter underflow" panics.                              *)
StatsMatchFates ==
    /\ queued_tasks = Cardinality(JobsWith({"queued"}))
    /\ submitted_tasks =
         Cardinality(Jobs \ JobsWith({"new", "rejected", "withdrawn"}))
    /\ running_tasks + completed_tasks =
         Cardinality(JobsWith({"running", "completed", "panicked"}))
    /\ cancelled_tasks = Cardinality(JobsWith({"drained", "cancelled"}))

Sleeping == {w \in Workers : worker[w] \in Waiting}

(* The single notification of submit is enough: while a job is queued some *)
(* worker will look at the queues again, or a submitter is about to wake   *)
(* one that sleeps.                                                        *)
QueuedJobIsNoticed ==
    queued_tasks > 0 =>
        \/ \E w \in Workers : worker[w] \in WorkerStates \ ({"dead", "crashed"} \cup Waiting)
        \/ Sleeping # {} /\ \E c \in Clients : caller[c] = "notify_one"

(* A worker decides once, before it waits, whether its wait is timed.  The *)
(* decision is never stale for good: no more workers wait without a        *)
(* time-out than core workers are to be kept, unless the caller that       *)
(* changed the policy is about to wake everybody.                          *)
UntimedWaitersAreCore ==
    LET untimed == {w \in Workers : worker[w] = "wait"}
    IN  \/ untimed = {}
        \/ ~allow_core_thread_timeout /\ Cardinality(untimed) <= core_pool_size
        \/ \E c \in Clients : caller[c] = "notify_all"

(* Nobody sleeps through the end of the pool: no worker waits once it is   *)
(* shut down, no client waits for termination once it is terminated.       *)
NobodySleepsThroughShutdown ==
    /\ lifecycle # "Running" => Sleeping = {}
    /\ IsTerminated => \A c \in Clients : caller[c] # "wait"

-----------------------------------------------------------------------------
(* What a step may never do *)

(* The sizes hold against every interleaving of submit, prestart, the      *)
(* setters and the workers that leave: no step starts a worker beyond the  *)
(* maximum in force at that moment, and while the pool runs and core       *)
(* workers may not time out, no worker leaves it with fewer than the core  *)
(* size, whichever way it exits.                                           *)
WorkersStayWithinSizes ==
    [][/\ live_workers' > live_workers => live_workers' <= maximum_pool_size
       /\ live_workers' < live_workers /\ lifecycle = "Running" /\ ~allow_core_thread_timeout
            => live_workers' >= core_pool_size]_vars

(* Once is_terminated() has returned true it stays true.                   *)
TerminationIsFinal == [][IsTerminated => IsTerminated']_vars

-----------------------------------------------------------------------------
(* Liveness, under Fairness *)

(* Every accepted job is run or cancelled.                                 *)
AcceptedJobFinishes ==
    \A j \in Jobs : fate[j] \in {"queued", "running", "drained"} ~>
                        fate[j] \in {"completed", "panicked", "cancelled"}

WorkerCrashed == \E w \in Workers : worker[w] = "crashed"
Awaiting == {c \in Clients : caller[c] = "wait"}

(* Every accepted job is run or cancelled: as long as no client that waits *)
(* for termination can take a worker's notification, and no panicked       *)
(* worker is missing.                                                      *)
AcceptedJobIsServed ==
    \A j \in Jobs : fate[j] \in {"queued", "running", "drained"} ~>
        \/ fate[j] \in {"completed", "panicked", "cancelled"}
        \/ Awaiting # {} \/ WorkerCrashed

(* A pool that is shut down terminates, and every await_termination then   *)
(* returns, whatever was queued, running, waiting or half submitted; only  *)
(* a worker lost to a panic, which stays counted, is waited for in vain.   *)
TerminationIsAnnounced ==
    lifecycle # "Running" ~> (IsTerminated /\ Awaiting = {}) \/ WorkerCrashed

(* After the maximum was lowered the workers above it leave, without the   *)
(* help of a timer; only workers lost to a panic, which stay counted, can  *)
(* be too many for good.                                                   *)
ExcessWorkersRetire ==
    live_workers > maximum_pool_size ~>
        \/ live_workers <= maximum_pool_size
        \/ \A w \in Registered : worker[w] = "crashed"

-----------------------------------------------------------------------------
(* The contract of ExecutorService.  A job that is drained but not yet     *)
(* cancelled is still pending, one that is withdrawn was never accepted.   *)
ServiceStatus(j) ==
    CASE fate[j] \in {"new", "withdrawn"}      -> "new"
      [] fate[j] \in {"queued", "drained"}     -> "accepted"
      [] fate[j] \in {"completed", "panicked"} -> "completed"
      [] OTHER                                 -> fate[j]

Service == INSTANCE ExecutorService
    WITH Tasks <- Jobs, CanAbort <- FALSE,
         status <- [j \in Jobs |-> ServiceStatus(j)],
         shutdown <- lifecycle # "Running"

(* The pool implements the contract of the trait: jobs are accepted only   *)
(* before shutdown, each is run once or cancelled before it starts, and a  *)
(* job whose submit failed was never run.                                  *)
ImplementsService == Service!Spec

(* is_terminated as the trait documents it: true only when all accepted    *)
(* jobs have completed or been cancelled.  shutdown_now refutes it: its    *)
(* drained jobs are not cancelled yet (README, section 5).                 *)
TerminatedMeansSettled == IsTerminated => Service!Terminated

(* What holds of it: when the pool says it is terminated no job is queued  *)
(* or runs, not even one that a failed prestart has taken out of           *)
(* running_tasks, and what is unsettled was drained and is in the hands of *)
(* a shutdown_now that is about to cancel it.                              *)
TerminatedLeavesOnlyDrained ==
    IsTerminated =>
        \A j \in Jobs : ServiceStatus(j) \in Service!Pending =>
            /\ fate[j] = "drained"
            /\ \E c \in Clients : caller[c] = "cancel" /\ j \in drained[c]

=============================================================================
