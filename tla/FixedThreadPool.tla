---------------------------- MODULE FixedThreadPool ----------------------------
(***************************************************************************)
(* FixedThreadPool (task/service/fixed_thread_pool.rs) on the work-stealing*)
(* queues of task/service/worker_queue.rs: a fixed set of workers, a global*)
(* queue, and for every worker an inbox, which submitters fill, and a local*)
(* queue, which the worker fills and others steal from.  No mod line names *)
(* the two files yet, so the crate does not export the pool.               *)
(*                                                                         *)
(* submit never takes the monitor: it works on atomics, and its order of   *)
(* loads and updates is what the pool's correctness rests on.  So an       *)
(* action is one atomic operation or one queue operation, and the monitor  *)
(* is an explicit lock, because a worker holds it while it looks at        *)
(* atomics that others change.  Operations are merged only where nobody    *)
(* could tell (said at the action).  The atomics are taken as sequentially *)
(* consistent.  A queue is a set: the order of jobs is not observed.       *)
(* crossbeam-deque is external: an operation on a queue is atomic, and a   *)
(* batch is any part of what is there.                                     *)
(***************************************************************************)
EXTENDS Integers, FiniteSets

CONSTANTS
    Workers,
    Clients,              \* threads that hold the pool
    Jobs,
    Configurations,       \* how pools are built: whether pool_size is at most
                          \* LOCAL_QUEUE_WORKER_LIMIT, and the queue_capacity
    Unbounded,            \* queue_capacity = None
    Nobody,               \* the monitor is free
    NoJob                 \* a thread holds no job

ASSUME FixedPoolAssumption ==
    /\ IsFiniteSet(Workers) /\ Workers # {}
    /\ IsFiniteSet(Clients) /\ IsFiniteSet(Jobs)
    /\ Workers \cap Clients = {} /\ {Nobody, "global"} \cap (Workers \cup Clients) = {}
    /\ NoJob \notin Jobs
    /\ Configurations \subseteq BOOLEAN \X ((Nat \ {0}) \cup {Unbounded})
    /\ Unbounded \notin Nat

VARIABLES
    use_worker_local_queues,
    queue_capacity,
    builder,              \* where build() stands
    lifecycle,            \* FixedThreadPoolState ...
    live_workers,
    monitor,              \* ... and who holds its mutex
    accepting,            \* the atomics
    stop_now,
    inflight_submissions,
    idle_worker_count,    \* state.idle_workers changes with it
    pending_worker_wakes,
    queued_task_count,
    running_task_count,
    active,               \* WorkerQueue: active, inbox, and the local queue
    inbox,
    local,
    global_queue,
    status,               \* what has become of a job
    pc,
    held,                 \* the job a thread has in its hands
    todo,                 \* the queues a thread is about to use
    idle_workers,         \* what wake_one_idle_worker has read
    batch                 \* the jobs a thread has drained, to cancel them

config == <<use_worker_local_queues, queue_capacity>>
state == <<lifecycle, live_workers>>
flags == <<accepting, stop_now>>
wakes == <<idle_worker_count, pending_worker_wakes>>
counts == <<inflight_submissions, queued_task_count, running_task_count>>
queues == <<active, inbox, local, global_queue>>
mine == <<held, todo, idle_workers, batch>>
vars == <<config, builder, state, monitor, flags, wakes, counts, queues, status,
          pc, mine>>

Threads == Workers \cup Clients

Service == INSTANCE ExecutorService WITH
    Tasks <- Jobs, shutdown <- ~accepting, CanAbort <- FALSE

(* unborn: not spawned; take, global, victims: in try_take_job; poke: about*)
(* to notify_one; claimed: before accept_claimed_job; purge .. discard_all:*)
(* in cancel_worker_jobs; check, tell: in finish_running_job; lock ..      *)
(* reconsume: in wait_for_fixed_pool_work; retire .. tell_exit: in         *)
(* worker_exited.                                                          *)
WorkerStates == {"unborn", "start", "take", "global", "victims", "poke",
    "claimed", "run", "check", "tell", "purge", "discard", "collect",
    "discard_all", "lock", "decide", "settle", "mark", "recheck_queue",
    "recheck_wake", "sleep", "asleep", "wake", "unmark", "consume",
    "reconsume", "retire", "exit", "tell_exit", "gone"}

(* enter .. leave: in submit; shut, announce: in shutdown; stop .. cancel: *)
(* in shutdown_now; await .. awaits: in wait_for_termination.              *)
ClientStates == {"idle", "enter", "recheck", "reserve", "accept", "route",
    "push", "count_idle", "add_wake", "notify", "leave", "announce",
    "shut", "stop", "close", "stall", "stalls", "recount",
    "drain", "subtract", "cancel", "await", "doze", "awaits"}

Sources == Workers \cup {"global"}

TypeOK ==
    /\ config \in Configurations
    /\ builder \in {"spawn", "stop", "close", "tell", "built", "failed"}
    /\ lifecycle \in {"Running", "Shutdown", "Stopping"}
    /\ monitor \in Threads \cup {Nobody}
    /\ {accepting, stop_now} \subseteq BOOLEAN
    /\ {live_workers, inflight_submissions, idle_worker_count,
        pending_worker_wakes, queued_task_count, running_task_count} \subseteq Nat
    /\ active \in [Workers -> BOOLEAN]
    /\ inbox \in [Workers -> SUBSET Jobs]
    /\ local \in [Workers -> SUBSET Jobs]
    /\ global_queue \subseteq Jobs
    /\ status \in [Jobs -> Service!Statuses]
    /\ pc \in [Threads -> WorkerStates \cup ClientStates]
    /\ held \in [Threads -> Jobs \cup {NoJob}]
    /\ todo \in [Threads -> SUBSET Sources]
    /\ idle_workers \in [Clients -> Nat]
    /\ batch \in [Threads -> SUBSET Jobs]

Init ==
    /\ \E k \in Configurations :
         use_worker_local_queues = k[1] /\ queue_capacity = k[2]
    /\ builder = "spawn"
    /\ lifecycle = "Running" /\ live_workers = 0
    /\ monitor = Nobody
    /\ accepting = TRUE /\ stop_now = FALSE
    /\ inflight_submissions = 0
    /\ idle_worker_count = 0 /\ pending_worker_wakes = 0
    /\ queued_task_count = 0 /\ running_task_count = 0
    /\ active = [w \in Workers |-> FALSE]
    /\ inbox = [w \in Workers |-> {}]
    /\ local = [w \in Workers |-> {}]
    /\ global_queue = {}
    /\ status = [j \in Jobs |-> "new"]
    /\ pc = [t \in Threads |-> IF t \in Workers THEN "unborn" ELSE "idle"]
    /\ held = [t \in Threads |-> NoJob]
    /\ todo = [t \in Threads |-> {}]
    /\ idle_workers = [c \in Clients |-> 0]
    /\ batch = [t \in Threads |-> {}]

Goto(t, s) == pc' = [pc EXCEPT ![t] = s]
Becomes(j, s) == status' = [status EXCEPT ![j] = s]
Hold(t, j) == held' = [held EXCEPT ![t] = j]

-----------------------------------------------------------------------------
(* Monitor::notify_all and notify_one, which need no lock.  Whoever is     *)
(* woken needs the monitor again before it goes on.                        *)
Asleep == {t \in Threads : pc[t] \in {"asleep", "stalls", "awaits"}}
Awakened(s) == CASE s = "asleep" -> "wake"
                 [] s = "stalls" -> "recount"
                 [] s = "awaits" -> "await"

(* Thread t wakes the threads ts and goes on at s.                         *)
Wake(t, ts, s) ==
    pc' = [u \in Threads |-> IF u = t THEN s
                             ELSE IF u \in ts THEN Awakened(pc[u]) ELSE pc[u]]
NotifyAll(t, s) == Wake(t, Asleep, s)
NotifyOne(t, s) ==
    IF Asleep = {} THEN Goto(t, s) ELSE \E u \in Asleep : Wake(t, {u}, s)

SpuriousWakeup(t) ==
    /\ t \in Asleep
    /\ Goto(t, Awakened(pc[t]))
    /\ UNCHANGED <<config, builder, state, monitor, flags, wakes, counts, queues,
                   status, mine>>

-----------------------------------------------------------------------------
(* FixedThreadPoolBuilder::build: nobody else has the pool until it is     *)
(* built, but the workers run.  validate() is the assumption above.        *)
SpawnWorker(w) ==
    /\ builder = "spawn" /\ monitor = Nobody
    /\ pc[w] = "unborn"
    /\ live_workers' = live_workers + 1
    /\ Goto(w, "start")
    /\ builder' = IF \A v \in Workers \ {w} : pc[v] # "unborn" THEN "built" ELSE "spawn"
    /\ UNCHANGED <<config, lifecycle, monitor, flags, wakes, counts, queues, status, mine>>

(* The thread cannot be spawned: rollback_worker_slot (nobody has seen the *)
(* slot) and the first store of stop_after_failed_build ...                *)
SpawnFails ==
    /\ builder = "spawn" /\ monitor = Nobody
    /\ accepting' = FALSE
    /\ builder' = "stop"
    /\ UNCHANGED <<config, state, monitor, stop_now, wakes, counts, queues, status,
                   pc, mine>>

(* ... and the rest of it.                                                 *)
StopAfterFailedBuild ==
    /\ \/ /\ builder = "stop" /\ builder' = "close"
          /\ stop_now' = TRUE
          /\ UNCHANGED <<lifecycle, pc>>
       \/ /\ builder = "close" /\ builder' = "tell" /\ monitor = Nobody
          /\ lifecycle' = "Stopping"
          /\ UNCHANGED <<stop_now, pc>>
       \/ /\ builder = "tell" /\ builder' = "failed"
          /\ NotifyAll(Nobody, "gone")
          /\ UNCHANGED <<lifecycle, stop_now>>
    /\ UNCHANGED <<config, live_workers, monitor, accepting, wakes, counts, queues,
                   status, mine>>

-----------------------------------------------------------------------------
(* submit                                                                  *)

(* begin_submit: the first look at accepting                               *)
BeginSubmit(c, j) ==
    /\ builder = "built" /\ pc[c] = "idle"
    /\ status[j] = "new" /\ \A d \in Clients : held[d] # j
    /\ IF accepting
       THEN Hold(c, j) /\ Goto(c, "enter") /\ UNCHANGED status
       ELSE Becomes(j, "rejected") /\ UNCHANGED <<held, pc>>
    /\ UNCHANGED <<config, builder, state, monitor, flags, wakes, counts, queues,
                   todo, idle_workers, batch>>

Enter(c) ==
    /\ pc[c] = "enter"
    /\ inflight_submissions' = inflight_submissions + 1
    /\ Goto(c, "recheck")
    /\ UNCHANGED <<config, builder, state, monitor, flags, wakes, queued_task_count,
                   running_task_count, queues, status, mine>>

(* The caller gets its job back.                                           *)
Reject(c) == Becomes(held[c], "rejected") /\ Hold(c, NoJob) /\ Goto(c, "leave")

(* begin_submit: the second look, after inflight_submissions was raised    *)
Recheck(c) ==
    /\ pc[c] = "recheck"
    /\ IF accepting THEN Goto(c, "reserve") /\ UNCHANGED <<status, held>> ELSE Reject(c)
    /\ UNCHANGED <<config, builder, state, monitor, flags, wakes, counts, queues,
                   todo, idle_workers, batch>>

(* reserve_queue_slot; a failed compare_exchange starts over               *)
ReserveQueueSlot(c) ==
    /\ pc[c] = "reserve"
    /\ IF queue_capacity = Unbounded \/ queued_task_count < queue_capacity
       THEN /\ queued_task_count' = queued_task_count + 1
            /\ Goto(c, "accept") /\ UNCHANGED <<status, held>>
       ELSE Reject(c) /\ UNCHANGED queued_task_count
    /\ UNCHANGED <<config, builder, state, monitor, flags, wakes, inflight_submissions,
                   running_task_count, queues, todo, idle_workers, batch>>

(* Mutant: the job is accepted without the last look at accepting.         *)
AcceptBlindly(c) ==
    /\ pc[c] = "accept"
    /\ Becomes(held[c], "accepted") /\ Goto(c, "route")
    /\ UNCHANGED <<config, builder, state, monitor, flags, wakes, counts, queues, mine>>

(* Mutant: a job refused so late keeps its slot in the queue.              *)
AcceptKeepsSlot(c) ==
    /\ pc[c] = "accept"
    /\ IF accepting
       THEN Becomes(held[c], "accepted") /\ Goto(c, "route") /\ UNCHANGED held
       ELSE Reject(c)
    /\ UNCHANGED <<config, builder, state, monitor, flags, wakes, counts, queues,
                   todo, idle_workers, batch>>

(* The third look at accepting accepts the job; otherwise                  *)
(* rollback_queue_slot.                                                    *)
Accept(c) ==
    /\ pc[c] = "accept"
    /\ IF accepting
       THEN /\ Becomes(held[c], "accepted") /\ Goto(c, "route")
            /\ UNCHANGED <<queued_task_count, held>>
       ELSE Reject(c) /\ queued_task_count' = queued_task_count - 1
    /\ UNCHANGED <<config, builder, state, monitor, flags, wakes, inflight_submissions,
                   running_task_count, queues, todo, idle_workers, batch>>

(* enqueue_job and try_enqueue_to_worker choose a queue: an inbox whose    *)
(* worker is active now, or the global queue if a probe met an inactive    *)
(* one (probes of two submitters share one cursor).                        *)
Route(c) ==
    /\ pc[c] = "route"
    /\ \E q \in Sources :
         /\ IF q = "global"
            THEN use_worker_local_queues => \E w \in Workers : ~active[w]
            ELSE use_worker_local_queues /\ active[q]
         /\ todo' = [todo EXCEPT ![c] = {q}]
    /\ Goto(c, "push")
    /\ UNCHANGED <<config, builder, state, monitor, flags, wakes, counts, queues,
                   status, held, idle_workers, batch>>

Push(c) ==
    /\ pc[c] = "push"
    /\ \E q \in todo[c] :
         IF q = "global"
         THEN global_queue' = global_queue \cup {held[c]} /\ UNCHANGED inbox
         ELSE inbox' = [inbox EXCEPT ![q] = @ \cup {held[c]}] /\ UNCHANGED global_queue
    /\ Hold(c, NoJob)
    /\ todo' = [todo EXCEPT ![c] = {}]
    /\ Goto(c, "count_idle")
    /\ UNCHANGED <<config, builder, state, monitor, flags, wakes, counts, active, local,
                   status, idle_workers, batch>>

(* wake_one_idle_worker: read idle_worker_count ...                        *)
CountIdle(c) ==
    /\ pc[c] = "count_idle"
    /\ idle_workers' = [idle_workers EXCEPT ![c] = idle_worker_count]
    /\ Goto(c, IF idle_worker_count = 0 THEN "leave" ELSE "add_wake")
    /\ UNCHANGED <<config, builder, state, monitor, flags, wakes, counts, queues,
                   status, held, todo, batch>>

(* Mutant: one idle worker too few is taken into account.                  *)
AddTooFewWakes(c) ==
    /\ pc[c] = "add_wake"
    /\ IF pending_worker_wakes >= idle_workers[c] - 1
       THEN Goto(c, "leave") /\ UNCHANGED pending_worker_wakes
       ELSE Goto(c, "notify") /\ pending_worker_wakes' = pending_worker_wakes + 1
    /\ idle_workers' = [idle_workers EXCEPT ![c] = 0]
    /\ UNCHANGED <<config, builder, state, monitor, flags, idle_worker_count, counts,
                   queues, status, held, todo, batch>>

(* ... compare it with pending_worker_wakes, which the compare_exchange    *)
(* raises (if it fails, everything is read again) ...                      *)
AddWake(c) ==
    /\ pc[c] = "add_wake"
    /\ IF pending_worker_wakes >= idle_workers[c]
       THEN Goto(c, "leave") /\ UNCHANGED pending_worker_wakes
       ELSE Goto(c, "notify") /\ pending_worker_wakes' = pending_worker_wakes + 1
    /\ idle_workers' = [idle_workers EXCEPT ![c] = 0]
    /\ UNCHANGED <<config, builder, state, monitor, flags, idle_worker_count, counts,
                   queues, status, held, todo, batch>>

(* ... and notify_one                                                      *)
Notify(c) ==
    /\ pc[c] = "notify"
    /\ NotifyOne(c, "leave")
    /\ UNCHANGED <<config, builder, state, monitor, flags, wakes, counts, queues,
                   status, mine>>

(* FixedSubmitGuard::drop, and the way out of a begin_submit that failed   *)
Leave(c) ==
    /\ pc[c] = "leave"
    /\ inflight_submissions' = inflight_submissions - 1
    /\ Goto(c, IF inflight_submissions = 1 THEN "announce" ELSE "idle")
    /\ UNCHANGED <<config, builder, state, monitor, flags, wakes, queued_task_count,
                   running_task_count, queues, status, mine>>

(* notify_all, if the pool is shut down; the last step of shutdown and of  *)
(* shutdown_now as well, which have cleared accepting themselves.          *)
Announce(c) ==
    /\ pc[c] = "announce"
    /\ IF accepting THEN Goto(c, "idle") ELSE NotifyAll(c, "idle")
    /\ UNCHANGED <<config, builder, state, monitor, flags, wakes, counts, queues,
                   status, mine>>

-----------------------------------------------------------------------------
(* shutdown (and Drop), shutdown_now and await_termination                 *)

StopAccepting(c) ==
    /\ builder = "built" /\ pc[c] = "idle"
    /\ accepting' = FALSE
    /\ \E s \in {"shut", "stop"} : Goto(c, s)
    /\ UNCHANGED <<config, builder, state, monitor, stop_now, wakes, counts, queues,
                   status, mine>>

Shutdown(c) ==
    /\ pc[c] = "shut" /\ monitor = Nobody
    /\ lifecycle' = IF lifecycle = "Running" THEN "Shutdown" ELSE lifecycle
    /\ Goto(c, "announce")
    /\ UNCHANGED <<config, builder, live_workers, monitor, flags, wakes, counts, queues,
                   status, mine>>

SetStopNow(c) ==
    /\ pc[c] = "stop"
    /\ stop_now' = TRUE
    /\ Goto(c, "close")
    /\ UNCHANGED <<config, builder, state, monitor, accepting, wakes, counts, queues,
                   status, mine>>

(* Mutant: shutdown_now does not wait for submissions under way.           *)
CloseAtOnce(c) ==
    /\ pc[c] = "close" /\ monitor = Nobody
    /\ lifecycle' = "Stopping"
    /\ Goto(c, "drain")
    /\ todo' = [todo EXCEPT ![c] = Sources]
    /\ UNCHANGED <<config, builder, live_workers, monitor, flags, wakes, counts, queues,
                   status, held, idle_workers, batch>>

(* shutdown_now takes the monitor, or takes it back after a wait, and      *)
(* sleeps while self.inflight_count() > 0 (taking the monitor is one step  *)
(* with the first thing its holder does, here and below: a thread that has *)
(* it and has done nothing yet might as well not have it).                 *)
Close(c) ==
    /\ pc[c] \in {"close", "recount"} /\ monitor = Nobody
    /\ lifecycle' = "Stopping"
    /\ IF inflight_submissions > 0
       THEN Goto(c, "stall") /\ monitor' = c /\ UNCHANGED todo
       ELSE /\ Goto(c, "drain") /\ UNCHANGED monitor
            /\ todo' = [todo EXCEPT ![c] = Sources]
    /\ UNCHANGED <<config, builder, live_workers, flags, wakes, counts, queues, status,
                   held, idle_workers, batch>>

(* MonitorGuard::wait: the monitor is released when the thread is on the   *)
(* wait set.                                                               *)
FallAsleep(t) ==
    /\ pc[t] \in {"stall", "doze", "sleep"}
    /\ monitor' = Nobody
    /\ Goto(t, CASE pc[t] = "stall" -> "stalls"
                 [] pc[t] = "doze" -> "awaits"
                 [] pc[t] = "sleep" -> "asleep")
    /\ UNCHANGED <<config, builder, state, flags, wakes, counts, queues, status, mine>>

(* A job leaves the queue it is in, for another place.                     *)
TakeFrom(j) ==
    /\ global_queue' = global_queue \ {j}
    /\ inbox' = [w \in Workers |-> inbox[w] \ {j}]

(* drain_visible_queued_jobs: one job at a time ...                        *)
Drain(c) ==
    /\ pc[c] = "drain"
    /\ \E j \in global_queue \cup UNION {inbox[w] \cup local[w] : w \in Workers} :
         /\ TakeFrom(j)
         /\ local' = [w \in Workers |-> local[w] \ {j}]
         /\ batch' = [batch EXCEPT ![c] = @ \cup {j}]
    /\ todo' = [todo EXCEPT ![c] = Sources]
    /\ UNCHANGED <<config, builder, state, monitor, flags, wakes, counts, active, status,
                   pc, held, idle_workers>>

(* ... until a whole round, first of the global queue and then of the      *)
(* workers, finds every queue empty.  A worker's local queue is looked at  *)
(* before its inbox, and may have been filled in between.                  *)
FindEmpty(c) ==
    /\ pc[c] = "drain"
    /\ \E q \in todo[c] :
         /\ IF q = "global" THEN global_queue = {}
                            ELSE "global" \notin todo[c] /\ inbox[q] = {}
         /\ todo' = [todo EXCEPT ![c] = @ \ {q}]
    /\ Goto(c, IF todo'[c] = {} THEN "subtract" ELSE "drain")
    /\ UNCHANGED <<config, builder, state, monitor, flags, wakes, counts, queues,
                   status, held, idle_workers, batch>>

(* The drained jobs leave queued_task_count ...                            *)
Subtract(c) ==
    /\ pc[c] = "subtract"
    /\ queued_task_count' = queued_task_count - Cardinality(batch[c])
    /\ Goto(c, IF batch[c] = {} THEN "announce" ELSE "cancel")
    /\ UNCHANGED <<config, builder, state, monitor, flags, wakes, inflight_submissions,
                   running_task_count, queues, status, mine>>

(* ... and are then cancelled one by one.                                  *)
CancelBatch(c) ==
    /\ pc[c] = "cancel"
    /\ \E j \in batch[c] :
         /\ Becomes(j, "cancelled")
         /\ batch' = [batch EXCEPT ![c] = @ \ {j}]
    /\ Goto(c, IF batch'[c] = {} THEN "announce" ELSE "cancel")
    /\ UNCHANGED <<config, builder, state, monitor, flags, wakes, counts, queues,
                   held, todo, idle_workers>>

(* is_terminated_locked.  The loads are not one step, but with no worker   *)
(* left the last of them decides: without a submission under way nothing   *)
(* can be added.                                                           *)
Terminated ==
    /\ lifecycle # "Running"
    /\ live_workers = 0
    /\ queued_task_count = 0 /\ running_task_count = 0 /\ inflight_submissions = 0

CallAwaitTermination(c) ==
    /\ builder = "built" /\ pc[c] = "idle"
    /\ Goto(c, "await")
    /\ UNCHANGED <<config, builder, state, monitor, flags, wakes, counts, queues,
                   status, mine>>

(* wait_for_termination: the test, with the monitor                        *)
WaitForTermination(c) ==
    /\ pc[c] = "await" /\ monitor = Nobody
    /\ IF Terminated THEN Goto(c, "idle") /\ UNCHANGED monitor
                     ELSE Goto(c, "doze") /\ monitor' = c
    /\ UNCHANGED <<config, builder, state, flags, wakes, counts, queues, status, mine>>

-----------------------------------------------------------------------------
(* run_fixed_worker: the worker's queue becomes active.                    *)
Activate(w) ==
    /\ pc[w] = "start"
    /\ active' = [active EXCEPT ![w] = TRUE]
    /\ Goto(w, "take")
    /\ UNCHANGED <<config, builder, state, monitor, flags, wakes, counts, inbox, local,
                   global_queue, status, mine>>

(* try_take_job looks at stop_now, then at the worker's own jobs: its local*)
(* queue, and a batch from its inbox (one step: if stop_now is set before  *)
(* the job is taken, accept_claimed_job sees it).                          *)
TryTakeJob(w) ==
    /\ pc[w] = "take"
    /\ \/ /\ stop_now
          /\ Goto(w, "purge")
          /\ UNCHANGED <<local, inbox, held>>
       \/ /\ ~stop_now /\ use_worker_local_queues
          /\ \E j \in local[w] :
               /\ local' = [local EXCEPT ![w] = @ \ {j}]
               /\ Hold(w, j) /\ Goto(w, "claimed")
               /\ UNCHANGED inbox
       \/ /\ ~stop_now /\ use_worker_local_queues /\ local[w] = {}
          /\ \E j \in inbox[w] : \E more \in SUBSET (inbox[w] \ {j}) :
               /\ local' = [local EXCEPT ![w] = more]
               /\ inbox' = [inbox EXCEPT ![w] = @ \ ({j} \cup more)]
               /\ Hold(w, j) /\ Goto(w, "claimed")
       \/ /\ ~stop_now /\ (use_worker_local_queues => local[w] = {} /\ inbox[w] = {})
          /\ Goto(w, "global")
          /\ UNCHANGED <<local, inbox, held>>
    /\ UNCHANGED <<config, builder, state, monitor, flags, wakes, counts, active,
                   global_queue, status, todo, idle_workers, batch>>

(* What a worker does with a batch it stole: notify_one if there is more   *)
(* than the job it takes.                                                  *)
Stolen(w, j, more) == Hold(w, j) /\ Goto(w, IF more = {} THEN "claimed" ELSE "poke")

(* steal_global_job; without local queues steal_single_global_job.  Where  *)
(* there are local queues, steal_worker_job comes after it when it returns *)
(* nothing: no job was there, or the one it took was cancelled.            *)
StealGlobal(w) ==
    /\ pc[w] = "global"
    /\ todo' = [todo EXCEPT ![w] = IF use_worker_local_queues THEN Workers \ {w} ELSE {}]
    /\ \/ \E j \in global_queue : \E more \in SUBSET (global_queue \ {j}) :
            /\ ~use_worker_local_queues => more = {}
            /\ global_queue' = global_queue \ ({j} \cup more)
            /\ local' = [local EXCEPT ![w] = more]
            /\ Stolen(w, j, more)
       \/ /\ global_queue = {}
          /\ Goto(w, IF todo'[w] = {} THEN "lock" ELSE "victims")
          /\ UNCHANGED <<global_queue, local, held>>
    /\ UNCHANGED <<config, builder, state, monitor, flags, wakes, counts, active, inbox,
                   status, idle_workers, batch>>

(* steal_worker_job: the other workers in turn, while they are active.  A  *)
(* victim's local queue is looked at before its inbox, so a job the victim *)
(* moves from one to the other in between is missed.                       *)
StealWorker(w) ==
    /\ pc[w] = "victims"
    /\ \E v \in todo[w] :
       \/ \E j \in local[v] : \E more \in SUBSET (local[v] \ {j}) :
            /\ active[v]
            /\ local' = [local EXCEPT ![v] = @ \ ({j} \cup more), ![w] = more]
            /\ todo' = [todo EXCEPT ![w] = {}]
            /\ Stolen(w, j, more)
            /\ UNCHANGED inbox
       \/ \E j \in inbox[v] : \E more \in SUBSET (inbox[v] \ {j}) :
            /\ active[v]
            /\ inbox' = [inbox EXCEPT ![v] = @ \ ({j} \cup more)]
            /\ local' = [local EXCEPT ![w] = more]
            /\ todo' = [todo EXCEPT ![w] = {}]
            /\ Stolen(w, j, more)
       \/ /\ ~active[v] \/ inbox[v] = {}
          /\ todo' = [todo EXCEPT ![w] = @ \ {v}]
          /\ Goto(w, IF todo'[w] = {} THEN "lock" ELSE "victims")
          /\ UNCHANGED <<local, inbox, held>>
    /\ UNCHANGED <<config, builder, state, monitor, flags, wakes, counts, active,
                   global_queue, status, idle_workers, batch>>

Poke(w) ==
    /\ pc[w] = "poke"
    /\ NotifyOne(w, "claimed")
    /\ UNCHANGED <<config, builder, state, monitor, flags, wakes, counts, queues,
                   status, mine>>

(* accept_claimed_job: the second look at stop_now, and                    *)
(* mark_queued_job_running, after which job.run starts (one step: as long  *)
(* as the worker lives nobody draws a conclusion from these counters).     *)
AcceptClaimedJob(w) ==
    /\ pc[w] = "claimed"
    /\ IF stop_now
       THEN /\ Goto(w, "discard")
            /\ UNCHANGED <<queued_task_count, running_task_count, status, todo>>
       ELSE /\ queued_task_count' = queued_task_count - 1
            /\ running_task_count' = running_task_count + 1
            /\ Becomes(held[w], "running")
            /\ todo' = [todo EXCEPT ![w] = {}]
            /\ Goto(w, "run")
    /\ UNCHANGED <<config, builder, state, monitor, flags, wakes, inflight_submissions,
                   queues, held, idle_workers, batch>>

(* job.run returns, and finish_running_job counts (one step: nobody looks  *)
(* at the status of a running job) ...                                     *)
RunJob(w) ==
    /\ pc[w] = "run"
    /\ Becomes(held[w], "completed")
    /\ Hold(w, NoJob)
    /\ running_task_count' = running_task_count - 1
    /\ Goto(w, IF running_task_count = 1 THEN "check" ELSE "take")
    /\ UNCHANGED <<config, builder, state, monitor, flags, wakes, inflight_submissions,
                   queued_task_count, queues, todo, idle_workers, batch>>

(* ... looks at the queue, and may notify_all.                             *)
FinishRunningJob(w) ==
    /\ \/ /\ pc[w] = "check"
          /\ Goto(w, IF queued_task_count = 0 THEN "tell" ELSE "take")
       \/ pc[w] = "tell" /\ NotifyAll(w, "take")
    /\ UNCHANGED <<config, builder, state, monitor, flags, wakes, counts, queues, status,
                   mine>>

(* Where try_take_job goes on when its worker's jobs are cancelled.        *)
NextSource(w) == IF todo[w] = {} THEN "lock" ELSE "victims"

(* cancel_worker_jobs pops the worker's local jobs one by one, each for    *)
(* cancel_claimed_job, and then drains the inbox ...                       *)
CancelWorkerJobs(w) ==
    /\ \/ /\ pc[w] = "purge"
          /\ \E j \in local[w] :
               /\ local' = [local EXCEPT ![w] = @ \ {j}]
               /\ Hold(w, j) /\ Goto(w, "discard")
          /\ UNCHANGED <<inbox, batch>>
       \/ /\ pc[w] = "purge" /\ local[w] = {}
          /\ Goto(w, "collect")
          /\ UNCHANGED <<local, inbox, held, batch>>
       \/ /\ pc[w] = "collect"
          /\ \E j \in inbox[w] :
               /\ inbox' = [inbox EXCEPT ![w] = @ \ {j}]
               /\ batch' = [batch EXCEPT ![w] = @ \cup {j}]
          /\ UNCHANGED <<local, held, pc>>
       \/ /\ pc[w] = "collect" /\ inbox[w] = {}
          /\ Goto(w, IF batch[w] = {} THEN NextSource(w) ELSE "discard_all")
          /\ UNCHANGED <<local, inbox, held, batch>>
    /\ UNCHANGED <<config, builder, state, monitor, flags, wakes, counts, active,
                   global_queue, status, todo, idle_workers>>

(* ... whose jobs go to cancel_claimed_job as well (the whole of it is one *)
(* step: the worker still lives).                                          *)
CancelClaimedJob(w) ==
    /\ \/ /\ pc[w] = "discard"
          /\ Becomes(held[w], "cancelled")
          /\ Hold(w, NoJob)
          /\ NotifyAll(w, "purge")
          /\ UNCHANGED batch
       \/ /\ pc[w] = "discard_all"
          /\ \E j \in batch[w] :
               /\ Becomes(j, "cancelled")
               /\ batch' = [batch EXCEPT ![w] = @ \ {j}]
          /\ NotifyAll(w, IF batch'[w] = {} THEN NextSource(w) ELSE "discard_all")
          /\ UNCHANGED held
    /\ queued_task_count' = queued_task_count - 1
    /\ UNCHANGED <<config, builder, state, monitor, flags, wakes, inflight_submissions,
                   running_task_count, queues, todo, idle_workers>>

-----------------------------------------------------------------------------
(* wait_for_fixed_pool_work: the monitor is held from here until the       *)
(* worker sleeps or returns.                                               *)
Unlock(w, s) == monitor' = Nobody /\ Goto(w, s)

(* The first look at queued_task_count                                     *)
Decide(w) ==
    /\ (pc[w] = "lock" /\ monitor = Nobody) \/ pc[w] = "decide"
    /\ IF lifecycle = "Stopping" THEN Unlock(w, "retire")
       ELSE IF queued_task_count > 0 THEN Unlock(w, "take")
       ELSE monitor' = w /\ Goto(w, IF lifecycle = "Running" THEN "mark" ELSE "settle")
    /\ UNCHANGED <<config, builder, state, flags, wakes, counts, queues, status, mine>>

(* After shutdown a worker leaves when there is nothing queued and no      *)
(* submission under way.                                                   *)
Settle(w) ==
    /\ pc[w] = "settle"
    /\ IF queued_task_count = 0 /\ inflight_submissions = 0
       THEN Unlock(w, "retire")
       ELSE Goto(w, "mark") /\ UNCHANGED monitor
    /\ UNCHANGED <<config, builder, state, flags, wakes, counts, queues, status, mine>>

MarkIdle(w) ==
    /\ pc[w] = "mark"
    /\ idle_worker_count' = idle_worker_count + 1
    /\ Goto(w, "recheck_queue")
    /\ UNCHANGED <<config, builder, state, monitor, flags, pending_worker_wakes, counts,
                   queues, status, mine>>

(* The second look at queued_task_count, now that submitters see the worker*)
RecheckQueue(w) ==
    /\ pc[w] = "recheck_queue"
    /\ Goto(w, IF queued_task_count > 0 THEN "unmark" ELSE "recheck_wake")
    /\ UNCHANGED <<config, builder, state, monitor, flags, wakes, counts, queues,
                   status, mine>>

(* has_pending_worker_wake, and after shutdown inflight_submissions        *)
RecheckWake(w) ==
    /\ pc[w] = "recheck_wake"
    /\ Goto(w, IF \/ pending_worker_wakes > 0
                  \/ lifecycle = "Shutdown" /\ inflight_submissions = 0
               THEN "unmark" ELSE "sleep")
    /\ UNCHANGED <<config, builder, state, monitor, flags, wakes, counts, queues,
                   status, mine>>

(* unmark_fixed_worker_idle ...                                            *)
UnmarkIdle(w) ==
    /\ pc[w] = "unmark" \/ (pc[w] = "wake" /\ monitor = Nobody)
    /\ monitor' = w
    /\ idle_worker_count' = idle_worker_count - 1
    /\ Goto(w, IF pc[w] = "unmark" THEN "consume" ELSE "reconsume")
    /\ UNCHANGED <<config, builder, state, flags, pending_worker_wakes, counts,
                   queues, status, mine>>

(* ... and consume_pending_worker_wake; a worker that has not slept looks  *)
(* for a job, the others begin the loop again.                             *)
ConsumePendingWorkerWake(w) ==
    /\ pc[w] \in {"consume", "reconsume"}
    /\ pending_worker_wakes' =
         IF pending_worker_wakes > 0 THEN pending_worker_wakes - 1 ELSE 0
    /\ IF pc[w] = "consume" /\ lifecycle = "Running"
       THEN Unlock(w, "take")
       ELSE Goto(w, "decide") /\ UNCHANGED monitor
    /\ UNCHANGED <<config, builder, state, flags, idle_worker_count, counts, queues,
                   status, mine>>

(* worker_exited: deactivate, leave live_workers, notify_all               *)
Deactivate(w) ==
    /\ pc[w] = "retire"
    /\ active' = [active EXCEPT ![w] = FALSE]
    /\ Goto(w, "exit")
    /\ UNCHANGED <<config, builder, state, monitor, flags, wakes, counts, inbox, local,
                   global_queue, status, mine>>

WorkerExited(w) ==
    /\ \/ /\ pc[w] = "exit" /\ monitor = Nobody
          /\ live_workers' = live_workers - 1
          /\ Goto(w, "tell_exit")
       \/ /\ pc[w] = "tell_exit"
          /\ NotifyAll(w, "gone")
          /\ UNCHANGED live_workers
    /\ UNCHANGED <<config, builder, lifecycle, monitor, flags, wakes, counts, queues,
                   status, mine>>

-----------------------------------------------------------------------------
(* The pool was never handed out, and its workers have left.               *)
BuildHasFailed ==
    /\ builder = "failed" /\ \A w \in Workers : pc[w] \in {"unborn", "gone"}
    /\ UNCHANGED vars

WorkerStep(w) ==
    \/ Activate(w) \/ TryTakeJob(w) \/ StealGlobal(w) \/ StealWorker(w)
    \/ Poke(w) \/ AcceptClaimedJob(w) \/ RunJob(w)
    \/ FinishRunningJob(w) \/ CancelWorkerJobs(w) \/ CancelClaimedJob(w)
    \/ Decide(w) \/ Settle(w) \/ MarkIdle(w) \/ RecheckQueue(w)
    \/ RecheckWake(w) \/ UnmarkIdle(w) \/ ConsumePendingWorkerWake(w)
    \/ Deactivate(w) \/ WorkerExited(w)

SubmitStep(c) ==
    \/ \E j \in Jobs : BeginSubmit(c, j)
    \/ Enter(c) \/ Recheck(c) \/ ReserveQueueSlot(c) \/ Accept(c) \/ Route(c) \/ Push(c)
    \/ CountIdle(c) \/ AddWake(c) \/ Notify(c) \/ Leave(c) \/ Announce(c)

ShutdownStep(c) ==
    \/ StopAccepting(c) \/ Shutdown(c) \/ SetStopNow(c) \/ Close(c)
    \/ Drain(c) \/ FindEmpty(c) \/ Subtract(c) \/ CancelBatch(c)
    \/ CallAwaitTermination(c) \/ WaitForTermination(c)

Next ==
    \/ \E w \in Workers : SpawnWorker(w) \/ WorkerStep(w)
    \/ \E c \in Clients : SubmitStep(c) \/ ShutdownStep(c)
    \/ \E t \in Threads : FallAsleep(t) \/ SpuriousWakeup(t)
    \/ SpawnFails \/ StopAfterFailedBuild \/ BuildHasFailed

Spec == Init /\ [][Next]_vars

-----------------------------------------------------------------------------
(* PROPERTIES                                                              *)

Waiting == global_queue \cup UNION {inbox[w] \cup local[w] : w \in Workers}
Holders(S) == {t \in Threads : pc[t] \in S}

Places(j) == (IF j \in global_queue THEN {"global"} ELSE {})
    \cup {<<"inbox", w>> : w \in {v \in Workers : j \in inbox[v]}}
    \cup {<<"local", w>> : w \in {v \in Workers : j \in local[v]}}
    \cup {<<"batch", t>> : t \in {u \in Threads : j \in batch[u]}}
    \cup {<<"held", t>> : t \in {u \in Threads : held[u] = j}}

(* However submitters, thieves and shutdown_now pass jobs around, an       *)
(* accepted job that has not started is in exactly one pair of hands, and  *)
(* queued_task_count, which workers and is_terminated rely on, counts the  *)
(* waiting jobs, the reserved slots and what shutdown_now has not counted  *)
(* off yet.                                                                *)
CountersMatchQueues ==
    /\ \A j \in Jobs : status[j] = "accepted" => Cardinality(Places(j)) = 1
    /\ queued_task_count =
         Cardinality(Waiting)
         + Cardinality(Holders({"accept", "route", "push", "poke", "claimed",
                               "discard"}))
         + Cardinality(UNION {batch[t] : t \in Holders({"drain", "subtract", "collect",
                                                         "discard_all"})})
    /\ running_task_count = Cardinality(Holders({"run"}))

StoppingClients == Holders({"stop", "close", "stall", "stalls",
                            "recount", "drain", "subtract", "cancel"})

(* When the last worker has left, no accepted job is left behind: it has   *)
(* run, or was cancelled, or is for a shutdown_now that is still under way.*)
(* In particular no worker leaves between a submitter's last look at       *)
(* accepting and its push.                                                 *)
NoJobLeftBehind ==
    builder = "built" /\ (\A w \in Workers : pc[w] \in {"exit", "tell_exit", "gone"})
        => \A j \in Jobs : status[j] \in Service!Pending =>
               StoppingClients # {} /\ (Terminated => j \in UNION {batch[c] : c \in Clients})

AllAsleep == lifecycle = "Running" /\ \A w \in Workers : pc[w] = "asleep"

(* A pool that runs never sleeps on a job by its own decision: if all      *)
(* workers sleep and no submitter is on its way to wake one, the jobs in   *)
(* the queues have each left a token in pending_worker_wakes, as far as    *)
(* there are workers for them: the next worker to look will not sleep.     *)
WakeTokensAreLeft ==
    AllAsleep /\ Holders({"count_idle", "add_wake"}) = {} =>
        \/ pending_worker_wakes >= Cardinality(Waiting)
        \/ pending_worker_wakes >= Cardinality(Workers)

(* The tokens close the window in which a notification is lost, says the   *)
(* comment of wake_one_idle_worker: all workers of a running pool never    *)
(* sleep next to a job unless a submitter is about to wake one.  One       *)
(* worker and one submission refute it (README, section 5).                *)
NobodySleepsOnAJob ==
    AllAsleep /\ Holders({"count_idle", "add_wake", "notify"}) = {} => Waiting = {}

(* The pool implements the trait's contract.                               *)
ImplementsService == Service!Spec

=============================================================================
