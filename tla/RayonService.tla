----------------------------- MODULE RayonService -----------------------------
(***************************************************************************)
(* RayonExecutorService (task/service/rayon_executor_service.rs): tasks    *)
(* run on a Rayon pool, may be cancelled through their handle or by        *)
(* shutdown_now as long as they have not started, and are counted in two   *)
(* atomics, active_tasks and queued_tasks.                                 *)
(*                                                                         *)
(* What submit does under submission_lock is one action: those who read    *)
(* the counters there hold the lock, and the others look at them only      *)
(* after shutdown.  Everything else is one action per atomic operation,    *)
(* per access to pending_tasks and per call of the task's handle, which is *)
(* abstracted to a status (see TaskHandle).  The Rayon pool is external:   *)
(* it runs every closure it is given, at some time.                        *)
(***************************************************************************)
EXTENDS Naturals, FiniteSets

CONSTANTS
    Tasks,            \* tasks, and the closures the pool runs for them
    Clients,          \* threads that use the service
    Nobody            \* no client holds submission_lock

ASSUME RayonAssumption ==
    /\ IsFiniteSet(Tasks)
    /\ Tasks \cap Clients = {}
    /\ Nobody \notin Clients

VARIABLES
    shutdown,         \* RayonExecutorServiceState ...
    active_tasks,
    queued_tasks,
    submission_lock,
    pending_tasks,
    status,           \* the task as its handle reports it
    pc,               \* where closures and clients stand
    subject,          \* the task a client is cancelling
    stopping,         \* clients in shutdown_now before its last test
    batch,            \* the cancel hooks shutdown_now has still to call
    report            \* the ShutdownReport a client is filling in

state == <<shutdown, active_tasks, queued_tasks, submission_lock, pending_tasks>>
stop == <<stopping, batch, report>>
vars == <<state, status, pc, subject, stop>>

Processes == Tasks \cup Clients

(* start: given to the pool; remove, dequeue: in on_task_started or        *)
(* on_task_cancelled; run: in the callable; finish: before                 *)
(* active_tasks.dec; check, notify: in notify_if_terminated.               *)
JobStates == {"none", "start", "remove", "dequeue", "run", "finish", "check",
              "notify", "exited"}

(* read_queued .. drain: in shutdown_now, with the lock; cancel: in its    *)
(* loop, without; tested .. woken: in await_termination.                   *)
ClientStates == {"idle", "read_queued", "read_active", "drain", "cancel",
                 "remove", "dequeue", "finish", "check", "notify", "tested",
                 "waiting", "woken"}

Service == INSTANCE ExecutorService WITH CanAbort <- FALSE

TypeOK ==
    /\ shutdown \in BOOLEAN
    /\ active_tasks \in Nat /\ queued_tasks \in Nat
    /\ submission_lock \in Clients \cup {Nobody}
    /\ pending_tasks \subseteq Tasks
    /\ status \in [Tasks -> Service!Statuses]
    /\ pc \in [Processes -> JobStates \cup ClientStates]
    /\ \A t \in Tasks : pc[t] \in JobStates
    /\ \A c \in Clients : pc[c] \in ClientStates
    /\ subject \in [Clients -> Tasks \cup {Nobody}]
    /\ stopping \in [Clients -> BOOLEAN]
    /\ batch \in [Clients -> SUBSET Tasks]
    /\ report \in [Clients -> [queued : Nat, running : Nat, cancelled : Nat]]

Init ==
    /\ shutdown = FALSE
    /\ active_tasks = 0 /\ queued_tasks = 0
    /\ submission_lock = Nobody
    /\ pending_tasks = {}
    /\ status = [t \in Tasks |-> "new"]
    /\ pc = [p \in Processes |-> IF p \in Tasks THEN "none" ELSE "idle"]
    /\ subject = [c \in Clients |-> Nobody]
    /\ stopping = [c \in Clients |-> FALSE]
    /\ batch = [c \in Clients |-> {}]
    /\ report = [c \in Clients |-> [queued |-> 0, running |-> 0, cancelled |-> 0]]

IsTerminated == shutdown /\ active_tasks = 0

Goto(p, s) == pc' = [pc EXCEPT ![p] = s]

Subject(p) == IF p \in Tasks THEN p ELSE subject[p]

(* Where a process goes when it has nothing more to do here: a cancel hook *)
(* called by shutdown_now returns to the loop.                             *)
Over(p) ==
    IF p \in Tasks THEN "exited" ELSE IF stopping[p] THEN "cancel" ELSE "idle"

(* The guard of submission_lock is dropped when shutdown returns.          *)
Unlock(p) ==
    submission_lock' = IF submission_lock = p THEN Nobody ELSE submission_lock

-----------------------------------------------------------------------------
(* submit_callable *)

(* Mutant: the cancel hook is not registered.                              *)
SubmitUnregistered(c, t) ==
    /\ pc[c] = "idle" /\ submission_lock = Nobody
    /\ status[t] = "new" /\ ~shutdown
    /\ active_tasks' = active_tasks + 1
    /\ queued_tasks' = queued_tasks + 1
    /\ status' = [status EXCEPT ![t] = "accepted"]
    /\ Goto(t, "start")
    /\ UNCHANGED <<shutdown, submission_lock, pending_tasks, subject, stop>>

Submit(c, t) ==
    /\ pc[c] = "idle" /\ submission_lock = Nobody
    /\ status[t] = "new"
    /\ IF shutdown
       THEN /\ status' = [status EXCEPT ![t] = "rejected"]
            /\ UNCHANGED <<active_tasks, queued_tasks, pending_tasks, pc>>
       ELSE /\ active_tasks' = active_tasks + 1
            /\ queued_tasks' = queued_tasks + 1
            /\ pending_tasks' = pending_tasks \cup {t}
            /\ status' = [status EXCEPT ![t] = "accepted"]
            /\ Goto(t, "start")
    /\ UNCHANGED <<shutdown, submission_lock, subject, stop>>

-----------------------------------------------------------------------------
(* The closure, and the counters *)

(* Mutant: the closure does not ask whether the task was cancelled.        *)
JobStartsAnyway(t) ==
    /\ pc[t] = "start"
    /\ status' = [status EXCEPT ![t] = "running"] /\ Goto(t, "remove")
    /\ UNCHANGED <<state, subject, stop>>

JobStarts(t) ==
    /\ pc[t] = "start"
    /\ IF status[t] = "accepted"
       THEN status' = [status EXCEPT ![t] = "running"] /\ Goto(t, "remove")
       ELSE UNCHANGED status /\ Goto(t, "exited")
    /\ UNCHANGED <<state, subject, stop>>

(* remove_pending_task, from on_task_started and on_task_cancelled         *)
RemovePending(p) ==
    /\ pc[p] = "remove"
    /\ pending_tasks' = pending_tasks \ {Subject(p)}
    /\ Goto(p, "dequeue")
    /\ UNCHANGED <<shutdown, active_tasks, queued_tasks, submission_lock, status,
                   subject, stop>>

(* Mutant: a cancelled task stays in the queued count.                     *)
DequeueStarted(p) ==
    /\ pc[p] = "dequeue"
    /\ queued_tasks' = IF p \in Tasks THEN queued_tasks - 1 ELSE queued_tasks
    /\ Goto(p, IF p \in Tasks THEN "run" ELSE "finish")
    /\ UNCHANGED <<shutdown, active_tasks, submission_lock, pending_tasks, status,
                   subject, stop>>

(* queued_tasks.dec; a started task goes on to run, a cancelled one is     *)
(* over.                                                                   *)
Dequeue(p) ==
    /\ pc[p] = "dequeue"
    /\ queued_tasks' = queued_tasks - 1
    /\ Goto(p, IF p \in Tasks THEN "run" ELSE "finish")
    /\ UNCHANGED <<shutdown, active_tasks, submission_lock, pending_tasks, status,
                   subject, stop>>

JobCompletes(t) ==
    /\ pc[t] = "run"
    /\ status' = [status EXCEPT ![t] = "completed"]
    /\ Goto(t, "finish")
    /\ UNCHANGED <<state, subject, stop>>

(* Mutant: a cancel that takes the count to zero does not notify.          *)
FinishQuietly(p) ==
    /\ pc[p] = "finish"
    /\ active_tasks' = active_tasks - 1
    /\ Goto(p, IF active_tasks' = 0 /\ p \in Tasks THEN "check" ELSE Over(p))
    /\ subject' = [c \in Clients |-> IF c = p THEN Nobody ELSE subject[c]]
    /\ UNCHANGED <<shutdown, queued_tasks, submission_lock, pending_tasks, status,
                   stop>>

(* active_tasks.dec in on_task_completed and on_task_cancelled             *)
Finish(p) ==
    /\ pc[p] = "finish"
    /\ active_tasks' = active_tasks - 1
    /\ Goto(p, IF active_tasks' = 0 THEN "check" ELSE Over(p))
    /\ subject' = [c \in Clients |-> IF c = p THEN Nobody ELSE subject[c]]
    /\ UNCHANGED <<shutdown, queued_tasks, submission_lock, pending_tasks, status,
                   stop>>

(* notify_if_terminated: the test and the notification                     *)
CheckTerminated(p) ==
    /\ pc[p] = "check"
    /\ IF IsTerminated
       THEN Goto(p, "notify") /\ UNCHANGED submission_lock
       ELSE Goto(p, Over(p)) /\ Unlock(p)
    /\ UNCHANGED <<shutdown, active_tasks, queued_tasks, pending_tasks, status,
                   subject, stop>>

NotifyWaiters(p) ==
    /\ pc[p] = "notify"
    /\ pc' = [q \in Processes |->
                 IF q = p THEN Over(p)
                 ELSE IF pc[q] = "waiting" THEN "woken" ELSE pc[q]]
    /\ Unlock(p)
    /\ UNCHANGED <<shutdown, active_tasks, queued_tasks, pending_tasks, status,
                   subject, stop>>

-----------------------------------------------------------------------------
(* Clients *)

(* The cancel hook: the cell decides the race with start.                  *)
CancelHook(c, t) ==
    /\ status[t] = "accepted"
    /\ status' = [status EXCEPT ![t] = "cancelled"]
    /\ subject' = [subject EXCEPT ![c] = t]
    /\ Goto(c, "remove")

(* RayonTaskHandle::cancel; it changes nothing once the task has started.  *)
Cancel(c, t) ==
    /\ pc[c] = "idle"
    /\ CancelHook(c, t)
    /\ UNCHANGED <<state, stop>>

Shutdown(c) ==
    /\ pc[c] = "idle" /\ submission_lock = Nobody
    /\ shutdown' = TRUE
    /\ submission_lock' = c
    /\ Goto(c, "check")
    /\ UNCHANGED <<active_tasks, queued_tasks, pending_tasks, status, subject, stop>>

(* shutdown_now: the flag, the two counters, the hooks, the lock           *)
ShutdownNow(c) ==
    /\ pc[c] = "idle" /\ submission_lock = Nobody
    /\ shutdown' = TRUE
    /\ submission_lock' = c
    /\ stopping' = [stopping EXCEPT ![c] = TRUE]
    /\ Goto(c, "read_queued")
    /\ UNCHANGED <<active_tasks, queued_tasks, pending_tasks, status, subject,
                   batch, report>>

ReadQueued(c) ==
    /\ pc[c] = "read_queued"
    /\ report' = [report EXCEPT ![c].queued = queued_tasks, ![c].cancelled = 0]
    /\ Goto(c, "read_active")
    /\ UNCHANGED <<state, status, subject, stopping, batch>>

(* The subtraction saturates.                                              *)
ReadActive(c) ==
    /\ pc[c] = "read_active"
    /\ report' = [report EXCEPT ![c].running =
                     IF active_tasks > report[c].queued
                     THEN active_tasks - report[c].queued ELSE 0]
    /\ Goto(c, "drain")
    /\ UNCHANGED <<state, status, subject, stopping, batch>>

DrainPending(c) ==
    /\ pc[c] = "drain"
    /\ batch' = [batch EXCEPT ![c] = pending_tasks]
    /\ pending_tasks' = {}
    /\ Unlock(c)
    /\ Goto(c, "cancel")
    /\ UNCHANGED <<shutdown, active_tasks, queued_tasks, status, subject, stopping,
                   report>>

(* One round of the loop over the hooks, which are in no particular order. *)
CancelNext(c, t) ==
    /\ pc[c] = "cancel"
    /\ t \in batch[c]
    /\ batch' = [batch EXCEPT ![c] = @ \ {t}]
    /\ \/ /\ CancelHook(c, t)
          /\ report' = [report EXCEPT ![c].cancelled = @ + 1]
       \/ /\ status[t] # "accepted"
          /\ UNCHANGED <<status, pc, subject, report>>
    /\ UNCHANGED <<state, stopping>>

(* The loop is over; notify_if_terminated is called without the lock.      *)
CancelledAll(c) ==
    /\ pc[c] = "cancel"
    /\ batch[c] = {}
    /\ stopping' = [stopping EXCEPT ![c] = FALSE]
    /\ Goto(c, "check")
    /\ UNCHANGED <<state, status, subject, batch, report>>

(* await_termination: one test; Notified is created in a later step, and   *)
(* from then on a notification is not missed.                              *)
AwaitTermination(c) ==
    /\ pc[c] \in {"idle", "woken"}
    /\ Goto(c, IF IsTerminated THEN "idle" ELSE "tested")
    /\ UNCHANGED <<state, status, subject, stop>>

Wait(c) ==
    /\ pc[c] = "tested"
    /\ Goto(c, "waiting")
    /\ UNCHANGED <<state, status, subject, stop>>

(* The caller may drop the future instead of waiting on.                   *)
DropFuture(c) ==
    /\ pc[c] = "waiting"
    /\ Goto(c, "idle")
    /\ UNCHANGED <<state, status, subject, stop>>

-----------------------------------------------------------------------------
ProcessStep(p) ==
    RemovePending(p) \/ Dequeue(p) \/ Finish(p) \/ CheckTerminated(p) \/ NotifyWaiters(p)

JobStep(t) == JobStarts(t) \/ JobCompletes(t) \/ ProcessStep(t)

ClientStep(c) ==
    \/ ProcessStep(c)
    \/ ReadQueued(c) \/ ReadActive(c) \/ DrainPending(c)
    \/ (\E t \in Tasks : CancelNext(c, t)) \/ CancelledAll(c)
    \/ Wait(c)

Next ==
    \/ \E c \in Clients, t \in Tasks : Submit(c, t) \/ Cancel(c, t)
    \/ \E t \in Tasks : JobStep(t)
    \/ \E c \in Clients :
         \/ ClientStep(c)
         \/ Shutdown(c) \/ ShutdownNow(c) \/ AwaitTermination(c) \/ DropFuture(c)

Spec == Init /\ [][Next]_vars

(* The pool runs its closures, callables return, and a client inside a     *)
(* call goes on.  No one has to call.                                      *)
Fairness ==
    /\ \A t \in Tasks : WF_vars(JobStep(t))
    /\ \A c \in Clients :
         WF_vars(ClientStep(c) \/ (pc[c] = "woken" /\ AwaitTermination(c)))

FairSpec == Spec /\ Fairness

-----------------------------------------------------------------------------
(* Processes that have decided the fate of task t and still have to take   *)
(* it out of a counter.                                                    *)
Accounting(t, states) == \E p \in Processes : pc[p] \in states /\ Subject(p) = t

(* Start, cancel and completion keep the two counters exact, whoever wins: *)
(* each accepted task is taken out of each of them once.                   *)
CountersMatchTasks ==
    /\ queued_tasks =
         Cardinality({t \in Tasks : \/ status[t] = "accepted"
                                    \/ Accounting(t, {"remove", "dequeue"})})
    /\ active_tasks =
         Cardinality({t \in Tasks : \/ status[t] \in Service!Pending
                                    \/ Accounting(t, {"remove", "dequeue", "finish"})})

(* The numbers of the report fit together although its two counters are    *)
(* read at different times while tasks start and end: no negative count,   *)
(* not more cancelled than were queued, and no task counted twice.         *)
ReportIsConsistent ==
    \A c \in Clients :
        /\ report[c].running >= 0
        /\ report[c].cancelled <= report[c].queued
        /\ report[c].queued + report[c].running
             <= Cardinality({t \in Tasks : status[t] \notin {"new", "rejected"}})

(* Both: exact counters, and reports that fit together although they are   *)
(* made from them in two reads.                                            *)
CountsAreTrue == CountersMatchTasks /\ ReportIsConsistent

(* When shutdown_now is done, no accepted task is left unstarted, unless   *)
(* another call of shutdown_now is about to cancel it.                     *)
ShutdownNowLeavesNoneQueued ==
    [][\A c \in Clients : stopping[c] /\ ~stopping'[c] =>
          \A t \in Tasks : status[t] = "accepted" =>
              \E d \in Clients : t \in batch[d]]_vars

(* The service implements the contract of the trait: tasks are accepted    *)
(* only before shutdown, and run or are cancelled, never both.             *)
ImplementsService == Service!Spec

(* A service that was shut down terminates, without further calls, and a   *)
(* client that waits in await_termination by then is woken, whether a      *)
(* completion, a cancel or a shutdown takes the last task out.             *)
TerminationIsAnnounced ==
    /\ shutdown ~> IsTerminated
    /\ \A c \in Clients :
         pc[c] = "waiting" /\ shutdown /\ ~IsTerminated ~> pc[c] # "waiting"

(* await_termination: "A future that resolves after shutdown has been      *)
(* requested and all accepted Rayon tasks have completed or been cancelled *)
(* before start."                                                          *)
AwaitTerminationReturns ==
    \A c \in Clients :
        pc[c] \in {"tested", "waiting", "woken"} /\ IsTerminated ~> pc[c] = "idle"

=============================================================================
