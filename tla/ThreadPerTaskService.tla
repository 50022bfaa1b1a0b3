------------------------- MODULE ThreadPerTaskService -------------------------
(***************************************************************************)
(* ThreadPerTaskExecutorService                                            *)
(* (task/service/thread_per_task_executor_service.rs): every accepted task *)
(* runs on a thread of its own, and the last of them to finish wakes those *)
(* who wait for termination.                                               *)
(*                                                                         *)
(* submission_lock serialises submit, shutdown and shutdown_now, so submit *)
(* is one action; shutdown keeps the lock until it has notified.  Finished *)
(* threads and notifiers never take termination_lock, so each of their     *)
(* atomic operations is an action.  `shutdown.load() && is_zero()` is one  *)
(* test because shutdown is never reset.  The handle of a task is          *)
(* abstracted to its status (see TaskHandle).                              *)
(***************************************************************************)
EXTENDS Naturals, FiniteSets

CONSTANTS
    Tasks,           \* tasks and the threads that run them
    Clients          \* threads that use the service

ASSUME PerTaskAssumption ==
    /\ IsFiniteSet(Tasks)
    /\ Tasks \cap Clients = {}

VARIABLES
    shutdown,        \* ThreadPerTaskExecutorServiceState ...
    active_tasks,
    status,          \* the task as its handle reports it
    pc               \* where the threads of tasks and clients stand

vars == <<shutdown, active_tasks, status, pc>>

(* start, run, finish: before start_and_complete, in the callable, before  *)
(* active_tasks.dec; lost: counted, but the thread could not be created.   *)
ThreadStates == {"none", "start", "run", "finish", "check", "notify", "exited",
                 "lost"}

(* check, notify: inside notify_if_terminated (a thread may be there too); *)
(* tested: found the service alive, about to wait; woken: left the wait.   *)
ClientStates == {"idle", "check", "notify", "tested", "waiting", "woken"}

Service == INSTANCE ExecutorService WITH CanAbort <- FALSE

TypeOK ==
    /\ shutdown \in BOOLEAN
    /\ active_tasks \in Nat
    /\ status \in [Tasks -> Service!Statuses]
    /\ pc \in [Tasks \cup Clients -> ThreadStates \cup ClientStates]
    /\ \A t \in Tasks : pc[t] \in ThreadStates
    /\ \A c \in Clients : pc[c] \in ClientStates

Init ==
    /\ shutdown = FALSE
    /\ active_tasks = 0
    /\ status = [t \in Tasks |-> "new"]
    /\ pc = [p \in Tasks \cup Clients |-> IF p \in Tasks THEN "none" ELSE "idle"]

IsTerminated == shutdown /\ active_tasks = 0

Goto(p, s) == pc' = [pc EXCEPT ![p] = s]

(* The call, or the thread, is over.                                       *)
Over(p) == IF p \in Tasks THEN "exited" ELSE "idle"

SubmissionLockFree == \A c \in Clients : pc[c] \notin {"check", "notify"}

-----------------------------------------------------------------------------
(* Mutant: shutdown is not tested.                                         *)
SubmitAnytime(c, t) ==
    /\ pc[c] = "idle" /\ SubmissionLockFree
    /\ status[t] = "new"
    /\ active_tasks' = active_tasks + 1
    /\ status' = [status EXCEPT ![t] = "accepted"]
    /\ Goto(t, "start")
    /\ UNCHANGED shutdown

(* submit_callable.  A new thread that was not scheduled yet cannot be     *)
(* told from one that is still to be spawned, so both are one action.      *)
Submit(c, t) ==
    /\ pc[c] = "idle" /\ SubmissionLockFree
    /\ status[t] = "new"
    /\ IF shutdown
       THEN /\ status' = [status EXCEPT ![t] = "rejected"]
            /\ UNCHANGED <<active_tasks, pc>>
       ELSE /\ active_tasks' = active_tasks + 1
            /\ status' = [status EXCEPT ![t] = "accepted"]
            /\ Goto(t, "start")
    /\ UNCHANGED shutdown

(* thread::spawn panics in the client: the task was counted, never runs.   *)
SubmitPanics(c, t) ==
    /\ pc[c] = "idle" /\ SubmissionLockFree
    /\ status[t] = "new" /\ ~shutdown
    /\ active_tasks' = active_tasks + 1
    /\ status' = [status EXCEPT ![t] = "rejected"]
    /\ Goto(t, "lost")
    /\ UNCHANGED shutdown

(* TaskHandle::cancel; it changes nothing once the task has started.       *)
Cancel(c, t) ==
    /\ pc[c] = "idle"
    /\ status[t] = "accepted"
    /\ status' = [status EXCEPT ![t] = "cancelled"]
    /\ UNCHANGED <<shutdown, active_tasks, pc>>

(* start_and_complete: the start race, then the callable and its result.   *)
ThreadStarts(t) ==
    /\ pc[t] = "start"
    /\ IF status[t] = "accepted"
       THEN status' = [status EXCEPT ![t] = "running"] /\ Goto(t, "run")
       ELSE UNCHANGED status /\ Goto(t, "finish")
    /\ UNCHANGED <<shutdown, active_tasks>>

(* Mutant: the count is given back before the result is published.         *)
ThreadCompletesLate(t) ==
    /\ pc[t] = "run"
    /\ Goto(t, "finish")
    /\ UNCHANGED <<shutdown, active_tasks, status>>

ThreadCompletes(t) ==
    /\ pc[t] = "run"
    /\ status' = [status EXCEPT ![t] = "completed"]
    /\ Goto(t, "finish")
    /\ UNCHANGED <<shutdown, active_tasks>>

(* Mutant: the last thread does not notify.                                *)
ThreadLeavesQuietly(t) ==
    /\ pc[t] = "finish"
    /\ active_tasks' = active_tasks - 1
    /\ Goto(t, "exited")
    /\ UNCHANGED <<shutdown, status>>

ThreadFinishes(t) ==
    /\ pc[t] = "finish"
    /\ active_tasks' = active_tasks - 1
    /\ Goto(t, IF active_tasks' = 0 THEN "check" ELSE "exited")
    /\ UNCHANGED <<shutdown, status>>

(* notify_if_terminated: the test and the notification                     *)
CheckTerminated(p) ==
    /\ pc[p] = "check"
    /\ Goto(p, IF IsTerminated THEN "notify" ELSE Over(p))
    /\ UNCHANGED <<shutdown, active_tasks, status>>

NotifyAll(p) ==
    /\ pc[p] = "notify"
    /\ pc' = [q \in DOMAIN pc |->
                 IF q = p THEN Over(p)
                 ELSE IF pc[q] = "waiting" THEN "woken" ELSE pc[q]]
    /\ UNCHANGED <<shutdown, active_tasks, status>>

(* shutdown, and shutdown_now, which only reports active_tasks besides     *)
Shutdown(c) ==
    /\ pc[c] = "idle" /\ SubmissionLockFree
    /\ shutdown' = TRUE
    /\ Goto(c, "check")
    /\ UNCHANGED <<active_tasks, status>>

(* wait_for_termination: one test of the loop; a client that goes to wait  *)
(* keeps termination_lock from the test until it is on the wait set.       *)
AwaitTermination(c) ==
    /\ pc[c] \in {"idle", "woken"}
    /\ \A d \in Clients : pc[d] # "tested"
    /\ Goto(c, IF IsTerminated THEN "idle" ELSE "tested")
    /\ UNCHANGED <<shutdown, active_tasks, status>>

Wait(c) ==
    /\ pc[c] = "tested"
    /\ Goto(c, "waiting")
    /\ UNCHANGED <<shutdown, active_tasks, status>>

SpuriousWakeup(c) ==
    /\ pc[c] = "waiting"
    /\ Goto(c, "woken")
    /\ UNCHANGED <<shutdown, active_tasks, status>>

-----------------------------------------------------------------------------
ThreadStep(t) ==
    \/ ThreadStarts(t) \/ ThreadCompletes(t) \/ ThreadFinishes(t)
    \/ CheckTerminated(t) \/ NotifyAll(t)

ClientStep(c) ==
    \/ CheckTerminated(c) \/ NotifyAll(c) \/ Wait(c)
    \/ pc[c] = "woken" /\ AwaitTermination(c)

Next ==
    \/ \E c \in Clients, t \in Tasks :
         Submit(c, t) \/ SubmitPanics(c, t) \/ Cancel(c, t)
    \/ \E t \in Tasks : ThreadStep(t)
    \/ \E c \in Clients :
         \/ Shutdown(c) \/ AwaitTermination(c) \/ SpuriousWakeup(c)
         \/ CheckTerminated(c) \/ NotifyAll(c) \/ Wait(c)

Spec == Init /\ [][Next]_vars

(* Threads run and callables return; a client inside a call goes on.  No   *)
(* one has to call, and no spurious wakeup has to happen.                  *)
Fairness ==
    /\ \A t \in Tasks : WF_vars(ThreadStep(t))
    /\ \A c \in Clients : WF_vars(ClientStep(c))

FairSpec == Spec /\ Fairness

-----------------------------------------------------------------------------
(* The counter is the number of threads that have not given their task     *)
(* back and of those that could not be created: no interleaving of submit  *)
(* and the threads loses an update.                                        *)
ActiveTasksMatchThreads ==
    active_tasks =
        Cardinality({t \in Tasks : pc[t] \in {"start", "run", "finish", "lost"}})

(* is_terminated tells the truth: when the flag and the counter say so, no *)
(* accepted task is without its result, as the trait promises.             *)
TerminatedMeansSettled == IsTerminated => Service!Terminated

(* The service implements the contract of the trait: tasks are accepted    *)
(* only before shutdown, and run or are cancelled, never both.             *)
ImplementsService == Service!Spec

(* is_terminated never becomes false again, because a task is counted in   *)
(* the same critical section that finds the service open.                  *)
TerminationIsFinal == [][IsTerminated => IsTerminated']_vars

SpawnPanicked == \E t \in Tasks : pc[t] = "lost"

(* A service that was shut down terminates, without further calls, and a   *)
(* client that sleeps in await_termination by then is woken: one of the    *)
(* threads and shutdown calls that race to end it sees both the flag and   *)
(* the zero.  The task of a thread that could not be created stays counted *)
(* and is the one excuse.                                                  *)
TerminationIsAnnounced ==
    /\ shutdown ~> IsTerminated \/ SpawnPanicked
    /\ \A c \in Clients :
         /\ pc[c] = "waiting" /\ shutdown
         /\ ~IsTerminated /\ ~SpawnPanicked
         ~> pc[c] # "waiting"

(* A client inside await_termination comes back once the service has       *)
(* terminated, wherever it was when the last thread or shutdown notified:  *)
(* the documentation of await_termination.  A notification between the     *)
(* test and the wait refutes it (README, section 5).                       *)
AwaitTerminationReturns ==
    \A c \in Clients :
        pc[c] \in {"tested", "waiting", "woken"} /\ IsTerminated ~> pc[c] = "idle"

=============================================================================
