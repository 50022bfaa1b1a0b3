----------------------------- MODULE TokioService -----------------------------
(***************************************************************************)
(* TokioExecutorService (task/service/tokio_executor_service.rs) and       *)
(* TokioIoExecutorService (task/service/tokio_io_executor_service.rs),     *)
(* which differ in what the spawned wrapper awaits: a closure on the       *)
(* blocking pool, or the submitted future itself.  A guard in the wrapper  *)
(* counts it in active_tasks until it ends or is aborted.                  *)
(*                                                                         *)
(* The Tokio runtime is external: it polls wrappers, drops an aborted one  *)
(* instead of polling it, and runs blocking closures to their end even     *)
(* when nobody waits for them any more.  status says what became of the    *)
(* body of the wrapper; the runtime stores its output, and the JoinHandle  *)
(* reports it, only after the body and its guard are gone.                 *)
(***************************************************************************)
EXTENDS Naturals, FiniteSets

CONSTANTS
    Tasks,           \* tasks, and the wrappers spawned for them
    Clients,         \* threads that use the service
    Nobody           \* no client holds submission_lock

ASSUME TokioAssumption ==
    /\ IsFiniteSet(Tasks)
    /\ Tasks \cap Clients = {}
    /\ Nobody \notin Clients

VARIABLES
    blocking,        \* TRUE: TokioExecutorService; FALSE: TokioIo...
    shutdown,        \* the fields of the service state ...
    active_tasks,
    submission_lock,
    abort_handles,
    status,          \* what became of the wrapper's body
    aborted,         \* wrappers whose abort was requested
    closure,         \* the closure on the blocking pool
    pc,              \* where wrappers and clients stand
    subject,         \* the task whose abort handle a client has to store
    batch            \* the abort handles shutdown_now is going through

state == <<blocking, shutdown, active_tasks, submission_lock, abort_handles>>
vars == <<state, status, aborted, closure, pc, subject, batch>>

Processes == Tasks \cup Clients

(* spawned: not polled yet; polled: awaiting; finish: the guard is being   *)
(* dropped; check, notify: in notify_if_terminated.                        *)
WrapperStates == {"none", "spawned", "polled", "finish", "check", "notify", "exited"}

(* push: the task is spawned, its abort handle not stored; drain, abort:   *)
(* in shutdown_now; tested .. woken: in await_termination.                 *)
ClientStates == {"idle", "push", "drain", "abort", "check", "notify", "tested",
                 "waiting", "woken"}

Service == INSTANCE ExecutorService WITH CanAbort <- TRUE

TypeOK ==
    /\ blocking \in BOOLEAN
    /\ shutdown \in BOOLEAN
    /\ active_tasks \in Nat
    /\ submission_lock \in Clients \cup {Nobody}
    /\ abort_handles \subseteq Tasks /\ aborted \subseteq Tasks
    /\ status \in [Tasks -> Service!Statuses]
    /\ closure \in [Tasks -> {"none", "queued", "running", "ended"}]
    /\ pc \in [Processes -> WrapperStates \cup ClientStates]
    /\ \A t \in Tasks : pc[t] \in WrapperStates
    /\ \A c \in Clients : pc[c] \in ClientStates
    /\ subject \in [Clients -> Tasks \cup {Nobody}]
    /\ batch \in [Clients -> SUBSET Tasks]

Init ==
    /\ blocking \in BOOLEAN
    /\ shutdown = FALSE
    /\ active_tasks = 0
    /\ submission_lock = Nobody
    /\ abort_handles = {} /\ aborted = {}
    /\ status = [t \in Tasks |-> "new"]
    /\ closure = [t \in Tasks |-> "none"]
    /\ pc = [p \in Processes |-> IF p \in Tasks THEN "none" ELSE "idle"]
    /\ subject = [c \in Clients |-> Nobody]
    /\ batch = [c \in Clients |-> {}]

IsTerminated == shutdown /\ active_tasks = 0

Goto(p, s) == pc' = [pc EXCEPT ![p] = s]

Over(p) == IF p \in Tasks THEN "exited" ELSE "idle"

(* The guard of submission_lock is dropped when shutdown returns.          *)
Unlock(p) ==
    submission_lock' = IF submission_lock = p THEN Nobody ELSE submission_lock

(* The wrapper has a future that can still be polled or dropped.           *)
Alive(t) == pc[t] \in {"spawned", "polled"}

-----------------------------------------------------------------------------
(* submit_callable and spawn *)

(* Mutant: shutdown is not tested.                                         *)
SubmitAnytime(c, t) ==
    /\ pc[c] = "idle" /\ submission_lock = Nobody
    /\ status[t] = "new"
    /\ active_tasks' = active_tasks + 1
    /\ status' = [status EXCEPT ![t] = "accepted"]
    /\ subject' = [subject EXCEPT ![c] = t]
    /\ pc' = [pc EXCEPT ![c] = "push", ![t] = "spawned"]
    /\ UNCHANGED <<blocking, shutdown, submission_lock, abort_handles, aborted,
                   closure, batch>>

(* The task is counted under the lock and spawned after it.                *)
Submit(c, t) ==
    /\ pc[c] = "idle" /\ submission_lock = Nobody
    /\ status[t] = "new"
    /\ IF shutdown
       THEN /\ status' = [status EXCEPT ![t] = "rejected"]
            /\ UNCHANGED <<active_tasks, pc, subject>>
       ELSE /\ active_tasks' = active_tasks + 1
            /\ status' = [status EXCEPT ![t] = "accepted"]
            /\ subject' = [subject EXCEPT ![c] = t]
            /\ pc' = [pc EXCEPT ![c] = "push", ![t] = "spawned"]
    /\ UNCHANGED <<blocking, shutdown, submission_lock, abort_handles, aborted,
                   closure, batch>>

AbortHandlesFree == \A c \in Clients : pc[c] # "abort"

(* Mutant: the abort handle of a service that was shut down is dropped.    *)
PushHandleIfOpen(c) ==
    /\ pc[c] = "push" /\ AbortHandlesFree
    /\ abort_handles' = IF shutdown THEN abort_handles
                                    ELSE abort_handles \cup {subject[c]}
    /\ subject' = [subject EXCEPT ![c] = Nobody]
    /\ Goto(c, "idle")
    /\ UNCHANGED <<blocking, shutdown, active_tasks, submission_lock, status,
                   aborted, closure, batch>>

PushHandle(c) ==
    /\ pc[c] = "push" /\ AbortHandlesFree
    /\ abort_handles' = abort_handles \cup {subject[c]}
    /\ subject' = [subject EXCEPT ![c] = Nobody]
    /\ Goto(c, "idle")
    /\ UNCHANGED <<blocking, shutdown, active_tasks, submission_lock, status,
                   aborted, closure, batch>>

-----------------------------------------------------------------------------
(* The wrapper *)

FirstPoll(t) ==
    /\ pc[t] = "spawned" /\ t \notin aborted
    /\ status' = [status EXCEPT ![t] = "running"]
    /\ closure' = IF blocking THEN [closure EXCEPT ![t] = "queued"] ELSE closure
    /\ Goto(t, "polled")
    /\ UNCHANGED <<state, aborted, subject, batch>>

(* run_callable on the blocking pool *)
ClosureStep(t) ==
    /\ \/ closure[t] = "queued" /\ closure' = [closure EXCEPT ![t] = "running"]
       \/ closure[t] = "running" /\ closure' = [closure EXCEPT ![t] = "ended"]
    /\ UNCHANGED <<state, status, aborted, pc, subject, batch>>

(* Mutant: the wrapper does not await the closure.                         *)
LastPollEarly(t) ==
    /\ pc[t] = "polled" /\ t \notin aborted
    /\ status' = [status EXCEPT ![t] = "completed"]
    /\ Goto(t, "finish")
    /\ UNCHANGED <<state, aborted, closure, subject, batch>>

(* The awaited work is done; the body of the wrapper ends.                 *)
LastPoll(t) ==
    /\ pc[t] = "polled" /\ t \notin aborted
    /\ blocking => closure[t] = "ended"
    /\ status' = [status EXCEPT ![t] = "completed"]
    /\ Goto(t, "finish")
    /\ UNCHANGED <<state, aborted, closure, subject, batch>>

(* The runtime drops an aborted wrapper, and the guard with it.            *)
DropAborted(t) ==
    /\ Alive(t) /\ t \in aborted
    /\ status' = [status EXCEPT ![t] = "cancelled"]
    /\ Goto(t, "finish")
    /\ UNCHANGED <<state, aborted, closure, subject, batch>>

(* Mutant: only a completed wrapper looks whether it was the last.         *)
DropGuardQuietly(t) ==
    /\ pc[t] = "finish"
    /\ active_tasks' = active_tasks - 1
    /\ Goto(t, IF active_tasks' = 0 /\ t \notin aborted THEN "check" ELSE "exited")
    /\ UNCHANGED <<blocking, shutdown, submission_lock, abort_handles, status,
                   aborted, closure, subject, batch>>

(* drop of the guard *)
DropGuard(t) ==
    /\ pc[t] = "finish"
    /\ active_tasks' = active_tasks - 1
    /\ Goto(t, IF active_tasks' = 0 THEN "check" ELSE "exited")
    /\ UNCHANGED <<blocking, shutdown, submission_lock, abort_handles, status,
                   aborted, closure, subject, batch>>

(* notify_if_terminated: the test and the notification                     *)
CheckTerminated(p) ==
    /\ pc[p] = "check"
    /\ IF IsTerminated
       THEN Goto(p, "notify") /\ UNCHANGED submission_lock
       ELSE Goto(p, Over(p)) /\ Unlock(p)
    /\ UNCHANGED <<blocking, shutdown, active_tasks, abort_handles, status,
                   aborted, closure, subject, batch>>

NotifyWaiters(p) ==
    /\ pc[p] = "notify"
    /\ pc' = [q \in Processes |->
                 IF q = p THEN Over(p)
                 ELSE IF pc[q] = "waiting" THEN "woken" ELSE pc[q]]
    /\ Unlock(p)
    /\ UNCHANGED <<blocking, shutdown, active_tasks, abort_handles, status,
                   aborted, closure, subject, batch>>

-----------------------------------------------------------------------------
(* Clients *)

(* AbortHandle::abort; a wrapper that has ended ignores it.                *)
Abort(t) == aborted' = IF Alive(t) THEN aborted \cup {t} ELSE aborted

(* TokioTaskHandle::cancel, by a client that was given the handle          *)
Cancel(c, t) ==
    /\ pc[c] = "idle"
    /\ \A d \in Clients : pc[d] = "push" => subject[d] # t
    /\ Alive(t) /\ t \notin aborted
    /\ Abort(t)
    /\ UNCHANGED <<state, status, closure, pc, subject, batch>>

Shutdown(c) ==
    /\ pc[c] = "idle" /\ submission_lock = Nobody
    /\ shutdown' = TRUE
    /\ submission_lock' = c
    /\ Goto(c, "check")
    /\ UNCHANGED <<blocking, active_tasks, abort_handles, status, aborted,
                   closure, subject, batch>>

(* shutdown_now: the flag (the report's counts are only read), then the    *)
(* abort handles, which stay locked until all were aborted                 *)
ShutdownNow(c) ==
    /\ pc[c] = "idle" /\ submission_lock = Nobody
    /\ shutdown' = TRUE
    /\ submission_lock' = c
    /\ Goto(c, "drain")
    /\ UNCHANGED <<blocking, active_tasks, abort_handles, status, aborted,
                   closure, subject, batch>>

DrainHandles(c) ==
    /\ pc[c] = "drain" /\ AbortHandlesFree
    /\ batch' = [batch EXCEPT ![c] = abort_handles]
    /\ abort_handles' = {}
    /\ Goto(c, "abort")
    /\ UNCHANGED <<blocking, shutdown, active_tasks, submission_lock, status,
                   aborted, closure, subject>>

AbortNext(c, t) ==
    /\ pc[c] = "abort" /\ t \in batch[c]
    /\ Abort(t)
    /\ batch' = [batch EXCEPT ![c] = @ \ {t}]
    /\ UNCHANGED <<state, status, closure, pc, subject>>

AbortedAll(c) ==
    /\ pc[c] = "abort" /\ batch[c] = {}
    /\ Goto(c, "check")
    /\ UNCHANGED <<state, status, aborted, closure, subject, batch>>

(* await_termination: one test; Notified is created in a later step, and   *)
(* from then on a notification is not missed.                              *)
AwaitTermination(c) ==
    /\ pc[c] \in {"idle", "woken"}
    /\ Goto(c, IF IsTerminated THEN "idle" ELSE "tested")
    /\ UNCHANGED <<state, status, aborted, closure, subject, batch>>

Wait(c) ==
    /\ pc[c] = "tested"
    /\ Goto(c, "waiting")
    /\ UNCHANGED <<state, status, aborted, closure, subject, batch>>

(* The caller may drop the future instead of waiting on.                   *)
DropFuture(c) ==
    /\ pc[c] = "waiting"
    /\ Goto(c, "idle")
    /\ UNCHANGED <<state, status, aborted, closure, subject, batch>>

-----------------------------------------------------------------------------
NotifyStep(p) == CheckTerminated(p) \/ NotifyWaiters(p)

WrapperStep(t) ==
    FirstPoll(t) \/ LastPoll(t) \/ DropAborted(t) \/ DropGuard(t) \/ NotifyStep(t)

ClientStep(c) ==
    \/ PushHandle(c) \/ NotifyStep(c) \/ Wait(c)
    \/ DrainHandles(c) \/ (\E t \in Tasks : AbortNext(c, t)) \/ AbortedAll(c)

Next ==
    \/ \E c \in Clients, t \in Tasks : Submit(c, t) \/ Cancel(c, t)
    \/ \E t \in Tasks : WrapperStep(t) \/ ClosureStep(t)
    \/ \E c \in Clients :
         \/ ClientStep(c)
         \/ Shutdown(c) \/ ShutdownNow(c) \/ AwaitTermination(c) \/ DropFuture(c)

Spec == Init /\ [][Next]_vars

(* The runtime polls what is ready, closures and futures end, and a client *)
(* inside a call goes on.  No one has to call.                             *)
Fairness ==
    /\ \A t \in Tasks : WF_vars(WrapperStep(t)) /\ WF_vars(ClosureStep(t))
    /\ \A c \in Clients :
         WF_vars(ClientStep(c) \/ (pc[c] = "woken" /\ AwaitTermination(c)))

FairSpec == Spec /\ Fairness

-----------------------------------------------------------------------------
(* shutdown_now can reach every task: one that is neither settled nor told *)
(* to abort has its abort handle in the list, in the hands of a            *)
(* shutdown_now, or in those of the client that is still submitting it.    *)
UnabortedTaskIsTracked ==
    \A t \in Tasks : status[t] \in Service!Pending /\ t \notin aborted =>
        \/ t \in abort_handles
        \/ \E c \in Clients : \/ t \in batch[c]
                              \/ pc[c] = "push" /\ subject[c] = t

(* When the flag and the counter say terminated, the body of every         *)
(* accepted wrapper has come to its end or was dropped, and so has every   *)
(* blocking closure, except those of aborted tasks: these may run on       *)
(* although the service says it has terminated.                            *)
TerminatedMeansSettled ==
    IsTerminated =>
        /\ Service!Terminated
        /\ \A t \in Tasks : closure[t] \in {"queued", "running"} => t \in aborted

(* The service implements the contract of the trait; in contrast to the    *)
(* other services it may abort running tasks.                              *)
ImplementsService == Service!Spec

(* A service that was shut down terminates, without further calls, and a   *)
(* client that waits in await_termination by then is woken, also if the    *)
(* last wrapper was aborted.                                               *)
TerminationIsAnnounced ==
    /\ shutdown ~> IsTerminated
    /\ \A c \in Clients :
         pc[c] = "waiting" /\ shutdown /\ ~IsTerminated ~> pc[c] # "waiting"

=============================================================================
