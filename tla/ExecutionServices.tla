-------------------------- MODULE ExecutionServices --------------------------
(***************************************************************************)
(* ExecutionServices (task/service/execution_services.rs): one facade over *)
(* four services.  This module composes four copies of the contract        *)
(* ExecutorService, for what becomes of the tasks, with the facade's       *)
(* calls, which visit the services one after the other, in a fixed order,  *)
(* while tasks are submitted and run in all of them.                       *)
(*                                                                         *)
(* The contract does not say when a service reports its termination, nor   *)
(* that its waiters hear of it, and the services differ in both: the       *)
(* blocking pool reports it before a shutdown_now has cancelled what it    *)
(* drained, and a waiter of the other three can miss the notification.     *)
(* Both are part of this module, as is a shutdown_now in the middle of its *)
(* cancellations.                                                          *)
(***************************************************************************)
EXTENDS Naturals, Sequences

CONSTANTS
    Tasks,            \* each is submitted to one service
    Clients,          \* threads that share the facade
    AloneCalls        \* the calls they also make of one service

ASSUME AloneCallsAssumption == AloneCalls \subseteq {"shutdown", "shutdown_now"}

VARIABLES
    built,            \* how many services build() has made; 5: it failed
    status,           \* per service: what has become of each task
    shutdown,         \* per service: whether shutdown was requested
    stopped,          \* the blocking pool has no worker and no queued job left
    call,             \* the call a client is in
    alone,            \* whether that call visits one service only
    next,             \* the service the call visits next
    stage,            \* how far the call is at that service
    batch,            \* the tasks a shutdown_now has still to cancel there
    answer            \* what a client's last call has told it

tasks == <<status, shutdown, stopped>>
calls == <<call, alone, next, answer>>
vars == <<built, tasks, calls, stage, batch>>

(* The fields of ExecutionServices, in the order the calls visit them.     *)
Fields == <<"blocking", "cpu", "tokio_blocking", "io">>
Services == {Fields[i] : i \in 1 .. Len(Fields)}

(* Tokio tasks can be aborted.                                             *)
Aborts(s) == s \in {"tokio_blocking", "io"}

Service(s) == INSTANCE ExecutorService WITH
    status <- status[s], shutdown <- shutdown[s], CanAbort <- Aborts(s)

Calls == {"none", "shutdown", "shutdown_now", "is_shutdown", "is_terminated",
          "await_termination"}

(* visit: about to look at the service; cancel: a shutdown_now in its loop *)
(* of cancellations; tested: an await_termination that has read            *)
(* is_terminated = false; waiting: it would receive a notification; late:  *)
(* so it would, but the service had terminated before it began to wait.    *)
Stages == {"visit", "cancel", "tested", "waiting", "late"}

(* shut: shutdown was requested everywhere; over: all services have        *)
(* terminated; unknown: anything else.                                     *)
Answers == {"unknown", "shut", "over"}

TypeOK ==
    /\ built \in 0 .. 5
    /\ \A s \in Services : Service(s)!TypeOK
    /\ stopped \in BOOLEAN
    /\ call \in [Clients -> Calls]
    /\ alone \in [Clients -> BOOLEAN]
    /\ next \in [Clients -> 1 .. Len(Fields)]
    /\ stage \in [Clients -> Stages]
    /\ batch \in [Clients -> SUBSET Tasks]
    /\ answer \in [Clients -> Answers]

Init ==
    /\ built = 0
    /\ status = [s \in Services |-> [t \in Tasks |-> "new"]]
    /\ shutdown = [s \in Services |-> FALSE]
    /\ stopped = FALSE
    /\ call = [c \in Clients |-> "none"]
    /\ alone = [c \in Clients |-> FALSE]
    /\ next = [c \in Clients |-> 1]
    /\ stage = [c \in Clients |-> "visit"]
    /\ batch = [c \in Clients |-> {}]
    /\ answer = [c \in Clients |-> "unknown"]

-----------------------------------------------------------------------------
(* ExecutionServicesBuilder::build: the services in turn.                  *)
Build ==
    /\ built < Len(Fields)
    /\ built' = built + 1
    /\ UNCHANGED <<tasks, calls, stage, batch>>

(* Only the first two can fail; a blocking pool that was built is dropped, *)
(* which shuts it down.                                                    *)
BuildFails ==
    /\ built \in {0, 1}
    /\ built' = 5
    /\ shutdown' = IF built = 1 THEN [shutdown EXCEPT !["blocking"] = TRUE] ELSE shutdown
    /\ UNCHANGED <<status, stopped, calls, stage, batch>>

-----------------------------------------------------------------------------
Visited(c) == Fields[next[c]]

(* Task t has been taken out of its service's queue or list by a           *)
(* shutdown_now that has not come to it yet.                               *)
Taken(s, t) == \E c \in Clients : Visited(c) = s /\ t \in batch[c]

(* The blocking pool can no longer run such a task, nor does it count it.  *)
Drained(s, t) == s = "blocking" /\ Taken(s, t)

(* The Tokio services abort while they hold the lock that submit, shutdown *)
(* and shutdown_now take.                                                  *)
Locked(s) == Aborts(s) /\ \E c \in Clients : Visited(c) = s /\ stage[c] = "cancel"

(* is_terminated of a service: the pool's answer is about its workers and  *)
(* queues, the others count their tasks.                                   *)
IsOver(s) ==
    IF s = "blocking" THEN stopped
    ELSE shutdown[s] /\ \A t \in Tasks : status[s][t] \notin Service(s)!Pending

(* The stages once service s has notified its waiters.                     *)
Woken(s) == [c \in Clients |->
    IF stage[c] \in {"waiting", "late"} /\ Visited(c) = s THEN "visit" ELSE stage[c]]

(* notify_if_terminated, at the end of a step                              *)
NotifyIfOver(s) == stage' = IF IsOver(s)' THEN Woken(s) ELSE stage

(* A step of service s: a task starts, ends, or is cancelled through its   *)
(* handle; an aborted Tokio task is dropped.  The last task of a service   *)
(* that was shut down notifies.                                            *)
ServiceStep(s) ==
    /\ UNCHANGED <<built, shutdown, stopped, calls, batch>>
    /\ \E t \in Tasks, x \in Service(s)!Statuses :
         /\ status' = [status EXCEPT ![s][t] = x]
         /\ \/ Service(s)!Start(t) /\ ~Drained(s, t)
            \/ Service(s)!Complete(t)
            \/ Service(s)!Cancel(t)
    /\ NotifyIfOver(s)

(* submit_blocking, submit_cpu, submit_tokio_blocking, their _callable     *)
(* forms, and spawn_io                                                     *)
Submit(s, t) ==
    /\ built = Len(Fields) /\ ~Locked(s)
    /\ \A r \in Services : status[r][t] = "new"
    /\ UNCHANGED <<built, shutdown, stopped, calls, stage, batch>>
    /\ \E x \in Service(s)!Statuses :
         /\ status' = [status EXCEPT ![s][t] = x]
         /\ Service(s)!Submit(t)

(* The last worker of the blocking pool leaves, and everyone is notified.  *)
PoolStops ==
    /\ shutdown["blocking"] /\ ~stopped
    /\ \A t \in Tasks : status["blocking"][t] \in Service("blocking")!Pending =>
                         Drained("blocking", t)
    /\ stopped' = TRUE
    /\ stage' = Woken("blocking")
    /\ UNCHANGED <<built, status, shutdown, calls, batch>>

(* The last task of a service and a shutdown may both find the service     *)
(* terminated and both notify, one of them late.                           *)
NotifiesAgain(s) ==
    /\ s # "blocking" /\ IsOver(s)
    /\ stage' = Woken(s)
    /\ UNCHANGED <<built, tasks, calls, batch>>

-----------------------------------------------------------------------------
(* A client makes a call of the facade, or shuts down the one service that *)
(* an accessor, blocking(), cpu(), ..., has handed out.                    *)
Begin(c, k) ==
    /\ built = Len(Fields) /\ call[c] = "none"
    /\ call' = [call EXCEPT ![c] = k]
    /\ answer' = [answer EXCEPT ![c] = "unknown"]
    /\ \/ UNCHANGED <<alone, next>>
       \/ /\ k \in AloneCalls
          /\ alone' = [alone EXCEPT ![c] = TRUE]
          /\ \E i \in 1 .. Len(Fields) : next' = [next EXCEPT ![c] = i]
    /\ UNCHANGED <<built, tasks, stage, batch>>

(* The call returns a.                                                     *)
Return(c, a) ==
    /\ call' = [call EXCEPT ![c] = "none"]
    /\ alone' = [alone EXCEPT ![c] = FALSE]
    /\ next' = [next EXCEPT ![c] = 1]
    /\ answer' = [answer EXCEPT ![c] = a]

(* On to the next service; after the last the call returns a.  A call of   *)
(* one service says nothing about the others.                              *)
Advance(c, a) ==
    \/ alone[c] /\ Return(c, "unknown")
    \/ ~alone[c] /\ next[c] = Len(Fields) /\ Return(c, a)
    \/ /\ ~alone[c] /\ next[c] # Len(Fields)
       /\ next' = [next EXCEPT ![c] = @ + 1]
       /\ UNCHANGED <<call, alone, answer>>

(* Mutant: the last service is forgotten.                                  *)
ShutdownThree(c) ==
    /\ call[c] = "shutdown"
    /\ shutdown' = IF next[c] = 4 THEN shutdown
                   ELSE [shutdown EXCEPT ![Visited(c)] = TRUE]
    /\ Advance(c, "shut")
    /\ UNCHANGED <<built, status, stopped, stage, batch>>

(* Mutant: nobody is notified.                                             *)
ShutdownSilently(c) ==
    /\ call[c] = "shutdown"
    /\ shutdown' = [shutdown EXCEPT ![Visited(c)] = TRUE]
    /\ Advance(c, "shut")
    /\ UNCHANGED <<built, status, stopped, stage, batch>>

(* The pool's waiters are notified by PoolStops, or have returned.         *)
Shutdown(c) ==
    /\ call[c] = "shutdown" /\ ~Locked(Visited(c))
    /\ UNCHANGED <<built, status, stopped, batch>>
    /\ \E s \in Services :
         /\ s = Visited(c)
         /\ shutdown' = [shutdown EXCEPT ![s] = TRUE]
         /\ NotifyIfOver(s)
    /\ Advance(c, "shut")

(* shutdown_now requests shutdown and takes what it is going to cancel:    *)
(* the pool the jobs in its queues, which a job in a worker's hands has    *)
(* left; Rayon the hooks of all tasks that have not started; Tokio the     *)
(* abort handles stored so far, of tasks that may be running.              *)
ShutdownNow(c) ==
    LET s == Visited(c)
        Takeable == {t \in Tasks :
            /\ status[s][t] \in (IF Aborts(s) THEN Service(s)!Pending ELSE {"accepted"})
            /\ ~Taken(s, t)}
    IN  /\ call[c] = "shutdown_now" /\ stage[c] = "visit" /\ ~Locked(s)
        /\ shutdown' = [shutdown EXCEPT ![s] = TRUE]
        /\ \E B \in SUBSET Takeable :
             /\ s = "cpu" => B = Takeable
             /\ batch' = [batch EXCEPT ![c] = B]
        /\ stage' = [stage EXCEPT ![c] = "cancel"]
        /\ UNCHANGED <<built, status, stopped, calls>>

(* It cancels them one by one, holding no lock that would keep a Rayon     *)
(* task from starting first; abort() only asks, and may come too late.     *)
CancelNext(c, t) ==
    /\ stage[c] = "cancel" /\ t \in batch[c]
    /\ batch' = [batch EXCEPT ![c] = @ \ {t}]
    /\ UNCHANGED <<built, shutdown, stopped, calls>>
    /\ \E s \in Services :
         /\ s = Visited(c)
         /\ \/ status' = [status EXCEPT ![s][t] = "cancelled"] /\ Service(s)!Cancel(t)
            \/ (status[s][t] = "accepted" => Aborts(s)) /\ UNCHANGED status
         /\ NotifyIfOver(s)

(* All are cancelled; notify_if_terminated.                                *)
ShutdownNowDone(c) ==
    /\ stage[c] = "cancel" /\ batch[c] = {}
    /\ stage' = [IF IsOver(Visited(c)) THEN Woken(Visited(c)) ELSE stage
                  EXCEPT ![c] = "visit"]
    /\ Advance(c, "shut")
    /\ UNCHANGED <<built, tasks, batch>>

(* is_shutdown and is_terminated end at the first service that says no.    *)
IsShutdown(c) ==
    /\ call[c] = "is_shutdown"
    /\ IF shutdown[Visited(c)] THEN Advance(c, "shut") ELSE Return(c, "unknown")
    /\ UNCHANGED <<built, tasks, stage, batch>>

(* Mutant: one service that has terminated is enough.                      *)
IsTerminatedAny(c) ==
    /\ call[c] = "is_terminated"
    /\ IF IsOver(Visited(c)) THEN Return(c, "over") ELSE Advance(c, "unknown")
    /\ UNCHANGED <<built, tasks, stage, batch>>

IsTerminated(c) ==
    /\ call[c] = "is_terminated"
    /\ IF IsOver(Visited(c)) THEN Advance(c, "over") ELSE Return(c, "unknown")
    /\ UNCHANGED <<built, tasks, stage, batch>>

(* await_termination waits for each service in turn.  The pool tests and   *)
(* begins to wait under one lock; the others test first and create the     *)
(* future that notify_waiters reaches afterwards.                          *)
AwaitTermination(c) ==
    /\ call[c] = "await_termination" /\ stage[c] = "visit"
    /\ \/ IsOver(Visited(c)) /\ Advance(c, "over") /\ UNCHANGED stage
       \/ /\ ~IsOver(Visited(c))
          /\ stage' = [stage EXCEPT ![c] =
                          IF Visited(c) = "blocking" THEN "waiting" ELSE "tested"]
          /\ UNCHANGED calls
    /\ UNCHANGED <<built, tasks, batch>>

AwaitRegisters(c) ==
    /\ stage[c] = "tested"
    /\ stage' = [stage EXCEPT ![c] = IF IsOver(Visited(c)) THEN "late" ELSE "waiting"]
    /\ UNCHANGED <<built, tasks, calls, batch>>

-----------------------------------------------------------------------------
(* No facade was made.                                                     *)
Failed == built = 5 /\ UNCHANGED vars

ClientStep(c) ==
    \/ Shutdown(c) \/ ShutdownNow(c) \/ ShutdownNowDone(c)
    \/ \E t \in Tasks : CancelNext(c, t)
    \/ IsShutdown(c) \/ IsTerminated(c)
    \/ AwaitTermination(c) \/ AwaitRegisters(c)

Next ==
    \/ Build \/ BuildFails \/ Failed \/ PoolStops
    \/ \E s \in Services :
         ServiceStep(s) \/ NotifiesAgain(s) \/ \E t \in Tasks : Submit(s, t)
    \/ \E c \in Clients :
         ClientStep(c) \/ \E k \in Calls \ {"none"} : Begin(c, k)

Spec == Init /\ [][Next]_vars

(* A service that was shut down runs its tasks to their end and terminates;*)
(* nothing is assumed of one that was not, since a client that awaits its  *)
(* termination can take the notification a worker of the blocking pool     *)
(* needed.  Threads are scheduled; nobody has to submit or to call, and a  *)
(* service need not notify twice.                                          *)
FairSpec ==
    /\ Spec
    /\ \A s \in Services : WF_vars(shutdown[s] /\ ServiceStep(s))
    /\ WF_vars(PoolStops)
    /\ \A c \in Clients : WF_vars(ClientStep(c))

-----------------------------------------------------------------------------
(* PROPERTIES                                                              *)

(* is_terminated and await_termination look at the services one by one and *)
(* hold no lock, yet when they return, and from then on, shutdown was      *)
(* requested everywhere and no service has a task left that runs or may    *)
(* still run.  The one thing left of an accepted task may be a job of the  *)
(* blocking pool in the hands of a shutdown_now, drained and not cancelled *)
(* yet: its handle is still pending although is_terminated was true.       *)
TerminationIsTrue ==
    \A c \in Clients : answer[c] = "over" =>
        \A s \in Services :
            /\ shutdown[s]
            /\ \A t \in Tasks : status[s][t] \in Service(s)!Pending =>
                  /\ s = "blocking" /\ status[s][t] = "accepted"
                  /\ \E d \in Clients : /\ call[d] = "shutdown_now" /\ Visited(d) = s
                                        /\ t \in batch[d]

(* Once a shutdown call of the facade has returned, or is_shutdown was     *)
(* true, no service accepts another task, though submissions to all four   *)
(* went on while the call visited them.                                    *)
NothingAcceptedAfterShutdown ==
    [][\A s \in Services, t \in Tasks :
          (\E c \in Clients : answer[c] = "shut")
             => ~(status[s][t] = "new" /\ status'[s][t] \in Service(s)!Pending)]_vars

(* A facade that was shut down lets every await_termination return, however*)
(* the calls overlapped, except one that began to wait at a Rayon or Tokio *)
(* service after that service had terminated: it tested before the         *)
(* notification and registered after it.                                   *)
AwaitTerminationReturns ==
    \A c \in Clients :
        (call[c] = "await_termination" /\ \E d \in Clients : answer[d] = "shut")
            ~> (call[c] = "none" \/ stage[c] = "late")

(* execution_services.rs says of await_termination: "A future that resolves*)
(* after all execution domains have terminated."  A notification between   *)
(* the test and the wait refutes it (README, section 5).                   *)
AwaitTerminationResolves ==
    \A c \in Clients :
        (call[c] = "await_termination" /\ \A s \in Services : IsOver(s))
            ~> (call[c] = "none")

=============================================================================
