--------------------------- MODULE ExecutorService ---------------------------
(***************************************************************************)
(* The contract of the trait ExecutorService                               *)
(* (task/service/executor_service.rs): what every service promises about   *)
(* the tasks it is given and about shutdown, whatever threads, queues and  *)
(* counters it uses.  The services implement this specification.           *)
(***************************************************************************)
CONSTANTS
    Tasks,       \* the tasks that may be submitted
    CanAbort     \* TRUE for a service that may abort a running task

VARIABLES
    status,      \* what has become of each task
    shutdown     \* whether shutdown was requested

vars == <<status, shutdown>>

Pending == {"accepted", "running"}
Settled == {"rejected", "completed", "cancelled"}
Statuses == {"new"} \cup Pending \cup Settled

TypeOK == status \in [Tasks -> Statuses] /\ shutdown \in BOOLEAN

Init == status = [t \in Tasks |-> "new"] /\ shutdown = FALSE

(* is_terminated *)
Terminated == shutdown /\ \A t \in Tasks : status[t] \notin Pending

Becomes(t, s) == status' = [status EXCEPT ![t] = s] /\ UNCHANGED shutdown

(* submit_callable; a service may start the task in the step that accepts  *)
(* it, and may refuse a task for other reasons than shutdown.              *)
Submit(t) ==
    /\ status[t] = "new"
    /\ \/ ~shutdown /\ \E s \in Pending : Becomes(t, s)
       \/ Becomes(t, "rejected")

Start(t) == status[t] = "accepted" /\ Becomes(t, "running")

(* The task returned, failed or panicked.                                  *)
Complete(t) == status[t] = "running" /\ Becomes(t, "completed")

Cancel(t) ==
    /\ status[t] \in (IF CanAbort THEN Pending ELSE {"accepted"})
    /\ Becomes(t, "cancelled")

(* shutdown and shutdown_now, which goes on to cancel tasks                *)
RequestShutdown == shutdown' = TRUE /\ UNCHANGED status

Next ==
    \/ \E t \in Tasks : Submit(t) \/ Start(t) \/ Complete(t) \/ Cancel(t)
    \/ RequestShutdown

Spec == Init /\ [][Next]_vars

=============================================================================
