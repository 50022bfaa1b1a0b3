----------------------------- MODULE TaskHandle -----------------------------
(***************************************************************************)
(* TaskHandle and TaskCompletion (task/task_handle.rs) with the task       *)
(* runner (task/task_runner.rs): the one-shot result cell between the      *)
(* threads that finish a task and the owner of its handle.                 *)
(*                                                                         *)
(* The cell is protected by a monitor; a critical section is one action.   *)
(* A thread that published a result has left the monitor when it notifies  *)
(* the blocked owner and when it wakes the owner's waker, so both are      *)
(* steps of their own.  The async executor that polls the handle is        *)
(* external: it polls after a wake, and may poll (or drop the future and   *)
(* call get) at any other time.                                            *)
(***************************************************************************)
EXTENDS Naturals, FiniteSets

CONSTANTS
    Runners,      \* threads that call start_and_complete (PoolJob::run)
    Cancellers,   \* threads that call cancel (the owner's thread included)
    Outcomes      \* how the callable ends, a subset of TaskOutcomes

TaskOutcomes == {"returns", "fails", "panics"}

ASSUME TaskAssumption ==
    /\ Runners \cap Cancellers = {}
    /\ Outcomes \subseteq TaskOutcomes

VARIABLES
    result,      \* the fields of TaskHandleState ...
    started,
    completed,
    waker,
    done,        \* ... and the atomic flag beside it
    thread,      \* where each finishing thread stands
    value,       \* what a runner's callable produced
    to_wake,     \* the threads that took the waker with them
    owner,       \* where the owner of the handle stands
    got          \* what the owner received

cell == <<result, started, completed, waker, done>>
vars == <<cell, thread, value, to_wake, owner, got>>

Finishers == Runners \cup Cancellers

Nothing == "Nothing"
Results == {"Ok", "Failed", "Panicked", "Cancelled"}

(* ready: not called yet; run: the closure executes; complete: it returned *)
(* and complete() is next; notify, wake: published, waiters and waker to   *)
(* be woken; won, lost: the call returned true, false.                     *)
ThreadStates == {"ready", "run", "complete", "notify", "wake", "won", "lost"}

(* blocked, woken: inside get(); parked, scheduled: a poll returned        *)
(* Pending, the waker was called since; panicked: no result was there.     *)
OwnerStates == {"free", "blocked", "woken", "parked", "scheduled", "finished",
                "panicked"}

TypeOK ==
    /\ result \in Results \cup {Nothing}
    /\ started \in BOOLEAN /\ completed \in BOOLEAN
    /\ waker \in BOOLEAN /\ done \in BOOLEAN
    /\ thread \in [Finishers -> ThreadStates]
    /\ value \in [Runners -> Results \cup {Nothing}]
    /\ to_wake \subseteq Finishers
    /\ owner \in OwnerStates
    /\ got \in Results \cup {Nothing}

(* completion_pair *)
Init ==
    /\ result = Nothing
    /\ started = FALSE /\ completed = FALSE
    /\ waker = FALSE /\ done = FALSE
    /\ thread = [t \in Finishers |-> "ready"]
    /\ value = [r \in Runners |-> Nothing]
    /\ to_wake = {}
    /\ owner = "free"
    /\ got = Nothing

-----------------------------------------------------------------------------
(* TaskCompletion *)

(* Mutant: a task is started although a cancel completed it.               *)
StartUnchecked(r) ==
    /\ thread[r] = "ready"
    /\ started' = TRUE
    /\ thread' = [thread EXCEPT ![r] = "run"]
    /\ UNCHANGED <<result, completed, waker, done, value, to_wake, owner, got>>

(* start, called by start_and_complete                                     *)
Start(r) ==
    /\ thread[r] = "ready"
    /\ IF completed
       THEN thread' = [thread EXCEPT ![r] = "lost"] /\ UNCHANGED started
       ELSE thread' = [thread EXCEPT ![r] = "run"] /\ started' = TRUE
    /\ UNCHANGED <<result, completed, waker, done, value, to_wake, owner, got>>

(* run_callable: every way a callable ends becomes a result.               *)
RunCallable(outcome) ==
    CASE outcome = "returns" -> "Ok"
      [] outcome = "fails"   -> "Failed"
      [] outcome = "panics"  -> "Panicked"

Execute(r) ==
    /\ thread[r] = "run"
    /\ \E outcome \in Outcomes : value' = [value EXCEPT ![r] = RunCallable(outcome)]
    /\ thread' = [thread EXCEPT ![r] = "complete"]
    /\ UNCHANGED <<cell, to_wake, owner, got>>

(* Mutants of finish: a later result replaces the first; the waker stays.  *)
FinishAgain(t, r, canFinish, refused) ==
    /\ IF ~canFinish
       THEN thread' = [thread EXCEPT ![t] = refused] /\ UNCHANGED <<cell, to_wake>>
       ELSE /\ result' = r /\ completed' = TRUE /\ done' = TRUE
            /\ waker' = FALSE
            /\ to_wake' = IF waker THEN to_wake \cup {t} ELSE to_wake
            /\ thread' = [thread EXCEPT ![t] = "notify"]
            /\ UNCHANGED started
    /\ UNCHANGED <<value, owner, got>>

FinishKeepsWaker(t, r, canFinish, refused) ==
    /\ IF completed \/ ~canFinish
       THEN thread' = [thread EXCEPT ![t] = refused] /\ UNCHANGED cell
       ELSE /\ result' = r /\ completed' = TRUE /\ done' = TRUE
            /\ thread' = [thread EXCEPT ![t] = "notify"]
            /\ UNCHANGED <<started, waker>>
    /\ UNCHANGED <<value, to_wake, owner, got>>

(* finish, up to the release of the monitor; refused is the state of a     *)
(* thread whose result is ignored.                                         *)
Finish(t, r, canFinish, refused) ==
    /\ IF completed \/ ~canFinish
       THEN thread' = [thread EXCEPT ![t] = refused] /\ UNCHANGED <<cell, to_wake>>
       ELSE /\ result' = r /\ completed' = TRUE /\ done' = TRUE
            /\ waker' = FALSE
            /\ to_wake' = IF waker THEN to_wake \cup {t} ELSE to_wake
            /\ thread' = [thread EXCEPT ![t] = "notify"]
            /\ UNCHANGED started
    /\ UNCHANGED <<value, owner, got>>

(* start_and_complete returns true whether or not complete() published.    *)
Complete(r) == thread[r] = "complete" /\ Finish(r, value[r], TRUE, "won")

Cancel(c) == thread[c] = "ready" /\ Finish(c, "Cancelled", ~started, "lost")

(* Mutant: the blocked owner is not notified.                              *)
NotifyNobody(t) ==
    /\ thread[t] = "notify"
    /\ thread' = [thread EXCEPT ![t] = "wake"]
    /\ UNCHANGED <<cell, value, to_wake, owner, got>>

(* notify_completion *)
NotifyCompletion(t) ==
    /\ thread[t] = "notify"
    /\ owner' = IF owner = "blocked" THEN "woken" ELSE owner
    /\ thread' = [thread EXCEPT ![t] = "wake"]
    /\ UNCHANGED <<cell, value, to_wake, got>>

(* The waker taken in finish is called, or the owner had not registered.   *)
Wake(t) ==
    /\ thread[t] = "wake"
    /\ owner' = IF t \in to_wake /\ owner = "parked" THEN "scheduled" ELSE owner
    /\ thread' = [thread EXCEPT ![t] = "won"]
    /\ UNCHANGED <<cell, value, to_wake, got>>

-----------------------------------------------------------------------------
(* TaskHandle *)

(* The owner takes the result out of the cell.                             *)
TakeResult ==
    /\ completed
    /\ got' = result
    /\ owner' = IF result = Nothing THEN "panicked" ELSE "finished"
    /\ result' = Nothing
    /\ UNCHANGED <<started, completed, waker, done, thread, value, to_wake>>

OutsideCall == {"free", "parked", "scheduled"}

(* get: wait_until re-tests completed after every wakeup.                  *)
Get ==
    /\ owner \in OutsideCall \cup {"woken"}
    /\ \/ TakeResult
       \/ /\ ~completed
          /\ owner' = "blocked"
          /\ UNCHANGED <<cell, thread, value, to_wake, got>>

(* poll registers the current waker under the monitor that finish holds.   *)
Poll ==
    /\ owner \in OutsideCall
    /\ \/ TakeResult
       \/ /\ ~completed
          /\ waker' = TRUE
          /\ owner' = "parked"
          /\ UNCHANGED <<result, started, completed, done, thread, value,
                         to_wake, got>>

SpuriousWakeup ==
    /\ owner = "blocked"
    /\ owner' = "woken"
    /\ UNCHANGED <<cell, thread, value, to_wake, got>>

-----------------------------------------------------------------------------
FinisherStep(t) == NotifyCompletion(t) \/ Wake(t)

RunnerStep(r) == Start(r) \/ Execute(r) \/ Complete(r) \/ FinisherStep(r)

OwnerResumes == (owner = "woken" /\ Get) \/ (owner = "scheduled" /\ Poll)

(* Every call was made and the owner has its result.                       *)
Terminating ==
    /\ owner \in {"finished", "panicked"}
    /\ \A t \in Finishers : thread[t] \in {"won", "lost"}
    /\ UNCHANGED vars

Next ==
    \/ \E r \in Runners : RunnerStep(r)
    \/ \E c \in Cancellers : Cancel(c) \/ FinisherStep(c)
    \/ Get \/ Poll \/ SpuriousWakeup
    \/ Terminating

(* The accepting service runs the job, so a runner starts and its callable *)
(* ends; the executor of the owner polls a task it was told to wake.  No   *)
(* one has to cancel, to call get or to poll a parked handle.              *)
Fairness ==
    /\ \A r \in Runners : WF_vars(RunnerStep(r))
    /\ \A c \in Cancellers : WF_vars(FinisherStep(c))
    /\ WF_vars(OwnerResumes)

Spec == Init /\ [][Next]_vars

FairSpec == Spec /\ Fairness

-----------------------------------------------------------------------------
(* Safety *)

Published(t) == thread[t] \in {"notify", "wake"}

(* The race between cancel and start has one winner: when a cancel call    *)
(* published its result (it returns true), no runner ever executes the     *)
(* callable, and the owner receives nothing but Cancelled.                 *)
CancelledNeverRuns ==
    \A c \in Cancellers :
        thread[c] \in {"notify", "wake", "won"} =>
            /\ \A r \in Runners : thread[r] \in {"ready", "lost"}
            /\ got \in {Nothing, "Cancelled"} /\ result \in {Nothing, "Cancelled"}

(* The owner never meets a completed task without a result (the expect()   *)
(* of get and poll), and is_done() never promises one that is not there.   *)
ResultIsThere ==
    /\ owner # "panicked"
    /\ done /\ owner # "finished" => result # Nothing

(* No completion is missed: an owner that sleeps in get() or waits for its *)
(* waker while the task is completed is about to be notified or woken by   *)
(* the thread that published.                                              *)
SleepingOwnerIsWoken ==
    completed =>
        /\ owner = "blocked" => \E t \in Finishers : thread[t] = "notify"
        /\ owner = "parked" => \E t \in to_wake : Published(t)

(* A result is published once and reaches the owner unchanged.             *)
ResultIsFinal ==
    [][completed => /\ completed' /\ done'
                    /\ result' # result => result' = Nothing /\ got' = result]_vars

(* The owner that waits, blocking or by await, gets the result.            *)
OwnerGetsResult == owner \in {"blocked", "parked"} ~> owner = "finished"

=============================================================================
