------------------------------- MODULE Monitor -------------------------------
(***************************************************************************)
(* lock::Monitor and MonitorGuard (lock/monitor.rs, lock/monitor_guard.rs) *)
(* and ArcMonitor, which forwards to them: a mutex, the state it protects, *)
(* and one condition variable.                                             *)
(*                                                                         *)
(* The state is a number of tokens: write adds one, the predicates of the  *)
(* wait functions ask for one, and the callback of a wait that is Ready    *)
(* takes one.  The mutex is explicit, because a wait function holds it     *)
(* from its test of the predicate until it is on the wait set, while       *)
(* notifications and the clock need no lock.  Time is discrete and kept    *)
(* relative to each call, so that it needs no bound.                       *)
(***************************************************************************)
EXTENDS Naturals, FiniteSets

CONSTANTS
    Writers,          \* the threads that call write and notify
    Waiters,          \* the threads that call the wait functions
    Nobody,           \* the mutex is free
    Timeouts,         \* the timeouts callers ask for
    MaxTokens         \* bound: no more tokens are added

ASSUME MonitorAssumption ==
    /\ IsFiniteSet(Writers) /\ IsFiniteSet(Waiters)
    /\ Nobody \notin Writers \cup Waiters
    /\ Timeouts \subseteq Nat
    /\ MaxTokens \in Nat

VARIABLES
    broadcast,        \* writers call notify_all (or notify_one)
    tokens,           \* the protected state
    mutex,            \* who holds it
    poisoned,         \* a callback has panicked under the mutex
    pc,               \* where a thread stands in its call
    op,               \* the call it makes
    timeout,          \* the timeout of the call
    elapsed,          \* the time since start, as far as it matters
    slept,            \* the time the call has spent on the wait set
    alarm,            \* what is left of the present wait_timeout
    status            \* how the wait of the call ended

clock == <<timeout, elapsed, slept, alarm>>
vars == <<broadcast, tokens, mutex, poisoned, pc, op, clock, status>>

Threads == Writers \cup Waiters

Waits == {"wait_until", "wait_timeout_until"}
Timed == {"wait_timeout_until", "wait_notify"}
Operations == Waits \cup Timed \cup {"write"}
Calls(t) == (IF t \in Writers THEN {"write"} ELSE {})
                \cup (IF t \in Waiters THEN Waits \cup Timed ELSE {})

(* relock: left the wait set, needs the mutex back; unwound: a panic ended *)
(* the thread.                                                             *)
States == {"idle", "lock", "test", "measure", "sleep", "asleep", "relock",
           "notify", "unwound"}

Statuses == {"None", "Woken", "TimedOut"}

TypeOK ==
    /\ broadcast \in BOOLEAN /\ poisoned \in BOOLEAN
    /\ tokens \in 0 .. MaxTokens
    /\ mutex \in Threads \cup {Nobody}
    /\ pc \in [Threads -> States]
    /\ op \in [Threads -> Operations]
    /\ {timeout, elapsed, slept, alarm} \subseteq [Threads -> Nat]
    /\ status \in [Threads -> Statuses]

Init ==
    /\ broadcast \in BOOLEAN
    /\ tokens = 0 /\ mutex = Nobody /\ poisoned = FALSE
    /\ pc = [t \in Threads |-> "idle"]
    /\ op = [t \in Threads |-> "write"]
    /\ timeout = [t \in Threads |-> 0]
    /\ elapsed = timeout /\ slept = timeout /\ alarm = timeout
    /\ status = [t \in Threads |-> "None"]

Goto(t, s) == pc' = [pc EXCEPT ![t] = s]

(* The guard is dropped and the call returns; its locals are gone.         *)
Return(t) ==
    /\ mutex' = Nobody
    /\ status' = [status EXCEPT ![t] = "None"]
    /\ op' = [op EXCEPT ![t] = "write"]
    /\ timeout' = [timeout EXCEPT ![t] = 0]
    /\ elapsed' = [elapsed EXCEPT ![t] = 0]
    /\ slept' = [slept EXCEPT ![t] = 0]
    /\ alarm' = [alarm EXCEPT ![t] = 0]
    /\ Goto(t, "idle")

-----------------------------------------------------------------------------
(* A thread calls the monitor.  A wait_notify would consume the single     *)
(* notification of a token it does not take, so a program that uses it     *)
(* announces changes with notify_all.                                      *)
Call(t, o, d) ==
    /\ pc[t] = "idle"
    /\ o = "wait_notify" => broadcast
    /\ o = "write" => tokens < MaxTokens
    /\ op' = [op EXCEPT ![t] = o]
    /\ timeout' = [timeout EXCEPT ![t] = IF o \in Timed THEN d ELSE 0]
    /\ Goto(t, "lock")
    /\ UNCHANGED <<broadcast, tokens, mutex, poisoned, elapsed, slept, alarm, status>>

(* What a call does first once it has the mutex.                           *)
AfterLock(t) == IF op[t] = "wait_notify" THEN "sleep" ELSE "test"

(* Mutant: a poisoned mutex makes the caller panic.                        *)
LockUnwraps(t) ==
    /\ pc[t] = "lock" /\ mutex = Nobody
    /\ IF poisoned
       THEN Goto(t, "unwound") /\ UNCHANGED <<mutex, alarm>>
       ELSE /\ mutex' = t
            /\ alarm' = [alarm EXCEPT ![t] = timeout[t]]
            /\ Goto(t, AfterLock(t))
    /\ UNCHANGED <<broadcast, tokens, poisoned, op, timeout, elapsed, slept, status>>

(* lock, which recovers the guard of a poisoned mutex; the clock of a      *)
(* timed wait starts when it has the mutex.                                *)
Lock(t) ==
    /\ pc[t] = "lock" /\ mutex = Nobody
    /\ mutex' = t
    /\ elapsed' = [elapsed EXCEPT ![t] = 0]
    /\ alarm' = [alarm EXCEPT ![t] = timeout[t]]
    /\ Goto(t, AfterLock(t))
    /\ UNCHANGED <<broadcast, tokens, poisoned, op, timeout, slept, status>>

(* write: the callback adds a token; the caller notifies afterwards.       *)
Write(t) ==
    /\ pc[t] = "test" /\ op[t] = "write"
    /\ tokens' = IF tokens < MaxTokens THEN tokens + 1 ELSE tokens
    /\ mutex' = Nobody
    /\ Goto(t, "notify")
    /\ UNCHANGED <<broadcast, poisoned, op, clock, status>>

(* The callback panics before it has changed the state.                    *)
WritePanics(t) ==
    /\ pc[t] = "test" /\ op[t] = "write"
    /\ poisoned' = TRUE
    /\ mutex' = Nobody
    /\ Goto(t, "unwound")
    /\ UNCHANGED <<broadcast, tokens, op, clock, status>>

(* Mutant: the mutex is released before the thread is on the wait set.     *)
TestUnlocks(t) ==
    /\ pc[t] = "test" /\ op[t] \in Waits
    /\ IF tokens > 0
       THEN tokens' = tokens - 1 /\ Return(t)
       ELSE /\ Goto(t, IF op[t] \in Timed THEN "measure" ELSE "sleep")
            /\ mutex' = Nobody
            /\ UNCHANGED <<tokens, op, clock, status>>
    /\ UNCHANGED <<broadcast, poisoned>>

(* wait_while, wait_until and the first half of wait_timeout_while: the    *)
(* predicate, and the callback in the same critical section.               *)
Test(t) ==
    /\ pc[t] = "test" /\ op[t] \in Waits
    /\ IF tokens > 0
       THEN tokens' = tokens - 1 /\ Return(t)
       ELSE /\ Goto(t, IF op[t] \in Timed THEN "measure" ELSE "sleep")
            /\ UNCHANGED <<tokens, mutex, op, clock, status>>
    /\ UNCHANGED <<broadcast, poisoned>>

(* timeout.checked_sub(elapsed).unwrap_or_default()                        *)
Remaining(t) == IF elapsed[t] < timeout[t] THEN timeout[t] - elapsed[t] ELSE 0

(* Mutant: every wait gets the whole timeout again.                        *)
MeasureAfresh(t) ==
    /\ pc[t] = "measure"
    /\ IF Remaining(t) = 0
       THEN Return(t)
       ELSE /\ alarm' = [alarm EXCEPT ![t] = timeout[t]]
            /\ Goto(t, "sleep")
            /\ UNCHANGED <<mutex, op, timeout, elapsed, slept, status>>
    /\ UNCHANGED <<broadcast, tokens, poisoned>>

(* wait_timeout_while: give up, or wait for what remains.                  *)
Measure(t) ==
    /\ pc[t] = "measure"
    /\ IF Remaining(t) = 0
       THEN Return(t)
       ELSE /\ alarm' = [alarm EXCEPT ![t] = Remaining(t)]
            /\ Goto(t, "sleep")
            /\ UNCHANGED <<mutex, op, timeout, elapsed, slept, status>>
    /\ UNCHANGED <<broadcast, tokens, poisoned>>

(* MonitorGuard::wait and wait_timeout: the mutex is released when the     *)
(* thread is on the wait set.                                              *)
Sleep(t) ==
    /\ pc[t] = "sleep"
    /\ mutex' = Nobody
    /\ Goto(t, "asleep")
    /\ UNCHANGED <<broadcast, tokens, poisoned, op, clock, status>>

Sleepers == {t \in Threads : pc[t] = "asleep"}

(* The ways off the wait set.                                              *)
Leave(t, r) ==
    /\ pc[t] = "asleep"
    /\ status' = [status EXCEPT ![t] = r]
    /\ Goto(t, "relock")
    /\ UNCHANGED <<broadcast, tokens, mutex, poisoned, op, clock>>

TimesOut(t) == op[t] \in Timed /\ alarm[t] = 0 /\ Leave(t, "TimedOut")
SpuriousWakeup(t) == Leave(t, "Woken")

(* The wait is over: wait_notify returns the status, the others ignore it  *)
(* and look at the state again.                                            *)
Relock(t) ==
    /\ pc[t] = "relock" /\ mutex = Nobody
    /\ IF op[t] \in Waits
       THEN /\ mutex' = t /\ Goto(t, "test")
            /\ status' = [status EXCEPT ![t] = "None"]
            /\ UNCHANGED <<op, clock>>
       ELSE Return(t)
    /\ UNCHANGED <<broadcast, tokens, poisoned>>

(* notify_one and notify_all, after the mutex was released                 *)
Notify(t) ==
    /\ pc[t] = "notify"
    /\ \E woken \in SUBSET Sleepers :
         /\ IF broadcast \/ Sleepers = {} THEN woken = Sleepers
                                          ELSE Cardinality(woken) = 1
         /\ pc' = [s \in Threads |-> IF s = t THEN "idle"
                                     ELSE IF s \in woken THEN "relock" ELSE pc[s]]
         /\ status' = [s \in Threads |-> IF s \in woken THEN "Woken" ELSE status[s]]
    /\ UNCHANGED <<broadcast, tokens, mutex, poisoned, op, clock>>

(* Time passes for the timed calls that have begun: elapsed() as far as the*)
(* timeout, and the alarm of every sleeper.  A sleeper may be woken late.  *)
Running(t) == pc[t] \notin {"idle", "lock", "notify", "unwound"} /\ op[t] \in Timed
Ages(t) == Running(t) /\ elapsed[t] < timeout[t]
Counts(t) == t \in Sleepers /\ alarm[t] > 0

Tick ==
    /\ \E t \in Threads : Ages(t) \/ Counts(t)
    /\ elapsed' = [t \in Threads |-> elapsed[t] + (IF Ages(t) THEN 1 ELSE 0)]
    /\ alarm' = [t \in Threads |-> alarm[t] - (IF Counts(t) THEN 1 ELSE 0)]
    /\ slept' = [t \in Threads |-> slept[t] + (IF Counts(t) THEN 1 ELSE 0)]
    /\ UNCHANGED <<broadcast, tokens, mutex, poisoned, pc, op, timeout, status>>

-----------------------------------------------------------------------------
(* Every thread has unwound or waits, without a timeout, for a token that  *)
(* nobody is left to add.                                                  *)
Stuck ==
    /\ \A t \in Threads : pc[t] = "unwound" \/ (pc[t] = "asleep" /\ op[t] = "wait_until")
    /\ UNCHANGED vars

(* A step of the call thread t has made, the system's part included.       *)
Step(t) ==
    \/ Write(t) \/ WritePanics(t)
    \/ Test(t) \/ Measure(t) \/ Sleep(t) \/ TimesOut(t) \/ Notify(t)

Next ==
    \/ \E t \in Threads :
         \/ \E o \in Calls(t), d \in Timeouts : Call(t, o, d)
         \/ Lock(t) \/ Step(t) \/ Relock(t) \/ SpuriousWakeup(t)
    \/ Tick
    \/ Stuck

Spec == Init /\ [][Next]_vars

(* Threads are scheduled and time passes.  A mutex that becomes free again *)
(* and again is granted at last; nobody has to make a call.                *)
FairSpec ==
    /\ Spec
    /\ WF_vars(Tick)
    /\ \A t \in Threads : WF_vars(Step(t)) /\ SF_vars(Lock(t) \/ Relock(t))

-----------------------------------------------------------------------------
(* PROPERTIES                                                              *)

Helpers == {t \in Threads :
               \/ pc[t] = "notify"
               \/ pc[t] \in {"relock", "test"} /\ op[t] \in Waits}

(* Monitor::write releases the mutex before the caller notifies.  As long  *)
(* as a wait_until sleeps next to a token, enough threads are on their way *)
(* to take it: a writer that has yet to notify, or a waiter that will look *)
(* at the state again before it sleeps or gives up (a timed wait that has  *)
(* been woken must not lose the notification by timing out).               *)
ReadyStateIsNoticed ==
    (\E t \in Sleepers : op[t] \in Waits) =>
        Cardinality(Helpers) >= tokens

Ends(t, o) == op[t] = o /\ pc[t] # "idle" /\ pc'[t] = "idle"

(* wait_timeout_while never sleeps longer than its timeout in total,       *)
(* however often it is woken in vain, and gives up, taking nothing, only   *)
(* when the time is over and the state is still not ready; wait_notify     *)
(* says TimedOut only if it has waited that long.                          *)
TimeoutIsKept ==
    [][\A t \in Threads :
          /\ slept'[t] <= timeout'[t]
          /\ Ends(t, "wait_timeout_until") /\ tokens' = tokens
                => elapsed[t] >= timeout[t] /\ tokens = 0
          /\ Ends(t, "wait_notify") /\ status[t] = "TimedOut"
                => slept[t] >= timeout[t]]_vars

(* A timed call returns though nobody notifies it, and though a callback   *)
(* has poisoned the mutex.                                                 *)
TimedCallReturns ==
    \A t \in Waiters :
        (pc[t] # "idle" /\ op[t] \in Timed) ~> (pc[t] = "idle")

=============================================================================
