----------------------------- MODULE TokioProofs -----------------------------
(***************************************************************************)
(* Proofs about TokioService, for every finite set of tasks and every set  *)
(* of clients, with and without a blocking pool.                           *)
(***************************************************************************)
EXTENDS TokioService, TLAPS, FiniteSetTheorems

(* The tasks whose wrapper still has its guard.                            *)
Guarded == {t \in Tasks : pc[t] \in {"spawned", "polled", "finish"}}

(* What the state of a wrapper says about its body.                        *)
StatusInv ==
    \A t \in Tasks :
        /\ status[t] \in {"new", "rejected"} <=> pc[t] = "none"
        /\ status[t] = "accepted" <=> pc[t] = "spawned"
        /\ status[t] = "running" <=> pc[t] = "polled"

(* Only the blocking service has closures; one that has not ended is       *)
(* awaited by its wrapper, or was left behind by an abort.                 *)
ClosureInv ==
    \A t \in Tasks :
        /\ closure[t] # "none" => blocking
        /\ closure[t] \in {"queued", "running"} => pc[t] = "polled" \/ t \in aborted

(* Handles are in a client's hands only while it aborts them: without this *)
(* a second shutdown_now could overwrite what it has not aborted yet.      *)
BatchInv ==
    \A c \in Clients : /\ batch[c] # {} => pc[c] = "abort"
                       /\ pc[c] = "push" => subject[c] \in Tasks

CountInv == active_tasks = Cardinality(Guarded)

Inv ==
    TypeOK /\ StatusInv /\ ClosureInv /\ BatchInv /\ UnabortedTaskIsTracked /\ CountInv

(* All of the invariant except the count.                                  *)
Local == TypeOK /\ StatusInv /\ ClosureInv /\ BatchInv /\ UnabortedTaskIsTracked

LEMMA GuardedIsFinite == IsFiniteSet(Guarded) /\ Cardinality(Guarded) \in Nat
<1>1. Guarded \in SUBSET Tasks
  BY DEF Guarded
<1>. QED
  BY <1>1, TokioAssumption, FS_Subset, FS_CardinalityType

(* Steps that neither create nor drop a guard.                             *)
LEMMA SameGuards ==
    ASSUME Inv, Local', Guarded' = Guarded, UNCHANGED active_tasks
    PROVE  Inv'
BY DEF Inv, Local, CountInv

LEMMA Initially == Init => Inv
<1>. SUFFICES ASSUME Init PROVE Inv
  OBVIOUS
<1>0. Tasks \cap Clients = {}
  BY TokioAssumption
<1>1. TypeOK /\ StatusInv
  BY <1>0 DEF Init, TypeOK, StatusInv, Processes, WrapperStates, ClientStates,
     Service!Statuses, Service!Pending, Service!Settled
<1>2. ClosureInv /\ BatchInv /\ UnabortedTaskIsTracked
  BY <1>0 DEF Init, ClosureInv, BatchInv, UnabortedTaskIsTracked, Processes, Service!Pending
<1>3. Guarded = {}
  BY DEF Init, Guarded, Processes
<1>4. CountInv
  BY <1>3, FS_EmptySet DEF Init, CountInv
<1>. QED
  BY <1>1, <1>2, <1>4 DEF Inv

(* One step per action.                                                    *)
LEMMA Step == Inv /\ [Next]_vars => Inv'
<1>. SUFFICES ASSUME Inv, [Next]_vars PROVE Inv'
  OBVIOUS
<1>. USE TokioAssumption
<1>. USE DEF Inv, Local, TypeOK, StatusInv, ClosureInv, BatchInv, UnabortedTaskIsTracked,
             Processes, WrapperStates, ClientStates, Service!Statuses, Service!Pending,
             Service!Settled, state
<1>1. ASSUME NEW c \in Clients, NEW t \in Tasks, Submit(c, t)
      PROVE  Inv'
  <2>1. CASE shutdown
    <3>1. Local' /\ Guarded' = Guarded
      BY <1>1, <2>1 DEF Submit, Guarded
    <3>. QED
      BY <3>1, <2>1, <1>1, SameGuards DEF Submit
  <2>2. CASE ~shutdown
    <3>1. Local'
      BY <1>1, <2>2 DEF Submit
    <3>2. Guarded' = Guarded \cup {t} /\ t \notin Guarded
      BY <1>1, <2>2 DEF Submit, Guarded
    <3>3. Cardinality(Guarded') = Cardinality(Guarded) + 1
      BY <3>2, GuardedIsFinite, FS_AddElement
    <3>4. active_tasks' = active_tasks + 1
      BY <1>1, <2>2 DEF Submit
    <3>. QED
      BY <3>1, <3>3, <3>4, GuardedIsFinite DEF CountInv
  <2>. QED
    BY <2>1, <2>2
<1>2. ASSUME NEW c \in Clients, PushHandle(c)
      PROVE  Inv'
  <2>1. Local' /\ Guarded' = Guarded
    BY <1>2 DEF PushHandle, Goto, Guarded
  <2>. QED
    BY <2>1, <1>2, SameGuards DEF PushHandle
<1>3. ASSUME NEW t \in Tasks, FirstPoll(t) \/ LastPoll(t) \/ DropAborted(t) \/ ClosureStep(t)
      PROVE  Inv'
  <2>1. Local'
    BY <1>3 DEF FirstPoll, LastPoll, DropAborted, ClosureStep, Goto, Alive
  <2>2. Guarded' = Guarded
    BY <1>3 DEF FirstPoll, LastPoll, DropAborted, ClosureStep, Goto, Alive, Guarded
  <2>. QED
    BY <2>1, <2>2, <1>3, SameGuards DEF FirstPoll, LastPoll, DropAborted, ClosureStep
<1>4. ASSUME NEW t \in Tasks, DropGuard(t)
      PROVE  Inv'
  <2>1. t \in Guarded /\ Guarded' = Guarded \ {t}
    BY <1>4 DEF DropGuard, Goto, Guarded
  <2>2. Cardinality(Guarded') = Cardinality(Guarded) - 1 /\ Cardinality(Guarded') \in Nat
    BY <2>1, GuardedIsFinite, FS_RemoveElement, FS_CardinalityType
  <2>3. CountInv' /\ active_tasks' \in Nat
    BY <2>2, <1>4, GuardedIsFinite DEF CountInv, DropGuard
  <2>4. Local'
    BY <2>3, <1>4 DEF DropGuard, Goto
  <2>. QED
    BY <2>3, <2>4
<1>5. ASSUME NEW p \in Processes, CheckTerminated(p)
      PROVE  Inv'
  <2>1. Local' /\ Guarded' = Guarded
    BY <1>5 DEF CheckTerminated, Goto, Over, Unlock, Guarded
  <2>. QED
    BY <2>1, <1>5, SameGuards DEF CheckTerminated
<1>6. ASSUME NEW p \in Processes, NotifyWaiters(p)
      PROVE  Inv'
  <2>1. /\ \A t \in Tasks : pc'[t] = IF t = p THEN "exited" ELSE pc[t]
        /\ \A c \in Clients : pc'[c] = IF c = p THEN "idle"
                                       ELSE IF pc[c] = "waiting" THEN "woken" ELSE pc[c]
        /\ pc' \in [Processes -> WrapperStates \cup ClientStates]
    BY <1>6 DEF NotifyWaiters, Over
  <2>2. Local'
    BY <2>1, <1>6 DEF NotifyWaiters, Unlock
  <2>3. Guarded' = Guarded
    BY <2>1, <1>6 DEF NotifyWaiters, Guarded
  <2>. QED
    BY <2>2, <2>3, <1>6, SameGuards DEF NotifyWaiters
<1>7. ASSUME NEW c \in Clients, NEW t \in Tasks, Cancel(c, t) \/ AbortNext(c, t)
      PROVE  Inv'
  <2>1. Local' /\ Guarded' = Guarded
    BY <1>7 DEF Cancel, AbortNext, Abort, Alive, Guarded
  <2>. QED
    BY <2>1, <1>7, SameGuards DEF Cancel, AbortNext
<1>8. ASSUME NEW c \in Clients, Shutdown(c) \/ ShutdownNow(c) \/ DrainHandles(c)
      PROVE  Inv'
  <2>1. ASSUME DrainHandles(c)
        PROVE  Local' /\ Guarded' = Guarded
    <3>1. \A t \in Tasks : t \in abort_handles => t \in batch'[c]
      BY <2>1 DEF DrainHandles
    <3>2. \A d \in Clients : d # c => batch'[d] = batch[d] /\ pc'[d] = pc[d]
      BY <2>1 DEF DrainHandles, Goto
    <3>3. batch[c] = {} /\ pc[c] # "push"
      BY <2>1 DEF DrainHandles
    <3>4. UnabortedTaskIsTracked'
      BY <2>1, <3>1, <3>2, <3>3 DEF DrainHandles
    <3>5. (TypeOK /\ StatusInv /\ ClosureInv /\ BatchInv)'
      BY <2>1 DEF DrainHandles, Goto
    <3>6. Guarded' = Guarded
      BY <2>1 DEF DrainHandles, Goto, Guarded
    <3>. QED
      BY <3>4, <3>5, <3>6
  <2>2. ASSUME Shutdown(c) \/ ShutdownNow(c)
        PROVE  Local' /\ Guarded' = Guarded
    <3>1. /\ \E s \in {"check", "drain"} : pc' = [pc EXCEPT ![c] = s]
          /\ pc[c] = "idle" /\ shutdown' = TRUE /\ submission_lock' = c
          /\ UNCHANGED <<blocking, active_tasks, abort_handles, status, aborted, closure,
                         subject, batch>>
      BY <2>2 DEF Shutdown, ShutdownNow, Goto
    <3>2. (TypeOK /\ StatusInv /\ ClosureInv /\ BatchInv)'
      BY <3>1
    <3>3. UnabortedTaskIsTracked'
      BY <3>1
    <3>4. Local'
      BY <3>2, <3>3
    <3>5. Guarded' = Guarded
      BY <2>2 DEF Shutdown, ShutdownNow, Goto, Guarded
    <3>. QED
      BY <3>4, <3>5
  <2>3. Local' /\ Guarded' = Guarded
    BY <1>8, <2>1, <2>2
  <2>. QED
    BY <2>3, <1>8, SameGuards DEF Shutdown, ShutdownNow, DrainHandles
<1>9. ASSUME NEW c \in Clients,
             AbortedAll(c) \/ AwaitTermination(c) \/ Wait(c) \/ DropFuture(c)
      PROVE  Inv'
  <2>1. Local' /\ Guarded' = Guarded
    BY <1>9 DEF AbortedAll, AwaitTermination, Wait, DropFuture, Goto, Guarded
  <2>. QED
    BY <2>1, <1>9, SameGuards DEF AbortedAll, AwaitTermination, Wait, DropFuture
<1>10. CASE UNCHANGED vars
  BY <1>10 DEF vars, Guarded, CountInv
<1>. QED
  BY <1>1, <1>2, <1>3, <1>4, <1>5, <1>6, <1>7, <1>8, <1>9, <1>10
     DEF Next, WrapperStep, ClientStep, NotifyStep

LEMMA Invariance == Spec => []Inv
<1>. QED
  BY Initially, Step, PTL DEF Spec

-----------------------------------------------------------------------------
(* No interleaving of submissions, aborts, completions and several calls   *)
(* of shutdown_now loses an abort handle: shutdown_now reaches every task  *)
(* that is neither settled nor told to abort.                              *)
THEOREM NoHandleIsLost == Spec => []UnabortedTaskIsTracked
<1>1. Inv => UnabortedTaskIsTracked
  BY DEF Inv
<1>. QED
  BY <1>1, Invariance, PTL

(* is_terminated is never true while the body of an accepted wrapper goes  *)
(* on; a closure that still runs then was aborted.                         *)
THEOREM TerminationIsTruthful == Spec => []TerminatedMeansSettled
<1>1. Inv => TerminatedMeansSettled
  <2>. SUFFICES ASSUME Inv, IsTerminated
                PROVE  /\ Service!Terminated
                       /\ \A t \in Tasks : closure[t] \in {"queued", "running"} => t \in aborted
    BY DEF TerminatedMeansSettled
  <2>1. Cardinality(Guarded) = 0
    BY DEF Inv, CountInv, IsTerminated
  <2>2. Guarded = {}
    BY <2>1, GuardedIsFinite, FS_EmptySet
  <2>. QED
    BY <2>2 DEF Inv, StatusInv, ClosureInv, Guarded, IsTerminated, Service!Terminated,
       Service!Pending
<1>. QED
  BY <1>1, Invariance, PTL

(* Both Tokio services implement the contract of the trait, with aborts:   *)
(* every step is a step of the abstract service or leaves it alone.        *)
THEOREM TokioImplementsService == Spec => ImplementsService
<1>1. Init => Service!Init
  BY DEF Init, Service!Init
<1>2. Inv /\ [Next]_vars => [Service!Next]_(Service!vars)
  <2>. SUFFICES ASSUME Inv, [Next]_vars
                PROVE  Service!Next \/ UNCHANGED Service!vars
    OBVIOUS
  <2>. USE DEF Service!Next, Service!vars
  <2>1. ASSUME NEW c \in Clients, NEW t \in Tasks, Submit(c, t)
        PROVE  Service!Submit(t)
    BY <2>1 DEF Submit, Service!Submit, Service!Becomes, Service!Pending
  <2>2. ASSUME NEW t \in Tasks, FirstPoll(t)
        PROVE  Service!Start(t)
    BY <2>2 DEF FirstPoll, Service!Start, Service!Becomes, Inv, StatusInv, state
  <2>3. ASSUME NEW t \in Tasks, LastPoll(t)
        PROVE  Service!Complete(t)
    BY <2>3 DEF LastPoll, Service!Complete, Service!Becomes, Inv, StatusInv, state
  <2>4. ASSUME NEW t \in Tasks, DropAborted(t)
        PROVE  Service!Cancel(t)
    BY <2>4 DEF DropAborted, Alive, Service!Cancel, Service!Becomes, Service!Pending, Inv,
       StatusInv, state
  <2>5. ASSUME NEW c \in Clients, Shutdown(c) \/ ShutdownNow(c)
        PROVE  Service!RequestShutdown
    BY <2>5 DEF Shutdown, ShutdownNow, Service!RequestShutdown
  <2>6. ASSUME NEW t \in Tasks, DropGuard(t) \/ ClosureStep(t)
        PROVE  UNCHANGED Service!vars
    BY <2>6 DEF DropGuard, ClosureStep, state
  <2>7. ASSUME NEW p \in Processes, CheckTerminated(p) \/ NotifyWaiters(p)
        PROVE  UNCHANGED Service!vars
    BY <2>7 DEF CheckTerminated, NotifyWaiters
  <2>8. ASSUME NEW c \in Clients, NEW t \in Tasks, Cancel(c, t) \/ AbortNext(c, t)
        PROVE  UNCHANGED Service!vars
    BY <2>8 DEF Cancel, AbortNext, state
  <2>9. ASSUME NEW c \in Clients,
               \/ PushHandle(c) \/ DrainHandles(c) \/ AbortedAll(c)
               \/ AwaitTermination(c) \/ Wait(c) \/ DropFuture(c)
        PROVE  UNCHANGED Service!vars
    BY <2>9 DEF PushHandle, DrainHandles, AbortedAll, AwaitTermination, Wait, DropFuture, state
  <2>10. CASE UNCHANGED vars
    BY <2>10 DEF vars, state
  <2>. QED
    BY <2>1, <2>2, <2>3, <2>4, <2>5, <2>6, <2>7, <2>8, <2>9, <2>10
       DEF Next, WrapperStep, ClientStep, NotifyStep, Processes
<1>. QED
  BY <1>1, <1>2, Invariance, PTL DEF Spec, ImplementsService, Service!Spec

=============================================================================
