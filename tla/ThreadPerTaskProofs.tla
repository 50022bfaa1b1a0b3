------------------------- MODULE ThreadPerTaskProofs -------------------------
(***************************************************************************)
(* Proofs about ThreadPerTaskService, for every finite set of tasks, every *)
(* set of clients, with threads whose creation fails.                      *)
(***************************************************************************)
EXTENDS ThreadPerTaskService, TLAPS, FiniteSetTheorems

(* The tasks that are counted: their thread has not given them back, or    *)
(* could not be created.                                                   *)
Held == {t \in Tasks : pc[t] \in {"start", "run", "finish", "lost"}}

(* What the state of a thread says about its task.                         *)
StatusInv ==
    \A t \in Tasks :
        /\ status[t] = "accepted" => pc[t] = "start"
        /\ status[t] = "running" <=> pc[t] = "run"
        /\ status[t] = "new" => pc[t] = "none"

(* The counter is exact: ActiveTasksMatchThreads, by way of Held.          *)
CountInv == active_tasks = Cardinality(Held)

Inv == TypeOK /\ StatusInv /\ CountInv

(* Held is finite, so its cardinality is a number.                         *)
LEMMA HeldIsFinite == IsFiniteSet(Held) /\ Cardinality(Held) \in Nat
<1>1. Held \in SUBSET Tasks
  BY DEF Held
<1>. QED
  BY <1>1, PerTaskAssumption, FS_Subset, FS_CardinalityType

(* Steps that keep the counter and the set of held tasks                   *)
LEMMA SameHeld ==
    ASSUME CountInv, Held' = Held, UNCHANGED active_tasks
    PROVE  CountInv'
BY DEF CountInv

(* The invariant holds initially.                                          *)
LEMMA Initially == Init => Inv
<1>. SUFFICES ASSUME Init PROVE Inv
  OBVIOUS
<1>0. Tasks \cap Clients = {}
  BY PerTaskAssumption
<1>1. TypeOK /\ StatusInv
  BY <1>0 DEF Init, TypeOK, StatusInv, ThreadStates, ClientStates, Service!Statuses,
         Service!Pending, Service!Settled
<1>2. Held = {}
  BY DEF Init, Held
<1>3. CountInv
  BY <1>2, FS_EmptySet DEF Init, CountInv
<1>. QED
  BY <1>1, <1>3 DEF Inv

(* One step per action; what an action does to the counter is compared     *)
(* with what it does to Held.                                              *)
LEMMA Step == Inv /\ [Next]_vars => Inv'
<1>. SUFFICES ASSUME Inv, [Next]_vars PROVE Inv'
  OBVIOUS
<1>. USE DEF Inv
<1>. USE PerTaskAssumption
<1>. USE DEF TypeOK, StatusInv, ThreadStates, ClientStates, Service!Statuses,
             Service!Pending, Service!Settled
<1>1. ASSUME NEW c \in Clients, NEW t \in Tasks, Submit(c, t)
      PROVE  Inv'
  <2>1. CASE shutdown
    <3>1. (TypeOK /\ StatusInv)' /\ Held' = Held
      BY <1>1, <2>1 DEF Submit, Held
    <3>. QED
      BY <3>1, <2>1, <1>1, SameHeld DEF Submit
  <2>2. CASE ~shutdown
    <3>1. (TypeOK /\ StatusInv)'
      BY <1>1, <2>2 DEF Submit, Goto
    <3>2. Held' = Held \cup {t} /\ t \notin Held
      BY <1>1, <2>2 DEF Submit, Goto, Held
    <3>3. Cardinality(Held') = Cardinality(Held) + 1
      BY <3>2, HeldIsFinite, FS_AddElement
    <3>4. active_tasks' = active_tasks + 1
      BY <1>1, <2>2 DEF Submit
    <3>. QED
      BY <3>1, <3>3, <3>4, HeldIsFinite DEF CountInv
  <2>. QED
    BY <2>1, <2>2
<1>2. ASSUME NEW c \in Clients, NEW t \in Tasks, SubmitPanics(c, t)
      PROVE  Inv'
  <2>1. (TypeOK /\ StatusInv)'
    BY <1>2 DEF SubmitPanics, Goto
  <2>2. Held' = Held \cup {t} /\ t \notin Held
    BY <1>2 DEF SubmitPanics, Goto, Held
  <2>3. Cardinality(Held') = Cardinality(Held) + 1
    BY <2>2, HeldIsFinite, FS_AddElement
  <2>. QED
    BY <2>1, <2>3, <1>2 DEF SubmitPanics, CountInv
<1>3. ASSUME NEW c \in Clients, NEW t \in Tasks, Cancel(c, t)
      PROVE  Inv'
  <2>1. (TypeOK /\ StatusInv)' /\ Held' = Held
    BY <1>3 DEF Cancel, Held
  <2>. QED
    BY <2>1, <1>3, SameHeld DEF Cancel
<1>4. ASSUME NEW t \in Tasks, ThreadStarts(t)
      PROVE  Inv'
  <2>1. (TypeOK /\ StatusInv)' /\ Held' = Held
    BY <1>4 DEF ThreadStarts, Goto, Held
  <2>. QED
    BY <2>1, <1>4, SameHeld DEF ThreadStarts
<1>5. ASSUME NEW t \in Tasks, ThreadCompletes(t)
      PROVE  Inv'
  <2>1. (TypeOK /\ StatusInv)' /\ Held' = Held
    BY <1>5 DEF ThreadCompletes, Goto, Held
  <2>. QED
    BY <2>1, <1>5, SameHeld DEF ThreadCompletes
<1>6. ASSUME NEW t \in Tasks, ThreadFinishes(t)
      PROVE  Inv'
  <2>1. t \in Held /\ Held' = Held \ {t}
    BY <1>6 DEF ThreadFinishes, Goto, Held
  <2>2. Cardinality(Held') = Cardinality(Held) - 1 /\ Cardinality(Held') \in Nat
    BY <2>1, HeldIsFinite, FS_RemoveElement, FS_CardinalityType
  <2>3. active_tasks' = active_tasks - 1
    BY <1>6 DEF ThreadFinishes
  <2>4. CountInv' /\ active_tasks' \in Nat
    BY <2>2, <2>3, HeldIsFinite DEF CountInv
  <2>5. (TypeOK /\ StatusInv)'
    BY <2>4, <1>6 DEF ThreadFinishes, Goto
  <2>. QED
    BY <2>4, <2>5
<1>7. ASSUME NEW p \in Tasks \cup Clients, CheckTerminated(p)
      PROVE  Inv'
  <2>1. (TypeOK /\ StatusInv)' /\ Held' = Held
    BY <1>7 DEF CheckTerminated, Goto, Over, Held
  <2>. QED
    BY <2>1, <1>7, SameHeld DEF CheckTerminated
<1>8. ASSUME NEW p \in Tasks \cup Clients, NotifyAll(p)
      PROVE  Inv'
  <2>1. \A t \in Tasks : pc'[t] = IF t = p THEN "exited" ELSE pc[t]
    BY <1>8 DEF NotifyAll, Over
  <2>2. (TypeOK /\ StatusInv)'
    BY <2>1, <1>8 DEF NotifyAll, Over
  <2>3. Held' = Held
    BY <2>1, <1>8 DEF NotifyAll, Held
  <2>. QED
    BY <2>2, <2>3, <1>8, SameHeld DEF NotifyAll
<1>9. ASSUME NEW c \in Clients,
             Shutdown(c) \/ AwaitTermination(c) \/ SpuriousWakeup(c) \/ Wait(c)
      PROVE  Inv'
  <2>1. (TypeOK /\ StatusInv)' /\ Held' = Held
    <3>1. CASE Shutdown(c)
      BY <3>1 DEF Shutdown, Goto, Held
    <3>2. CASE AwaitTermination(c)
      BY <3>2 DEF AwaitTermination, Goto, Held
    <3>3. CASE SpuriousWakeup(c) \/ Wait(c)
      BY <3>3 DEF SpuriousWakeup, Wait, Goto, Held
    <3>. QED
      BY <1>9, <3>1, <3>2, <3>3
  <2>. QED
    BY <2>1, <1>9, SameHeld DEF Shutdown, AwaitTermination, SpuriousWakeup, Wait
<1>10. CASE UNCHANGED vars
  BY <1>10 DEF vars, Held, CountInv
<1>. QED
  BY <1>1, <1>2, <1>3, <1>4, <1>5, <1>6, <1>7, <1>8, <1>9, <1>10
     DEF Next, ThreadStep

(* Hence the invariant holds in every reachable state.                     *)
LEMMA Invariance == Spec => []Inv
<1>. QED
  BY Initially, Step, PTL DEF Spec

-----------------------------------------------------------------------------
(* The state has its types; in particular active_tasks never drops below   *)
(* zero, whatever threads, cancels and failed spawns do.                   *)
THEOREM PerTaskTypes == Spec => []TypeOK
<1>1. Inv => TypeOK
  BY DEF Inv
<1>. QED
  BY <1>1, Invariance, PTL

(* No interleaving loses an update of the counter.                         *)
THEOREM ActiveTasksAreExact == Spec => []ActiveTasksMatchThreads
<1>1. Inv => ActiveTasksMatchThreads
  BY DEF Inv, CountInv, Held, ActiveTasksMatchThreads
<1>. QED
  BY <1>1, Invariance, PTL

(* With the counter at zero no thread holds a task.                        *)
LEMMA ZeroHoldsNothing ==
    ASSUME Inv, active_tasks = 0
    PROVE  Held = {}
<1>1. Cardinality(Held) = 0
  BY HeldIsFinite DEF Inv, CountInv
<1>. QED
  BY <1>1, HeldIsFinite, FS_EmptySet

(* is_terminated is never true while an accepted task has no result.       *)
THEOREM TerminationIsTruthful == Spec => []TerminatedMeansSettled
<1>1. Inv => TerminatedMeansSettled
  <2>. SUFFICES ASSUME Inv, IsTerminated PROVE Service!Terminated
    BY DEF TerminatedMeansSettled
  <2>1. Held = {}
    BY ZeroHoldsNothing DEF IsTerminated
  <2>. QED
    BY <2>1 DEF Inv, StatusInv, Held, IsTerminated, Service!Terminated, Service!Pending
<1>. QED
  BY <1>1, Invariance, PTL

(* Once is_terminated is true it stays true: submit refuses, and there is  *)
(* no thread left that could change the counter.                           *)
THEOREM TerminationStays == Spec => TerminationIsFinal
<1>1. Inv /\ [Next]_vars => [IsTerminated => IsTerminated']_vars
  <2>. SUFFICES ASSUME Inv, Next, IsTerminated PROVE IsTerminated'
    BY DEF vars
  <2>1. \A t \in Tasks : pc[t] # "finish"
    BY ZeroHoldsNothing DEF Held, IsTerminated
  <2>. QED
    BY <2>1 DEF Next, ThreadStep, IsTerminated, Submit, SubmitPanics, Cancel,
       ThreadStarts, ThreadCompletes, ThreadFinishes, CheckTerminated, NotifyAll,
       Shutdown, AwaitTermination, SpuriousWakeup, Wait
<1>. QED
  BY <1>1, Invariance, PTL DEF Spec, TerminationIsFinal

-----------------------------------------------------------------------------
(* The service implements the contract of the trait ExecutorService: every *)
(* step is a step of the abstract service or leaves it alone.              *)
THEOREM PerTaskImplementsService == Spec => ImplementsService
<1>1. Init => Service!Init
  BY DEF Init, Service!Init
<1>2. Inv /\ [Next]_vars => [Service!Next]_(Service!vars)
  <2>. SUFFICES ASSUME Inv, [Next]_vars
                PROVE  Service!Next \/ UNCHANGED Service!vars
    OBVIOUS
  <2>. USE DEF Service!Next, Service!vars
  <2>1. ASSUME NEW c \in Clients, NEW t \in Tasks, Submit(c, t) \/ SubmitPanics(c, t)
        PROVE  Service!Submit(t)
    BY <2>1 DEF Submit, SubmitPanics, Service!Submit, Service!Becomes, Service!Pending
  <2>2. ASSUME NEW c \in Clients, NEW t \in Tasks, Cancel(c, t)
        PROVE  Service!Cancel(t)
    BY <2>2 DEF Cancel, Service!Cancel, Service!Becomes
  <2>3. ASSUME NEW t \in Tasks, ThreadStarts(t)
        PROVE  Service!Start(t) \/ UNCHANGED Service!vars
    BY <2>3 DEF ThreadStarts, Service!Start, Service!Becomes
  <2>4. ASSUME NEW t \in Tasks, ThreadCompletes(t)
        PROVE  Service!Complete(t)
    BY <2>4 DEF ThreadCompletes, Service!Complete, Service!Becomes, Inv, StatusInv
  <2>5. ASSUME NEW c \in Clients, Shutdown(c)
        PROVE  Service!RequestShutdown
    BY <2>5 DEF Shutdown, Service!RequestShutdown
  <2>6. ASSUME NEW t \in Tasks, ThreadFinishes(t)
        PROVE  UNCHANGED Service!vars
    BY <2>6 DEF ThreadFinishes
  <2>7. ASSUME NEW p \in Tasks \cup Clients, CheckTerminated(p) \/ NotifyAll(p)
        PROVE  UNCHANGED Service!vars
    BY <2>7 DEF CheckTerminated, NotifyAll
  <2>8. ASSUME NEW c \in Clients, AwaitTermination(c) \/ SpuriousWakeup(c) \/ Wait(c)
        PROVE  UNCHANGED Service!vars
    BY <2>8 DEF AwaitTermination, SpuriousWakeup, Wait
  <2>9. CASE UNCHANGED vars
    BY <2>9 DEF vars
  <2>. QED
    BY <2>1, <2>2, <2>3, <2>4, <2>5, <2>6, <2>7, <2>8, <2>9 DEF Next, ThreadStep
<1>. QED
  BY <1>1, <1>2, Invariance, PTL DEF Spec, ImplementsService, Service!Spec

=============================================================================
