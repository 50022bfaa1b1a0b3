----------------------------- MODULE RayonProofs -----------------------------
(***************************************************************************)
(* Proofs about RayonService, for every finite set of tasks and every set  *)
(* of clients.                                                             *)
(***************************************************************************)
EXTENDS RayonService, TLAPS, FiniteSetTheorems

(* What the state of a closure says about its task.                        *)
JobInv ==
    \A t \in Tasks :
        /\ status[t] \in {"new", "rejected"} <=> pc[t] = "none"
        /\ status[t] = "accepted" => pc[t] = "start"
        /\ pc[t] = "start" => status[t] \in {"accepted", "cancelled"}
        /\ status[t] = "running" <=> pc[t] \in {"remove", "dequeue", "run"}
        /\ pc[t] = "finish" => status[t] = "completed"

HookStates == {"remove", "dequeue", "finish"}

(* A client in a cancel hook has won the race for its task, alone.         *)
HookInv ==
    \A c \in Clients : pc[c] \in HookStates =>
        /\ subject[c] \in Tasks /\ status[subject[c]] = "cancelled"
        /\ \A d \in Clients : pc[d] \in HookStates /\ subject[d] = subject[c] => d = c

Collecting == {"read_queued", "read_active", "drain"}

(* shutdown_now: before it drains it has no hooks; once it has drained,    *)
(* nothing is pending any more.                                            *)
StopInv ==
    \A c \in Clients :
        /\ pc[c] \in Collecting => stopping[c] /\ batch[c] = {}
        /\ pc[c] = "cancel" => stopping[c]
        /\ stopping[c] => /\ shutdown
                          /\ pc[c] \notin {"idle", "tested", "waiting", "woken"}
        /\ batch[c] # {} => stopping[c]
        /\ stopping[c] /\ pc[c] \notin Collecting => pending_tasks = {}

(* The hook of a task that has not started is registered, or in the hands  *)
(* of a shutdown_now.                                                      *)
PendingInv ==
    \A t \in Tasks : status[t] = "accepted" =>
        t \in pending_tasks \/ \E c \in Clients : t \in batch[c]

(* The two sets the counters count; CountersMatchTasks, without Subject.   *)
Queued ==
    {t \in Tasks :
        \/ status[t] = "accepted"
        \/ pc[t] \in {"remove", "dequeue"}
        \/ \E c \in Clients : pc[c] \in {"remove", "dequeue"} /\ subject[c] = t}
Active ==
    {t \in Tasks :
        \/ status[t] \in {"accepted", "running"}
        \/ pc[t] \in {"remove", "dequeue", "finish"}
        \/ \E c \in Clients : pc[c] \in HookStates /\ subject[c] = t}

CountInv == queued_tasks = Cardinality(Queued) /\ active_tasks = Cardinality(Active)

Submitted == {t \in Tasks : status[t] \notin {"new", "rejected"}}

(* What shutdown_now may still cancel.                                     *)
ToCancel(c) == {t \in batch[c] : status[t] = "accepted"}

(* What is cancelled and what still may be were all queued when the report *)
(* was begun; from then on the queued count only falls.                    *)
ReportOf(c) ==
    /\ report[c].cancelled + Cardinality(ToCancel(c)) <= report[c].queued
    /\ report[c].queued + report[c].running <= Cardinality(Submitted)
    /\ pc[c] \in {"read_active", "drain"} =>
         queued_tasks <= report[c].queued /\ report[c].cancelled = 0
    /\ report[c].running > 0 => shutdown /\ queued_tasks <= report[c].queued

ReportInv == \A c \in Clients : ReportOf(c)

(* The control state, and all of it.                                       *)
Control == TypeOK /\ JobInv /\ HookInv /\ StopInv /\ PendingInv
Inv == Control /\ CountInv /\ ReportInv

-----------------------------------------------------------------------------
LEMMA SetsAreFinite ==
    /\ IsFiniteSet(Queued) /\ Cardinality(Queued) \in Nat
    /\ IsFiniteSet(Active) /\ Cardinality(Active) \in Nat
    /\ IsFiniteSet(Submitted) /\ Cardinality(Submitted) \in Nat
<1>1. Queued \in SUBSET Tasks /\ Active \in SUBSET Tasks /\ Submitted \in SUBSET Tasks
  BY DEF Queued, Active, Submitted
<1>. QED
  BY <1>1, RayonAssumption, FS_Subset, FS_CardinalityType

LEMMA Initially == Init => Inv
<1>. SUFFICES ASSUME Init PROVE Inv
  OBVIOUS
<1>0. Tasks \cap Clients = {}
  BY RayonAssumption
<1>1. TypeOK
  BY <1>0 DEF Init, TypeOK, Processes, JobStates, ClientStates,
     Service!Statuses, Service!Pending, Service!Settled
<1>2. JobInv /\ HookInv /\ StopInv /\ PendingInv
  BY <1>0 DEF Init, JobInv, HookInv, StopInv, PendingInv, Processes, HookStates, Collecting
<1>3. Queued = {} /\ Active = {}
  BY <1>0 DEF Init, Queued, Active, Processes, HookStates
<1>4. CountInv
  BY <1>3, FS_EmptySet DEF Init, CountInv
<1>5. ASSUME NEW c \in Clients
      PROVE  /\ report[c].cancelled + Cardinality(ToCancel(c)) <= report[c].queued
             /\ report[c].queued + report[c].running <= Cardinality(Submitted)
             /\ pc[c] \notin {"read_active", "drain"}
             /\ ~(report[c].running > 0)
  <2>1. ToCancel(c) = {}
    BY DEF Init, ToCancel
  <2>2. Cardinality(ToCancel(c)) = 0
    BY <2>1, FS_EmptySet
  <2>3. /\ report[c].cancelled = 0 /\ report[c].queued = 0 /\ report[c].running = 0
        /\ pc[c] = "idle"
    BY <1>0 DEF Init, Processes
  <2>. QED
    BY <2>2, <2>3, SetsAreFinite
<1>6. ReportInv
  BY <1>5 DEF ReportInv, ReportOf
<1>. QED
  BY <1>1, <1>2, <1>4, <1>6 DEF Inv, Control

-----------------------------------------------------------------------------
(* The counters, one step per action.                                      *)

LEMMA SameCounts ==
    ASSUME CountInv, Queued' = Queued, Active' = Active,
           UNCHANGED <<queued_tasks, active_tasks>>
    PROVE  CountInv'
BY DEF CountInv

LEMMA CountStep ==
    ASSUME Inv, [Next]_vars
    PROVE  CountInv'
<1>. USE RayonAssumption
<1>. USE DEF Inv, Control, TypeOK, JobInv, HookInv, Processes, JobStates, ClientStates,
             HookStates, Service!Statuses, Service!Pending, Service!Settled, state, stop
<1>1. ASSUME NEW c \in Clients, NEW t \in Tasks, Submit(c, t)
      PROVE  CountInv'
  <2>1. CASE shutdown
    <3>1. Queued' = Queued /\ Active' = Active
      BY <1>1, <2>1 DEF Submit, Queued, Active
    <3>. QED
      BY <3>1, <1>1, <2>1, SameCounts DEF Submit
  <2>2. CASE ~shutdown
    <3>1. t \notin Queued /\ t \notin Active
      BY <1>1 DEF Submit, Queued, Active
    <3>2. Queued' = Queued \cup {t} /\ Active' = Active \cup {t}
      BY <1>1, <2>2 DEF Submit, Goto, Queued, Active
    <3>3. /\ Cardinality(Queued') = Cardinality(Queued) + 1
          /\ Cardinality(Active') = Cardinality(Active) + 1
      BY <3>1, <3>2, SetsAreFinite, FS_AddElement
    <3>. QED
      BY <3>3, <1>1, <2>2 DEF Submit, CountInv
  <2>. QED
    BY <2>1, <2>2
<1>2. ASSUME NEW t \in Tasks, JobStarts(t) \/ JobCompletes(t)
      PROVE  CountInv'
  <2>1. Queued' = Queued
    BY <1>2 DEF JobStarts, JobCompletes, Goto, Queued
  <2>2. Active' = Active
    BY <1>2 DEF JobStarts, JobCompletes, Goto, Active
  <2>. QED
    BY <1>2, <2>1, <2>2, SameCounts DEF JobStarts, JobCompletes
<1>3. ASSUME NEW p \in Processes, RemovePending(p)
      PROVE  CountInv'
  <2>1. Queued' = Queued /\ Active' = Active
    BY <1>3 DEF RemovePending, Goto, Queued, Active
  <2>. QED
    BY <1>3, <2>1, SameCounts DEF RemovePending
<1>4. ASSUME NEW p \in Processes, Dequeue(p)
      PROVE  CountInv'
  <2>1. Subject(p) \in Queued
    BY <1>4 DEF Dequeue, Queued, Subject
  <2>2. Queued' = Queued \ {Subject(p)}
    BY <1>4 DEF Dequeue, Goto, Queued, Subject
  <2>3. Active' = Active
    BY <1>4 DEF Dequeue, Goto, Active
  <2>4. Cardinality(Queued') = Cardinality(Queued) - 1
    BY <2>1, <2>2, SetsAreFinite, FS_RemoveElement
  <2>. QED
    BY <2>3, <2>4, <1>4 DEF Dequeue, CountInv
<1>5. ASSUME NEW p \in Processes, Finish(p)
      PROVE  CountInv'
  <2>0. /\ \A q \in Processes \ {p} : pc'[q] = pc[q]
        /\ \A c \in Clients \ {p} : subject'[c] = subject[c]
        /\ pc[p] = "finish" /\ pc'[p] \notin HookStates /\ status' = status
    BY <1>5 DEF Finish, Goto, Over
  <2>1. Subject(p) \in Active
    BY <1>5 DEF Finish, Active, Subject
  <2>2. Active' = Active \ {Subject(p)}
    <3>1. ASSUME NEW t \in Tasks \ {Subject(p)} PROVE t \in Active' <=> t \in Active
      <4>1. t # p => pc'[t] = pc[t]
        BY <2>0
      <4>2. p \in Tasks => t # p
        BY DEF Subject
      <4>3. ASSUME NEW c \in Clients
            PROVE  pc'[c] \in HookStates /\ subject'[c] = t
                     <=> pc[c] \in HookStates /\ subject[c] = t
        <5>1. CASE c = p
          BY <2>0, <5>1 DEF Subject
        <5>2. CASE c # p
          BY <2>0, <5>2
        <5>. QED
          BY <5>1, <5>2
      <4>4. t # p
        BY <4>2
      <4>. QED
        BY <2>0, <4>1, <4>3, <4>4 DEF Active
    <3>2. Subject(p) \notin Active'
      BY <2>0 DEF Active, Subject
    <3>. QED
      BY <3>1, <3>2 DEF Active
  <2>3. Queued' = Queued
    <3>1. \A q \in Processes : pc'[q] \in {"remove", "dequeue"} <=> pc[q] \in {"remove", "dequeue"}
      BY <2>0
    <3>2. \A c \in Clients : pc[c] \in {"remove", "dequeue"} => subject'[c] = subject[c]
      BY <2>0
    <3>3. ASSUME NEW t \in Tasks PROVE t \in Queued' <=> t \in Queued
      BY <2>0, <3>1, <3>2 DEF Queued
    <3>. QED
      BY <3>3 DEF Queued
  <2>4. Cardinality(Active') = Cardinality(Active) - 1
    <3>1. Cardinality(Active \ {Subject(p)}) = Cardinality(Active) - 1
      BY <2>1, SetsAreFinite, FS_RemoveElement
    <3>. QED
      BY <2>2, <3>1
  <2>. QED
    BY <2>3, <2>4, <1>5 DEF Finish, CountInv
<1>6. ASSUME NEW p \in Processes, CheckTerminated(p) \/ NotifyWaiters(p)
      PROVE  CountInv'
  <2>0. /\ \A q \in Processes : pc'[q] \in HookStates <=> pc[q] \in HookStates
        /\ \A q \in Processes : pc[q] \in HookStates => pc'[q] = pc[q]
        /\ UNCHANGED <<status, subject>>
    BY <1>6 DEF CheckTerminated, NotifyWaiters, Goto, Over
  <2>1. Queued' = Queued /\ Active' = Active
    BY <2>0 DEF Queued, Active
  <2>. QED
    BY <1>6, <2>1, SameCounts DEF CheckTerminated, NotifyWaiters
<1>7. ASSUME NEW c \in Clients, NEW t \in Tasks, CancelHook(c, t),
             pc[c] \in {"idle", "cancel"}, UNCHANGED <<queued_tasks, active_tasks>>
      PROVE  CountInv'
  <2>1. Queued' = Queued /\ Active' = Active
    BY <1>7 DEF CancelHook, Goto, Queued, Active
  <2>. QED
    BY <1>7, <2>1, SameCounts
<1>8. ASSUME NEW c \in Clients, NEW t \in Tasks, Cancel(c, t) \/ CancelNext(c, t)
      PROVE  CountInv'
  <2>1. CASE CancelHook(c, t)
    BY <1>7, <1>8, <2>1 DEF Cancel, CancelNext
  <2>2. CASE UNCHANGED <<status, pc, subject>>
    <3>1. Queued' = Queued /\ Active' = Active
      BY <2>2 DEF Queued, Active
    <3>. QED
      BY <1>8, <3>1, SameCounts DEF Cancel, CancelNext
  <2>. QED
    BY <1>8, <2>1, <2>2 DEF Cancel, CancelNext
<1>9. ASSUME NEW c \in Clients,
             \/ Shutdown(c) \/ ShutdownNow(c) \/ ReadQueued(c) \/ ReadActive(c)
             \/ DrainPending(c) \/ CancelledAll(c)
             \/ AwaitTermination(c) \/ Wait(c) \/ DropFuture(c)
      PROVE  CountInv'
  <2>1. /\ pc[c] \notin HookStates
        /\ \E s \in ClientStates \ HookStates : pc' = [pc EXCEPT ![c] = s]
    <3>1. CASE Shutdown(c) \/ ShutdownNow(c) \/ ReadQueued(c) \/ ReadActive(c)
      BY <3>1 DEF Shutdown, ShutdownNow, ReadQueued, ReadActive, Goto
    <3>2. CASE DrainPending(c) \/ CancelledAll(c) \/ AwaitTermination(c) \/ Wait(c) \/ DropFuture(c)
      BY <3>2 DEF DrainPending, CancelledAll, AwaitTermination, Wait, DropFuture, Goto
    <3>. QED
      BY <1>9, <3>1, <3>2
  <2>2. UNCHANGED <<status, subject, queued_tasks, active_tasks>>
    BY <1>9 DEF Shutdown, ShutdownNow, ReadQueued, ReadActive, DrainPending, CancelledAll,
       AwaitTermination, Wait, DropFuture
  <2>3. /\ pc'[c] \notin HookStates
        /\ \A q \in Processes \ {c} : pc'[q] = pc[q]
    BY <2>1
  <2>4. Queued' = Queued /\ Active' = Active
    BY <2>1, <2>2, <2>3 DEF Queued, Active
  <2>. QED
    BY <2>2, <2>4, SameCounts
<1>10. CASE UNCHANGED vars
  BY <1>10, SameCounts DEF vars, Queued, Active
<1>. QED
  BY <1>1, <1>2, <1>3, <1>4, <1>5, <1>6, <1>8, <1>9, <1>10
     DEF Next, JobStep, ClientStep, ProcessStep

-----------------------------------------------------------------------------
(* The control state, one step per action.                                 *)

LEMMA ControlStep ==
    ASSUME Inv, [Next]_vars, CountInv'
    PROVE  Control'
<1>. USE RayonAssumption
<1>0. queued_tasks' \in Nat /\ active_tasks' \in Nat
  <2>1. Queued' \in SUBSET Tasks /\ Active' \in SUBSET Tasks
    BY DEF Queued, Active
  <2>2. Cardinality(Queued') \in Nat /\ Cardinality(Active') \in Nat
    BY <2>1, FS_Subset, FS_CardinalityType
  <2>. QED
    BY <2>2 DEF CountInv
<1>. USE DEF Inv, Control, TypeOK, JobInv, HookInv, StopInv, PendingInv, Processes, JobStates,
             ClientStates, HookStates, Collecting, Service!Statuses, Service!Pending,
             Service!Settled, state, stop
<1>1. ASSUME NEW c \in Clients, NEW t \in Tasks, Submit(c, t)
      PROVE  Control'
  <2>1. TypeOK'
    BY <1>0, <1>1 DEF Submit, Goto
  <2>2. JobInv'
    BY <1>0, <1>1 DEF Submit, Goto
  <2>3. HookInv'
    BY <1>0, <1>1 DEF Submit, Goto
  <2>4. StopInv'
    BY <1>0, <1>1 DEF Submit, Goto
  <2>5. PendingInv'
    BY <1>0, <1>1 DEF Submit, Goto
  <2>. QED
    BY <2>1, <2>2, <2>3, <2>4, <2>5
<1>2. ASSUME NEW t \in Tasks, JobStarts(t) \/ JobCompletes(t)
      PROVE  Control'
  <2>1. TypeOK'
    <3>1. PICK s \in {"remove", "exited", "finish"} : pc' = [pc EXCEPT ![t] = s]
      BY <1>2 DEF JobStarts, JobCompletes, Goto
    <3>2. status' \in [Tasks -> Service!Statuses] /\ UNCHANGED <<state, subject, stop>>
      BY <1>2 DEF JobStarts, JobCompletes
    <3>. QED
      BY <3>1, <3>2
  <2>2. JobInv'
    BY <1>0, <1>2 DEF JobStarts, JobCompletes, Goto
  <2>3. HookInv'
    BY <1>0, <1>2 DEF JobStarts, JobCompletes, Goto
  <2>4. StopInv'
    BY <1>0, <1>2 DEF JobStarts, JobCompletes, Goto
  <2>5. PendingInv'
    BY <1>0, <1>2 DEF JobStarts, JobCompletes, Goto
  <2>. QED
    BY <2>1, <2>2, <2>3, <2>4, <2>5
<1>3. ASSUME NEW p \in Processes, RemovePending(p)
      PROVE  Control'
  <2>1. TypeOK'
    BY <1>0, <1>3 DEF RemovePending, Goto
  <2>2. JobInv'
    BY <1>0, <1>3 DEF RemovePending, Goto
  <2>3. HookInv'
    BY <1>0, <1>3 DEF RemovePending, Goto
  <2>4. StopInv'
    BY <1>0, <1>3 DEF RemovePending, Goto
  <2>5. PendingInv'
    BY <1>0, <1>3 DEF RemovePending, Goto, Subject
  <2>. QED
    BY <2>1, <2>2, <2>3, <2>4, <2>5
<1>4. ASSUME NEW p \in Processes, Dequeue(p)
      PROVE  Control'
  <2>1. TypeOK'
    BY <1>0, <1>4 DEF Dequeue, Goto
  <2>2. JobInv'
    BY <1>0, <1>4 DEF Dequeue, Goto
  <2>3. HookInv'
    BY <1>0, <1>4 DEF Dequeue, Goto
  <2>4. StopInv'
    BY <1>0, <1>4 DEF Dequeue, Goto
  <2>5. PendingInv'
    BY <1>0, <1>4 DEF Dequeue, Goto
  <2>. QED
    BY <2>1, <2>2, <2>3, <2>4, <2>5
<1>5. ASSUME NEW p \in Processes, Finish(p)
      PROVE  Control'
  BY <1>0, <1>5 DEF Finish, Goto, Over
<1>6. ASSUME NEW p \in Processes, CheckTerminated(p)
      PROVE  Control'
  <2>1. TypeOK'
    <3>1. CASE IsTerminated
      <4>1. pc' = [pc EXCEPT ![p] = "notify"]
        BY <1>6, <3>1 DEF CheckTerminated, Goto
      <4>2. UNCHANGED <<state, status, subject, stop>>
        BY <1>6, <3>1 DEF CheckTerminated
      <4>. QED
        BY <4>1, <4>2
    <3>2. CASE ~IsTerminated
      <4>1. submission_lock' \in Clients \cup {Nobody}
        BY <1>6, <3>2 DEF CheckTerminated, Unlock
      <4>2. PICK s \in {"exited", "cancel", "idle"} :
              s = Over(p) /\ (p \in Tasks <=> s = "exited")
        BY DEF Over
      <4>3. pc' = [pc EXCEPT ![p] = s]
        BY <1>6, <3>2, <4>2 DEF CheckTerminated, Goto
      <4>. QED
        BY <4>1, <4>2, <4>3, <1>6 DEF CheckTerminated
    <3>. QED
      BY <3>1, <3>2
  <2>2. JobInv'
    BY <1>0, <1>6 DEF CheckTerminated, Goto, Over, Unlock
  <2>3. HookInv'
    BY <1>0, <1>6 DEF CheckTerminated, Goto, Over, Unlock
  <2>4. StopInv'
    BY <1>0, <1>6 DEF CheckTerminated, Goto, Over, Unlock
  <2>5. PendingInv'
    BY <1>0, <1>6 DEF CheckTerminated, Goto, Over, Unlock
  <2>. QED
    BY <2>1, <2>2, <2>3, <2>4, <2>5
<1>7. ASSUME NEW p \in Processes, NotifyWaiters(p)
      PROVE  Control'
  BY <1>0, <1>7 DEF NotifyWaiters, Over, Unlock
<1>8. ASSUME NEW c \in Clients, NEW t \in Tasks, Cancel(c, t)
      PROVE  Control'
  BY <1>0, <1>8 DEF Cancel, CancelHook, Goto
<1>9. ASSUME NEW c \in Clients, NEW t \in Tasks, CancelNext(c, t)
      PROVE  Control'
  <2>0. report' \in [Clients -> [queued : Nat, running : Nat, cancelled : Nat]]
    <3>. DEFINE n == report[c].cancelled + 1
    <3>1. report \in [Clients -> [queued : Nat, running : Nat, cancelled : Nat]] /\ n \in Nat
      OBVIOUS
    <3>2. report' = report \/ report' = [report EXCEPT ![c].cancelled = n]
      BY <1>9 DEF CancelNext
    <3>. HIDE DEF n, Inv, Control, CountInv, ReportInv, TypeOK
    <3>. QED
      BY <3>1, <3>2
  <2>1. TypeOK'
    <3>1. CASE CancelHook(c, t)
      <4>1. pc' = [pc EXCEPT ![c] = "remove"] /\ subject' = [subject EXCEPT ![c] = t]
        BY <3>1 DEF CancelHook, Goto
      <4>2. status' \in [Tasks -> Service!Statuses]
        BY <3>1 DEF CancelHook
      <4>3. batch' \in [Clients -> SUBSET Tasks] /\ UNCHANGED <<state, stopping>>
        BY <1>9 DEF CancelNext
      <4>. QED
        BY <1>0, <2>0, <4>1, <4>2, <4>3
    <3>2. CASE UNCHANGED <<status, pc, subject>>
      BY <1>0, <1>9, <2>0, <3>2 DEF CancelNext
    <3>. QED
      BY <1>9, <3>1, <3>2 DEF CancelNext
  <2>2. JobInv'
    BY <1>0, <1>9 DEF CancelNext, CancelHook, Goto
  <2>3. HookInv'
    BY <1>0, <1>9 DEF CancelNext, CancelHook, Goto
  <2>4. StopInv'
    BY <1>0, <1>9 DEF CancelNext, CancelHook, Goto
  <2>5. PendingInv'
    BY <1>0, <1>9 DEF CancelNext, CancelHook, Goto
  <2>. QED
    BY <2>1, <2>2, <2>3, <2>4, <2>5
<1>10. ASSUME NEW c \in Clients, Shutdown(c) \/ ShutdownNow(c)
       PROVE  Control'
  <2>1. TypeOK'
    <3>1. CASE Shutdown(c)
      BY <3>1 DEF Shutdown, Goto
    <3>2. CASE ShutdownNow(c)
      BY <3>2 DEF ShutdownNow, Goto
    <3>. QED
      BY <1>10, <3>1, <3>2
  <2>2. JobInv'
    BY <1>0, <1>10 DEF Shutdown, ShutdownNow, Goto
  <2>3. HookInv'
    BY <1>0, <1>10 DEF Shutdown, ShutdownNow, Goto
  <2>4. StopInv'
    BY <1>0, <1>10 DEF Shutdown, ShutdownNow, Goto
  <2>5. PendingInv'
    BY <1>0, <1>10 DEF Shutdown, ShutdownNow, Goto
  <2>. QED
    BY <2>1, <2>2, <2>3, <2>4, <2>5
<1>11. ASSUME NEW c \in Clients, ReadQueued(c) \/ ReadActive(c)
       PROVE  Control'
  <2>0. report' \in [Clients -> [queued : Nat, running : Nat, cancelled : Nat]]
    <3>1. CASE ReadQueued(c)
      <4>. DEFINE r == [report EXCEPT ![c].queued = queued_tasks]
      <4>1. r \in [Clients -> [queued : Nat, running : Nat, cancelled : Nat]]
        OBVIOUS
      <4>2. report' = [r EXCEPT ![c].cancelled = 0]
        BY <3>1 DEF ReadQueued
      <4>. HIDE DEF r
      <4>. QED
        BY <4>1, <4>2
    <3>2. CASE ReadActive(c)
      <4>. DEFINE r == IF active_tasks > report[c].queued
                       THEN active_tasks - report[c].queued ELSE 0
      <4>0. active_tasks \in Nat /\ report[c].queued \in Nat
        OBVIOUS
      <4>1. r \in Nat
        BY <4>0
      <4>2. report' = [report EXCEPT ![c].running = r]
        BY <3>2 DEF ReadActive
      <4>. HIDE DEF r
      <4>. QED
        BY <4>1, <4>2
    <3>. QED
      BY <1>11, <3>1, <3>2
  <2>1. TypeOK'
    <3>1. CASE ReadQueued(c)
      BY <2>0, <3>1 DEF ReadQueued, Goto
    <3>2. CASE ReadActive(c)
      BY <2>0, <3>2 DEF ReadActive, Goto
    <3>. QED
      BY <1>11, <3>1, <3>2
  <2>2. JobInv'
    BY <1>0, <1>11 DEF ReadQueued, ReadActive, Goto
  <2>3. HookInv'
    BY <1>0, <1>11 DEF ReadQueued, ReadActive, Goto
  <2>4. StopInv'
    BY <1>0, <1>11 DEF ReadQueued, ReadActive, Goto
  <2>5. PendingInv'
    BY <1>0, <1>11 DEF ReadQueued, ReadActive, Goto
  <2>. QED
    BY <2>1, <2>2, <2>3, <2>4, <2>5
<1>12. ASSUME NEW c \in Clients, DrainPending(c)
       PROVE  Control'
  <2>1. TypeOK'
    BY <1>0, <1>12 DEF DrainPending, Goto, Unlock
  <2>2. JobInv'
    BY <1>0, <1>12 DEF DrainPending, Goto, Unlock
  <2>3. HookInv'
    BY <1>0, <1>12 DEF DrainPending, Goto, Unlock
  <2>4. StopInv'
    BY <1>0, <1>12 DEF DrainPending, Goto, Unlock
  <2>5. PendingInv'
    BY <1>0, <1>12 DEF DrainPending, Goto, Unlock
  <2>. QED
    BY <2>1, <2>2, <2>3, <2>4, <2>5
<1>13. ASSUME NEW c \in Clients, CancelledAll(c)
       PROVE  Control'
  <2>1. TypeOK'
    BY <1>0, <1>13 DEF CancelledAll, Goto
  <2>2. JobInv'
    BY <1>0, <1>13 DEF CancelledAll, Goto
  <2>3. HookInv'
    BY <1>0, <1>13 DEF CancelledAll, Goto
  <2>4. StopInv'
    BY <1>0, <1>13 DEF CancelledAll, Goto
  <2>5. PendingInv'
    BY <1>0, <1>13 DEF CancelledAll, Goto
  <2>. QED
    BY <2>1, <2>2, <2>3, <2>4, <2>5
<1>14. ASSUME NEW c \in Clients, AwaitTermination(c) \/ Wait(c) \/ DropFuture(c)
       PROVE  Control'
  BY <1>0, <1>14 DEF AwaitTermination, Wait, DropFuture, Goto
<1>15. CASE UNCHANGED vars
  BY <1>15 DEF vars
<1>. QED
  BY <1>1, <1>2, <1>3, <1>4, <1>5, <1>6, <1>7, <1>8, <1>9, <1>10, <1>11, <1>12, <1>13,
     <1>14, <1>15 DEF Next, JobStep, ClientStep, ProcessStep

-----------------------------------------------------------------------------
(* The reports, one step per action.                                       *)

LEMMA SubsetCount ==
    ASSUME NEW S \in SUBSET Tasks, NEW T \in SUBSET S
    PROVE  /\ Cardinality(S) \in Nat /\ Cardinality(T) \in Nat
           /\ Cardinality(T) <= Cardinality(S)
<1>1. IsFiniteSet(S) /\ IsFiniteSet(T)
  BY RayonAssumption, FS_Subset
<1>. QED
  BY <1>1, FS_Subset, FS_CardinalityType

LEMMA ReportType ==
    ASSUME TypeOK, NEW c \in Clients
    PROVE  /\ report[c].queued \in Nat /\ report[c].running \in Nat
           /\ report[c].cancelled \in Nat /\ queued_tasks \in Nat /\ active_tasks \in Nat
           /\ ToCancel(c) \in SUBSET Tasks /\ Submitted \in SUBSET Tasks
BY DEF TypeOK, ToCancel, Submitted

LEMMA CountedAreSubmitted ==
    ASSUME Control
    PROVE  Queued \in SUBSET Submitted /\ Active \in SUBSET Submitted
BY DEF Control, TypeOK, JobInv, HookInv, HookStates, Queued, Active, Submitted

LEMMA ReportKept ==
    ASSUME Inv, Control', NEW c \in Clients,
           report'[c] = report[c],
           ToCancel(c)' \subseteq ToCancel(c),
           Submitted \subseteq Submitted',
           shutdown => shutdown' /\ queued_tasks' <= queued_tasks,
           pc'[c] \in {"read_active", "drain"} => pc[c] \in {"read_active", "drain"}
    PROVE  ReportOf(c)'
<1>1. /\ report[c].queued \in Nat /\ report[c].running \in Nat
      /\ report[c].cancelled \in Nat /\ queued_tasks \in Nat
  BY ReportType DEF Inv, Control
<1>2. queued_tasks' \in Nat
  BY DEF Control, TypeOK
<1>3. /\ Cardinality(ToCancel(c)) \in Nat /\ Cardinality(ToCancel(c)') \in Nat
      /\ Cardinality(ToCancel(c)') <= Cardinality(ToCancel(c))
  BY SubsetCount, ReportType DEF Inv, Control
<1>4. Submitted' \in SUBSET Tasks
  BY DEF Submitted
<1>5. /\ Cardinality(Submitted) \in Nat /\ Cardinality(Submitted') \in Nat
      /\ Cardinality(Submitted) <= Cardinality(Submitted')
  BY <1>4, SubsetCount
<1>6. pc[c] \in {"read_active", "drain"} => shutdown
  BY DEF Inv, Control, StopInv, Collecting
<1>7. ReportOf(c)
  BY DEF Inv, ReportInv
<1>. QED
  BY <1>1, <1>2, <1>3, <1>5, <1>6, <1>7 DEF ReportOf

LEMMA ReportStep ==
    ASSUME Inv, [Next]_vars, Control', CountInv'
    PROVE  ReportInv'
<1>. USE RayonAssumption
<1>1. Submitted \subseteq Submitted'
  <2>. USE DEF Inv, Control, TypeOK, JobInv, Submitted, state, vars
  <2>1. ASSUME NEW c \in Clients, NEW t \in Tasks, Submit(c, t)
        PROVE  Submitted \subseteq Submitted'
    BY <2>1 DEF Submit
  <2>2. ASSUME NEW t \in Tasks, JobStarts(t) \/ JobCompletes(t)
        PROVE  Submitted \subseteq Submitted'
    BY <2>2 DEF JobStarts, JobCompletes
  <2>3. ASSUME NEW c \in Clients, NEW t \in Tasks, Cancel(c, t) \/ CancelNext(c, t)
        PROVE  Submitted \subseteq Submitted'
    BY <2>3 DEF Cancel, CancelNext, CancelHook
  <2>4. CASE UNCHANGED status
    BY <2>4
  <2>. QED
    BY <2>1, <2>2, <2>3, <2>4 DEF Next, JobStep, ClientStep, ProcessStep, RemovePending, Dequeue,
       Finish, CheckTerminated, NotifyWaiters, ReadQueued, ReadActive, DrainPending,
       CancelledAll, Wait, Shutdown, ShutdownNow, AwaitTermination, DropFuture
<1>2. shutdown => shutdown' /\ queued_tasks' <= queued_tasks
  <2>0. queued_tasks \in Nat
    BY DEF Inv, Control, TypeOK
  <2>1. ASSUME NEW p \in Processes, ProcessStep(p)
        PROVE  shutdown' = shutdown /\ queued_tasks' <= queued_tasks
    BY <2>0, <2>1 DEF ProcessStep, RemovePending, Dequeue, Finish, CheckTerminated, NotifyWaiters
  <2>2. ASSUME NEW c \in Clients, Shutdown(c) \/ ShutdownNow(c)
        PROVE  shutdown' /\ queued_tasks' <= queued_tasks
    BY <2>0, <2>2 DEF Shutdown, ShutdownNow
  <2>3. ASSUME NEW c \in Clients, NEW t \in Tasks, Submit(c, t), shutdown
        PROVE  shutdown' /\ queued_tasks' <= queued_tasks
    BY <2>0, <2>3 DEF Submit
  <2>4. ASSUME UNCHANGED state
        PROVE  shutdown' = shutdown /\ queued_tasks' <= queued_tasks
    BY <2>0, <2>4 DEF state
  <2>5. ASSUME NEW c \in Clients, DrainPending(c)
        PROVE  shutdown' = shutdown /\ queued_tasks' <= queued_tasks
    BY <2>0, <2>5 DEF DrainPending
  <2>. QED
    BY <2>1, <2>2, <2>3, <2>4, <2>5, Zenon DEF Next, JobStep, ClientStep, Cancel, JobStarts,
       JobCompletes, ReadQueued, ReadActive, CancelNext, CancelledAll, Wait, AwaitTermination,
       DropFuture, Processes, vars
<1>. DEFINE Keeps(c) ==
       /\ report'[c] = report[c]
       /\ ToCancel(c)' \subseteq ToCancel(c)
       /\ pc'[c] \in {"read_active", "drain"} => pc[c] \in {"read_active", "drain"}
<1>3. ASSUME NEW c \in Clients, Keeps(c)
      PROVE  ReportOf(c)'
  BY <1>1, <1>2, <1>3, ReportKept
<1>. USE DEF Inv, Control, TypeOK, Processes, state, stop
<1>4. ASSUME NEW c \in Clients, NEW t \in Tasks, Submit(c, t), NEW d \in Clients
      PROVE  Keeps(d)
  BY <1>4 DEF Submit, Goto, ToCancel, StopInv
<1>5. ASSUME NEW t \in Tasks, JobStarts(t) \/ JobCompletes(t), NEW d \in Clients
      PROVE  Keeps(d)
  BY <1>5 DEF JobStarts, JobCompletes, Goto, ToCancel
<1>6. ASSUME NEW p \in Processes, ProcessStep(p), NEW d \in Clients
      PROVE  Keeps(d)
  <2>1. UNCHANGED <<status, batch, report>>
    BY <1>6 DEF ProcessStep, RemovePending, Dequeue, Finish, CheckTerminated, NotifyWaiters
  <2>2. CASE NotifyWaiters(p)
    BY <2>1, <2>2 DEF NotifyWaiters, Over, ToCancel
  <2>3. CASE RemovePending(p) \/ Dequeue(p)
    BY <2>1, <2>3 DEF RemovePending, Dequeue, Goto, ToCancel
  <2>4. CASE Finish(p) \/ CheckTerminated(p)
    BY <2>1, <2>4 DEF Finish, CheckTerminated, Goto, Over, ToCancel
  <2>. QED
    BY <1>6, <2>2, <2>3, <2>4 DEF ProcessStep
<1>7. ASSUME NEW c \in Clients, NEW t \in Tasks, Cancel(c, t), NEW d \in Clients
      PROVE  Keeps(d)
  BY <1>7 DEF Cancel, CancelHook, Goto, ToCancel
<1>8. ASSUME NEW c \in Clients, NEW d \in Clients,
             \/ Shutdown(c) \/ ShutdownNow(c) \/ CancelledAll(c)
             \/ AwaitTermination(c) \/ Wait(c) \/ DropFuture(c)
      PROVE  Keeps(d)
  BY <1>8 DEF Shutdown, ShutdownNow, CancelledAll, AwaitTermination, Wait, DropFuture, Goto,
     ToCancel
<1>9. ASSUME NEW c \in Clients, NEW d \in Clients \ {c},
             ReadQueued(c) \/ ReadActive(c) \/ DrainPending(c) \/ \E t \in Tasks : CancelNext(c, t)
      PROVE  Keeps(d)
  <2>1. CASE ReadQueued(c) \/ ReadActive(c)
    BY <2>1 DEF ReadQueued, ReadActive, Goto, ToCancel
  <2>2. CASE DrainPending(c)
    BY <2>2 DEF DrainPending, Goto, ToCancel
  <2>3. ASSUME NEW t \in Tasks, CancelNext(c, t)
        PROVE  Keeps(d)
    BY <2>3 DEF CancelNext, CancelHook, Goto, ToCancel
  <2>. QED
    BY <1>9, <2>1, <2>2, <2>3
<1>count. /\ Cardinality(Queued) <= Cardinality(Submitted)
          /\ Cardinality(Active) <= Cardinality(Submitted)
          /\ Cardinality(Submitted) \in Nat
  BY CountedAreSubmitted, SubsetCount DEF Submitted
<1>10. ASSUME NEW c \in Clients, ReadQueued(c)
       PROVE  ReportOf(c)'
  <2>1. /\ report'[c].queued = queued_tasks /\ report'[c].cancelled = 0
        /\ report'[c].running = report[c].running
    BY <1>10 DEF ReadQueued
  <2>2. /\ UNCHANGED <<queued_tasks, shutdown>> /\ shutdown
        /\ ToCancel(c)' = {} /\ Submitted' = Submitted
    BY <1>10 DEF ReadQueued, ToCancel, Submitted, StopInv, Collecting
  <2>3. Cardinality(ToCancel(c)') = 0
    BY <2>2, FS_EmptySet
  <2>4. ReportOf(c) /\ queued_tasks = Cardinality(Queued)
    BY DEF ReportInv, CountInv
  <2>5. report[c].queued \in Nat /\ report[c].running \in Nat /\ queued_tasks \in Nat
    BY ReportType
  <2>. HIDE DEF Inv, Control, TypeOK
  <2>. QED
    BY <1>count, <2>1, <2>2, <2>3, <2>4, <2>5 DEF ReportOf
<1>11. ASSUME NEW c \in Clients, ReadActive(c)
       PROVE  ReportOf(c)'
  <2>1. /\ report'[c].queued = report[c].queued /\ report'[c].cancelled = report[c].cancelled
        /\ report'[c].running = IF active_tasks > report[c].queued
                                THEN active_tasks - report[c].queued ELSE 0
    BY <1>11 DEF ReadActive
  <2>2. /\ UNCHANGED <<queued_tasks, shutdown>> /\ shutdown
        /\ ToCancel(c)' = ToCancel(c) /\ Submitted' = Submitted
        /\ pc[c] = "read_active"
    BY <1>11 DEF ReadActive, ToCancel, Submitted, StopInv, Collecting
  <2>4. ReportOf(c) /\ active_tasks = Cardinality(Active)
    BY DEF ReportInv, CountInv
  <2>5. /\ report[c].queued \in Nat /\ report[c].running \in Nat /\ queued_tasks \in Nat
        /\ active_tasks \in Nat
    BY ReportType
  <2>. HIDE DEF Inv, Control, TypeOK
  <2>. QED
    BY <1>count, <2>1, <2>2, <2>4, <2>5 DEF ReportOf
<1>12. ASSUME NEW c \in Clients, DrainPending(c)
       PROVE  ReportOf(c)'
  <2>1. /\ UNCHANGED <<queued_tasks, shutdown, report>>
        /\ ToCancel(c)' \in SUBSET Queued /\ Submitted' = Submitted
        /\ pc[c] = "drain" /\ pc'[c] = "cancel"
    BY <1>12 DEF DrainPending, Goto, ToCancel, Submitted, Queued
  <2>2. Cardinality(ToCancel(c)') <= queued_tasks /\ Cardinality(ToCancel(c)') \in Nat
    <3>1. Queued \in SUBSET Tasks
      BY DEF Queued
    <3>. QED
      BY <2>1, <3>1, SubsetCount DEF CountInv
  <2>3. ReportOf(c)
    BY DEF ReportInv
  <2>4. report[c].queued \in Nat /\ report[c].running \in Nat /\ queued_tasks \in Nat
    BY ReportType
  <2>. HIDE DEF Inv, Control, TypeOK
  <2>. QED
    BY <2>1, <2>2, <2>3, <2>4 DEF ReportOf
<1>13. ASSUME NEW c \in Clients, NEW t \in Tasks, CancelNext(c, t)
       PROVE  ReportOf(c)'
  <2>1. CASE ~CancelHook(c, t)
    <3>1. Keeps(c)
      BY <1>13, <2>1 DEF CancelNext, ToCancel
    <3>. QED
      BY <1>3, <3>1
  <2>2. CASE CancelHook(c, t)
    <3>1. UNCHANGED report \/ report' = [report EXCEPT ![c].cancelled = @ + 1]
      BY <1>13 DEF CancelNext
    <3>2. /\ report'[c].queued = report[c].queued
          /\ report'[c].cancelled \in {report[c].cancelled, report[c].cancelled + 1}
          /\ report'[c].running = report[c].running
      BY <3>1
    <3>3. /\ UNCHANGED <<queued_tasks, shutdown>>
          /\ t \in ToCancel(c) /\ ToCancel(c)' = ToCancel(c) \ {t}
          /\ Submitted' = Submitted /\ pc'[c] = "remove"
      BY <1>13, <2>2 DEF CancelNext, CancelHook, Goto, ToCancel, Submitted
    <3>4. /\ Cardinality(ToCancel(c)') = Cardinality(ToCancel(c)) - 1
          /\ Cardinality(ToCancel(c)) \in Nat
      <4>0. ToCancel(c) \in SUBSET Tasks
        BY ReportType
      <4>1. IsFiniteSet(ToCancel(c))
        BY <4>0, FS_Subset
      <4>. HIDE DEF Inv, Control, TypeOK
      <4>. QED
        BY <3>3, <4>1, FS_RemoveElement, FS_CardinalityType
    <3>5. ReportOf(c)
      BY DEF ReportInv
    <3>6. /\ report[c].queued \in Nat /\ report[c].running \in Nat /\ queued_tasks \in Nat
          /\ report[c].cancelled \in Nat
      BY ReportType
    <3>. HIDE DEF Inv, Control, TypeOK
    <3>. QED
      BY <3>2, <3>3, <3>4, <3>5, <3>6 DEF ReportOf
  <2>. QED
    BY <2>1, <2>2
<1>14. ASSUME UNCHANGED vars, NEW d \in Clients
       PROVE  Keeps(d)
  BY <1>14 DEF vars, ToCancel
<1>. QED
  <2>. HIDE DEF Keeps, Inv, Control, TypeOK
  <2>. SUFFICES ASSUME NEW d \in Clients PROVE ReportOf(d)'
    BY DEF ReportInv
  <2>. QED
    BY <1>3, <1>4, <1>5, <1>6, <1>7, <1>8, <1>9, <1>10, <1>11, <1>12, <1>13, <1>14
       DEF Next, JobStep, ClientStep

LEMMA Step == Inv /\ [Next]_vars => Inv'
<1>. SUFFICES ASSUME Inv, [Next]_vars PROVE Inv'
  OBVIOUS
<1>1. CountInv'
  BY CountStep
<1>2. Control'
  BY <1>1, ControlStep
<1>3. ReportInv'
  BY <1>1, <1>2, ReportStep
<1>. QED
  BY <1>1, <1>2, <1>3 DEF Inv

LEMMA Invariance == Spec => []Inv
<1>. QED
  BY Initially, Step, PTL DEF Spec

-----------------------------------------------------------------------------
(* Starts, cancels, completions and shutdowns keep active_tasks and        *)
(* queued_tasks exact in every interleaving, and the report shutdown_now   *)
(* makes of two reads of them never counts a task twice and never cancels  *)
(* more than it found queued.                                              *)
THEOREM CountersAndReportsAreTrue == Spec => []CountsAreTrue
<1>1. Inv => CountsAreTrue
  <2>. SUFFICES ASSUME Inv PROVE CountersMatchTasks /\ ReportIsConsistent
    BY DEF CountsAreTrue
  <2>. USE RayonAssumption
  <2>1. {t \in Tasks : \/ status[t] = "accepted"
                       \/ Accounting(t, {"remove", "dequeue"})} = Queued
    BY DEF Inv, Control, TypeOK, HookInv, Queued, Accounting, Subject, Processes
  <2>2. {t \in Tasks : \/ status[t] \in Service!Pending
                       \/ Accounting(t, {"remove", "dequeue", "finish"})} = Active
    BY DEF Inv, Control, TypeOK, HookInv, HookStates, Active, Accounting, Subject, Processes,
       Service!Pending
  <2>3. CountersMatchTasks
    BY <2>1, <2>2 DEF CountersMatchTasks, Inv, CountInv
  <2>4. ASSUME NEW c \in Clients
        PROVE  /\ report[c].running >= 0
               /\ report[c].cancelled <= report[c].queued
               /\ report[c].queued + report[c].running <= Cardinality(Submitted)
    <3>1. ReportOf(c)
      BY DEF Inv, ReportInv
    <3>2. /\ report[c].queued \in Nat /\ report[c].running \in Nat
          /\ report[c].cancelled \in Nat /\ Cardinality(ToCancel(c)) \in Nat
      BY ReportType, SubsetCount DEF Inv, Control
    <3>. QED
      BY <3>1, <3>2 DEF ReportOf
  <2>5. ReportIsConsistent
    BY <2>4 DEF ReportIsConsistent, Submitted
  <2>. QED
    BY <2>3, <2>5
<1>. QED
  BY <1>1, Invariance, PTL

(* A shutdown_now that is done has left no accepted task waiting, unless   *)
(* another shutdown_now already has its hook.                              *)
THEOREM ShutdownNowCancelsTheQueue == Spec => ShutdownNowLeavesNoneQueued
<1>1. Inv /\ [Next]_vars =>
        [\A c \in Clients : stopping[c] /\ ~stopping'[c] =>
            \A t \in Tasks : status[t] = "accepted" => \E d \in Clients : t \in batch[d]]_vars
  <2>. SUFFICES ASSUME Inv, [Next]_vars, NEW c \in Clients, stopping[c], ~stopping'[c],
                       NEW t \in Tasks, status[t] = "accepted"
                PROVE  \E d \in Clients : t \in batch[d]
    OBVIOUS
  <2>1. pc[c] = "cancel"
    <3>1. ASSUME UNCHANGED stopping PROVE FALSE
      BY <3>1
    <3>2. ASSUME NEW d \in Clients, ShutdownNow(d) PROVE FALSE
      BY <3>2 DEF ShutdownNow, Inv, Control, TypeOK
    <3>3. ASSUME NEW d \in Clients, CancelledAll(d) PROVE pc[c] = "cancel"
      BY <3>3 DEF CancelledAll, Inv, Control, TypeOK
    <3>. QED
      BY <3>1, <3>2, <3>3, Zenon DEF Next, JobStep, ClientStep, ProcessStep, Submit, Cancel,
         JobStarts, JobCompletes, RemovePending, Dequeue, Finish, CheckTerminated,
         NotifyWaiters, ReadQueued, ReadActive, DrainPending, CancelNext, Wait, Shutdown,
         AwaitTermination, DropFuture, stop, vars
  <2>2. pending_tasks = {}
    BY <2>1 DEF Inv, Control, StopInv, Collecting
  <2>. QED
    BY <2>2 DEF Inv, Control, PendingInv
<1>. QED
  BY <1>1, Invariance, PTL DEF Spec, ShutdownNowLeavesNoneQueued

(* The Rayon service implements the contract of the trait: every step is a *)
(* step of the abstract service or leaves it alone.                        *)
THEOREM RayonImplementsService == Spec => ImplementsService
<1>1. Init => Service!Init
  BY DEF Init, Service!Init
<1>2. Inv /\ [Next]_vars => [Service!Next]_(Service!vars)
  <2>. SUFFICES ASSUME Inv, [Next]_vars
                PROVE  Service!Next \/ UNCHANGED Service!vars
    OBVIOUS
  <2>. USE DEF Service!Next, Service!vars
  <2>1. ASSUME NEW c \in Clients, NEW t \in Tasks, Submit(c, t)
        PROVE  Service!Submit(t)
    BY <2>1 DEF Submit, Service!Submit, Service!Becomes, Service!Pending
  <2>2. ASSUME NEW t \in Tasks, JobStarts(t)
        PROVE  Service!Start(t) \/ UNCHANGED Service!vars
    BY <2>2 DEF JobStarts, Service!Start, Service!Becomes, state
  <2>3. ASSUME NEW t \in Tasks, JobCompletes(t)
        PROVE  Service!Complete(t)
    BY <2>3 DEF JobCompletes, Service!Complete, Service!Becomes, Inv, Control, JobInv, state
  <2>4. ASSUME NEW c \in Clients, NEW t \in Tasks, Cancel(c, t) \/ CancelNext(c, t)
        PROVE  Service!Cancel(t) \/ UNCHANGED Service!vars
    BY <2>4 DEF Cancel, CancelNext, CancelHook, Service!Cancel, Service!Becomes, state
  <2>5. ASSUME NEW c \in Clients, Shutdown(c) \/ ShutdownNow(c)
        PROVE  Service!RequestShutdown
    BY <2>5 DEF Shutdown, ShutdownNow, Service!RequestShutdown
  <2>6. ASSUME NEW p \in Processes, ProcessStep(p)
        PROVE  UNCHANGED Service!vars
    BY <2>6 DEF ProcessStep, RemovePending, Dequeue, Finish, CheckTerminated, NotifyWaiters
  <2>7. ASSUME NEW c \in Clients,
               \/ ReadQueued(c) \/ ReadActive(c) \/ DrainPending(c) \/ CancelledAll(c)
               \/ AwaitTermination(c) \/ Wait(c) \/ DropFuture(c)
        PROVE  UNCHANGED Service!vars
    BY <2>7 DEF ReadQueued, ReadActive, DrainPending, CancelledAll, AwaitTermination, Wait,
       DropFuture, state
  <2>8. CASE UNCHANGED vars
    BY <2>8 DEF vars, state
  <2>. QED
    BY <2>1, <2>2, <2>3, <2>4, <2>5, <2>6, <2>7, <2>8 DEF Next, JobStep, ClientStep, Processes
<1>. QED
  BY <1>1, <1>2, Invariance, PTL DEF Spec, ImplementsService, Service!Spec

=============================================================================
