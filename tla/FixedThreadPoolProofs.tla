----------------------- MODULE FixedThreadPoolProofs -----------------------
(***************************************************************************)
(* Proofs about FixedThreadPool, for every number of workers, clients and  *)
(* jobs and every way to configure the pool.                               *)
(***************************************************************************)
EXTENDS FixedThreadPool, TLAPS, FiniteSetTheorems

(* What a notification does to a thread that does not send it.             *)
Roused(u) ==
    \/ pc'[u] = pc[u]
    \/ pc[u] = "asleep" /\ pc'[u] = "wake"
    \/ pc[u] = "stalls" /\ pc'[u] = "recount"
    \/ pc[u] = "awaits" /\ pc'[u] = "await"

(* A step in which thread t goes on at s, and others may be woken.         *)
Moved(t, s) ==
    /\ DOMAIN pc' = Threads
    /\ t \in Threads => pc'[t] = s
    /\ \A u \in Threads \ {t} : Roused(u)

LEMMA GotoMoves ==
    ASSUME NEW t \in Threads, NEW s, DOMAIN pc = Threads, Goto(t, s)
    PROVE  Moved(t, s)
BY DEF Goto, Moved, Roused

LEMMA WakeMoves ==
    ASSUME NEW t, NEW s, NEW ts \in SUBSET Asleep, Wake(t, ts, s)
    PROVE  Moved(t, s)
BY DEF Wake, Moved, Roused, Asleep, Awakened

LEMMA NotifyMoves ==
    ASSUME NEW t \in Threads, NEW s, DOMAIN pc = Threads, NotifyAll(t, s) \/ NotifyOne(t, s)
    PROVE  Moved(t, s)
BY GotoMoves, WakeMoves DEF NotifyAll, NotifyOne

-----------------------------------------------------------------------------
(* Types.  The counters are natural numbers by what they count, below.     *)

PcType ==
    /\ DOMAIN pc = Threads
    /\ \A w \in Workers : pc[w] \in WorkerStates
    /\ \A c \in Clients : pc[c] \in ClientStates

LEMMA MovedType ==
    ASSUME PcType, NEW t, NEW s, Moved(t, s),
           t \in Workers => s \in WorkerStates, t \in Clients => s \in ClientStates
    PROVE  PcType'
<1>1. ASSUME NEW w \in Workers
      PROVE  pc'[w] \in WorkerStates
  BY DEF PcType, Moved, Roused, Threads, WorkerStates, ClientStates
<1>2. ASSUME NEW c \in Clients
      PROVE  pc'[c] \in ClientStates
  BY DEF PcType, Moved, Roused, Threads, WorkerStates, ClientStates
<1>. QED
  BY <1>1, <1>2 DEF PcType, Moved

LEMMA WorkerMoves ==
    ASSUME PcType, NEW w \in Workers, SpawnWorker(w) \/ WorkerStep(w)
    PROVE  \E s \in WorkerStates : Moved(w, s)
<1>. w \in Threads /\ DOMAIN pc = Threads
  BY DEF Threads, PcType
<1>1. CASE SpawnWorker(w) \/ Activate(w) \/ TryTakeJob(w) \/ AcceptClaimedJob(w) \/ RunJob(w)
  BY <1>1, GotoMoves DEF SpawnWorker, Activate, TryTakeJob, AcceptClaimedJob, RunJob, WorkerStates
<1>2. CASE StealGlobal(w) \/ StealWorker(w)
  BY <1>2, GotoMoves DEF StealGlobal, StealWorker, Stolen, WorkerStates
<1>3. CASE Poke(w) \/ FinishRunningJob(w) \/ CancelClaimedJob(w) \/ WorkerExited(w)
  BY <1>3, GotoMoves, NotifyMoves DEF Poke, FinishRunningJob, CancelClaimedJob, WorkerExited,
     NextSource, WorkerStates
<1>4. CASE CancelWorkerJobs(w)
  <2>1. CASE UNCHANGED pc
    BY <2>1 DEF Moved, Roused, PcType
  <2>2. CASE ~UNCHANGED pc
    BY <1>4, <2>2, GotoMoves DEF CancelWorkerJobs, NextSource, WorkerStates
  <2>. QED
    BY <2>1, <2>2
<1>5. CASE Decide(w) \/ Settle(w) \/ MarkIdle(w) \/ RecheckQueue(w) \/ RecheckWake(w)
           \/ UnmarkIdle(w) \/ ConsumePendingWorkerWake(w) \/ Deactivate(w)
  BY <1>5, GotoMoves DEF Decide, Settle, MarkIdle, RecheckQueue, RecheckWake, UnmarkIdle,
     ConsumePendingWorkerWake, Deactivate, Unlock, WorkerStates
<1>. QED
  BY <1>1, <1>2, <1>3, <1>4, <1>5 DEF WorkerStep

LEMMA ClientMoves ==
    ASSUME PcType, NEW c \in Clients, SubmitStep(c) \/ ShutdownStep(c)
    PROVE  \E s \in ClientStates : Moved(c, s)
<1>. c \in Threads /\ DOMAIN pc = Threads
  BY DEF Threads, PcType
<1>1. CASE \E j \in Jobs : BeginSubmit(c, j)
  <2>1. CASE UNCHANGED pc
    BY <2>1 DEF Moved, Roused, PcType
  <2>2. CASE Goto(c, "enter")
    BY <2>2, GotoMoves DEF ClientStates
  <2>. QED
    BY <1>1, <2>1, <2>2 DEF BeginSubmit
<1>2. CASE Enter(c) \/ Recheck(c) \/ ReserveQueueSlot(c) \/ Accept(c) \/ Route(c) \/ Push(c)
  BY <1>2, GotoMoves DEF Enter, Recheck, ReserveQueueSlot, Accept, Reject, Route, Push, ClientStates
<1>3. CASE CountIdle(c) \/ AddWake(c) \/ Notify(c) \/ Leave(c) \/ Announce(c)
  BY <1>3, GotoMoves, NotifyMoves DEF CountIdle, AddWake, Notify, Leave, Announce, ClientStates
<1>4. CASE StopAccepting(c) \/ Shutdown(c) \/ SetStopNow(c) \/ Close(c) \/ FindEmpty(c)
           \/ Subtract(c) \/ CancelBatch(c) \/ CallAwaitTermination(c) \/ WaitForTermination(c)
  BY <1>4, GotoMoves DEF StopAccepting, Shutdown, SetStopNow, Close, FindEmpty, Subtract, CancelBatch,
     CallAwaitTermination, WaitForTermination, ClientStates
<1>5. CASE Drain(c)
  BY <1>5 DEF Drain, Moved, Roused, PcType
<1>. QED
  BY <1>1, <1>2, <1>3, <1>4, <1>5 DEF SubmitStep, ShutdownStep

LEMMA SleeperMoves ==
    ASSUME PcType, NEW t \in Threads, FallAsleep(t) \/ SpuriousWakeup(t)
    PROVE  /\ Moved(t, pc'[t])
           /\ \/ pc[t] = "stall" /\ pc'[t] = "stalls"
              \/ pc[t] = "doze" /\ pc'[t] = "awaits"
              \/ pc[t] = "sleep" /\ pc'[t] = "asleep"
              \/ Roused(t)
<1>1. CASE FallAsleep(t)
  <2>1. /\ \/ pc[t] = "stall" /\ pc'[t] = "stalls"
           \/ pc[t] = "doze" /\ pc'[t] = "awaits"
           \/ pc[t] = "sleep" /\ pc'[t] = "asleep"
        /\ Goto(t, pc'[t]) /\ DOMAIN pc = Threads
    BY <1>1 DEF FallAsleep, PcType, Goto
  <2>. QED
    BY <2>1, GotoMoves
<1>2. CASE SpuriousWakeup(t)
  BY <1>2, GotoMoves DEF SpuriousWakeup, Awakened, Asleep, PcType, Goto, Roused
<1>. QED
  BY <1>1, <1>2

LEMMA BuilderMoves ==
    ASSUME PcType, SpawnFails \/ StopAfterFailedBuild \/ BuildHasFailed \/ UNCHANGED vars
    PROVE  \A u \in Threads : Roused(u) /\ DOMAIN pc' = Threads
<1>1. CASE NotifyAll(Nobody, "gone")
  <2>1. Moved(Nobody, "gone")
    BY <1>1, WakeMoves DEF NotifyAll
  <2>. QED
    BY <2>1, FixedPoolAssumption DEF Moved, Threads
<1>2. CASE UNCHANGED pc
  BY <1>2 DEF Roused, PcType
<1>. QED
  BY <1>1, <1>2 DEF SpawnFails, StopAfterFailedBuild, BuildHasFailed, vars

LEMMA PcStep == PcType /\ [Next]_vars => PcType'
<1>. SUFFICES ASSUME PcType, [Next]_vars PROVE PcType'
  OBVIOUS
<1>. USE FixedPoolAssumption
<1>1. ASSUME NEW w \in Workers, SpawnWorker(w) \/ WorkerStep(w)
      PROVE  PcType'
  <2>1. w \notin Clients
    OBVIOUS
  <2>. QED
    BY <1>1, <2>1, WorkerMoves, MovedType
<1>2. ASSUME NEW c \in Clients, SubmitStep(c) \/ ShutdownStep(c)
      PROVE  PcType'
  <2>1. c \notin Workers
    OBVIOUS
  <2>. QED
    BY <1>2, <2>1, ClientMoves, MovedType
<1>3. ASSUME NEW t \in Threads, FallAsleep(t) \/ SpuriousWakeup(t)
      PROVE  PcType'
  <2>1. /\ Moved(t, pc'[t])
        /\ \/ pc[t] = "stall" /\ pc'[t] = "stalls"
           \/ pc[t] = "doze" /\ pc'[t] = "awaits"
           \/ pc[t] = "sleep" /\ pc'[t] = "asleep"
           \/ Roused(t)
    BY <1>3, SleeperMoves
  <2>2. /\ t \in Workers => pc'[t] \in WorkerStates
        /\ t \in Clients => pc'[t] \in ClientStates
    BY <2>1 DEF PcType, Roused, WorkerStates, ClientStates
  <2>. QED
    BY <2>1, <2>2, MovedType
<1>4. CASE SpawnFails \/ StopAfterFailedBuild \/ BuildHasFailed \/ UNCHANGED vars
  <2>1. \A u \in Threads : Roused(u) /\ DOMAIN pc' = Threads
    BY <1>4, BuilderMoves
  <2>2. Moved(Nobody, "gone") /\ Nobody \notin Workers /\ Nobody \notin Clients
    BY <2>1 DEF Moved, Threads
  <2>. QED
    BY <2>2, MovedType
<1>. QED
  BY <1>1, <1>2, <1>3, <1>4 DEF Next

-----------------------------------------------------------------------------
(* Where the jobs are.  What a thread may have in its hands depends on a   *)
(* class of the place where it stands.                                     *)

Class(s) ==
    CASE s \in {"enter", "recheck", "reserve"}                 -> "new"
      [] s = "accept"                                          -> "slot"
      [] s \in {"route", "push", "poke", "claimed", "discard"} -> "accepted"
      [] s = "run"                                             -> "run"
      [] s \in {"drain", "subtract", "collect"}                -> "batch"
      [] s = "discard_all"                                     -> "discard_all"
      [] s = "cancel"                                          -> "cancel"
      [] s \in {"take", "check", "tell", "purge"}              -> "laden"
      [] s = "victims"                                         -> "victims"
      [] OTHER                                                 -> "none"

Cl(t) == Class(pc[t])

LEMMA MovedClass ==
    ASSUME NEW t, NEW s, Moved(t, s)
    PROVE  /\ \A u \in Threads \ {t} : Cl(u)' = Cl(u)
           /\ t \in Threads => Cl(t)' = Class(s)
<1>1. ASSUME NEW u \in Threads \ {t}
      PROVE  Cl(u)' = Cl(u)
  BY <1>1 DEF Moved, Roused, Cl, Class
<1>. QED
  BY <1>1 DEF Moved, Cl

DataType ==
    /\ held \in [Threads -> Jobs \cup {NoJob}]
    /\ batch \in [Threads -> SUBSET Jobs]
    /\ inbox \in [Workers -> SUBSET Jobs]
    /\ local \in [Workers -> SUBSET Jobs]
    /\ global_queue \in SUBSET Jobs
    /\ status \in [Jobs -> Service!Statuses]
    /\ todo \in [Threads -> SUBSET Sources]
    /\ \A w \in Workers : todo[w] \subseteq Workers \ {w}

(* A thread holds a job, or drained ones, only in the classes made for it. *)
HandInv ==
    \A t \in Threads :
        /\ held[t] # NoJob <=> Cl(t) \in {"new", "slot", "accepted", "run"}
        /\ batch[t] # {} => Cl(t) \in {"batch", "discard_all", "cancel"}
        /\ Cl(t) \in {"discard_all", "cancel"} => batch[t] # {}

(* A worker that has begun to look beyond its own jobs has none left in    *)
(* its local queue; a batch it steals does not overwrite any.              *)
LocalInv ==
    /\ \A w \in Workers : local[w] # {} => Cl(w) \in {"laden", "accepted", "run"}
    /\ ~use_worker_local_queues =>
         \A w \in Workers : local[w] = {} /\ Cl(w) # "victims" /\ todo[w] = {}

Kinds == {"none", "global", "inbox", "local", "batch", "held"}

(* Every job is at one place: kind tells what it is, at whose it is.       *)
Located(kind, at) ==
    \A j \in Jobs :
        /\ j \in global_queue <=> kind[j] = "global"
        /\ \A w \in Workers :
             /\ j \in inbox[w] <=> kind[j] = "inbox" /\ at[j] = w
             /\ j \in local[w] <=> kind[j] = "local" /\ at[j] = w
        /\ \A t \in Threads :
             /\ j \in batch[t] <=> kind[j] = "batch" /\ at[j] = t
             /\ held[t] = j <=> kind[j] = "held" /\ at[j] = t
        /\ kind[j] \in {"inbox", "local"} => at[j] \in Workers
        /\ kind[j] \in {"batch", "held"} => at[j] \in Threads

(* What the place of a job says of its status.                             *)
Graded(kind, at) ==
    \A j \in Jobs :
        /\ kind[j] = "none" => status[j] \notin {"accepted", "running"}
        /\ kind[j] \in {"global", "inbox", "local", "batch"} => status[j] = "accepted"
        /\ kind[j] = "held" =>
             /\ Cl(at[j]) \in {"new", "slot"} => status[j] = "new"
             /\ Cl(at[j]) = "accepted" => status[j] = "accepted"
             /\ Cl(at[j]) = "run" => status[j] = "running"

(* The jobs that have a slot in queued_task_count.                         *)
Counted(kind, at) ==
    {j \in Jobs : \/ kind[j] \in {"global", "inbox", "local"}
                  \/ kind[j] = "batch" /\ Cl(at[j]) # "cancel"
                  \/ kind[j] = "held" /\ Cl(at[j]) \in {"slot", "accepted"}}

Running == {j \in Jobs : status[j] = "running"}

JobInv ==
    /\ \E kind \in [Jobs -> Kinds], at \in [Jobs -> Threads \cup {Nobody}] :
         /\ Located(kind, at) /\ Graded(kind, at)
         /\ queued_task_count = Cardinality(Counted(kind, at))
    /\ running_task_count = Cardinality(Running)

CoreInv == DataType /\ HandInv /\ LocalInv /\ JobInv

LEMMA CoreInit == Init => PcType /\ CoreInv
<1>. SUFFICES ASSUME Init PROVE PcType /\ CoreInv
  OBVIOUS
<1>. USE FixedPoolAssumption
<1>1. PcType
  BY DEF Init, PcType, Threads, WorkerStates, ClientStates
<1>2. DataType
  BY DEF Init, DataType, Threads, Sources, Service!Statuses
<1>3. \A t \in Threads : Cl(t) = "none"
  BY DEF Init, Cl, Class
<1>4. HandInv /\ LocalInv
  BY <1>3 DEF Init, HandInv, LocalInv, Threads
<1>5. JobInv
  <2>. DEFINE kind == [j \in Jobs |-> "none"]
              at == [j \in Jobs |-> Nobody]
  <2>1. kind \in [Jobs -> Kinds] /\ at \in [Jobs -> Threads \cup {Nobody}]
    BY DEF Kinds
  <2>2. Located(kind, at) /\ Graded(kind, at)
    BY DEF Init, Located, Graded, Threads
  <2>3. Counted(kind, at) = {} /\ Running = {}
    BY DEF Counted, Running, Init
  <2>4. queued_task_count = Cardinality(Counted(kind, at)) /\ running_task_count = Cardinality(Running)
    BY <2>3, FS_EmptySet DEF Init
  <2>. HIDE DEF kind, at
  <2>. QED
    BY <2>1, <2>2, <2>4 DEF JobInv
<1>. QED
  BY <1>1, <1>2, <1>4, <1>5 DEF CoreInv

(* How a thread's class may change when no job moves.                      *)
EmptyHanded(t) ==
    \/ Cl(t)' = Cl(t)
    \/ Cl(t) = "none" /\ Cl(t)' \in {"laden", "batch"}
    \/ /\ Cl(t) \in {"laden", "batch"} /\ Cl(t)' \in {"none", "batch", "victims"}
       /\ batch[t] = {} /\ (t \in Workers => local[t] = {})
       /\ Cl(t)' = "victims" => use_worker_local_queues
    \/ Cl(t) = "batch" /\ Cl(t)' = "discard_all" /\ batch[t] # {}

(* A step that moves no job.                                               *)
LEMMA JobsStay ==
    ASSUME CoreInv,
           UNCHANGED <<use_worker_local_queues, status, held, batch, inbox, local, global_queue,
                       queued_task_count, running_task_count>>,
           todo' \in [Threads -> SUBSET Sources],
           \A w \in Workers : todo'[w] \subseteq todo[w],
           \A t \in Threads : EmptyHanded(t)
    PROVE  CoreInv'
<1>. USE DEF EmptyHanded
<1>1. DataType'
  BY DEF CoreInv, DataType
<1>2. HandInv'
  BY DEF CoreInv, HandInv
<1>3. LocalInv'
  BY DEF CoreInv, LocalInv, Threads
<1>4. PICK kind \in [Jobs -> Kinds], at \in [Jobs -> Threads \cup {Nobody}] :
        /\ Located(kind, at) /\ Graded(kind, at)
        /\ queued_task_count = Cardinality(Counted(kind, at))
  BY DEF CoreInv, JobInv
<1>5. Located(kind, at)'
  BY <1>4 DEF Located
<1>6. Graded(kind, at)'
  BY <1>4 DEF Graded, Located
<1>7. Counted(kind, at)' = Counted(kind, at) /\ Running' = Running
  BY <1>4 DEF Counted, Located, Running
<1>8. JobInv'
  BY <1>4, <1>5, <1>6, <1>7 DEF JobInv, CoreInv
<1>. QED
  BY <1>1, <1>2, <1>3, <1>8 DEF CoreInv

(* The steps that move no job.                                             *)
WorkerMovesNoJob(w) ==
    \/ SpawnWorker(w) \/ Activate(w) \/ Poke(w) \/ FinishRunningJob(w) \/ Decide(w) \/ Settle(w)
    \/ MarkIdle(w) \/ RecheckQueue(w) \/ RecheckWake(w) \/ UnmarkIdle(w)
    \/ ConsumePendingWorkerWake(w) \/ Deactivate(w) \/ WorkerExited(w)

ClientMovesNoJob(c) ==
    \/ Enter(c) \/ Route(c) \/ CountIdle(c) \/ AddWake(c) \/ Notify(c) \/ Leave(c) \/ Announce(c)
    \/ StopAccepting(c) \/ Shutdown(c) \/ SetStopNow(c) \/ Close(c) \/ FindEmpty(c)
    \/ CallAwaitTermination(c) \/ WaitForTermination(c)

LEMMA WorkerStays ==
    ASSUME PcType, CoreInv, NEW w \in Workers, WorkerMovesNoJob(w)
    PROVE  CoreInv'
<1>. w \in Threads /\ DOMAIN pc = Threads
  BY DEF Threads, PcType
<1>1. UNCHANGED <<use_worker_local_queues, status, held, batch, inbox, local, global_queue,
                  queued_task_count, running_task_count, todo>>
  BY DEF WorkerMovesNoJob, SpawnWorker, Activate, Poke, FinishRunningJob, Decide, Settle, MarkIdle,
     RecheckQueue, RecheckWake, UnmarkIdle, ConsumePendingWorkerWake, Deactivate, WorkerExited,
     config, counts, queues, mine
<1>2. \E s : /\ Moved(w, s)
             /\ Class(s) = Class(pc[w]) \/ (Class(pc[w]) = "none" /\ Class(s) = "laden")
  <2>1. CASE SpawnWorker(w) \/ Activate(w) \/ Deactivate(w)
    BY <2>1, GotoMoves DEF SpawnWorker, Activate, Deactivate, Class
  <2>2. CASE Poke(w) \/ FinishRunningJob(w) \/ WorkerExited(w)
    BY <2>2, GotoMoves, NotifyMoves DEF Poke, FinishRunningJob, WorkerExited, Class
  <2>3. CASE Decide(w) \/ Settle(w) \/ ConsumePendingWorkerWake(w)
    BY <2>3, GotoMoves DEF Decide, Settle, ConsumePendingWorkerWake, Unlock, Class
  <2>4. CASE MarkIdle(w) \/ RecheckQueue(w) \/ RecheckWake(w) \/ UnmarkIdle(w)
    BY <2>4, GotoMoves DEF MarkIdle, RecheckQueue, RecheckWake, UnmarkIdle, Class
  <2>. QED
    BY <2>1, <2>2, <2>3, <2>4 DEF WorkerMovesNoJob
<1>3. \A t \in Threads : EmptyHanded(t)
  BY <1>2, MovedClass DEF Cl, EmptyHanded
<1>. QED
  BY <1>1, <1>3, JobsStay DEF CoreInv, DataType

LEMMA ClientStays ==
    ASSUME PcType, CoreInv, NEW c \in Clients, ClientMovesNoJob(c)
    PROVE  CoreInv'
<1>. c \in Threads /\ DOMAIN pc = Threads /\ c \notin Workers
  BY FixedPoolAssumption DEF Threads, PcType
<1>1. UNCHANGED <<use_worker_local_queues, status, held, batch, inbox, local, global_queue,
                  queued_task_count, running_task_count>>
  BY DEF ClientMovesNoJob, Enter, Route, CountIdle, AddWake, Notify, Leave, Announce, StopAccepting,
     Shutdown, SetStopNow, Close, FindEmpty, CallAwaitTermination, WaitForTermination,
     config, counts, queues, mine
<1>2. /\ todo' \in [Threads -> SUBSET Sources]
      /\ \A w \in Workers : todo'[w] \subseteq todo[w]
  <2>1. UNCHANGED todo \/ \E S \in SUBSET Sources : todo' = [todo EXCEPT ![c] = S]
    BY DEF ClientMovesNoJob, Enter, Route, CountIdle, AddWake, Notify, Leave, Announce, StopAccepting,
       Shutdown, SetStopNow, Close, FindEmpty, CallAwaitTermination, WaitForTermination, mine,
       CoreInv, DataType
  <2>. QED
    BY <2>1 DEF CoreInv, DataType, Threads
<1>3. \E s : /\ Moved(c, s)
             /\ Class(s) = Class(pc[c]) \/ (Class(pc[c]) = "none" /\ Class(s) = "batch")
  <2>1. CASE Enter(c) \/ Route(c) \/ CountIdle(c) \/ AddWake(c) \/ Leave(c) \/ StopAccepting(c)
    BY <2>1, GotoMoves DEF Enter, Route, CountIdle, AddWake, Leave, StopAccepting, Class
  <2>2. CASE Notify(c) \/ Announce(c)
    BY <2>2, GotoMoves, NotifyMoves DEF Notify, Announce, Class
  <2>3. CASE Shutdown(c) \/ SetStopNow(c) \/ FindEmpty(c) \/ CallAwaitTermination(c)
             \/ WaitForTermination(c)
    BY <2>3, GotoMoves DEF Shutdown, SetStopNow, FindEmpty, CallAwaitTermination,
       WaitForTermination, Class
  <2>4. CASE Close(c)
    BY <2>4, GotoMoves DEF Close, Class
  <2>. QED
    BY <2>1, <2>2, <2>3, <2>4 DEF ClientMovesNoJob
<1>4. \A t \in Threads : EmptyHanded(t)
  BY <1>3, MovedClass DEF Cl, EmptyHanded
<1>. QED
  BY <1>1, <1>2, <1>4, JobsStay

(* A sleeper, or the thread that builds the pool.                          *)
LEMMA OthersStay ==
    ASSUME PcType, CoreInv,
           \/ \E t \in Threads : FallAsleep(t) \/ SpuriousWakeup(t)
           \/ SpawnFails \/ StopAfterFailedBuild \/ BuildHasFailed \/ UNCHANGED vars
    PROVE  CoreInv'
<1>1. UNCHANGED <<use_worker_local_queues, status, held, batch, inbox, local, global_queue,
                  queued_task_count, running_task_count, todo>>
  BY DEF FallAsleep, SpuriousWakeup, SpawnFails, StopAfterFailedBuild, BuildHasFailed, vars,
     config, counts, queues, mine
<1>2. \A u \in Threads : Cl(u)' = Cl(u)
  <2>1. ASSUME NEW t \in Threads, FallAsleep(t) \/ SpuriousWakeup(t)
        PROVE  \A u \in Threads : Cl(u)' = Cl(u)
    <3>1. Cl(t)' = Cl(t)
      BY <2>1, SleeperMoves DEF Roused, Cl, Class
    <3>. QED
      BY <2>1, <3>1, SleeperMoves, MovedClass
  <2>2. CASE SpawnFails \/ StopAfterFailedBuild \/ BuildHasFailed \/ UNCHANGED vars
    BY <2>2, BuilderMoves DEF Roused, Cl, Class
  <2>. QED
    BY <2>1, <2>2
<1>. QED
  BY <1>1, <1>2, JobsStay DEF CoreInv, DataType, EmptyHanded

LEMMA SlotCount ==
    ASSUME NEW S \in SUBSET Jobs
    PROVE  /\ Cardinality(S) \in Nat
           /\ \A j \in Jobs \ S : Cardinality(S \cup {j}) = Cardinality(S) + 1
           /\ \A j \in S : Cardinality(S \ {j}) = Cardinality(S) - 1
<1>1. IsFiniteSet(S)
  BY FS_Subset, FixedPoolAssumption
<1>. QED
  BY <1>1, FS_CardinalityType, FS_AddElement, FS_RemoveElement

LEMMA JobsMove ==
    ASSUME NEW kind \in [Jobs -> Kinds], NEW at \in [Jobs -> Threads \cup {Nobody}],
           Located(kind, at)', Graded(kind, at)',
           queued_task_count' = Cardinality(Counted(kind, at)'),
           running_task_count' = Cardinality(Running')
    PROVE  JobInv'
BY DEF JobInv

(* A job is refused: at the first look at accepting nobody has it yet.     *)
LEMMA BeginSubmitStep ==
    ASSUME PcType, CoreInv, NEW c \in Clients, NEW j \in Jobs, BeginSubmit(c, j)
    PROVE  CoreInv'
<1>. c \in Threads /\ DOMAIN pc = Threads /\ c \notin Workers /\ NoJob \notin Jobs
  BY FixedPoolAssumption DEF Threads, PcType
<1>0. DataType /\ HandInv /\ LocalInv
  BY DEF CoreInv
<1>1. PICK kind \in [Jobs -> Kinds], at \in [Jobs -> Threads \cup {Nobody}] :
        /\ Located(kind, at) /\ Graded(kind, at)
        /\ queued_task_count = Cardinality(Counted(kind, at))
  BY DEF CoreInv, JobInv
<1>2. /\ UNCHANGED <<use_worker_local_queues, batch, inbox, local, global_queue, todo,
                     queued_task_count, running_task_count>>
      /\ pc[c] = "idle" /\ Cl(c) = "none" /\ status[j] = "new" /\ held[c] = NoJob
  BY <1>0 DEF BeginSubmit, config, counts, queues, Cl, Class, HandInv
<1>3. kind[j] = "none"
  <2>1. kind[j] \in Kinds /\ kind[j] \notin {"global", "inbox", "local", "batch"}
    BY <1>1, <1>2 DEF Graded
  <2>2. ASSUME kind[j] = "held"
        PROVE  FALSE
    <3>1. at[j] \in Threads /\ held[at[j]] = j /\ held[at[j]] # NoJob
      BY <1>1, <2>2 DEF Located
    <3>2. Cl(at[j]) \in {"new", "slot"}
      BY <1>0, <1>1, <1>2, <2>2, <3>1 DEF HandInv, Graded
    <3>3. at[j] \in Workers
      BY <3>1 DEF BeginSubmit, Threads
    <3>. QED
      BY <3>2, <3>3 DEF PcType, Cl, Class, WorkerStates
  <2>. QED
    BY <2>1, <2>2 DEF Kinds
<1>4. CASE Hold(c, j) /\ Goto(c, "enter") /\ UNCHANGED status
  <2>. DEFINE kind2 == [kind EXCEPT ![j] = "held"]
              at2 == [at EXCEPT ![j] = c]
  <2>1. kind2 \in [Jobs -> Kinds] /\ at2 \in [Jobs -> Threads \cup {Nobody}]
    BY DEF Kinds
  <2>2. Cl(c)' = "new" /\ \A u \in Threads \ {c} : Cl(u)' = Cl(u)
    BY <1>4, GotoMoves, MovedClass DEF Class
  <2>3. held' = [held EXCEPT ![c] = j]
    BY <1>4 DEF Hold
  <2>4. DataType' /\ HandInv' /\ LocalInv'
    BY <1>0, <1>2, <1>4, <2>2, <2>3 DEF DataType, HandInv, LocalInv, Threads
  <2>5. Located(kind2, at2)'
    BY <1>0, <1>1, <1>2, <1>3, <2>3 DEF Located, DataType
  <2>6. Graded(kind2, at2)'
    BY <1>0, <1>1, <1>2, <1>3, <1>4, <2>2 DEF Graded, Located
  <2>7. Counted(kind2, at2)' = Counted(kind, at) /\ Running' = Running
    BY <1>0, <1>1, <1>2, <1>3, <1>4, <2>2 DEF Counted, Located, Running
  <2>. HIDE DEF kind2, at2
  <2>8. JobInv'
    BY <1>1, <1>2, <2>1, <2>5, <2>6, <2>7, JobsMove DEF CoreInv, JobInv
  <2>. QED
    BY <2>4, <2>8 DEF CoreInv
<1>5. CASE Becomes(j, "rejected") /\ UNCHANGED <<held, pc>>
  <2>1. /\ status' = [status EXCEPT ![j] = "rejected"]
        /\ \A u \in Threads : Cl(u)' = Cl(u)
    BY <1>5 DEF Becomes, Cl
  <2>2. DataType' /\ HandInv' /\ LocalInv'
    BY <1>0, <1>2, <1>5, <2>1 DEF DataType, HandInv, LocalInv, Threads, Service!Statuses, Service!Settled
  <2>3. Located(kind, at)' /\ Graded(kind, at)'
    BY <1>0, <1>1, <1>2, <1>3, <1>5, <2>1 DEF Located, Graded, DataType
  <2>4. Counted(kind, at)' = Counted(kind, at) /\ Running' = Running
    BY <1>0, <1>1, <1>2, <2>1 DEF Counted, Located, Running, DataType
  <2>5. JobInv'
    BY <1>1, <1>2, <2>3, <2>4 DEF CoreInv, JobInv
  <2>. QED
    BY <2>2, <2>5 DEF CoreInv
<1>. QED
  BY <1>4, <1>5 DEF BeginSubmit

(* A job is refused by a client that has it, with or without its slot.     *)
LEMMA RejectStep ==
    ASSUME PcType, CoreInv, NEW c \in Clients, Cl(c) \in {"new", "slot"}, Reject(c),
           UNCHANGED <<use_worker_local_queues, batch, inbox, local, global_queue, todo,
                       running_task_count>>,
           queued_task_count' = IF Cl(c) = "slot" THEN queued_task_count - 1 ELSE queued_task_count
    PROVE  CoreInv'
<1>. c \in Threads /\ DOMAIN pc = Threads /\ c \notin Workers /\ NoJob \notin Jobs
  BY FixedPoolAssumption DEF Threads, PcType
<1>0. DataType /\ HandInv /\ LocalInv
  BY DEF CoreInv
<1>1. PICK kind \in [Jobs -> Kinds], at \in [Jobs -> Threads \cup {Nobody}] :
        /\ Located(kind, at) /\ Graded(kind, at)
        /\ queued_task_count = Cardinality(Counted(kind, at))
  BY DEF CoreInv, JobInv
<1>2. PICK j \in Jobs : j = held[c] /\ kind[j] = "held" /\ at[j] = c /\ status[j] = "new"
  BY <1>0, <1>1 DEF HandInv, Located, Graded, DataType
<1>. DEFINE kind2 == [kind EXCEPT ![j] = "none"]
<1>3. /\ status' = [status EXCEPT ![j] = "rejected"]
      /\ held' = [held EXCEPT ![c] = NoJob]
      /\ Cl(c)' = "none" /\ \A u \in Threads \ {c} : Cl(u)' = Cl(u)
  BY <1>2, GotoMoves, MovedClass DEF Reject, Becomes, Hold, Class
<1>4. DataType' /\ HandInv' /\ LocalInv'
  BY <1>0, <1>2, <1>3 DEF DataType, HandInv, LocalInv, Threads, Service!Statuses, Service!Settled
<1>5. kind2 \in [Jobs -> Kinds]
  BY DEF Kinds
<1>6. Located(kind2, at)'
  BY <1>0, <1>1, <1>2, <1>3 DEF Located, DataType
<1>7. Graded(kind2, at)'
  BY <1>0, <1>1, <1>2, <1>3 DEF Graded, Located, DataType
<1>8. Counted(kind2, at)' = Counted(kind, at) \ {j} /\ Running' = Running
  BY <1>0, <1>1, <1>2, <1>3 DEF Counted, Located, Running, DataType, HandInv
<1>9. queued_task_count' = Cardinality(Counted(kind2, at)')
  <2>1. CASE Cl(c) = "slot"
    <3>1. j \in Counted(kind, at)
      BY <1>2, <2>1 DEF Counted
    <3>2. Cardinality(Counted(kind, at) \ {j}) = Cardinality(Counted(kind, at)) - 1
      BY <3>1, SlotCount DEF Counted
    <3>. QED
      BY <1>1, <1>8, <2>1, <3>2
  <2>2. CASE Cl(c) = "new"
    <3>1. Counted(kind, at) \ {j} = Counted(kind, at)
      BY <1>2, <2>2 DEF Counted
    <3>. QED
      BY <1>1, <1>8, <2>2, <3>1
  <2>. QED
    BY <2>1, <2>2
<1>. HIDE DEF kind2
<1>10. JobInv'
  BY <1>1, <1>5, <1>6, <1>7, <1>8, <1>9, JobsMove DEF CoreInv, JobInv
<1>. QED
  BY <1>4, <1>10 DEF CoreInv

(* A client that has a job gets a slot for it, or has it accepted.         *)
LEMMA PromoteStep ==
    ASSUME PcType, CoreInv, NEW c \in Clients,
           UNCHANGED <<use_worker_local_queues, held, batch, inbox, local, global_queue, todo,
                       running_task_count>>,
           \/ /\ Cl(c) = "new" /\ Goto(c, "accept")
              /\ queued_task_count' = queued_task_count + 1 /\ UNCHANGED status
           \/ /\ Cl(c) = "slot" /\ Goto(c, "route")
              /\ Becomes(held[c], "accepted") /\ UNCHANGED queued_task_count
    PROVE  CoreInv'
<1>. c \in Threads /\ DOMAIN pc = Threads /\ c \notin Workers /\ NoJob \notin Jobs
  BY FixedPoolAssumption DEF Threads, PcType
<1>0. DataType /\ HandInv /\ LocalInv
  BY DEF CoreInv
<1>1. PICK kind \in [Jobs -> Kinds], at \in [Jobs -> Threads \cup {Nobody}] :
        /\ Located(kind, at) /\ Graded(kind, at)
        /\ queued_task_count = Cardinality(Counted(kind, at))
  BY DEF CoreInv, JobInv
<1>2. PICK j \in Jobs : j = held[c] /\ kind[j] = "held" /\ at[j] = c /\ status[j] = "new"
  BY <1>0, <1>1 DEF HandInv, Located, Graded, DataType
<1>3. CASE /\ Cl(c) = "new" /\ Goto(c, "accept")
           /\ queued_task_count' = queued_task_count + 1 /\ UNCHANGED status
  <2>1. Cl(c)' = "slot" /\ \A u \in Threads \ {c} : Cl(u)' = Cl(u)
    BY <1>3, GotoMoves, MovedClass DEF Class
  <2>2. DataType' /\ HandInv' /\ LocalInv'
    BY <1>0, <1>3, <2>1 DEF DataType, HandInv, LocalInv, Threads
  <2>3. Located(kind, at)' /\ Graded(kind, at)'
    BY <1>0, <1>1, <1>2, <1>3, <2>1 DEF Located, Graded
  <2>4. Counted(kind, at)' = Counted(kind, at) \cup {j} /\ j \notin Counted(kind, at) /\ Running' = Running
    BY <1>0, <1>1, <1>2, <1>3, <2>1 DEF Counted, Located, Running, HandInv
  <2>5. queued_task_count' = Cardinality(Counted(kind, at)')
    <3>1. Counted(kind, at) \in SUBSET Jobs
      BY DEF Counted
    <3>2. Cardinality(Counted(kind, at) \cup {j}) = Cardinality(Counted(kind, at)) + 1
      BY <1>2, <2>4, <3>1, SlotCount
    <3>. QED
      BY <1>1, <1>3, <2>4, <3>2
  <2>6. JobInv'
    BY <2>3, <2>4, <2>5, JobsMove DEF CoreInv, JobInv
  <2>. QED
    BY <2>2, <2>6 DEF CoreInv
<1>4. CASE /\ Cl(c) = "slot" /\ Goto(c, "route")
           /\ Becomes(held[c], "accepted") /\ UNCHANGED queued_task_count
  <2>1. /\ status' = [status EXCEPT ![j] = "accepted"]
        /\ Cl(c)' = "accepted" /\ \A u \in Threads \ {c} : Cl(u)' = Cl(u)
    BY <1>2, <1>4, GotoMoves, MovedClass DEF Class, Becomes
  <2>2. DataType' /\ HandInv' /\ LocalInv'
    BY <1>0, <1>2, <1>4, <2>1
       DEF DataType, HandInv, LocalInv, Threads, Service!Statuses, Service!Pending
  <2>3. Located(kind, at)' /\ Graded(kind, at)'
    BY <1>0, <1>1, <1>2, <1>4, <2>1 DEF Located, Graded, DataType
  <2>4. Counted(kind, at)' = Counted(kind, at) /\ Running' = Running
    BY <1>0, <1>1, <1>2, <1>4, <2>1 DEF Counted, Located, Running, HandInv, DataType
  <2>5. JobInv'
    BY <1>1, <1>4, <2>3, <2>4, JobsMove DEF CoreInv, JobInv
  <2>. QED
    BY <2>2, <2>5 DEF CoreInv
<1>. QED
  BY <1>3, <1>4

LEMMA SubmitJobStep ==
    ASSUME PcType, CoreInv, NEW c \in Clients, Recheck(c) \/ ReserveQueueSlot(c) \/ Accept(c)
    PROVE  CoreInv'
<1>. c \in Threads /\ DOMAIN pc = Threads
  BY DEF Threads, PcType
<1>1. UNCHANGED <<use_worker_local_queues, batch, inbox, local, global_queue, todo, running_task_count>>
  BY DEF Recheck, ReserveQueueSlot, Accept, config, counts, queues
<1>2. CASE Recheck(c)
  <2>1. CASE accepting
    <3>1. UNCHANGED <<status, held, queued_task_count>> /\ pc[c] = "recheck" /\ Goto(c, "reserve")
      BY <1>2, <2>1 DEF Recheck, counts
    <3>2. \A t \in Threads : EmptyHanded(t)
      BY <3>1, GotoMoves, MovedClass DEF EmptyHanded, Cl, Class
    <3>. QED
      BY <1>1, <3>1, <3>2, JobsStay DEF CoreInv, DataType
  <2>2. CASE ~accepting
    <3>1. Cl(c) = "new" /\ Reject(c) /\ UNCHANGED queued_task_count
      BY <1>2, <2>2 DEF Recheck, counts, Cl, Class
    <3>. QED
      BY <1>1, <3>1, RejectStep
  <2>. QED
    BY <2>1, <2>2
<1>3. CASE ReserveQueueSlot(c)
  <2>1. Cl(c) = "new"
    BY <1>3 DEF ReserveQueueSlot, Cl, Class
  <2>2. CASE queue_capacity = Unbounded \/ queued_task_count < queue_capacity
    BY <1>1, <1>3, <2>1, <2>2, PromoteStep DEF ReserveQueueSlot
  <2>3. CASE ~(queue_capacity = Unbounded \/ queued_task_count < queue_capacity)
    BY <1>1, <1>3, <2>1, <2>3, RejectStep DEF ReserveQueueSlot
  <2>. QED
    BY <2>2, <2>3
<1>4. CASE Accept(c)
  <2>1. Cl(c) = "slot"
    BY <1>4 DEF Accept, Cl, Class
  <2>2. CASE accepting
    BY <1>1, <1>4, <2>1, <2>2, PromoteStep DEF Accept
  <2>3. CASE ~accepting
    BY <1>1, <1>4, <2>1, <2>3, RejectStep DEF Accept
  <2>. QED
    BY <2>2, <2>3
<1>. QED
  BY <1>2, <1>3, <1>4

LEMMA PushStep ==
    ASSUME PcType, CoreInv, NEW c \in Clients, Push(c)
    PROVE  CoreInv'
<1>. c \in Threads /\ DOMAIN pc = Threads /\ c \notin Workers /\ NoJob \notin Jobs
  BY FixedPoolAssumption DEF Threads, PcType
<1>0. DataType /\ HandInv /\ LocalInv
  BY DEF CoreInv
<1>1. PICK kind \in [Jobs -> Kinds], at \in [Jobs -> Threads \cup {Nobody}] :
        /\ Located(kind, at) /\ Graded(kind, at)
        /\ queued_task_count = Cardinality(Counted(kind, at))
  BY DEF CoreInv, JobInv
<1>2. PICK j \in Jobs : j = held[c] /\ kind[j] = "held" /\ at[j] = c /\ status[j] = "accepted"
  BY <1>0, <1>1 DEF Push, Cl, Class, HandInv, Located, Graded, DataType
<1>3. PICK q \in todo[c] :
        IF q = "global"
        THEN global_queue' = global_queue \cup {j} /\ UNCHANGED inbox
        ELSE inbox' = [inbox EXCEPT ![q] = @ \cup {j}] /\ UNCHANGED global_queue
  BY <1>2 DEF Push
<1>4. /\ UNCHANGED <<use_worker_local_queues, batch, local, status, queued_task_count,
                     running_task_count>>
      /\ held' = [held EXCEPT ![c] = NoJob] /\ todo' = [todo EXCEPT ![c] = {}]
      /\ Cl(c) = "accepted" /\ Cl(c)' = "none" /\ \A u \in Threads \ {c} : Cl(u)' = Cl(u)
  BY GotoMoves, MovedClass DEF Push, config, counts, Hold, Cl, Class
<1>5. q = "global" \/ q \in Workers
  BY <1>0 DEF DataType, Sources
<1>6. DataType' /\ HandInv' /\ LocalInv'
  BY <1>0, <1>2, <1>3, <1>4, <1>5 DEF DataType, HandInv, LocalInv, Threads
<1>. DEFINE kind2 == [kind EXCEPT ![j] = IF q = "global" THEN "global" ELSE "inbox"]
            at2 == [at EXCEPT ![j] = IF q = "global" THEN Nobody ELSE q]
<1>7. kind2 \in [Jobs -> Kinds] /\ at2 \in [Jobs -> Threads \cup {Nobody}]
  BY <1>5 DEF Kinds, Threads
<1>8. Located(kind2, at2)'
  BY <1>0, <1>1, <1>2, <1>3, <1>4, <1>5 DEF Located, DataType
<1>9. Graded(kind2, at2)'
  BY <1>0, <1>1, <1>2, <1>4 DEF Graded, Located
<1>10. Counted(kind2, at2)' = Counted(kind, at) /\ Running' = Running
  BY <1>0, <1>1, <1>2, <1>4 DEF Counted, Located, Running, HandInv
<1>. HIDE DEF kind2, at2
<1>11. JobInv'
  BY <1>1, <1>4, <1>7, <1>8, <1>9, <1>10, JobsMove DEF CoreInv, JobInv
<1>. QED
  BY <1>6, <1>11 DEF CoreInv

LEMMA DrainStep ==
    ASSUME PcType, CoreInv, NEW c \in Clients, Drain(c)
    PROVE  CoreInv'
<1>. c \in Threads /\ DOMAIN pc = Threads /\ c \notin Workers /\ NoJob \notin Jobs
  BY FixedPoolAssumption DEF Threads, PcType
<1>0. DataType /\ HandInv /\ LocalInv
  BY DEF CoreInv
<1>1. PICK kind \in [Jobs -> Kinds], at \in [Jobs -> Threads \cup {Nobody}] :
        /\ Located(kind, at) /\ Graded(kind, at)
        /\ queued_task_count = Cardinality(Counted(kind, at))
  BY DEF CoreInv, JobInv
<1>2. PICK j \in global_queue \cup UNION {inbox[w] \cup local[w] : w \in Workers} :
        /\ global_queue' = global_queue \ {j}
        /\ inbox' = [w \in Workers |-> inbox[w] \ {j}]
        /\ local' = [w \in Workers |-> local[w] \ {j}]
        /\ batch' = [batch EXCEPT ![c] = @ \cup {j}]
  BY DEF Drain, TakeFrom
<1>3. /\ UNCHANGED <<use_worker_local_queues, status, held, queued_task_count, running_task_count>>
      /\ todo' = [todo EXCEPT ![c] = Sources]
      /\ Cl(c) = "batch" /\ \A u \in Threads : Cl(u)' = Cl(u)
  BY DEF Drain, config, counts, Cl, Class
<1>4. j \in Jobs /\ kind[j] \in {"global", "inbox", "local"}
  BY <1>0, <1>1, <1>2 DEF Located, DataType
<1>5. DataType' /\ HandInv' /\ LocalInv'
  BY <1>0, <1>2, <1>3, <1>4 DEF DataType, HandInv, LocalInv, Threads
<1>. DEFINE kind2 == [kind EXCEPT ![j] = "batch"]
            at2 == [at EXCEPT ![j] = c]
<1>6. kind2 \in [Jobs -> Kinds] /\ at2 \in [Jobs -> Threads \cup {Nobody}]
  BY DEF Kinds
<1>7. Located(kind2, at2)'
  BY <1>0, <1>1, <1>2, <1>3, <1>4 DEF Located, DataType
<1>8. Graded(kind2, at2)'
  BY <1>0, <1>1, <1>3, <1>4 DEF Graded, Located
<1>9. Counted(kind2, at2)' = Counted(kind, at) /\ Running' = Running
  BY <1>0, <1>1, <1>3, <1>4 DEF Counted, Located, Running
<1>. HIDE DEF kind2, at2
<1>10. JobInv'
  BY <1>1, <1>3, <1>6, <1>7, <1>8, <1>9, JobsMove DEF CoreInv, JobInv
<1>. QED
  BY <1>5, <1>10 DEF CoreInv

LEMMA SubtractStep ==
    ASSUME PcType, CoreInv, NEW c \in Clients, Subtract(c)
    PROVE  CoreInv'
<1>. c \in Threads /\ DOMAIN pc = Threads /\ c \notin Workers /\ NoJob \notin Jobs
  BY FixedPoolAssumption DEF Threads, PcType
<1>0. DataType /\ HandInv /\ LocalInv
  BY DEF CoreInv
<1>1. PICK kind \in [Jobs -> Kinds], at \in [Jobs -> Threads \cup {Nobody}] :
        /\ Located(kind, at) /\ Graded(kind, at)
        /\ queued_task_count = Cardinality(Counted(kind, at))
  BY DEF CoreInv, JobInv
<1>2. /\ UNCHANGED <<use_worker_local_queues, status, held, batch, inbox, local, global_queue, todo,
                     running_task_count>>
      /\ queued_task_count' = queued_task_count - Cardinality(batch[c])
      /\ Cl(c) = "batch" /\ Cl(c)' = (IF batch[c] = {} THEN "none" ELSE "cancel")
      /\ \A u \in Threads \ {c} : Cl(u)' = Cl(u)
  BY GotoMoves, MovedClass DEF Subtract, config, queues, mine, Cl, Class
<1>3. DataType' /\ HandInv' /\ LocalInv'
  BY <1>0, <1>2 DEF DataType, HandInv, LocalInv, Threads
<1>4. Located(kind, at)' /\ Graded(kind, at)'
  BY <1>0, <1>1, <1>2 DEF Located, Graded, HandInv
<1>5. Counted(kind, at)' = Counted(kind, at) \ batch[c] /\ Running' = Running
  BY <1>0, <1>1, <1>2 DEF Counted, Located, Running, HandInv
<1>6. Cardinality(Counted(kind, at) \ batch[c]) = Cardinality(Counted(kind, at)) - Cardinality(batch[c])
  <2>1. batch[c] \in SUBSET Counted(kind, at)
    BY <1>0, <1>1, <1>2 DEF Counted, Located, DataType
  <2>2. IsFiniteSet(Counted(kind, at)) /\ IsFiniteSet(batch[c])
    BY <2>1, FS_Subset, FixedPoolAssumption DEF Counted
  <2>3. Counted(kind, at) \cap batch[c] = batch[c]
    BY <2>1
  <2>. QED
    BY <2>2, <2>3, FS_Difference
<1>7. JobInv'
  BY <1>1, <1>2, <1>4, <1>5, <1>6, JobsMove DEF CoreInv, JobInv
<1>. QED
  BY <1>3, <1>7 DEF CoreInv

LEMMA CancelBatchStep ==
    ASSUME PcType, CoreInv, NEW c \in Clients, CancelBatch(c)
    PROVE  CoreInv'
<1>. c \in Threads /\ DOMAIN pc = Threads /\ c \notin Workers /\ NoJob \notin Jobs
  BY FixedPoolAssumption DEF Threads, PcType
<1>0. DataType /\ HandInv /\ LocalInv
  BY DEF CoreInv
<1>1. PICK kind \in [Jobs -> Kinds], at \in [Jobs -> Threads \cup {Nobody}] :
        /\ Located(kind, at) /\ Graded(kind, at)
        /\ queued_task_count = Cardinality(Counted(kind, at))
  BY DEF CoreInv, JobInv
<1>2. PICK j \in batch[c] :
        /\ status' = [status EXCEPT ![j] = "cancelled"]
        /\ batch' = [batch EXCEPT ![c] = @ \ {j}]
  BY DEF CancelBatch, Becomes
<1>3. /\ UNCHANGED <<use_worker_local_queues, held, inbox, local, global_queue, todo,
                     queued_task_count, running_task_count>>
      /\ Cl(c) = "cancel" /\ Cl(c)' = (IF batch'[c] = {} THEN "none" ELSE "cancel")
      /\ \A u \in Threads \ {c} : Cl(u)' = Cl(u)
  BY GotoMoves, MovedClass DEF CancelBatch, config, queues, counts, Cl, Class
<1>4. j \in Jobs /\ kind[j] = "batch" /\ at[j] = c /\ status[j] = "accepted"
  BY <1>0, <1>1, <1>2 DEF Located, Graded, DataType
<1>5. DataType' /\ HandInv' /\ LocalInv'
  BY <1>0, <1>2, <1>3, <1>4
     DEF DataType, HandInv, LocalInv, Threads, Service!Statuses, Service!Settled
<1>. DEFINE kind2 == [kind EXCEPT ![j] = "none"]
<1>6. kind2 \in [Jobs -> Kinds]
  BY DEF Kinds
<1>7. Located(kind2, at)'
  BY <1>0, <1>1, <1>2, <1>3, <1>4 DEF Located, DataType
<1>8. Graded(kind2, at)'
  BY <1>0, <1>1, <1>2, <1>3, <1>4 DEF Graded, Located, DataType, HandInv
<1>9. Counted(kind2, at)' = Counted(kind, at) /\ Running' = Running
  BY <1>0, <1>1, <1>2, <1>3, <1>4, <1>7 DEF Counted, Located, Running, DataType
<1>. HIDE DEF kind2
<1>10. JobInv'
  BY <1>1, <1>3, <1>6, <1>7, <1>8, <1>9, JobsMove DEF CoreInv, JobInv
<1>. QED
  BY <1>5, <1>10 DEF CoreInv

(* A worker takes a job from some queue, and more into its local queue.    *)
Taken(w, j, more) ==
    /\ global_queue' \in SUBSET Jobs
    /\ inbox' \in [Workers -> SUBSET Jobs]
    /\ local' \in [Workers -> SUBSET Jobs]
    /\ \A i \in Jobs :
         /\ i \in global_queue' <=> i \in global_queue /\ i \notin {j} \cup more
         /\ \A v \in Workers : i \in inbox'[v] <=> i \in inbox[v] /\ i \notin {j} \cup more
         /\ \A v \in Workers \ {w} : i \in local'[v] <=> i \in local[v] /\ i \notin {j} \cup more
         /\ i \in local'[w] <=> (i \in local[w] /\ i # j) \/ i \in more

LEMMA TakeStep ==
    ASSUME PcType, CoreInv, NEW w \in Workers, NEW j \in Jobs, NEW more \in SUBSET (Jobs \ {j}),
           UNCHANGED <<use_worker_local_queues, status, batch, queued_task_count, running_task_count>>,
           \/ todo' = todo
           \/ \E S \in SUBSET (Workers \ {w}) :
                todo' = [todo EXCEPT ![w] = S] /\ (S # {} => use_worker_local_queues),
           \A i \in {j} \cup more : i \in global_queue \/ \E v \in Workers : i \in inbox[v] \cup local[v],
           Taken(w, j, more),
           use_worker_local_queues \/ more = {},
           Hold(w, j), held[w] = NoJob, Cl(w) \notin {"batch", "discard_all", "cancel"},
           Cl(w)' = "accepted", \A u \in Threads \ {w} : Cl(u)' = Cl(u)
    PROVE  CoreInv'
<1>. w \in Threads /\ DOMAIN pc = Threads /\ NoJob \notin Jobs
  BY FixedPoolAssumption DEF Threads, PcType
<1>0. DataType /\ HandInv /\ LocalInv
  BY DEF CoreInv
<1>1. PICK kind \in [Jobs -> Kinds], at \in [Jobs -> Threads \cup {Nobody}] :
        /\ Located(kind, at) /\ Graded(kind, at)
        /\ queued_task_count = Cardinality(Counted(kind, at))
  BY DEF CoreInv, JobInv
<1>2. held' = [held EXCEPT ![w] = j]
  BY DEF Hold
<1>12. /\ todo' \in [Threads -> SUBSET Sources]
       /\ \A v \in Workers : /\ todo'[v] \subseteq Workers \ {v}
                             /\ ~use_worker_local_queues /\ todo[v] = {} => todo'[v] = {}
  <2>1. CASE todo' = todo
    BY <1>0, <2>1 DEF DataType
  <2>2. ASSUME NEW S \in SUBSET (Workers \ {w}), todo' = [todo EXCEPT ![w] = S],
               S # {} => use_worker_local_queues
        PROVE  /\ todo' \in [Threads -> SUBSET Sources]
               /\ \A v \in Workers : /\ todo'[v] \subseteq Workers \ {v}
                                     /\ ~use_worker_local_queues /\ todo[v] = {} => todo'[v] = {}
    <3>1. S \in SUBSET Sources
      BY DEF Sources
    <3>2. todo' \in [Threads -> SUBSET Sources]
      BY <1>0, <2>2, <3>1 DEF DataType
    <3>3. ASSUME NEW v \in Workers
          PROVE  todo'[v] = IF v = w THEN S ELSE todo[v]
      BY <1>0, <2>2 DEF DataType, Threads
    <3>. QED
      BY <1>0, <2>2, <3>2, <3>3 DEF DataType
  <2>. QED
    BY <2>1, <2>2
<1>. USE DEF Taken
<1>3. DataType' /\ HandInv'
  BY <1>0, <1>2, <1>12 DEF DataType, HandInv, Threads
<1>10. LocalInv'
  <2>1. ASSUME NEW v \in Workers, local'[v] # {}
        PROVE  Cl(v)' \in {"laden", "accepted", "run"}
    <3>1. CASE v = w
      BY <3>1
    <3>2. CASE v # w
      <4>1. local[v] # {}
        BY <2>1, <3>2
      <4>. QED
        BY <1>0, <3>2, <4>1 DEF LocalInv, Threads
    <3>. QED
      BY <3>1, <3>2
  <2>2. ASSUME ~use_worker_local_queues, NEW v \in Workers
        PROVE  local'[v] = {} /\ Cl(v)' # "victims" /\ todo'[v] = {}
    <3>1. local[v] = {} /\ Cl(v) # "victims" /\ more = {} /\ local'[v] \in SUBSET Jobs
      BY <1>0, <2>2 DEF LocalInv
    <3>4. todo'[v] = {}
      <4>1. todo[v] = {}
        BY <1>0, <2>2 DEF LocalInv
      <4>. QED
        BY <1>12, <2>2, <4>1
    <3>2. \A i \in Jobs : i \notin local'[v]
      BY <3>1
    <3>3. Cl(v)' # "victims"
      BY <3>1 DEF Threads
    <3>. QED
      BY <3>1, <3>2, <3>3, <3>4
  <2>. QED
    BY <2>1, <2>2 DEF LocalInv
<1>4. \A i \in {j} \cup more : i \in Jobs /\ kind[i] \in {"global", "inbox", "local"}
  BY <1>1 DEF Located
<1>. DEFINE kind2 == [i \in Jobs |-> IF i = j THEN "held" ELSE IF i \in more THEN "local" ELSE kind[i]]
            at2 == [i \in Jobs |-> IF i \in {j} \cup more THEN w ELSE at[i]]
<1>5. kind2 \in [Jobs -> Kinds] /\ at2 \in [Jobs -> Threads \cup {Nobody}]
  BY DEF Kinds
<1>6. Located(kind2, at2)'
  <2>. SUFFICES ASSUME NEW i \in Jobs
                PROVE  /\ i \in global_queue' <=> kind2[i] = "global"
                       /\ \A v \in Workers :
                            /\ i \in inbox'[v] <=> kind2[i] = "inbox" /\ at2[i] = v
                            /\ i \in local'[v] <=> kind2[i] = "local" /\ at2[i] = v
                       /\ \A t \in Threads :
                            /\ i \in batch'[t] <=> kind2[i] = "batch" /\ at2[i] = t
                            /\ held'[t] = i <=> kind2[i] = "held" /\ at2[i] = t
                       /\ kind2[i] \in {"inbox", "local"} => at2[i] \in Workers
                       /\ kind2[i] \in {"batch", "held"} => at2[i] \in Threads
    BY DEF Located
  <2>1. CASE i = j
    BY <1>0, <1>1, <1>2, <1>4, <2>1 DEF Located, DataType
  <2>2. CASE i \in more
    BY <1>0, <1>1, <1>2, <1>4, <2>2 DEF Located, DataType
  <2>3. CASE i \notin {j} \cup more
    BY <1>0, <1>1, <1>2, <2>3 DEF Located, DataType
  <2>. QED
    BY <2>1, <2>2, <2>3
<1>7. Graded(kind2, at2)'
  BY <1>0, <1>1, <1>4 DEF Graded, Located
<1>8. Counted(kind2, at2)' = Counted(kind, at) /\ Running' = Running
  BY <1>0, <1>1, <1>4 DEF Counted, Located, Running, HandInv
<1>. HIDE DEF kind2, at2
<1>9. JobInv'
  BY <1>1, <1>5, <1>6, <1>7, <1>8, JobsMove DEF CoreInv, JobInv
<1>. QED
  BY <1>3, <1>9, <1>10 DEF CoreInv

LEMMA QueuesAreDisjoint ==
    ASSUME CoreInv
    PROVE  /\ \A v \in Workers : /\ global_queue \cap inbox[v] = {}
                                 /\ global_queue \cap local[v] = {}
           /\ \A v, u \in Workers : /\ inbox[v] \cap local[u] = {}
                                    /\ v # u => inbox[v] \cap inbox[u] = {}
                                    /\ v # u => local[v] \cap local[u] = {}
<1>1. PICK kind \in [Jobs -> Kinds], at \in [Jobs -> Threads \cup {Nobody}] : Located(kind, at)
  BY DEF CoreInv, JobInv
<1>. QED
  BY <1>1 DEF Located, CoreInv, DataType

LEMMA TryTakeStep ==
    ASSUME PcType, CoreInv, NEW w \in Workers, TryTakeJob(w)
    PROVE  CoreInv'
<1>. w \in Threads /\ DOMAIN pc = Threads /\ NoJob \notin Jobs
  BY FixedPoolAssumption DEF Threads, PcType
<1>0. DataType /\ HandInv /\ LocalInv
  BY DEF CoreInv
<1>1. /\ UNCHANGED <<use_worker_local_queues, status, batch, global_queue, todo, queued_task_count,
                     running_task_count>>
      /\ Cl(w) = "laden" /\ held[w] = NoJob /\ batch[w] = {}
  BY <1>0 DEF TryTakeJob, config, counts, Cl, Class, HandInv
<1>2. CASE UNCHANGED <<local, inbox, held>> /\ (Goto(w, "purge") \/ (Goto(w, "global") /\ local[w] = {}))
  <2>1. \A t \in Threads : EmptyHanded(t)
    BY <1>1, <1>2, GotoMoves, MovedClass DEF EmptyHanded, Cl, Class
  <2>. QED
    BY <1>0, <1>1, <1>2, <2>1, JobsStay DEF DataType
<1>3. ASSUME NEW j \in local[w], use_worker_local_queues,
             local' = [local EXCEPT ![w] = @ \ {j}], UNCHANGED inbox, Hold(w, j), Goto(w, "claimed")
      PROVE  CoreInv'
  <2>. DEFINE more == {}
  <2>1. j \in Jobs /\ more \in SUBSET (Jobs \ {j}) /\ j \in inbox[w] \cup local[w]
    BY <1>0, <1>3 DEF DataType
  <2>2. Cl(w)' = "accepted" /\ \A u \in Threads \ {w} : Cl(u)' = Cl(u)
    BY <1>3, GotoMoves, MovedClass DEF Class
  <2>3. Taken(w, j, more)
    BY <1>0, <1>1, <1>3, QueuesAreDisjoint DEF DataType, Taken
  <2>4. \A i \in {j} \cup more : i \in global_queue \/ \E v \in Workers : i \in inbox[v] \cup local[v]
    BY <2>1
  <2>. HIDE DEF more
  <2>. QED
    BY <1>1, <1>3, <2>1, <2>2, <2>3, <2>4, TakeStep
<1>4. ASSUME NEW j \in inbox[w], NEW more \in SUBSET (inbox[w] \ {j}), use_worker_local_queues,
             local[w] = {}, local' = [local EXCEPT ![w] = more],
             inbox' = [inbox EXCEPT ![w] = @ \ ({j} \cup more)], Hold(w, j), Goto(w, "claimed")
      PROVE  CoreInv'
  <2>1. j \in Jobs /\ more \in SUBSET (Jobs \ {j})
    BY <1>0, <1>4 DEF DataType
  <2>2. Cl(w)' = "accepted" /\ \A u \in Threads \ {w} : Cl(u)' = Cl(u)
    BY <1>4, GotoMoves, MovedClass DEF Class
  <2>3. Taken(w, j, more)
    BY <1>0, <1>1, <1>4, QueuesAreDisjoint DEF DataType, Taken
  <2>4. \A i \in {j} \cup more : i \in inbox[w] \cup local[w]
    BY <1>4
  <2>. QED
    BY <1>1, <1>4, <2>1, <2>2, <2>3, <2>4, TakeStep
<1>5. ~use_worker_local_queues => local[w] = {}
  BY <1>0 DEF LocalInv
<1>. QED
  BY <1>2, <1>3, <1>4, <1>5 DEF TryTakeJob

LEMMA StealGlobalStep ==
    ASSUME PcType, CoreInv, NEW w \in Workers, StealGlobal(w)
    PROVE  CoreInv'
<1>. w \in Threads /\ DOMAIN pc = Threads /\ NoJob \notin Jobs
  BY FixedPoolAssumption DEF Threads, PcType
<1>0. DataType /\ HandInv /\ LocalInv
  BY DEF CoreInv
<1>1. /\ UNCHANGED <<use_worker_local_queues, status, batch, inbox, queued_task_count,
                     running_task_count>>
      /\ Cl(w) = "none" /\ held[w] = NoJob /\ local[w] = {}
  BY <1>0 DEF StealGlobal, config, counts, Cl, Class, HandInv, LocalInv
<1>2. CASE /\ todo' = [todo EXCEPT ![w] = IF use_worker_local_queues THEN Workers \ {w} ELSE {}]
           /\ Goto(w, IF todo'[w] = {} THEN "lock" ELSE "victims")
           /\ UNCHANGED <<global_queue, local, held>>
  <2>1. /\ Cl(w)' = "none" \/ (use_worker_local_queues /\ Cl(w)' = "victims")
        /\ \A u \in Threads \ {w} : Cl(u)' = Cl(u)
    BY <1>0, <1>2, GotoMoves, MovedClass DEF Class, DataType
  <2>2. DataType'
    BY <1>0, <1>1, <1>2 DEF DataType, Sources
  <2>3. HandInv' /\ LocalInv'
    BY <1>0, <1>1, <1>2, <2>1 DEF HandInv, LocalInv, Threads
  <2>4. PICK kind \in [Jobs -> Kinds], at \in [Jobs -> Threads \cup {Nobody}] :
          /\ Located(kind, at) /\ Graded(kind, at)
          /\ queued_task_count = Cardinality(Counted(kind, at))
    BY DEF CoreInv, JobInv
  <2>5. Located(kind, at)' /\ Graded(kind, at)'
    BY <1>0, <1>1, <1>2, <2>1, <2>4 DEF Located, Graded, HandInv
  <2>6. Counted(kind, at)' = Counted(kind, at) /\ Running' = Running
    BY <1>0, <1>1, <1>2, <2>1, <2>4 DEF Counted, Located, Running, HandInv
  <2>7. JobInv'
    BY <1>1, <2>4, <2>5, <2>6, JobsMove DEF CoreInv, JobInv
  <2>. QED
    BY <2>2, <2>3, <2>7 DEF CoreInv
<1>3. ASSUME NEW j \in global_queue, NEW more \in SUBSET (global_queue \ {j}),
             ~use_worker_local_queues => more = {},
             global_queue' = global_queue \ ({j} \cup more), local' = [local EXCEPT ![w] = more],
             Stolen(w, j, more),
             todo' = [todo EXCEPT ![w] = IF use_worker_local_queues THEN Workers \ {w} ELSE {}]
      PROVE  CoreInv'
  <2>1. j \in Jobs /\ more \in SUBSET (Jobs \ {j})
    BY <1>0, <1>3 DEF DataType
  <2>2. Hold(w, j) /\ Cl(w)' = "accepted" /\ \A u \in Threads \ {w} : Cl(u)' = Cl(u)
    BY <1>3, GotoMoves, MovedClass DEF Class, Stolen
  <2>3. Taken(w, j, more)
    BY <1>0, <1>1, <1>3, QueuesAreDisjoint DEF DataType, Taken
  <2>. QED
    BY <1>1, <1>3, <2>1, <2>2, <2>3, TakeStep
<1>. QED
  BY <1>2, <1>3 DEF StealGlobal

LEMMA StealWorkerStep ==
    ASSUME PcType, CoreInv, NEW w \in Workers, StealWorker(w)
    PROVE  CoreInv'
<1>. w \in Threads /\ DOMAIN pc = Threads /\ NoJob \notin Jobs
  BY FixedPoolAssumption DEF Threads, PcType
<1>0. DataType /\ HandInv /\ LocalInv
  BY DEF CoreInv
<1>1. /\ UNCHANGED <<use_worker_local_queues, status, batch, global_queue, queued_task_count,
                     running_task_count>>
      /\ Cl(w) = "victims" /\ held[w] = NoJob /\ local[w] = {} /\ use_worker_local_queues
  BY <1>0 DEF StealWorker, config, counts, Cl, Class, HandInv, LocalInv
<1>2. PICK v \in todo[w] :
       \/ \E j \in local[v] : \E more \in SUBSET (local[v] \ {j}) :
            /\ local' = [local EXCEPT ![v] = @ \ ({j} \cup more), ![w] = more]
            /\ todo' = [todo EXCEPT ![w] = {}]
            /\ Stolen(w, j, more)
            /\ UNCHANGED inbox
       \/ \E j \in inbox[v] : \E more \in SUBSET (inbox[v] \ {j}) :
            /\ inbox' = [inbox EXCEPT ![v] = @ \ ({j} \cup more)]
            /\ local' = [local EXCEPT ![w] = more]
            /\ todo' = [todo EXCEPT ![w] = {}]
            /\ Stolen(w, j, more)
       \/ /\ todo' = [todo EXCEPT ![w] = @ \ {v}]
          /\ Goto(w, IF todo'[w] = {} THEN "lock" ELSE "victims")
          /\ UNCHANGED <<local, inbox, held>>
  BY DEF StealWorker
<1>3. v \in Workers /\ v # w
  BY <1>0 DEF DataType
<1>4. ASSUME NEW j \in local[v], NEW more \in SUBSET (local[v] \ {j}),
             local' = [local EXCEPT ![v] = @ \ ({j} \cup more), ![w] = more],
             todo' = [todo EXCEPT ![w] = {}], Stolen(w, j, more), UNCHANGED inbox
      PROVE  CoreInv'
  <2>1. j \in Jobs /\ more \in SUBSET (Jobs \ {j})
    BY <1>0, <1>3, <1>4 DEF DataType
  <2>2. Hold(w, j) /\ Cl(w)' = "accepted" /\ \A u \in Threads \ {w} : Cl(u)' = Cl(u)
    BY <1>4, GotoMoves, MovedClass DEF Class, Stolen
  <2>3. Taken(w, j, more)
    BY <1>0, <1>1, <1>3, <1>4, QueuesAreDisjoint DEF DataType, Taken
  <2>4. \A i \in {j} \cup more : i \in inbox[v] \cup local[v]
    BY <1>4
  <2>. QED
    BY <1>1, <1>3, <1>4, <2>1, <2>2, <2>3, <2>4, TakeStep
<1>5. ASSUME NEW j \in inbox[v], NEW more \in SUBSET (inbox[v] \ {j}),
             inbox' = [inbox EXCEPT ![v] = @ \ ({j} \cup more)], local' = [local EXCEPT ![w] = more],
             todo' = [todo EXCEPT ![w] = {}], Stolen(w, j, more)
      PROVE  CoreInv'
  <2>1. j \in Jobs /\ more \in SUBSET (Jobs \ {j})
    BY <1>0, <1>3, <1>5 DEF DataType
  <2>2. Hold(w, j) /\ Cl(w)' = "accepted" /\ \A u \in Threads \ {w} : Cl(u)' = Cl(u)
    BY <1>5, GotoMoves, MovedClass DEF Class, Stolen
  <2>3. Taken(w, j, more)
    BY <1>0, <1>1, <1>3, <1>5, QueuesAreDisjoint DEF DataType, Taken
  <2>4. \A i \in {j} \cup more : i \in inbox[v] \cup local[v]
    BY <1>5
  <2>. QED
    BY <1>1, <1>3, <1>5, <2>1, <2>2, <2>3, <2>4, TakeStep
<1>6. CASE /\ todo' = [todo EXCEPT ![w] = @ \ {v}]
           /\ Goto(w, IF todo'[w] = {} THEN "lock" ELSE "victims")
           /\ UNCHANGED <<local, inbox, held>>
  <2>1. Cl(w)' \in {"none", "victims"} /\ \A u \in Threads \ {w} : Cl(u)' = Cl(u)
    BY <1>6, GotoMoves, MovedClass DEF Class
  <2>2. DataType'
    BY <1>0, <1>1, <1>6 DEF DataType
  <2>3. HandInv' /\ LocalInv'
    BY <1>0, <1>1, <1>6, <2>1 DEF HandInv, LocalInv, Threads
  <2>4. PICK kind \in [Jobs -> Kinds], at \in [Jobs -> Threads \cup {Nobody}] :
          /\ Located(kind, at) /\ Graded(kind, at)
          /\ queued_task_count = Cardinality(Counted(kind, at))
    BY DEF CoreInv, JobInv
  <2>5. Located(kind, at)' /\ Graded(kind, at)'
    BY <1>0, <1>1, <1>6, <2>1, <2>4 DEF Located, Graded, HandInv
  <2>6. Counted(kind, at)' = Counted(kind, at) /\ Running' = Running
    BY <1>0, <1>1, <1>6, <2>1, <2>4 DEF Counted, Located, Running, HandInv
  <2>7. JobInv'
    BY <1>1, <2>4, <2>5, <2>6, JobsMove DEF CoreInv, JobInv
  <2>. QED
    BY <2>2, <2>3, <2>7 DEF CoreInv
<1>. QED
  BY <1>2, <1>4, <1>5, <1>6

LEMMA ClaimedStep ==
    ASSUME PcType, CoreInv, NEW w \in Workers, AcceptClaimedJob(w)
    PROVE  CoreInv'
<1>. w \in Threads /\ DOMAIN pc = Threads /\ NoJob \notin Jobs
  BY FixedPoolAssumption DEF Threads, PcType
<1>0. DataType /\ HandInv /\ LocalInv
  BY DEF CoreInv
<1>1. PICK kind \in [Jobs -> Kinds], at \in [Jobs -> Threads \cup {Nobody}] :
        /\ Located(kind, at) /\ Graded(kind, at)
        /\ queued_task_count = Cardinality(Counted(kind, at))
  BY DEF CoreInv, JobInv
<1>2. /\ UNCHANGED <<use_worker_local_queues, held, batch, inbox, local, global_queue>>
      /\ Cl(w) = "accepted"
      /\ todo' = todo \/ todo' = [todo EXCEPT ![w] = {}]
  BY DEF AcceptClaimedJob, config, queues, Cl, Class
<1>3. PICK j \in Jobs : j = held[w] /\ kind[j] = "held" /\ at[j] = w /\ status[j] = "accepted"
  BY <1>0, <1>1, <1>2 DEF HandInv, Located, Graded, DataType
<1>4. CASE stop_now
  <2>1. UNCHANGED <<queued_task_count, running_task_count, status, todo>> /\ Goto(w, "discard")
    BY <1>4 DEF AcceptClaimedJob
  <2>2. \A t \in Threads : EmptyHanded(t)
    BY <1>2, <2>1, GotoMoves, MovedClass DEF EmptyHanded, Class
  <2>. QED
    BY <1>0, <1>2, <2>1, <2>2, JobsStay DEF DataType
<1>5. CASE ~stop_now
  <2>1. /\ queued_task_count' = queued_task_count - 1
        /\ running_task_count' = running_task_count + 1
        /\ status' = [status EXCEPT ![j] = "running"]
        /\ Cl(w)' = "run" /\ \A u \in Threads \ {w} : Cl(u)' = Cl(u)
    BY <1>3, <1>5, GotoMoves, MovedClass DEF AcceptClaimedJob, Becomes, Class
  <2>2. DataType' /\ HandInv' /\ LocalInv'
    BY <1>0, <1>2, <2>1 DEF DataType, HandInv, LocalInv, Threads, Service!Statuses, Service!Pending
  <2>3. Located(kind, at)' /\ Graded(kind, at)'
    BY <1>0, <1>1, <1>2, <1>3, <2>1 DEF Located, Graded, DataType
  <2>4. Counted(kind, at)' = Counted(kind, at) \ {j} /\ j \in Counted(kind, at)
    BY <1>0, <1>1, <1>2, <1>3, <2>1 DEF Counted, Located, HandInv
  <2>5. Running' = Running \cup {j} /\ j \in Jobs \ Running
    BY <1>0, <1>3, <2>1 DEF Running, DataType
  <2>6. Counted(kind, at) \in SUBSET Jobs /\ Running \in SUBSET Jobs
    BY DEF Counted, Running
  <2>7. /\ queued_task_count' = Cardinality(Counted(kind, at)')
        /\ running_task_count' = Cardinality(Running')
    BY <1>1, <2>1, <2>4, <2>5, <2>6, SlotCount DEF CoreInv, JobInv
  <2>8. JobInv'
    BY <2>3, <2>7, JobsMove
  <2>. QED
    BY <2>2, <2>8 DEF CoreInv
<1>. QED
  BY <1>4, <1>5

LEMMA RunStep ==
    ASSUME PcType, CoreInv, NEW w \in Workers, RunJob(w)
    PROVE  CoreInv'
<1>. w \in Threads /\ DOMAIN pc = Threads /\ NoJob \notin Jobs
  BY FixedPoolAssumption DEF Threads, PcType
<1>0. DataType /\ HandInv /\ LocalInv
  BY DEF CoreInv
<1>1. PICK kind \in [Jobs -> Kinds], at \in [Jobs -> Threads \cup {Nobody}] :
        /\ Located(kind, at) /\ Graded(kind, at)
        /\ queued_task_count = Cardinality(Counted(kind, at))
  BY DEF CoreInv, JobInv
<1>2. PICK j \in Jobs : j = held[w] /\ kind[j] = "held" /\ at[j] = w /\ status[j] = "running"
  BY <1>0, <1>1 DEF RunJob, Cl, Class, HandInv, Located, Graded, DataType
<1>3. /\ UNCHANGED <<use_worker_local_queues, batch, inbox, local, global_queue, todo, queued_task_count>>
      /\ running_task_count' = running_task_count - 1
      /\ status' = [status EXCEPT ![j] = "completed"] /\ held' = [held EXCEPT ![w] = NoJob]
      /\ Cl(w) = "run" /\ Cl(w)' = "laden" /\ \A u \in Threads \ {w} : Cl(u)' = Cl(u)
  BY <1>2, GotoMoves, MovedClass DEF RunJob, config, queues, Becomes, Hold, Cl, Class
<1>4. DataType' /\ HandInv' /\ LocalInv'
  BY <1>0, <1>3 DEF DataType, HandInv, LocalInv, Threads, Service!Statuses, Service!Settled
<1>. DEFINE kind2 == [kind EXCEPT ![j] = "none"]
<1>5. kind2 \in [Jobs -> Kinds]
  BY DEF Kinds
<1>6. Located(kind2, at)'
  BY <1>0, <1>1, <1>2, <1>3 DEF Located, DataType
<1>7. Graded(kind2, at)'
  BY <1>0, <1>1, <1>2, <1>3 DEF Graded, Located, DataType
<1>8. Counted(kind2, at)' = Counted(kind, at)
  BY <1>0, <1>1, <1>2, <1>3 DEF Counted, Located, HandInv
<1>9. Running' = Running \ {j} /\ j \in Running /\ Running \in SUBSET Jobs
  BY <1>0, <1>2, <1>3 DEF Running, DataType
<1>10. /\ queued_task_count' = Cardinality(Counted(kind2, at)')
       /\ running_task_count' = Cardinality(Running')
  BY <1>1, <1>3, <1>8, <1>9, SlotCount DEF CoreInv, JobInv
<1>. HIDE DEF kind2
<1>11. JobInv'
  BY <1>5, <1>6, <1>7, <1>10, JobsMove
<1>. QED
  BY <1>4, <1>11 DEF CoreInv

LEMMA CancelWorkerStep ==
    ASSUME PcType, CoreInv, NEW w \in Workers, CancelWorkerJobs(w)
    PROVE  CoreInv'
<1>. w \in Threads /\ DOMAIN pc = Threads /\ NoJob \notin Jobs
  BY FixedPoolAssumption DEF Threads, PcType
<1>0. DataType /\ HandInv /\ LocalInv
  BY DEF CoreInv
<1>1. UNCHANGED <<use_worker_local_queues, status, global_queue, todo, queued_task_count,
                  running_task_count>>
  BY DEF CancelWorkerJobs, config, counts
<1>2. ASSUME NEW j \in local[w], pc[w] = "purge", local' = [local EXCEPT ![w] = @ \ {j}],
             Hold(w, j), Goto(w, "discard"), UNCHANGED <<inbox, batch>>
      PROVE  CoreInv'
  <2>. DEFINE more == {}
  <2>1. j \in Jobs /\ more \in SUBSET (Jobs \ {j}) /\ j \in inbox[w] \cup local[w]
    BY <1>0, <1>2 DEF DataType
  <2>2. /\ Cl(w) = "laden" /\ Cl(w)' = "accepted" /\ held[w] = NoJob
        /\ \A u \in Threads \ {w} : Cl(u)' = Cl(u)
    BY <1>0, <1>2, GotoMoves, MovedClass DEF Class, Cl, HandInv
  <2>3. Taken(w, j, more)
    BY <1>0, <1>1, <1>2, QueuesAreDisjoint DEF DataType, Taken
  <2>4. \A i \in {j} \cup more : i \in global_queue \/ \E v \in Workers : i \in inbox[v] \cup local[v]
    BY <2>1
  <2>5. use_worker_local_queues \/ more = {}
    OBVIOUS
  <2>. HIDE DEF more
  <2>. QED
    BY <1>1, <1>2, <2>1, <2>2, <2>3, <2>4, <2>5, TakeStep
<1>3. CASE /\ \/ pc[w] = "purge" /\ local[w] = {} /\ Goto(w, "collect")
              \/ /\ pc[w] = "collect" /\ Goto(w, IF batch[w] = {} THEN NextSource(w) ELSE "discard_all")
           /\ UNCHANGED <<local, inbox, held, batch>>
  <2>1. /\ \A u \in Threads \ {w} : Cl(u)' = Cl(u)
        /\ \/ Cl(w) = "laden" /\ local[w] = {} /\ Cl(w)' = "batch"
           \/ /\ Cl(w) = "batch" /\ batch[w] = {} /\ Cl(w)' \in {"none", "victims"}
              /\ Cl(w)' = "victims" => todo[w] # {}
           \/ Cl(w) = "batch" /\ batch[w] # {} /\ Cl(w)' = "discard_all"
    BY <1>3, GotoMoves, MovedClass DEF Class, Cl, NextSource
  <2>2. \A t \in Threads : EmptyHanded(t)
    BY <1>0, <2>1 DEF EmptyHanded, HandInv, LocalInv
  <2>. QED
    BY <1>0, <1>1, <1>3, <2>2, JobsStay DEF DataType
<1>4. ASSUME NEW j \in inbox[w], pc[w] = "collect", inbox' = [inbox EXCEPT ![w] = @ \ {j}],
             batch' = [batch EXCEPT ![w] = @ \cup {j}], UNCHANGED <<local, held, pc>>
      PROVE  CoreInv'
  <2>1. PICK kind \in [Jobs -> Kinds], at \in [Jobs -> Threads \cup {Nobody}] :
          /\ Located(kind, at) /\ Graded(kind, at)
          /\ queued_task_count = Cardinality(Counted(kind, at))
    BY DEF CoreInv, JobInv
  <2>2. j \in Jobs /\ kind[j] = "inbox" /\ at[j] = w /\ Cl(w) = "batch"
    BY <1>0, <1>4, <2>1 DEF Located, DataType, Cl, Class
  <2>3. \A u \in Threads : Cl(u)' = Cl(u)
    BY <1>4 DEF Cl
  <2>4. DataType' /\ HandInv' /\ LocalInv'
    BY <1>0, <1>1, <1>4, <2>2, <2>3 DEF DataType, HandInv, LocalInv, Threads
  <2>. DEFINE kind2 == [kind EXCEPT ![j] = "batch"]
  <2>5. kind2 \in [Jobs -> Kinds]
    BY DEF Kinds
  <2>6. Located(kind2, at)'
    BY <1>0, <1>1, <1>4, <2>1, <2>2 DEF Located, DataType
  <2>7. Graded(kind2, at)'
    BY <1>0, <1>1, <2>1, <2>2, <2>3 DEF Graded, Located
  <2>8. Counted(kind2, at)' = Counted(kind, at) /\ Running' = Running
    BY <1>0, <1>1, <2>1, <2>2, <2>3 DEF Counted, Located, Running
  <2>. HIDE DEF kind2
  <2>9. JobInv'
    BY <1>1, <2>1, <2>5, <2>6, <2>7, <2>8, JobsMove DEF CoreInv, JobInv
  <2>. QED
    BY <2>4, <2>9 DEF CoreInv
<1>. QED
  BY <1>2, <1>3, <1>4 DEF CancelWorkerJobs

LEMMA CancelClaimedStep ==
    ASSUME PcType, CoreInv, NEW w \in Workers, CancelClaimedJob(w)
    PROVE  CoreInv'
<1>. w \in Threads /\ DOMAIN pc = Threads /\ NoJob \notin Jobs
  BY FixedPoolAssumption DEF Threads, PcType
<1>0. DataType /\ HandInv /\ LocalInv
  BY DEF CoreInv
<1>1. PICK kind \in [Jobs -> Kinds], at \in [Jobs -> Threads \cup {Nobody}] :
        /\ Located(kind, at) /\ Graded(kind, at)
        /\ queued_task_count = Cardinality(Counted(kind, at))
  BY DEF CoreInv, JobInv
<1>2. /\ UNCHANGED <<use_worker_local_queues, inbox, local, global_queue, todo, running_task_count>>
      /\ queued_task_count' = queued_task_count - 1
      /\ \A u \in Threads \ {w} : Cl(u)' = Cl(u)
  BY NotifyMoves, MovedClass DEF CancelClaimedJob, config, queues
<1>3. PICK j \in Jobs :
        /\ status' = [status EXCEPT ![j] = "cancelled"] /\ status[j] = "accepted" /\ at[j] = w
        /\ \/ /\ kind[j] = "held" /\ Cl(w) = "accepted" /\ Cl(w)' = "laden"
              /\ held[w] = j /\ held' = [held EXCEPT ![w] = NoJob] /\ UNCHANGED batch
           \/ /\ kind[j] = "batch" /\ Cl(w) = "discard_all"
              /\ IF batch'[w] = {}
                 THEN Cl(w)' = "none" \/ (Cl(w)' = "victims" /\ todo[w] # {})
                 ELSE Cl(w)' = "discard_all"
              /\ batch' = [batch EXCEPT ![w] = @ \ {j}] /\ UNCHANGED held
  <2>1. CASE pc[w] = "discard"
    <3>1. /\ status' = [status EXCEPT ![held[w]] = "cancelled"] /\ UNCHANGED batch
          /\ held' = [held EXCEPT ![w] = NoJob] /\ NotifyAll(w, "purge")
      BY <2>1 DEF CancelClaimedJob, Becomes, Hold
    <3>2. Cl(w) = "accepted" /\ Cl(w)' = "laden"
      BY <2>1, <3>1, NotifyMoves, MovedClass DEF Cl, Class
    <3>3. /\ held[w] \in Jobs /\ kind[held[w]] = "held" /\ at[held[w]] = w
          /\ status[held[w]] = "accepted"
      BY <1>0, <1>1, <3>2 DEF HandInv, Located, Graded, DataType
    <3>. QED
      BY <3>1, <3>2, <3>3
  <2>2. CASE pc[w] = "discard_all"
    <3>1. PICK j \in batch[w] :
            /\ status' = [status EXCEPT ![j] = "cancelled"] /\ UNCHANGED held
            /\ batch' = [batch EXCEPT ![w] = @ \ {j}]
            /\ NotifyAll(w, IF batch'[w] = {} THEN NextSource(w) ELSE "discard_all")
      BY <2>2 DEF CancelClaimedJob, Becomes
    <3>2. /\ Cl(w) = "discard_all"
          /\ IF batch'[w] = {}
             THEN Cl(w)' = "none" \/ (Cl(w)' = "victims" /\ todo[w] # {})
             ELSE Cl(w)' = "discard_all"
      BY <2>2, <3>1, NotifyMoves, MovedClass DEF Cl, Class, NextSource
    <3>3. j \in Jobs /\ kind[j] = "batch" /\ at[j] = w /\ status[j] = "accepted"
      BY <1>0, <1>1, <3>1 DEF Located, Graded, DataType
    <3>. QED
      BY <3>1, <3>2, <3>3
  <2>. QED
    BY <2>1, <2>2 DEF CancelClaimedJob
<1>4. DataType'
  BY <1>0, <1>2, <1>3 DEF DataType, Service!Statuses, Service!Settled
<1>5. HandInv' /\ LocalInv'
  BY <1>0, <1>2, <1>3 DEF DataType, HandInv, LocalInv, Threads
<1>. DEFINE kind2 == [kind EXCEPT ![j] = "none"]
<1>6. kind2 \in [Jobs -> Kinds]
  BY DEF Kinds
<1>7. Located(kind2, at)'
  BY <1>0, <1>1, <1>2, <1>3 DEF Located, DataType
<1>8. Graded(kind2, at)'
  BY <1>0, <1>1, <1>2, <1>3 DEF Graded, Located, DataType
<1>9. Counted(kind2, at)' = Counted(kind, at) \ {j} /\ j \in Counted(kind, at)
  BY <1>0, <1>1, <1>2, <1>3, <1>7 DEF Counted, Located, DataType
<1>10. Running' = Running /\ Counted(kind, at) \in SUBSET Jobs
  BY <1>0, <1>3 DEF Running, DataType, Counted
<1>11. queued_task_count' = Cardinality(Counted(kind2, at)')
  BY <1>1, <1>2, <1>9, <1>10, SlotCount
<1>. HIDE DEF kind2
<1>12. JobInv'
  BY <1>2, <1>6, <1>7, <1>8, <1>10, <1>11, JobsMove DEF CoreInv, JobInv
<1>. QED
  BY <1>4, <1>5, <1>12 DEF CoreInv

LEMMA CoreStep == PcType /\ CoreInv /\ [Next]_vars => PcType' /\ CoreInv'
<1>. SUFFICES ASSUME PcType, CoreInv, [Next]_vars PROVE CoreInv'
  BY PcStep
<1>1. ASSUME NEW w \in Workers, SpawnWorker(w) \/ WorkerStep(w)
      PROVE  CoreInv'
  BY <1>1, WorkerStays, TryTakeStep, StealGlobalStep, StealWorkerStep, ClaimedStep, RunStep,
     CancelWorkerStep, CancelClaimedStep DEF WorkerStep, WorkerMovesNoJob
<1>2. ASSUME NEW c \in Clients, SubmitStep(c) \/ ShutdownStep(c)
      PROVE  CoreInv'
  BY <1>2, ClientStays, BeginSubmitStep, SubmitJobStep, PushStep, DrainStep, SubtractStep,
     CancelBatchStep DEF SubmitStep, ShutdownStep, ClientMovesNoJob
<1>. QED
  BY <1>1, <1>2, OthersStay DEF Next

LEMMA CoreInvariance == Spec => [](PcType /\ CoreInv)
BY CoreInit, CoreStep, PTL DEF Spec

-----------------------------------------------------------------------------
(* No two threads hold the same job, so threads may be counted for jobs.   *)
LEMMA HeldCount ==
    ASSUME CoreInv, NEW S, \A t \in Holders(S) : Cl(t) \in {"slot", "accepted", "run"}
    PROVE  Cardinality({held[t] : t \in Holders(S)}) = Cardinality(Holders(S))
<1>. DEFINE H == Holders(S)
            T == {held[t] : t \in H}
            f == [t \in H |-> held[t]]
<1>1. PICK kind \in [Jobs -> Kinds], at \in [Jobs -> Threads \cup {Nobody}] : Located(kind, at)
  BY DEF CoreInv, JobInv
<1>2. \A t \in H : t \in Threads /\ held[t] \in Jobs
  BY DEF Holders, CoreInv, HandInv, DataType
<1>3. \A t, u \in H : held[t] = held[u] => t = u
  BY <1>1, <1>2 DEF Located
<1>4. IsFiniteSet(H)
  <2>1. IsFiniteSet(Threads) /\ H \in SUBSET Threads
    BY FS_Union, FixedPoolAssumption DEF Threads, Holders
  <2>. QED
    BY <2>1, FS_Subset
<1>5. f \in Bijection(H, T)
  BY <1>3 DEF Bijection, Injection, Surjection, IsInjective
<1>6. ExistsBijection(H, T)
  BY <1>5 DEF ExistsBijection
<1>. QED
  BY <1>4, <1>6, FS_Bijection

LEMMA OnePlace ==
    ASSUME CoreInv, NEW j \in Jobs, status[j] = "accepted"
    PROVE  Cardinality(Places(j)) = 1
<1>1. PICK kind \in [Jobs -> Kinds], at \in [Jobs -> Threads \cup {Nobody}] :
        /\ Located(kind, at) /\ Graded(kind, at)
        /\ queued_task_count = Cardinality(Counted(kind, at))
  BY DEF CoreInv, JobInv
<1>2. kind[j] \in {"global", "inbox", "local", "batch", "held"}
  BY <1>1 DEF Graded, Kinds
<1>. DEFINE In == {v \in Workers : j \in inbox[v]}
            Lo == {v \in Workers : j \in local[v]}
            Ba == {u \in Threads : j \in batch[u]}
            He == {u \in Threads : held[u] = j}
<1>3. /\ j \in global_queue <=> kind[j] = "global"
      /\ In = IF kind[j] = "inbox" THEN {at[j]} ELSE {}
      /\ Lo = IF kind[j] = "local" THEN {at[j]} ELSE {}
      /\ Ba = IF kind[j] = "batch" THEN {at[j]} ELSE {}
      /\ He = IF kind[j] = "held" THEN {at[j]} ELSE {}
  <2>1. j \in global_queue <=> kind[j] = "global"
    BY <1>1 DEF Located
  <2>2. In = IF kind[j] = "inbox" THEN {at[j]} ELSE {}
    BY <1>1 DEF Located
  <2>3. Lo = IF kind[j] = "local" THEN {at[j]} ELSE {}
    BY <1>1 DEF Located
  <2>4. Ba = IF kind[j] = "batch" THEN {at[j]} ELSE {}
    BY <1>1 DEF Located
  <2>5. He = IF kind[j] = "held" THEN {at[j]} ELSE {}
    BY <1>1 DEF Located
  <2>. QED
    BY <2>1, <2>2, <2>3, <2>4, <2>5
<1>4. Places(j) = (IF j \in global_queue THEN {"global"} ELSE {})
        \cup {<<"inbox", w>> : w \in In} \cup {<<"local", w>> : w \in Lo}
        \cup {<<"batch", t>> : t \in Ba} \cup {<<"held", t>> : t \in He}
  BY DEF Places
<1>. HIDE DEF In, Lo, Ba, He
<1>5. \E p : Places(j) = {p}
  <2>1. CASE kind[j] = "global"
    <3>1. j \in global_queue /\ In = {} /\ Lo = {} /\ Ba = {} /\ He = {}
      BY <1>3, <2>1
    <3>2. Places(j) = {"global"}
      BY <1>4, <3>1
    <3>. QED
      BY <3>2
  <2>2. CASE kind[j] = "inbox"
    <3>1. j \notin global_queue /\ In = {at[j]} /\ Lo = {} /\ Ba = {} /\ He = {}
      BY <1>3, <2>2
    <3>2. Places(j) = {<<"inbox", at[j]>>}
      BY <1>4, <3>1
    <3>. QED
      BY <3>2
  <2>3. CASE kind[j] = "local"
    <3>1. j \notin global_queue /\ In = {} /\ Lo = {at[j]} /\ Ba = {} /\ He = {}
      BY <1>3, <2>3
    <3>2. Places(j) = {<<"local", at[j]>>}
      BY <1>4, <3>1
    <3>. QED
      BY <3>2
  <2>4. CASE kind[j] = "batch"
    <3>1. j \notin global_queue /\ In = {} /\ Lo = {} /\ Ba = {at[j]} /\ He = {}
      BY <1>3, <2>4
    <3>2. Places(j) = {<<"batch", at[j]>>}
      BY <1>4, <3>1
    <3>. QED
      BY <3>2
  <2>5. CASE kind[j] = "held"
    <3>1. j \notin global_queue /\ In = {} /\ Lo = {} /\ Ba = {} /\ He = {at[j]}
      BY <1>3, <2>5
    <3>2. Places(j) = {<<"held", at[j]>>}
      BY <1>4, <3>1
    <3>. QED
      BY <3>2
  <2>. QED
    BY <1>2, <2>1, <2>2, <2>3, <2>4, <2>5
<1>. QED
  BY <1>5, FS_Singleton

LEMMA DisjointUnion ==
    ASSUME NEW S, NEW T, IsFiniteSet(S), IsFiniteSet(T), S \cap T = {}
    PROVE  /\ IsFiniteSet(S \cup T)
           /\ Cardinality(S \cup T) = Cardinality(S) + Cardinality(T)
<1>1. Cardinality(S \cap T) = 0 /\ Cardinality(S) \in Nat /\ Cardinality(T) \in Nat
  BY FS_EmptySet, FS_CardinalityType
<1>2. /\ IsFiniteSet(S \cup T)
      /\ Cardinality(S \cup T) = Cardinality(S) + Cardinality(T) - Cardinality(S \cap T)
  BY FS_Union
<1>. QED
  BY <1>1, <1>2

LEMMA SlotsAreCounted ==
    ASSUME PcType, CoreInv
    PROVE  queued_task_count =
             Cardinality(Waiting)
             + Cardinality(Holders({"accept", "route", "push", "poke", "claimed", "discard"}))
             + Cardinality(UNION {batch[t] : t \in Holders({"drain", "subtract", "collect",
                                                             "discard_all"})})
<1>. DEFINE H == Holders({"accept", "route", "push", "poke", "claimed", "discard"})
            B == Holders({"drain", "subtract", "collect", "discard_all"})
            InHand == {held[t] : t \in H}
            Batched == UNION {batch[t] : t \in B}
<1>0. DataType /\ HandInv
  BY DEF CoreInv
<1>1. PICK kind \in [Jobs -> Kinds], at \in [Jobs -> Threads \cup {Nobody}] :
        /\ Located(kind, at) /\ Graded(kind, at)
        /\ queued_task_count = Cardinality(Counted(kind, at))
  BY DEF CoreInv, JobInv
<1>2. /\ \A t \in Threads : t \in H <=> Cl(t) \in {"slot", "accepted"}
      /\ \A t \in Threads : t \in B <=> Cl(t) \in {"batch", "discard_all"}
      /\ H \subseteq Threads /\ B \subseteq Threads
  <2>1. \A t \in Threads : t \in H <=> Cl(t) \in {"slot", "accepted"}
    BY DEF Holders, Cl, Class
  <2>2. \A t \in Threads : t \in B <=> Cl(t) \in {"batch", "discard_all"}
    BY DEF Holders, Cl, Class
  <2>. QED
    BY <2>1, <2>2 DEF Holders
<1>. HIDE DEF H, B
<1>3. \A j \in Jobs : j \in Waiting <=> kind[j] \in {"global", "inbox", "local"}
  BY <1>1 DEF Waiting, Located
<1>4. \A j \in Jobs : j \in InHand <=> kind[j] = "held" /\ Cl(at[j]) \in {"slot", "accepted"}
  BY <1>1, <1>2 DEF Located
<1>5. \A j \in Jobs : j \in Batched <=> kind[j] = "batch" /\ Cl(at[j]) # "cancel"
  BY <1>0, <1>1, <1>2 DEF Located, HandInv
<1>6. Waiting \in SUBSET Jobs /\ InHand \in SUBSET Jobs /\ Batched \in SUBSET Jobs
  <2>1. Waiting \in SUBSET Jobs
    BY <1>0 DEF DataType, Waiting
  <2>2. Batched \in SUBSET Jobs
    BY <1>0, <1>2 DEF DataType
  <2>3. InHand \in SUBSET Jobs
    BY <1>0, <1>2 DEF DataType, HandInv
  <2>. QED
    BY <2>1, <2>2, <2>3
<1>. HIDE DEF InHand, Batched
<1>7. /\ Counted(kind, at) = (Waiting \cup InHand) \cup Batched
      /\ Waiting \cap InHand = {} /\ (Waiting \cup InHand) \cap Batched = {}
  BY <1>3, <1>4, <1>5, <1>6 DEF Counted
<1>8. IsFiniteSet(Waiting) /\ IsFiniteSet(InHand) /\ IsFiniteSet(Batched)
  BY <1>6, FS_Subset, FixedPoolAssumption
<1>9. /\ IsFiniteSet(Waiting \cup InHand)
      /\ Cardinality(Waiting \cup InHand) = Cardinality(Waiting) + Cardinality(InHand)
  BY <1>7, <1>8, DisjointUnion
<1>10. Cardinality(Counted(kind, at)) = Cardinality(Waiting \cup InHand) + Cardinality(Batched)
  BY <1>7, <1>8, <1>9, DisjointUnion
<1>11. Cardinality(InHand) = Cardinality(H)
  <2>1. \A t \in H : Cl(t) \in {"slot", "accepted", "run"}
    BY <1>2
  <2>. QED
    BY <2>1, HeldCount DEF InHand, H
<1>. QED
  BY <1>1, <1>8, <1>9, <1>10, <1>11, FS_CardinalityType DEF H, B, Batched

LEMMA RunnersAreCounted ==
    ASSUME PcType, CoreInv
    PROVE  running_task_count = Cardinality(Holders({"run"}))
<1>. DEFINE H == Holders({"run"})
<1>0. DataType /\ HandInv
  BY DEF CoreInv
<1>1. PICK kind \in [Jobs -> Kinds], at \in [Jobs -> Threads \cup {Nobody}] :
        /\ Located(kind, at) /\ Graded(kind, at)
        /\ queued_task_count = Cardinality(Counted(kind, at))
  BY DEF CoreInv, JobInv
<1>2. H \subseteq Threads /\ \A t \in Threads : t \in H <=> Cl(t) = "run"
  BY DEF Holders, Cl, Class
<1>. HIDE DEF H
<1>3. {held[t] : t \in H} \subseteq Running
  BY <1>0, <1>1, <1>2 DEF Running, HandInv, Located, Graded, DataType
<1>4. ASSUME NEW j \in Running
      PROVE  \E t \in H : j = held[t]
  <2>1. kind[j] = "held" /\ at[j] \in Threads /\ held[at[j]] = j
    BY <1>1, <1>4 DEF Running, Graded, Located, Kinds
  <2>2. Cl(at[j]) = "run"
    BY <1>0, <1>1, <1>4, <2>1, FixedPoolAssumption DEF Running, Graded, HandInv
  <2>. QED
    BY <1>2, <2>1, <2>2
<1>5. Running = {held[t] : t \in H}
  BY <1>3, <1>4
<1>6. Cardinality({held[t] : t \in H}) = Cardinality(H)
  BY <1>2, HeldCount DEF H
<1>. QED
  BY <1>5, <1>6 DEF H, CoreInv, JobInv

(* However submitters, thieves, owners and shutdown_now pass jobs around   *)
(* without a lock, no accepted job is lost or in two places, and           *)
(* queued_task_count and running_task_count are exact, for any number of   *)
(* threads and jobs.                                                       *)
THEOREM QueuesAndCountersAgree == Spec => []CountersMatchQueues
<1>1. PcType /\ CoreInv => CountersMatchQueues
  BY OnePlace, SlotsAreCounted, RunnersAreCounted DEF CountersMatchQueues
<1>. QED
  BY <1>1, CoreInvariance, PTL

-----------------------------------------------------------------------------
(* The contract of ExecutorService                                         *)

(* What a thread has in its hands, by where it stands.                     *)
LEMMA InHand ==
    ASSUME PcType, CoreInv, NEW t \in Threads
    PROVE  /\ Cl(t) \in {"new", "slot"} => held[t] \in Jobs /\ status[held[t]] = "new"
           /\ Cl(t) = "accepted" => held[t] \in Jobs /\ status[held[t]] = "accepted"
           /\ Cl(t) = "run" => held[t] \in Jobs /\ status[held[t]] = "running"
           /\ \A j \in batch[t] : j \in Jobs /\ status[j] = "accepted"
<1>1. PICK kind \in [Jobs -> Kinds], at \in [Jobs -> Threads \cup {Nobody}] :
        Located(kind, at) /\ Graded(kind, at)
  BY DEF CoreInv, JobInv
<1>2. Cl(t) \in {"new", "slot", "accepted", "run"} =>
        held[t] \in Jobs /\ kind[held[t]] = "held" /\ at[held[t]] = t
  BY <1>1 DEF CoreInv, HandInv, DataType, Located
<1>3. \A j \in batch[t] : j \in Jobs /\ kind[j] = "batch"
  BY <1>1 DEF CoreInv, DataType, Located
<1>. QED
  BY <1>1, <1>2, <1>3 DEF Graded

(* The pool implements the contract of the trait: tasks are accepted only  *)
(* before shutdown although submit takes no lock, and every accepted one   *)
(* is run once or cancelled before it starts, never both.                  *)
THEOREM FixedPoolImplementsService == Spec => ImplementsService
<1>1. Init => Service!Init
  BY DEF Init, Service!Init
<1>2. PcType /\ CoreInv /\ [Next]_vars => [Service!Next]_(Service!vars)
  <2>. SUFFICES ASSUME PcType, CoreInv, [Next]_vars
                PROVE  Service!Next \/ UNCHANGED Service!vars
    OBVIOUS
  <2>. USE DEF Service!Next, Service!vars, Service!Becomes, Becomes, flags
  <2>1. ASSUME NEW c \in Clients, NEW j \in Jobs, BeginSubmit(c, j)
        PROVE  Service!Submit(j) \/ UNCHANGED Service!vars
    BY <2>1 DEF BeginSubmit, Service!Submit
  <2>2. ASSUME NEW c \in Clients, Recheck(c) \/ ReserveQueueSlot(c) \/ Accept(c)
        PROVE  (\E j \in Jobs : Service!Submit(j)) \/ UNCHANGED Service!vars
    <3>1. held[c] \in Jobs /\ status[held[c]] = "new"
      BY <2>2, InHand DEF Recheck, ReserveQueueSlot, Accept, Cl, Class, Threads
    <3>0. UNCHANGED flags
      BY <2>2 DEF Recheck, ReserveQueueSlot, Accept
    <3>2. CASE Reject(c)
      BY <3>0, <3>1, <3>2 DEF Reject, Service!Submit
    <3>3. CASE Becomes(held[c], "accepted") /\ accepting
      BY <3>0, <3>1, <3>3 DEF Service!Submit, Service!Pending
    <3>4. CASE UNCHANGED status
      BY <3>0, <3>4
    <3>5. CASE Recheck(c)
      BY <3>2, <3>4, <3>5 DEF Recheck
    <3>6. CASE ReserveQueueSlot(c)
      BY <3>2, <3>4, <3>6 DEF ReserveQueueSlot
    <3>7. CASE Accept(c)
      BY <3>2, <3>3, <3>7 DEF Accept
    <3>. QED
      BY <2>2, <3>5, <3>6, <3>7
  <2>3. ASSUME NEW c \in Clients, CancelBatch(c)
        PROVE  \E j \in Jobs : Service!Cancel(j)
    <3>1. \A j \in batch[c] : j \in Jobs /\ status[j] = "accepted"
      BY InHand DEF Threads
    <3>. QED
      BY <2>3, <3>1 DEF CancelBatch, Service!Cancel
  <2>4. ASSUME NEW w \in Workers, AcceptClaimedJob(w)
        PROVE  (\E j \in Jobs : Service!Start(j)) \/ UNCHANGED Service!vars
    <3>1. held[w] \in Jobs /\ status[held[w]] = "accepted"
      BY <2>4, InHand DEF AcceptClaimedJob, Cl, Class, Threads
    <3>. QED
      BY <2>4, <3>1 DEF AcceptClaimedJob, Service!Start
  <2>5. ASSUME NEW w \in Workers, RunJob(w)
        PROVE  \E j \in Jobs : Service!Complete(j)
    <3>1. held[w] \in Jobs /\ status[held[w]] = "running"
      BY <2>5, InHand DEF RunJob, Cl, Class, Threads
    <3>. QED
      BY <2>5, <3>1 DEF RunJob, Service!Complete
  <2>6. ASSUME NEW w \in Workers, CancelClaimedJob(w)
        PROVE  \E j \in Jobs : Service!Cancel(j)
    <3>1. /\ Cl(w) = "accepted" => held[w] \in Jobs /\ status[held[w]] = "accepted"
          /\ \A j \in batch[w] : j \in Jobs /\ status[j] = "accepted"
      BY InHand DEF Threads
    <3>2. CASE pc[w] = "discard"
      BY <2>6, <3>1, <3>2 DEF CancelClaimedJob, Service!Cancel, Cl, Class
    <3>3. CASE pc[w] = "discard_all"
      BY <2>6, <3>1, <3>3 DEF CancelClaimedJob, Service!Cancel
    <3>. QED
      BY <2>6, <3>2, <3>3 DEF CancelClaimedJob
  <2>7. ASSUME NEW w \in Workers,
               \/ WorkerMovesNoJob(w) \/ TryTakeJob(w) \/ StealGlobal(w) \/ StealWorker(w)
               \/ CancelWorkerJobs(w)
        PROVE  UNCHANGED Service!vars
    BY <2>7 DEF WorkerMovesNoJob, SpawnWorker, Activate, Poke, FinishRunningJob, Decide, Settle,
       MarkIdle, RecheckQueue, RecheckWake, UnmarkIdle, ConsumePendingWorkerWake, Deactivate,
       WorkerExited, TryTakeJob, StealGlobal, StealWorker, CancelWorkerJobs
  <2>8. ASSUME NEW c \in Clients, StopAccepting(c)
        PROVE  Service!RequestShutdown
    BY <2>8 DEF StopAccepting, Service!RequestShutdown
  <2>9. ASSUME NEW c \in Clients, ClientMovesNoJob(c), ~StopAccepting(c)
        PROVE  UNCHANGED Service!vars
    BY <2>9 DEF ClientMovesNoJob, Enter, Route, CountIdle, AddWake, Notify, Leave, Announce,
       Shutdown, SetStopNow, Close, FindEmpty, CallAwaitTermination, WaitForTermination
  <2>10. ASSUME NEW c \in Clients, Push(c) \/ Drain(c) \/ Subtract(c)
         PROVE  UNCHANGED Service!vars
    BY <2>10 DEF Push, Drain, Subtract
  <2>11. ASSUME NEW t \in Threads, FallAsleep(t) \/ SpuriousWakeup(t)
         PROVE  UNCHANGED Service!vars
    BY <2>11 DEF FallAsleep, SpuriousWakeup
  <2>12. CASE SpawnFails
    BY <2>12 DEF SpawnFails, Service!RequestShutdown
  <2>13. CASE StopAfterFailedBuild \/ BuildHasFailed \/ UNCHANGED vars
    BY <2>13 DEF StopAfterFailedBuild, BuildHasFailed, vars
  <2>14. ASSUME NEW w \in Workers, SpawnWorker(w) \/ WorkerStep(w)
         PROVE  Service!Next \/ UNCHANGED Service!vars
    BY <2>4, <2>5, <2>6, <2>7, <2>14 DEF WorkerStep, WorkerMovesNoJob
  <2>15. ASSUME NEW c \in Clients, SubmitStep(c) \/ ShutdownStep(c)
         PROVE  Service!Next \/ UNCHANGED Service!vars
    BY <2>1, <2>2, <2>3, <2>8, <2>9, <2>10, <2>15 DEF SubmitStep, ShutdownStep, ClientMovesNoJob
  <2>. QED
    BY <2>11, <2>12, <2>13, <2>14, <2>15 DEF Next
<1>. QED
  BY <1>1, <1>2, CoreInvariance, PTL DEF Spec, ImplementsService, Service!Spec

-----------------------------------------------------------------------------
(* Why the workers may leave.  A submission is announced in                *)
(* inflight_submissions before it looks at accepting again, and a worker   *)
(* or shutdown_now reads the counter after accepting has been cleared: zero*)
(* then means that nobody will put a job into a queue any more.            *)

Stage(s) ==
    CASE s \in {"recheck", "count_idle", "add_wake", "notify", "leave"} -> "inflight"
      [] s \in {"reserve", "accept", "route", "push"}                   -> "publishing"
      [] s \in {"shut", "stop", "close"}                                -> "closing"
      [] s \in {"stall", "stalls", "recount"}                           -> "stalled"
      [] s = "drain"                                                    -> "drain"
      [] s \in {"subtract", "cancel"}                                   -> "drained"
      [] s = "idle"                                                     -> "idle"
      [] s = "settle"                                                   -> "settle"
      [] s \in {"retire", "exit", "tell_exit", "gone"}                  -> "gone"
      [] OTHER                                                          -> "other"

St(t) == Stage(pc[t])

LEMMA MovedStage ==
    ASSUME NEW t, NEW s, Moved(t, s)
    PROVE  /\ \A u \in Threads \ {t} : St(u)' = St(u)
           /\ t \in Threads => St(t)' = Stage(s)
<1>1. ASSUME NEW u \in Threads \ {t}
      PROVE  St(u)' = St(u)
  BY <1>1 DEF Moved, Roused, St, Stage
<1>. QED
  BY <1>1 DEF Moved, St

Submitters == {t \in Threads : St(t) \in {"inflight", "publishing"}}

(* No job will be put into a queue any more.                               *)
Quiet == ~accepting /\ \A c \in Clients : St(c) # "publishing"

InflightInv == inflight_submissions = Cardinality(Submitters)

(* accepting is cleared before the lifecycle says so.                      *)
GateInv ==
    /\ lifecycle \in {"Running", "Shutdown", "Stopping"}
    /\ builder = "spawn" => lifecycle = "Running"
    /\ builder # "built" => \A c \in Clients : St(c) = "idle"
    /\ builder = "built" /\ lifecycle # "Running" => ~accepting
    /\ \A c \in Clients :
         /\ St(c) \in {"closing", "stalled", "drain", "drained"} => ~accepting
         /\ St(c) \in {"stalled", "drain", "drained"} => lifecycle = "Stopping"

(* A worker that leaves after shutdown leaves no job behind, ...           *)
LeaveInv ==
    /\ \A w \in Workers : St(w) \in {"settle", "gone"} => lifecycle # "Running"
    /\ builder = "built" /\ lifecycle = "Shutdown" /\ (\E w \in Workers : St(w) = "gone") =>
         Quiet /\ queued_task_count = 0

(* ... and one that leaves after shutdown_now leaves them to that call,    *)
(* whose last round over the queues finds every one empty.                 *)
SweepInv ==
    /\ \A c \in Clients : St(c) = "drain" =>
         /\ Quiet
         /\ "global" \notin todo[c] => global_queue = {}
         /\ \A w \in Workers : w \notin todo[c] => inbox[w] = {}
    /\ builder = "built" /\ lifecycle = "Stopping"
         /\ (\A c \in Clients : St(c) \notin {"stalled", "drain"}) =>
         Quiet /\ global_queue = {} /\ \A w \in Workers : inbox[w] = {}

ExitInv == InflightInv /\ GateInv /\ LeaveInv /\ SweepInv

LEMMA CountsAreNatural == CoreInv => queued_task_count \in Nat
<1>. SUFFICES ASSUME CoreInv PROVE queued_task_count \in Nat
  OBVIOUS
<1>1. PICK kind \in [Jobs -> Kinds], at \in [Jobs -> Threads \cup {Nobody}] :
        queued_task_count = Cardinality(Counted(kind, at))
  BY DEF CoreInv, JobInv
<1>2. IsFiniteSet(Counted(kind, at))
  BY FS_Subset, FixedPoolAssumption DEF Counted
<1>. QED
  BY <1>1, <1>2, FS_CardinalityType

LEMMA SubmittersAreFinite == IsFiniteSet(Submitters)
<1>1. IsFiniteSet(Threads)
  BY FS_Union, FixedPoolAssumption DEF Threads
<1>. QED
  BY <1>1, FS_Subset DEF Submitters

(* Without a submission under way nobody is about to put a job anywhere.   *)
LEMMA NoneInflight ==
    ASSUME InflightInv, inflight_submissions = 0
    PROVE  \A t \in Threads : St(t) \notin {"inflight", "publishing"}
<1>1. Submitters = {}
  BY SubmittersAreFinite, FS_EmptySet DEF InflightInv
<1>. QED
  BY <1>1 DEF Submitters

LEMMA ExitInit == Init => ExitInv
<1>. SUFFICES ASSUME Init PROVE ExitInv
  OBVIOUS
<1>1. /\ \A w \in Workers : St(w) = "other"
      /\ \A c \in Clients : St(c) = "idle"
  BY FixedPoolAssumption DEF Init, St, Stage, Threads
<1>2. Submitters = {}
  BY <1>1 DEF Submitters, Threads
<1>. QED
  BY <1>1, <1>2, FS_EmptySet DEF Init, ExitInv, InflightInv, GateInv, LeaveInv, SweepInv

(* What a step may do to the queues once nobody publishes.                 *)
QueuesShrink ==
    /\ queued_task_count' <= queued_task_count
    /\ global_queue' \subseteq global_queue
    /\ \A w \in Workers : inbox'[w] \subseteq inbox[w]

LEMMA WorkerProfile ==
    ASSUME PcType, CoreInv, NEW w \in Workers, SpawnWorker(w) \/ WorkerStep(w)
    PROVE  /\ UNCHANGED <<lifecycle, accepting, inflight_submissions>>
           /\ builder' = builder \/ builder = "spawn"
           /\ \A c \in Clients : todo'[c] = todo[c]
           /\ QueuesShrink
<1>. USE DEF state, flags, counts, queues, mine
<1>0. queued_task_count \in Nat
  BY CountsAreNatural
<1>1. UNCHANGED <<lifecycle, accepting, inflight_submissions>> /\ (builder' = builder \/ builder = "spawn")
  BY DEF WorkerStep, SpawnWorker, Activate, TryTakeJob, StealGlobal, StealWorker, Poke,
     AcceptClaimedJob, RunJob, FinishRunningJob, CancelWorkerJobs, CancelClaimedJob, Decide, Settle,
     MarkIdle, RecheckQueue, RecheckWake, UnmarkIdle, ConsumePendingWorkerWake, Deactivate, WorkerExited
<1>2. \A c \in Clients : todo'[c] = todo[c]
  <2>1. \A c \in Clients : c # w
    BY FixedPoolAssumption
  <2>2. CASE StealGlobal(w) \/ StealWorker(w) \/ AcceptClaimedJob(w)
    BY <2>1, <2>2 DEF StealGlobal, StealWorker, AcceptClaimedJob, CoreInv, DataType, Threads
  <2>3. CASE ~(StealGlobal(w) \/ StealWorker(w) \/ AcceptClaimedJob(w))
    BY <2>3 DEF WorkerStep, SpawnWorker, Activate, TryTakeJob, Poke, RunJob,
       FinishRunningJob, CancelWorkerJobs, CancelClaimedJob, Decide, Settle, MarkIdle, RecheckQueue,
       RecheckWake, UnmarkIdle, ConsumePendingWorkerWake, Deactivate, WorkerExited
  <2>. QED
    BY <2>2, <2>3
<1>3. QueuesShrink
  <2>1. CASE TryTakeJob(w)
    BY <1>0, <2>1 DEF TryTakeJob, QueuesShrink, CoreInv, DataType
  <2>2. CASE StealGlobal(w)
    BY <1>0, <2>2 DEF StealGlobal, QueuesShrink, CoreInv, DataType
  <2>3. CASE StealWorker(w)
    BY <1>0, <2>3 DEF StealWorker, QueuesShrink, CoreInv, DataType
  <2>4. CASE CancelWorkerJobs(w)
    BY <1>0, <2>4 DEF CancelWorkerJobs, QueuesShrink, CoreInv, DataType
  <2>5. CASE ~(TryTakeJob(w) \/ StealGlobal(w) \/ StealWorker(w) \/ CancelWorkerJobs(w))
    BY <1>0, <2>5 DEF WorkerStep, SpawnWorker, Activate, Poke, AcceptClaimedJob, RunJob,
       FinishRunningJob, CancelClaimedJob, Decide, Settle, MarkIdle, RecheckQueue, RecheckWake,
       UnmarkIdle, ConsumePendingWorkerWake, Deactivate, WorkerExited, QueuesShrink
  <2>. QED
    BY <2>1, <2>2, <2>3, <2>4, <2>5
<1>. QED
  BY <1>1, <1>2, <1>3

(* When a worker decides to leave.                                         *)
LEMMA WorkerLeaves ==
    ASSUME PcType, NEW w \in Workers, SpawnWorker(w) \/ WorkerStep(w)
    PROVE  \E s \in WorkerStates :
             /\ Moved(w, s)
             /\ s = "settle" => lifecycle # "Running"
             /\ Stage(s) = "gone" =>
                  \/ St(w) = "gone" \/ lifecycle = "Stopping"
                  \/ St(w) = "settle" /\ queued_task_count = 0 /\ inflight_submissions = 0
<1>. w \in Threads /\ DOMAIN pc = Threads
  BY DEF Threads, PcType
<1>1. CASE Decide(w)
  BY <1>1, GotoMoves DEF Decide, Unlock, WorkerStates, Stage
<1>2. CASE Settle(w)
  BY <1>2, GotoMoves DEF Settle, Unlock, WorkerStates, Stage, St
<1>3. CASE Deactivate(w) \/ WorkerExited(w)
  BY <1>3, GotoMoves, NotifyMoves DEF Deactivate, WorkerExited, WorkerStates, Stage, St
<1>4. CASE SpawnWorker(w) \/ Activate(w) \/ TryTakeJob(w) \/ AcceptClaimedJob(w) \/ RunJob(w)
  BY <1>4, GotoMoves DEF SpawnWorker, Activate, TryTakeJob, AcceptClaimedJob, RunJob, WorkerStates,
     Stage
<1>5. CASE StealGlobal(w) \/ StealWorker(w)
  BY <1>5, GotoMoves DEF StealGlobal, StealWorker, Stolen, WorkerStates, Stage
<1>6. CASE Poke(w) \/ FinishRunningJob(w) \/ CancelClaimedJob(w)
  BY <1>6, GotoMoves, NotifyMoves DEF Poke, FinishRunningJob, CancelClaimedJob, NextSource,
     WorkerStates, Stage
<1>7. CASE CancelWorkerJobs(w)
  <2>1. CASE pc[w] = "collect" /\ UNCHANGED pc
    BY <2>1 DEF Moved, Roused, PcType, Stage
  <2>2. CASE \E s \in {"discard", "collect", "lock", "victims", "discard_all"} : Goto(w, s)
    BY <2>2, GotoMoves DEF WorkerStates, Stage
  <2>. QED
    BY <1>7, <2>1, <2>2 DEF CancelWorkerJobs, NextSource
<1>8. CASE MarkIdle(w) \/ RecheckQueue(w) \/ RecheckWake(w) \/ UnmarkIdle(w)
           \/ ConsumePendingWorkerWake(w)
  BY <1>8, GotoMoves DEF MarkIdle, RecheckQueue, RecheckWake, UnmarkIdle, ConsumePendingWorkerWake,
     Unlock, WorkerStates, Stage
<1>. QED
  BY <1>1, <1>2, <1>3, <1>4, <1>5, <1>6, <1>7, <1>8 DEF WorkerStep

LEMMA WorkerExitStep ==
    ASSUME PcType, CoreInv, CoreInv', ExitInv, NEW w \in Workers, SpawnWorker(w) \/ WorkerStep(w)
    PROVE  ExitInv'
<1>. w \in Threads /\ w \notin Clients
  BY FixedPoolAssumption DEF Threads
<1>1. /\ UNCHANGED <<lifecycle, accepting, inflight_submissions>>
      /\ builder' = builder \/ builder = "spawn"
      /\ \A c \in Clients : todo'[c] = todo[c]
      /\ QueuesShrink
  BY WorkerProfile
<1>2. PICK s \in WorkerStates :
        /\ Moved(w, s)
        /\ s = "settle" => lifecycle # "Running"
        /\ Stage(s) = "gone" =>
             \/ St(w) = "gone" \/ lifecycle = "Stopping"
             \/ St(w) = "settle" /\ queued_task_count = 0 /\ inflight_submissions = 0
  BY WorkerLeaves
<1>3. /\ \A u \in Threads \ {w} : St(u)' = St(u)
      /\ St(w)' = Stage(s)
  BY <1>2, MovedStage
<1>4. Stage(s) \in {"settle", "gone", "other"} /\ (Stage(s) = "settle" => s = "settle")
  BY DEF WorkerStates, Stage
<1>5. St(w) \in {"settle", "gone", "other"}
  BY DEF PcType, WorkerStates, Stage, St
<1>6. \A c \in Clients : St(c)' = St(c)
  BY <1>3 DEF Threads
<1>7. Submitters' = Submitters
  BY <1>3, <1>4, <1>5 DEF Submitters
<1>8. Quiet' <=> Quiet
  BY <1>1, <1>6 DEF Quiet
<1>9. queued_task_count \in Nat /\ queued_task_count' \in Nat
  <2>1. CoreInv' => (queued_task_count \in Nat)'
    BY CountsAreNatural, PTL
  <2>. QED
    BY <2>1, CountsAreNatural
<1>10. InflightInv' /\ GateInv'
  BY <1>1, <1>6, <1>7 DEF ExitInv, InflightInv, GateInv
<1>11. LeaveInv'
  <2>1. \A v \in Workers : St(v)' \in {"settle", "gone"} => lifecycle' # "Running"
    BY <1>1, <1>2, <1>3, <1>4, <1>5 DEF ExitInv, LeaveInv, Threads
  <2>2. ASSUME builder' = "built", lifecycle' = "Shutdown", NEW v \in Workers, St(v)' = "gone"
        PROVE  Quiet' /\ queued_task_count' = 0
    <3>1. builder = "built" /\ lifecycle = "Shutdown"
      BY <1>1, <2>2 DEF ExitInv, GateInv
    <3>2. CASE St(v) = "gone"
      BY <1>1, <1>8, <1>9, <3>1, <3>2 DEF ExitInv, LeaveInv, QueuesShrink
    <3>3. CASE St(v) # "gone"
      <4>1. queued_task_count = 0 /\ inflight_submissions = 0
        BY <1>2, <1>3, <2>2, <3>1, <3>3 DEF Threads
      <4>2. Quiet
        BY <3>1, <4>1, NoneInflight DEF Quiet, ExitInv, GateInv, Threads
      <4>. QED
        BY <1>1, <1>8, <1>9, <4>1, <4>2 DEF QueuesShrink
    <3>. QED
      BY <3>2, <3>3
  <2>. QED
    BY <2>1, <2>2 DEF LeaveInv
<1>12. SweepInv'
  <2>1. builder' = "built" /\ lifecycle' = "Stopping" => builder = "built"
    BY <1>1 DEF ExitInv, GateInv
  <2>2. global_queue = {} => global_queue' = {}
    BY <1>1 DEF QueuesShrink
  <2>3. \A v \in Workers : inbox[v] = {} => inbox'[v] = {}
    BY <1>1 DEF QueuesShrink
  <2>. QED
    BY <1>1, <1>6, <1>8, <2>1, <2>2, <2>3 DEF ExitInv, SweepInv
<1>. QED
  BY <1>10, <1>11, <1>12 DEF ExitInv

(* A step of submit: how its client goes on, and that only one who has     *)
(* passed the second look at accepting touches the queues.                 *)
LEMMA SubmitMoves ==
    ASSUME PcType, NEW c \in Clients, SubmitStep(c)
    PROVE  \E s \in ClientStates :
             /\ Moved(c, s)
             /\ \/ /\ St(c) = "publishing" /\ Stage(s) \in {"publishing", "inflight"}
                   /\ UNCHANGED inflight_submissions
                \/ /\ St(c) = "other" /\ Stage(s) = "inflight"
                   /\ inflight_submissions' = inflight_submissions + 1
                \/ /\ St(c) = "inflight" /\ Stage(s) \in {"idle", "other"}
                   /\ inflight_submissions' = inflight_submissions - 1
                \/ /\ St(c) = "inflight" /\ UNCHANGED inflight_submissions
                   /\ Stage(s) = "inflight" \/ (Stage(s) = "publishing" /\ accepting)
                \/ /\ St(c) \in {"idle", "other"} /\ Stage(s) \in {"idle", "other"}
                   /\ UNCHANGED inflight_submissions
                   /\ St(c) = "idle" => builder = "built"
<1>. c \in Threads /\ DOMAIN pc = Threads
  BY DEF Threads, PcType
<1>. USE DEF counts
<1>1. CASE \E j \in Jobs : BeginSubmit(c, j)
  <2>1. CASE UNCHANGED pc
    BY <1>1, <2>1 DEF BeginSubmit, Moved, Roused, PcType, ClientStates, St, Stage
  <2>2. CASE Goto(c, "enter")
    BY <1>1, <2>2, GotoMoves DEF BeginSubmit, ClientStates, St, Stage
  <2>. QED
    BY <1>1, <2>1, <2>2 DEF BeginSubmit
<1>2. CASE Enter(c) \/ Leave(c)
  BY <1>2, GotoMoves DEF Enter, Leave, ClientStates, St, Stage
<1>3. CASE Recheck(c)
  BY <1>3, GotoMoves DEF Recheck, Reject, ClientStates, St, Stage
<1>4. CASE ReserveQueueSlot(c) \/ Accept(c)
  BY <1>4, GotoMoves DEF ReserveQueueSlot, Accept, Reject, ClientStates, St, Stage
<1>5. CASE Route(c) \/ Push(c) \/ CountIdle(c) \/ AddWake(c)
  BY <1>5, GotoMoves DEF Route, Push, CountIdle, AddWake, ClientStates, St, Stage
<1>6. CASE Notify(c) \/ Announce(c)
  BY <1>6, GotoMoves, NotifyMoves DEF Notify, Announce, ClientStates, St, Stage
<1>. QED
  BY <1>1, <1>2, <1>3, <1>4, <1>5, <1>6 DEF SubmitStep

LEMMA SubmitProfile ==
    ASSUME PcType, CoreInv, NEW c \in Clients, SubmitStep(c)
    PROVE  /\ UNCHANGED <<lifecycle, accepting, builder>>
           /\ \A d \in Clients \ {c} : todo'[d] = todo[d]
           /\ St(c) # "publishing" => UNCHANGED <<queued_task_count, global_queue, inbox>>
<1>. USE DEF state, flags, counts, queues, mine
<1>1. UNCHANGED <<lifecycle, accepting, builder>>
  BY DEF SubmitStep, BeginSubmit, Enter, Recheck, ReserveQueueSlot, Accept, Route, Push, CountIdle,
     AddWake, Notify, Leave, Announce
<1>2. \A d \in Clients \ {c} : todo'[d] = todo[d]
  <2>1. UNCHANGED todo \/ \E S : todo' = [todo EXCEPT ![c] = S]
    BY DEF SubmitStep, BeginSubmit, Enter, Recheck, ReserveQueueSlot, Accept, Route, Push, CountIdle,
       AddWake, Notify, Leave, Announce
  <2>. QED
    BY <2>1 DEF CoreInv, DataType, Threads
<1>3. St(c) # "publishing" => UNCHANGED <<queued_task_count, global_queue, inbox>>
  BY DEF SubmitStep, BeginSubmit, Enter, Recheck, ReserveQueueSlot, Accept, Route, Push, CountIdle,
     AddWake, Notify, Leave, Announce, St, Stage
<1>. QED
  BY <1>1, <1>2, <1>3

LEMMA SubmitExitStep ==
    ASSUME PcType, CoreInv, ExitInv, NEW c \in Clients, SubmitStep(c)
    PROVE  ExitInv'
<1>. c \in Threads /\ c \notin Workers
  BY FixedPoolAssumption DEF Threads
<1>1. /\ UNCHANGED <<lifecycle, accepting, builder>>
      /\ \A d \in Clients \ {c} : todo'[d] = todo[d]
      /\ St(c) # "publishing" => UNCHANGED <<queued_task_count, global_queue, inbox>>
  BY SubmitProfile
<1>2. PICK s \in ClientStates :
        /\ Moved(c, s)
        /\ \/ /\ St(c) = "publishing" /\ Stage(s) \in {"publishing", "inflight"}
              /\ UNCHANGED inflight_submissions
           \/ /\ St(c) = "other" /\ Stage(s) = "inflight"
              /\ inflight_submissions' = inflight_submissions + 1
           \/ /\ St(c) = "inflight" /\ Stage(s) \in {"idle", "other"}
              /\ inflight_submissions' = inflight_submissions - 1
           \/ /\ St(c) = "inflight" /\ UNCHANGED inflight_submissions
              /\ Stage(s) = "inflight" \/ (Stage(s) = "publishing" /\ accepting)
           \/ /\ St(c) \in {"idle", "other"} /\ Stage(s) \in {"idle", "other"}
              /\ UNCHANGED inflight_submissions
              /\ St(c) = "idle" => builder = "built"
  BY SubmitMoves
<1>3. (\A u \in Threads \ {c} : St(u)' = St(u)) /\ St(c)' = Stage(s)
  BY <1>2, MovedStage
<1>4. builder = "built"
  BY <1>2 DEF ExitInv, GateInv
<1>5. /\ \A w \in Workers : St(w)' = St(w)
      /\ \A d \in Clients \ {c} : St(d)' = St(d)
  BY <1>3 DEF Threads
<1>6. InflightInv'
  <2>1. IsFiniteSet(Submitters) /\ inflight_submissions = Cardinality(Submitters)
    BY SubmittersAreFinite DEF ExitInv, InflightInv
  <2>2. CASE Submitters' = Submitters /\ UNCHANGED inflight_submissions
    BY <2>1, <2>2 DEF InflightInv
  <2>3. CASE /\ Submitters' = Submitters \cup {c} /\ c \notin Submitters
             /\ inflight_submissions' = inflight_submissions + 1
    BY <2>1, <2>3, FS_AddElement DEF InflightInv
  <2>4. CASE /\ Submitters' = Submitters \ {c} /\ c \in Submitters
             /\ inflight_submissions' = inflight_submissions - 1
    BY <2>1, <2>4, FS_RemoveElement DEF InflightInv
  <2>5. \/ /\ Submitters' = Submitters /\ UNCHANGED inflight_submissions
        \/ /\ Submitters' = Submitters \cup {c} /\ c \notin Submitters
           /\ inflight_submissions' = inflight_submissions + 1
        \/ /\ Submitters' = Submitters \ {c} /\ c \in Submitters
           /\ inflight_submissions' = inflight_submissions - 1
    BY <1>2, <1>3 DEF Submitters
  <2>. QED
    BY <2>2, <2>3, <2>4, <2>5
<1>7. GateInv'
  BY <1>1, <1>2, <1>3, <1>4, <1>5 DEF ExitInv, GateInv
<1>8. Quiet => Quiet' /\ UNCHANGED <<queued_task_count, global_queue, inbox>>
  BY <1>1, <1>2, <1>3, <1>5 DEF Quiet
<1>9. LeaveInv'
  BY <1>1, <1>5, <1>8 DEF ExitInv, LeaveInv
<1>10. SweepInv'
  BY <1>1, <1>2, <1>3, <1>5, <1>8 DEF ExitInv, SweepInv
<1>. QED
  BY <1>6, <1>7, <1>9, <1>10 DEF ExitInv

(* A step of a client that is not in submit.                               *)
LEMMA ShutdownMoves ==
    ASSUME PcType, CoreInv, NEW c \in Clients, ShutdownStep(c)
    PROVE  /\ \E s \in ClientStates :
                /\ Moved(c, s)
                /\ {St(c), Stage(s)} \cap {"inflight", "publishing"} = {}
           /\ UNCHANGED <<inflight_submissions, builder>>
           /\ \A d \in Clients \ {c} : todo'[d] = todo[d]
           /\ QueuesShrink
<1>. c \in Threads /\ DOMAIN pc = Threads
  BY DEF Threads, PcType
<1>. USE DEF counts, queues, mine
<1>0. queued_task_count \in Nat
  BY CountsAreNatural
<1>1. \E s \in ClientStates : /\ Moved(c, s)
                              /\ {St(c), Stage(s)} \cap {"inflight", "publishing"} = {}
  <2>1. CASE StopAccepting(c) \/ Shutdown(c) \/ SetStopNow(c) \/ Close(c)
    BY <2>1, GotoMoves DEF StopAccepting, Shutdown, SetStopNow, Close, ClientStates, St, Stage
  <2>2. CASE FindEmpty(c) \/ Subtract(c) \/ CancelBatch(c) \/ CallAwaitTermination(c)
             \/ WaitForTermination(c)
    BY <2>2, GotoMoves DEF FindEmpty, Subtract, CancelBatch, CallAwaitTermination, WaitForTermination,
       ClientStates, St, Stage
  <2>3. CASE Drain(c)
    BY <2>3 DEF Drain, Moved, Roused, PcType, ClientStates, St, Stage
  <2>. QED
    BY <2>1, <2>2, <2>3 DEF ShutdownStep
<1>2. UNCHANGED <<inflight_submissions, builder>>
  BY DEF ShutdownStep, StopAccepting, Shutdown, SetStopNow, Close, Drain, FindEmpty, Subtract,
     CancelBatch, CallAwaitTermination, WaitForTermination
<1>3. \A d \in Clients \ {c} : todo'[d] = todo[d]
  <2>1. UNCHANGED todo \/ \E S : todo' = [todo EXCEPT ![c] = S]
    BY DEF ShutdownStep, StopAccepting, Shutdown, SetStopNow, Close, Drain, FindEmpty, Subtract,
       CancelBatch, CallAwaitTermination, WaitForTermination
  <2>. QED
    BY <2>1 DEF CoreInv, DataType, Threads
<1>4. QueuesShrink
  <2>1. CASE Drain(c)
    BY <1>0, <2>1 DEF Drain, TakeFrom, QueuesShrink
  <2>2. CASE Subtract(c)
    <3>1. Cardinality(batch[c]) \in Nat
      BY FS_Subset, FS_CardinalityType, FixedPoolAssumption DEF CoreInv, DataType
    <3>. QED
      BY <1>0, <2>2, <3>1 DEF Subtract, QueuesShrink
  <2>3. CASE ~(Drain(c) \/ Subtract(c))
    BY <1>0, <2>3 DEF ShutdownStep, StopAccepting, Shutdown, SetStopNow, Close, FindEmpty,
       CancelBatch, CallAwaitTermination, WaitForTermination, QueuesShrink
  <2>. QED
    BY <2>1, <2>2, <2>3
<1>. QED
  BY <1>1, <1>2, <1>3, <1>4

LEMMA ShutdownExitStep ==
    ASSUME PcType, CoreInv, CoreInv', ExitInv, NEW c \in Clients, ShutdownStep(c)
    PROVE  ExitInv'
<1>. c \in Threads /\ c \notin Workers /\ DOMAIN pc = Threads
  BY FixedPoolAssumption DEF Threads, PcType
<1>. USE DEF state, flags, queues, mine
<1>1. /\ UNCHANGED <<inflight_submissions, builder>>
      /\ \A d \in Clients \ {c} : todo'[d] = todo[d]
      /\ QueuesShrink
  BY ShutdownMoves
<1>2. PICK s \in ClientStates : /\ Moved(c, s)
                                /\ {St(c), Stage(s)} \cap {"inflight", "publishing"} = {}
  BY ShutdownMoves
<1>3. /\ \A u \in Threads \ {c} : St(u)' = St(u)
      /\ St(c)' = Stage(s) /\ pc'[c] = s
  BY <1>2, MovedStage DEF Moved
<1>4. /\ \A w \in Workers : St(w)' = St(w)
      /\ \A d \in Clients \ {c} : St(d)' = St(d)
      /\ St(c) \notin {"inflight", "publishing"} /\ St(c)' \notin {"inflight", "publishing"}
  BY <1>2, <1>3 DEF Threads
<1>5. queued_task_count \in Nat /\ queued_task_count' \in Nat
  <2>1. CoreInv' => (queued_task_count \in Nat)'
    BY CountsAreNatural, PTL
  <2>. QED
    BY <2>1, CountsAreNatural
<1>6. InflightInv'
  <2>1. Submitters' = Submitters
    BY <1>3, <1>4 DEF Submitters
  <2>. QED
    BY <1>1, <2>1 DEF ExitInv, InflightInv
<1>7. accepting' => accepting
  BY DEF ShutdownStep, StopAccepting, Shutdown, SetStopNow, Close, Drain, FindEmpty, Subtract,
     CancelBatch, CallAwaitTermination, WaitForTermination
<1>8. builder = "built"
  <2>1. CASE StopAccepting(c) \/ CallAwaitTermination(c)
    BY <2>1 DEF StopAccepting, CallAwaitTermination
  <2>2. CASE ~(StopAccepting(c) \/ CallAwaitTermination(c))
    <3>1. St(c) # "idle"
      BY <2>2 DEF ShutdownStep, Shutdown, SetStopNow, Close, Drain, FindEmpty, Subtract,
         CancelBatch, WaitForTermination, St, Stage
    <3>. QED
      BY <3>1 DEF ExitInv, GateInv
  <2>. QED
    BY <2>1, <2>2
<1>9. Quiet => Quiet'
  BY <1>4, <1>7 DEF Quiet
<1>10. (queued_task_count = 0 => queued_task_count' = 0) /\ (global_queue = {} => global_queue' = {})
       /\ \A w \in Workers : inbox[w] = {} => inbox'[w] = {}
  BY <1>1, <1>5 DEF QueuesShrink
<1>11. CASE StopAccepting(c)
  <2>1. St(c) = "idle" /\ St(c)' = "closing" /\ ~accepting' /\ UNCHANGED lifecycle
    BY <1>11 DEF StopAccepting, Goto, St, Stage, PcType
  <2>2. GateInv'
    BY <1>1, <1>4, <1>8, <2>1 DEF ExitInv, GateInv
  <2>3. LeaveInv' /\ SweepInv'
    BY <1>1, <1>4, <1>9, <1>10, <2>1 DEF ExitInv, LeaveInv, SweepInv
  <2>. QED
    BY <1>6, <2>2, <2>3 DEF ExitInv
<1>12. CASE Shutdown(c)
  <2>1. /\ St(c) = "closing" /\ St(c)' = "other" /\ UNCHANGED accepting
        /\ lifecycle' = IF lifecycle = "Running" THEN "Shutdown" ELSE lifecycle
    BY <1>12 DEF Shutdown, Goto, St, Stage, PcType
  <2>2. GateInv'
    BY <1>1, <1>4, <1>8, <2>1 DEF ExitInv, GateInv
  <2>3. LeaveInv'
    BY <1>1, <1>4, <1>9, <1>10, <2>1 DEF ExitInv, LeaveInv
  <2>4. SweepInv'
    BY <1>1, <1>4, <1>9, <1>10, <2>1 DEF ExitInv, SweepInv
  <2>. QED
    BY <1>6, <2>2, <2>3, <2>4 DEF ExitInv
<1>13. CASE Close(c)
  <2>1. /\ St(c) \in {"closing", "stalled"} /\ UNCHANGED accepting /\ lifecycle' = "Stopping"
        /\ \/ St(c)' = "stalled"
           \/ St(c)' = "drain" /\ todo'[c] = Sources /\ ~(inflight_submissions > 0)
    BY <1>13 DEF Close, Goto, St, Stage, PcType, CoreInv, DataType
  <2>2. GateInv'
    BY <1>1, <1>4, <1>8, <2>1 DEF ExitInv, GateInv
  <2>3. LeaveInv'
    BY <2>1 DEF LeaveInv
  <2>4. St(c)' = "drain" => Quiet
    <3>1. inflight_submissions \in Nat
      BY SubmittersAreFinite, FS_CardinalityType DEF ExitInv, InflightInv
    <3>2. SUFFICES ASSUME St(c)' = "drain" PROVE Quiet
      OBVIOUS
    <3>3. inflight_submissions = 0
      BY <2>1, <3>1, <3>2
    <3>. QED
      BY <2>1, <3>3, NoneInflight DEF Quiet, ExitInv, GateInv, Threads
  <2>5. SweepInv'
    BY <1>1, <1>4, <1>9, <1>10, <2>1, <2>4 DEF ExitInv, SweepInv, Sources
  <2>. QED
    BY <1>6, <2>2, <2>3, <2>5 DEF ExitInv
<1>14. CASE Drain(c)
  <2>1. /\ St(c) = "drain" /\ St(c)' = "drain" /\ UNCHANGED <<accepting, lifecycle>>
        /\ todo'[c] = Sources
    BY <1>14 DEF Drain, St, Stage, CoreInv, DataType
  <2>2. GateInv'
    BY <1>1, <1>4, <1>8, <2>1 DEF ExitInv, GateInv
  <2>3. LeaveInv' /\ SweepInv'
    BY <1>1, <1>4, <1>9, <1>10, <2>1 DEF ExitInv, LeaveInv, SweepInv, Sources
  <2>. QED
    BY <1>6, <2>2, <2>3 DEF ExitInv
<1>15. CASE FindEmpty(c)
  <2>1. /\ St(c) = "drain" /\ UNCHANGED <<accepting, lifecycle, global_queue, inbox>>
        /\ St(c)' = "drain" \/ (St(c)' = "drained" /\ todo'[c] = {})
    BY <1>15 DEF FindEmpty, Goto, St, Stage, PcType
  <2>2. /\ "global" \notin todo'[c] => global_queue' = {}
        /\ \A w \in Workers : w \notin todo'[c] => inbox'[w] = {}
    <3>1. PICK q \in todo[c] : /\ q = "global" => global_queue = {}
                               /\ q # "global" => inbox[q] = {}
                               /\ todo'[c] = todo[c] \ {q}
      BY <1>15 DEF FindEmpty, CoreInv, DataType
    <3>2. /\ "global" \notin todo[c] => global_queue = {}
          /\ \A w \in Workers : w \notin todo[c] => inbox[w] = {}
      BY <2>1 DEF ExitInv, SweepInv
    <3>3. "global" \notin Workers
      BY FixedPoolAssumption
    <3>. QED
      BY <2>1, <3>1, <3>2, <3>3
  <2>3. GateInv'
    BY <1>1, <1>4, <1>8, <2>1 DEF ExitInv, GateInv
  <2>4. LeaveInv'
    BY <1>1, <1>4, <1>9, <1>10, <2>1 DEF ExitInv, LeaveInv
  <2>5. Quiet'
    BY <1>9, <2>1 DEF ExitInv, SweepInv
  <2>6. SweepInv'
    BY <1>1, <1>4, <1>9, <1>10, <2>1, <2>2, <2>5 DEF ExitInv, SweepInv
  <2>. QED
    BY <1>6, <2>3, <2>4, <2>6 DEF ExitInv
<1>16. CASE SetStopNow(c) \/ Subtract(c) \/ CancelBatch(c) \/ CallAwaitTermination(c)
            \/ WaitForTermination(c)
  <2>1. /\ UNCHANGED <<accepting, lifecycle>>
        /\ St(c) \notin {"stalled", "drain"} /\ St(c)' \notin {"stalled", "drain"}
        /\ St(c)' = "closing" => St(c) = "closing"
        /\ St(c)' = "drained" => St(c) = "drained"
    BY <1>16 DEF SetStopNow, Subtract, CancelBatch, CallAwaitTermination, WaitForTermination, Goto,
       St, Stage, PcType
  <2>2. GateInv'
    BY <1>1, <1>4, <1>8, <2>1 DEF ExitInv, GateInv
  <2>3. LeaveInv'
    BY <1>1, <1>4, <1>9, <1>10, <2>1 DEF ExitInv, LeaveInv
  <2>4. SweepInv'
    BY <1>1, <1>4, <1>9, <1>10, <2>1 DEF ExitInv, SweepInv
  <2>. QED
    BY <1>6, <2>2, <2>3, <2>4 DEF ExitInv
<1>. QED
  BY <1>11, <1>12, <1>13, <1>14, <1>15, <1>16 DEF ShutdownStep

(* Sleepers and the thread that builds the pool.                           *)
LEMMA OthersExitStep ==
    ASSUME PcType, CoreInv, ExitInv,
           \/ \E t \in Threads : FallAsleep(t) \/ SpuriousWakeup(t)
           \/ SpawnFails \/ StopAfterFailedBuild \/ BuildHasFailed \/ UNCHANGED vars
    PROVE  ExitInv'
<1>. USE DEF state, flags, counts, queues, mine
<1>1. \A u \in Threads : St(u)' = St(u)
  <2>1. ASSUME NEW t \in Threads, FallAsleep(t) \/ SpuriousWakeup(t)
        PROVE  \A u \in Threads : St(u)' = St(u)
    <3>1. /\ Moved(t, pc'[t])
          /\ \/ pc[t] = "stall" /\ pc'[t] = "stalls"
             \/ pc[t] = "doze" /\ pc'[t] = "awaits"
             \/ pc[t] = "sleep" /\ pc'[t] = "asleep"
             \/ Roused(t)
      BY <2>1, SleeperMoves
    <3>2. St(t)' = St(t)
      BY <3>1 DEF Roused, St, Stage
    <3>. QED
      BY <3>1, <3>2, MovedStage
  <2>2. ASSUME SpawnFails \/ StopAfterFailedBuild \/ BuildHasFailed \/ UNCHANGED vars
        PROVE  \A u \in Threads : St(u)' = St(u)
    BY <2>2, BuilderMoves DEF Roused, St, Stage
  <2>. QED
    BY <2>1, <2>2
<1>2. UNCHANGED <<inflight_submissions, queued_task_count, global_queue, inbox, todo>>
  BY DEF FallAsleep, SpuriousWakeup, SpawnFails, StopAfterFailedBuild, BuildHasFailed, vars
<1>3. \/ UNCHANGED <<accepting, lifecycle, builder>>
      \/ builder = "spawn" /\ builder' = "stop" /\ ~accepting' /\ UNCHANGED lifecycle
      \/ /\ builder \notin {"spawn", "built"} /\ builder' \notin {"spawn", "built"}
         /\ UNCHANGED accepting /\ lifecycle' \in {lifecycle, "Stopping"}
  BY DEF FallAsleep, SpuriousWakeup, SpawnFails, StopAfterFailedBuild, BuildHasFailed, vars
<1>4. (\A w \in Workers : St(w)' = St(w)) /\ (\A c \in Clients : St(c)' = St(c))
      /\ Submitters' = Submitters
  BY <1>1 DEF Submitters, Threads
<1>5. InflightInv' /\ GateInv'
  BY <1>2, <1>3, <1>4 DEF ExitInv, InflightInv, GateInv
<1>6. Quiet => Quiet'
  BY <1>3, <1>4 DEF Quiet
<1>7. LeaveInv' /\ SweepInv'
  BY <1>2, <1>3, <1>4, <1>6 DEF ExitInv, GateInv, LeaveInv, SweepInv
<1>. QED
  BY <1>5, <1>7 DEF ExitInv

LEMMA ExitInvariance == Spec => []ExitInv
<1>1. PcType /\ CoreInv /\ CoreInv' /\ ExitInv /\ [Next]_vars => ExitInv'
  BY WorkerExitStep, SubmitExitStep, ShutdownExitStep, OthersExitStep DEF Next
<1>. QED
  BY <1>1, ExitInit, CoreInvariance, PTL DEF Spec

(* When the last worker has left, no accepted job is left behind, although *)
(* submit takes no lock and workers decide to leave on counters that       *)
(* change under them: every such job is for a shutdown_now under way, and  *)
(* already in its batch once is_terminated answers true.                   *)
THEOREM WorkersLeaveNoJobBehind == Spec => []NoJobLeftBehind
<1>1. PcType /\ CoreInv /\ ExitInv => NoJobLeftBehind
  <2>. SUFFICES ASSUME PcType, CoreInv, ExitInv, builder = "built",
                       \A w \in Workers : pc[w] \in {"exit", "tell_exit", "gone"},
                       NEW j \in Jobs, status[j] \in Service!Pending
                PROVE  /\ StoppingClients # {}
                       /\ Terminated => j \in UNION {batch[c] : c \in Clients}
    BY DEF NoJobLeftBehind
  <2>1. PICK kind \in [Jobs -> Kinds], at \in [Jobs -> Threads \cup {Nobody}] :
          /\ Located(kind, at) /\ Graded(kind, at)
          /\ queued_task_count = Cardinality(Counted(kind, at))
    BY DEF CoreInv, JobInv
  <2>2. \A w \in Workers : Cl(w) = "none" /\ St(w) = "gone"
    BY DEF Cl, Class, St, Stage
  <2>3. lifecycle \in {"Shutdown", "Stopping"}
    BY <2>2, FixedPoolAssumption DEF ExitInv, GateInv, LeaveInv
  <2>4. \A c \in Clients : St(c) \in {"stalled", "drain", "drained"} => StoppingClients # {}
    BY DEF St, Stage, StoppingClients, Holders, Threads
  <2>5. \A c \in Clients : Cl(c) # "run" /\ (Cl(c) = "accepted" => St(c) = "publishing")
    BY DEF PcType, ClientStates, Cl, Class, St, Stage
  <2>6. CASE kind[j] \in {"global", "inbox"}
    <3>1. j \in Counted(kind, at) /\ IsFiniteSet(Counted(kind, at))
      BY <2>6, FS_Subset, FixedPoolAssumption DEF Counted
    <3>2. queued_task_count # 0
      BY <2>1, <3>1, FS_EmptySet
    <3>3. global_queue # {} \/ \E w \in Workers : inbox[w] # {}
      BY <2>1, <2>6 DEF Located
    <3>4. StoppingClients # {}
      BY <2>2, <2>3, <2>4, <3>2, <3>3, FixedPoolAssumption DEF ExitInv, LeaveInv, SweepInv
    <3>. QED
      BY <3>2, <3>4 DEF Terminated
  <2>7. CASE kind[j] = "batch"
    <3>1. at[j] \in Threads /\ j \in batch[at[j]]
      BY <2>1, <2>7 DEF Located
    <3>2. at[j] \in Clients /\ Cl(at[j]) \in {"batch", "discard_all", "cancel"}
      BY <2>2, <3>1 DEF CoreInv, HandInv, Threads
    <3>3. St(at[j]) \in {"drain", "drained"}
      BY <3>2 DEF PcType, ClientStates, Cl, Class, St, Stage
    <3>. QED
      BY <2>4, <3>1, <3>2, <3>3
  <2>8. CASE kind[j] = "held"
    <3>1. at[j] \in Threads /\ held[at[j]] = j
      BY <2>1, <2>8 DEF Located
    <3>2. Cl(at[j]) \in {"accepted", "run"}
      BY <2>1, <2>8, <3>1, FixedPoolAssumption DEF Graded, CoreInv, HandInv, Service!Pending
    <3>3. at[j] \in Clients /\ St(at[j]) = "publishing"
      BY <2>2, <2>5, <3>1, <3>2 DEF Threads
    <3>4. StoppingClients # {}
      BY <2>2, <2>3, <2>4, <3>3, FixedPoolAssumption DEF ExitInv, LeaveInv, SweepInv, Quiet
    <3>5. ~Terminated
      BY <3>1, <3>3, NoneInflight DEF Terminated, ExitInv
    <3>. QED
      BY <3>4, <3>5
  <2>9. kind[j] # "none" /\ kind[j] # "local"
    BY <2>1, <2>2 DEF Graded, Located, Service!Pending, CoreInv, LocalInv
  <2>. QED
    BY <2>1, <2>6, <2>7, <2>8, <2>9 DEF Kinds
<1>. QED
  BY <1>1, CoreInvariance, ExitInvariance, PTL

-----------------------------------------------------------------------------
(* Why no worker sleeps on a job.  A worker that goes to sleep looks at the*)
(* queue after it has been counted as idle.  So if all of them rest, every *)
(* waiting job was submitted after they had been counted, and its submitter*)
(* leaves a token in pending_worker_wakes or finds one there for every     *)
(* worker.                                                                 *)

Phase(s) ==
    CASE s \in {"recheck_queue", "unmark"}                  -> "marked"
      [] s \in {"recheck_wake", "sleep", "asleep", "wake"}  -> "resting"
      [] s = "count_idle"                                   -> "count"
      [] s = "add_wake"                                     -> "add"
      [] OTHER                                              -> "none"

Ph(t) == Phase(pc[t])

LEMMA MovedPhase ==
    ASSUME NEW t, NEW s, Moved(t, s)
    PROVE  /\ \A u \in Threads \ {t} : Ph(u)' = Ph(u)
           /\ t \in Threads => Ph(t)' = Phase(s)
<1>1. ASSUME NEW u \in Threads \ {t}
      PROVE  Ph(u)' = Ph(u)
  BY <1>1 DEF Moved, Roused, Ph, Phase
<1>. QED
  BY <1>1 DEF Moved, Ph

Idlers == {w \in Workers : Ph(w) \in {"marked", "resting"}}

AllRest == \A w \in Workers : Ph(w) = "resting"

(* The submitters that will see to it that there is a token for their job. *)
Owing == {c \in Clients : \/ Ph(c) = "count"
                          \/ Ph(c) = "add" /\ idle_workers[c] = Cardinality(Workers)}

WakeType == pending_worker_wakes \in Nat /\ idle_workers \in [Clients -> Nat]

IdleInv == idle_worker_count = Cardinality(Idlers)

RestInv ==
    AllRest => \/ pending_worker_wakes >= Cardinality(Workers)
               \/ pending_worker_wakes + Cardinality(Owing) >= Cardinality(Waiting)

TokenInv == WakeType /\ IdleInv /\ RestInv

LEMMA TokenSets ==
    /\ IsFiniteSet(Idlers) /\ Cardinality(Idlers) \in Nat
    /\ IsFiniteSet(Owing) /\ Cardinality(Owing) \in Nat
    /\ Cardinality(Workers) \in Nat /\ Cardinality(Workers) # 0
    /\ CoreInv => IsFiniteSet(Waiting) /\ Cardinality(Waiting) \in Nat
<1>1. IsFiniteSet(Idlers) /\ IsFiniteSet(Owing)
  BY FS_Subset, FixedPoolAssumption DEF Idlers, Owing
<1>2. CoreInv => IsFiniteSet(Waiting)
  <2>1. CoreInv => Waiting \subseteq Jobs
    BY DEF CoreInv, DataType, Waiting
  <2>. QED
    BY <2>1, FS_Subset, FixedPoolAssumption
<1>. QED
  BY <1>1, <1>2, FS_CardinalityType, FS_EmptySet, FixedPoolAssumption

LEMMA TokenInit == Init => TokenInv
<1>. SUFFICES ASSUME Init PROVE TokenInv
  OBVIOUS
<1>1. \A w \in Workers : Ph(w) = "none"
  BY DEF Init, Ph, Phase, Threads
<1>2. Idlers = {} /\ ~AllRest
  BY <1>1, FixedPoolAssumption DEF Idlers, AllRest
<1>. QED
  BY <1>2, FS_EmptySet DEF Init, TokenInv, WakeType, IdleInv, RestInv

(* A worker that begins to rest has seen the queue empty.                  *)
LEMMA WorkerRests ==
    ASSUME PcType, NEW w \in Workers, SpawnWorker(w) \/ WorkerStep(w)
    PROVE  \E s :
             /\ Moved(w, s)
             /\ \/ /\ Ph(w) = "none" /\ Phase(s) = "marked"
                   /\ idle_worker_count' = idle_worker_count + 1
                \/ /\ Ph(w) \in {"marked", "resting"} /\ Phase(s) = "none"
                   /\ idle_worker_count' = idle_worker_count - 1
                \/ /\ Ph(w) \in {"marked", "resting"} /\ Phase(s) \in {"marked", "resting"}
                   /\ Phase(s) = "resting" => Ph(w) = "resting" \/ ~(queued_task_count > 0)
                   /\ UNCHANGED <<idle_worker_count, pending_worker_wakes, queues>>
                \/ /\ Ph(w) = "none" /\ Phase(s) = "none" /\ UNCHANGED idle_worker_count
<1>. w \in Threads /\ DOMAIN pc = Threads
  BY DEF Threads, PcType
<1>. USE DEF wakes
<1>1. CASE MarkIdle(w) \/ UnmarkIdle(w)
  BY <1>1, GotoMoves DEF MarkIdle, UnmarkIdle, Ph, Phase
<1>2. CASE RecheckQueue(w) \/ RecheckWake(w)
  BY <1>2, GotoMoves DEF RecheckQueue, RecheckWake, Ph, Phase
<1>3. CASE SpawnWorker(w) \/ Activate(w) \/ TryTakeJob(w) \/ AcceptClaimedJob(w) \/ RunJob(w)
  BY <1>3, GotoMoves DEF SpawnWorker, Activate, TryTakeJob, AcceptClaimedJob, RunJob, Ph, Phase
<1>4. CASE StealGlobal(w) \/ StealWorker(w)
  BY <1>4, GotoMoves DEF StealGlobal, StealWorker, Stolen, Ph, Phase
<1>5. CASE Poke(w) \/ FinishRunningJob(w) \/ CancelClaimedJob(w) \/ WorkerExited(w)
  BY <1>5, GotoMoves, NotifyMoves DEF Poke, FinishRunningJob, CancelClaimedJob, WorkerExited,
     NextSource, Ph, Phase
<1>6. CASE CancelWorkerJobs(w)
  <2>1. CASE pc[w] = "collect" /\ UNCHANGED pc
    BY <1>6, <2>1 DEF CancelWorkerJobs, Moved, Roused, PcType, Ph, Phase
  <2>2. CASE \E s \in {"discard", "collect", "lock", "victims", "discard_all"} : Goto(w, s)
    BY <1>6, <2>2, GotoMoves DEF CancelWorkerJobs, Ph, Phase
  <2>. QED
    BY <1>6, <2>1, <2>2 DEF CancelWorkerJobs, NextSource
<1>7. CASE Decide(w) \/ Settle(w) \/ ConsumePendingWorkerWake(w) \/ Deactivate(w)
  BY <1>7, GotoMoves DEF Decide, Settle, ConsumePendingWorkerWake, Deactivate, Unlock, Ph, Phase
<1>. QED
  BY <1>1, <1>2, <1>3, <1>4, <1>5, <1>6, <1>7 DEF WorkerStep

LEMMA WorkerTokenStep ==
    ASSUME PcType, CoreInv, TokenInv, NEW w \in Workers, SpawnWorker(w) \/ WorkerStep(w)
    PROVE  TokenInv'
<1>. w \in Threads /\ w \notin Clients
  BY FixedPoolAssumption DEF Threads
<1>1. PICK s :
        /\ Moved(w, s)
        /\ \/ /\ Ph(w) = "none" /\ Phase(s) = "marked"
              /\ idle_worker_count' = idle_worker_count + 1
           \/ /\ Ph(w) \in {"marked", "resting"} /\ Phase(s) = "none"
              /\ idle_worker_count' = idle_worker_count - 1
           \/ /\ Ph(w) \in {"marked", "resting"} /\ Phase(s) \in {"marked", "resting"}
              /\ Phase(s) = "resting" => Ph(w) = "resting" \/ ~(queued_task_count > 0)
              /\ UNCHANGED <<idle_worker_count, pending_worker_wakes, queues>>
           \/ /\ Ph(w) = "none" /\ Phase(s) = "none" /\ UNCHANGED idle_worker_count
  BY WorkerRests
<1>2. (\A u \in Threads \ {w} : Ph(u)' = Ph(u)) /\ Ph(w)' = Phase(s)
  BY <1>1, MovedPhase
<1>3. pending_worker_wakes' \in Nat /\ UNCHANGED idle_workers
  BY DEF WorkerStep, SpawnWorker, Activate, TryTakeJob, StealGlobal, StealWorker, Poke,
     AcceptClaimedJob, RunJob, FinishRunningJob, CancelWorkerJobs, CancelClaimedJob, Decide, Settle,
     MarkIdle, RecheckQueue, RecheckWake, UnmarkIdle, ConsumePendingWorkerWake, Deactivate,
     WorkerExited, wakes, mine, TokenInv, WakeType
<1>4. WakeType'
  BY <1>3 DEF TokenInv, WakeType
<1>5. IdleInv'
  <2>1. CASE Idlers' = Idlers /\ UNCHANGED idle_worker_count
    BY <2>1 DEF TokenInv, IdleInv
  <2>2. CASE Idlers' = Idlers \cup {w} /\ w \notin Idlers /\ idle_worker_count' = idle_worker_count + 1
    BY <2>2, TokenSets, FS_AddElement DEF TokenInv, IdleInv
  <2>3. CASE Idlers' = Idlers \ {w} /\ w \in Idlers /\ idle_worker_count' = idle_worker_count - 1
    BY <2>3, TokenSets, FS_RemoveElement DEF TokenInv, IdleInv
  <2>4. \/ Idlers' = Idlers /\ UNCHANGED idle_worker_count
        \/ Idlers' = Idlers \cup {w} /\ w \notin Idlers /\ idle_worker_count' = idle_worker_count + 1
        \/ Idlers' = Idlers \ {w} /\ w \in Idlers /\ idle_worker_count' = idle_worker_count - 1
    BY <1>1, <1>2 DEF Idlers, Threads
  <2>. QED
    BY <2>1, <2>2, <2>3, <2>4
<1>6. RestInv'
  <2>. SUFFICES ASSUME AllRest'
                PROVE  \/ pending_worker_wakes' >= Cardinality(Workers)
                       \/ pending_worker_wakes' + Cardinality(Owing') >= Cardinality(Waiting')
    BY DEF RestInv
  <2>1. /\ Ph(w) = "resting" \/ ~(queued_task_count > 0)
        /\ UNCHANGED <<pending_worker_wakes, queues>>
        /\ \A v \in Workers \ {w} : Ph(v) = "resting"
    BY <1>1, <1>2 DEF AllRest, Threads
  <2>2. Owing' = Owing /\ Waiting' = Waiting
    BY <1>2, <1>3, <2>1 DEF Owing, Waiting, queues, Threads
  <2>3. CASE Ph(w) = "resting"
    BY <2>1, <2>2, <2>3 DEF TokenInv, RestInv, AllRest
  <2>4. CASE ~(queued_task_count > 0)
    <3>1. /\ Cardinality(Holders({"accept", "route", "push", "poke", "claimed", "discard"})) \in Nat
          /\ Cardinality(UNION {batch[t] : t \in Holders({"drain", "subtract", "collect",
                                                           "discard_all"})}) \in Nat
      <4>1. IsFiniteSet(Threads) /\ IsFiniteSet(Jobs)
        BY FS_Union, FixedPoolAssumption DEF Threads
      <4>2. IsFiniteSet(Holders({"accept", "route", "push", "poke", "claimed", "discard"}))
        BY <4>1, FS_Subset DEF Holders
      <4>3. UNION {batch[t] : t \in Holders({"drain", "subtract", "collect", "discard_all"})}
              \subseteq Jobs
        BY DEF Holders, CoreInv, DataType
      <4>. QED
        BY <4>1, <4>2, <4>3, FS_Subset, FS_CardinalityType
    <3>2. Cardinality(Waiting) = 0
      BY <2>4, <3>1, SlotsAreCounted, TokenSets
    <3>. QED
      BY <1>3, <2>2, <3>2, TokenSets
  <2>. QED
    BY <2>1, <2>3, <2>4
<1>. QED
  BY <1>4, <1>5, <1>6 DEF TokenInv

LEMMA PushTokenStep ==
    ASSUME PcType, CoreInv, TokenInv, NEW c \in Clients, Push(c)
    PROVE  TokenInv'
<1>. c \in Threads /\ c \notin Workers /\ DOMAIN pc = Threads
  BY FixedPoolAssumption DEF Threads, PcType
<1>1. Moved(c, "count_idle") /\ UNCHANGED <<wakes, idle_workers>>
  BY GotoMoves DEF Push
<1>2. Ph(c) = "none" /\ Ph(c)' = "count" /\ \A u \in Threads \ {c} : Ph(u)' = Ph(u)
  BY <1>1, MovedPhase DEF Push, Ph, Phase
<1>3. WakeType' /\ Idlers' = Idlers /\ (AllRest' <=> AllRest)
  BY <1>1, <1>2 DEF TokenInv, WakeType, wakes, Idlers, AllRest, Threads
<1>4. Owing' = Owing \cup {c} /\ c \notin Owing
  BY <1>1, <1>2 DEF Owing, Threads
<1>5. Cardinality(Owing') = Cardinality(Owing) + 1
  BY <1>4, TokenSets, FS_AddElement
<1>6. Waiting' \subseteq Waiting \cup {held[c]}
  BY DEF Push, Waiting, CoreInv, DataType
<1>7. Cardinality(Waiting') \in Nat /\ Cardinality(Waiting') <= Cardinality(Waiting) + 1
  <2>1. /\ IsFiniteSet(Waiting \cup {held[c]})
        /\ Cardinality(Waiting \cup {held[c]}) <= Cardinality(Waiting) + 1
    <3>1. IsFiniteSet(Waiting) /\ Cardinality(Waiting) \in Nat
      BY TokenSets
    <3>2. /\ IsFiniteSet(Waiting \cup {held[c]})
          /\ Cardinality(Waiting \cup {held[c]}) =
               IF held[c] \in Waiting THEN Cardinality(Waiting) ELSE Cardinality(Waiting) + 1
      BY <3>1, FS_AddElement
    <3>. QED
      BY <3>1, <3>2
  <2>2. /\ IsFiniteSet(Waiting') /\ Cardinality(Waiting') <= Cardinality(Waiting \cup {held[c]})
    BY <1>6, <2>1, FS_Subset
  <2>. QED
    BY <2>1, <2>2, TokenSets, FS_CardinalityType
<1>8. RestInv'
  BY <1>1, <1>3, <1>5, <1>7, TokenSets DEF TokenInv, RestInv, WakeType, wakes
<1>. QED
  BY <1>1, <1>3, <1>8 DEF TokenInv, IdleInv, wakes

LEMMA CountTokenStep ==
    ASSUME PcType, CoreInv, TokenInv, NEW c \in Clients, CountIdle(c)
    PROVE  TokenInv'
<1>. c \in Threads /\ c \notin Workers /\ DOMAIN pc = Threads
  BY FixedPoolAssumption DEF Threads, PcType
<1>1. /\ Moved(c, IF idle_worker_count = 0 THEN "leave" ELSE "add_wake")
      /\ idle_workers' = [idle_workers EXCEPT ![c] = idle_worker_count]
      /\ UNCHANGED <<wakes, queues>> /\ pc[c] = "count_idle"
  BY GotoMoves DEF CountIdle
<1>2. /\ Ph(c) = "count" /\ Ph(c)' = IF idle_worker_count = 0 THEN "none" ELSE "add"
      /\ \A u \in Threads \ {c} : Ph(u)' = Ph(u)
  BY <1>1, MovedPhase DEF Ph, Phase
<1>3. WakeType'
  BY <1>1, TokenSets DEF TokenInv, WakeType, IdleInv, wakes
<1>4. Idlers' = Idlers /\ (AllRest' <=> AllRest) /\ Waiting' = Waiting
  BY <1>1, <1>2 DEF Idlers, AllRest, Threads, Waiting, queues
<1>5. ASSUME AllRest
      PROVE  Owing' = Owing
  <2>1. Idlers = Workers
    BY <1>5 DEF Idlers, AllRest
  <2>2. idle_worker_count = Cardinality(Workers) /\ idle_worker_count # 0
    BY <2>1, TokenSets DEF TokenInv, IdleInv
  <2>3. idle_workers'[c] = Cardinality(Workers) /\ Ph(c)' = "add"
    BY <1>1, <1>2, <2>2 DEF TokenInv, WakeType
  <2>4. \A d \in Clients \ {c} : idle_workers'[d] = idle_workers[d] /\ Ph(d)' = Ph(d)
    BY <1>1, <1>2 DEF TokenInv, WakeType, Threads
  <2>. QED
    BY <1>2, <2>3, <2>4 DEF Owing
<1>6. RestInv'
  BY <1>1, <1>4, <1>5 DEF TokenInv, RestInv, wakes
<1>. QED
  BY <1>1, <1>3, <1>4, <1>6 DEF TokenInv, IdleInv, wakes

LEMMA AddTokenStep ==
    ASSUME PcType, CoreInv, TokenInv, NEW c \in Clients, AddWake(c)
    PROVE  TokenInv'
<1>. c \in Threads /\ c \notin Workers /\ DOMAIN pc = Threads
  BY FixedPoolAssumption DEF Threads, PcType
<1>1. PICK s \in {"leave", "notify"} :
        /\ Moved(c, s) /\ pc[c] = "add_wake"
        /\ s = "leave" => pending_worker_wakes >= idle_workers[c] /\ UNCHANGED pending_worker_wakes
        /\ s = "notify" => pending_worker_wakes' = pending_worker_wakes + 1
        /\ idle_workers' = [idle_workers EXCEPT ![c] = 0]
        /\ UNCHANGED <<idle_worker_count, queues>>
  BY GotoMoves DEF AddWake
<1>2. Ph(c) = "add" /\ Ph(c)' = "none" /\ \A u \in Threads \ {c} : Ph(u)' = Ph(u)
  BY <1>1, MovedPhase DEF Ph, Phase
<1>3. WakeType'
  BY <1>1 DEF TokenInv, WakeType
<1>4. Idlers' = Idlers /\ (AllRest' <=> AllRest) /\ Waiting' = Waiting
  BY <1>1, <1>2 DEF Idlers, AllRest, Threads, Waiting, queues
<1>5. Owing' = Owing \ {c}
  <2>1. \A d \in Clients \ {c} : idle_workers'[d] = idle_workers[d] /\ Ph(d)' = Ph(d)
    BY <1>1, <1>2 DEF TokenInv, WakeType, Threads
  <2>. QED
    BY <1>2, <2>1 DEF Owing
<1>6. /\ c \in Owing => idle_workers[c] = Cardinality(Workers)
      /\ Cardinality(Owing') = IF c \in Owing THEN Cardinality(Owing) - 1 ELSE Cardinality(Owing)
  <2>1. c \in Owing => idle_workers[c] = Cardinality(Workers)
    BY <1>2 DEF Owing
  <2>2. IsFiniteSet(Owing)
    BY TokenSets
  <2>. QED
    BY <1>5, <2>1, <2>2, FS_RemoveElement
<1>7. RestInv'
  <2>1. pending_worker_wakes \in Nat /\ idle_workers[c] \in Nat
    BY DEF TokenInv, WakeType
  <2>2. /\ AllRest => \/ pending_worker_wakes >= Cardinality(Workers)
                      \/ pending_worker_wakes + Cardinality(Owing) >= Cardinality(Waiting)
    BY DEF TokenInv, RestInv
  <2>3. CASE s = "leave"
    BY <1>1, <1>4, <1>6, <2>1, <2>2, <2>3, TokenSets DEF RestInv
  <2>4. CASE s = "notify"
    BY <1>1, <1>4, <1>6, <2>1, <2>2, <2>4, TokenSets DEF RestInv
  <2>. QED
    BY <2>3, <2>4
<1>. QED
  BY <1>1, <1>3, <1>4, <1>7 DEF TokenInv, IdleInv

(* The other steps leave the tokens alone and queue no job.                *)
LEMMA TokensStay ==
    ASSUME CoreInv, TokenInv, UNCHANGED <<wakes, idle_workers>>, Waiting' \subseteq Waiting,
           \A t \in Threads : Ph(t)' = Ph(t)
    PROVE  TokenInv'
<1>1. WakeType' /\ Idlers' = Idlers /\ (AllRest' <=> AllRest) /\ Owing' = Owing
  BY DEF TokenInv, WakeType, wakes, Idlers, AllRest, Owing, Threads
<1>2. Cardinality(Waiting') \in Nat /\ Cardinality(Waiting') <= Cardinality(Waiting)
  BY TokenSets, FS_Subset, FS_CardinalityType
<1>3. RestInv'
  BY <1>1, <1>2, TokenSets DEF TokenInv, RestInv, WakeType, wakes
<1>. QED
  BY <1>1, <1>3 DEF TokenInv, IdleInv, wakes

LEMMA ClientTokenStep ==
    ASSUME PcType, CoreInv, TokenInv, NEW c \in Clients, SubmitStep(c) \/ ShutdownStep(c)
    PROVE  TokenInv'
<1>. c \in Threads /\ DOMAIN pc = Threads
  BY DEF Threads, PcType
<1>. USE DEF queues, mine
<1>1. CASE Push(c) \/ CountIdle(c) \/ AddWake(c)
  BY <1>1, PushTokenStep, CountTokenStep, AddTokenStep
<1>2. CASE ~(Push(c) \/ CountIdle(c) \/ AddWake(c))
  <2>1. UNCHANGED <<wakes, idle_workers>>
    BY <1>2 DEF SubmitStep, ShutdownStep, BeginSubmit, Enter, Recheck, ReserveQueueSlot, Accept, Route,
       Notify, Leave, Announce, StopAccepting, Shutdown, SetStopNow, Close, Drain, FindEmpty,
       Subtract, CancelBatch, CallAwaitTermination, WaitForTermination
  <2>2. Waiting' \subseteq Waiting
    <3>1. CASE Drain(c)
      BY <3>1 DEF Drain, TakeFrom, Waiting
    <3>2. CASE ~Drain(c)
      BY <1>2, <3>2 DEF SubmitStep, ShutdownStep, BeginSubmit, Enter, Recheck, ReserveQueueSlot,
         Accept, Route, Notify, Leave, Announce, StopAccepting, Shutdown, SetStopNow, Close,
         FindEmpty, Subtract, CancelBatch, CallAwaitTermination, WaitForTermination, Waiting
    <3>. QED
      BY <3>1, <3>2
  <2>3. \E s : Moved(c, s) /\ Phase(s) = Ph(c)
    <3>. USE DEF Ph, Phase
    <3>1. CASE \E j \in Jobs : BeginSubmit(c, j)
      <4>1. CASE UNCHANGED pc
        BY <4>1 DEF Moved, Roused, PcType
      <4>2. CASE Goto(c, "enter")
        BY <3>1, <4>2, GotoMoves DEF BeginSubmit
      <4>. QED
        BY <3>1, <4>1, <4>2 DEF BeginSubmit
    <3>2. CASE Enter(c) \/ Recheck(c) \/ ReserveQueueSlot(c) \/ Accept(c) \/ Route(c) \/ Leave(c)
      BY <3>2, GotoMoves DEF Enter, Recheck, ReserveQueueSlot, Accept, Reject, Route, Leave
    <3>3. CASE Notify(c) \/ Announce(c)
      BY <3>3, GotoMoves, NotifyMoves DEF Notify, Announce
    <3>4. CASE StopAccepting(c) \/ Shutdown(c) \/ SetStopNow(c) \/ Close(c) \/ FindEmpty(c)
               \/ Subtract(c) \/ CancelBatch(c) \/ CallAwaitTermination(c) \/ WaitForTermination(c)
      BY <3>4, GotoMoves DEF StopAccepting, Shutdown, SetStopNow, Close, FindEmpty, Subtract,
         CancelBatch, CallAwaitTermination, WaitForTermination
    <3>5. CASE Drain(c)
      BY <3>5 DEF Drain, Moved, Roused, PcType
    <3>. QED
      BY <1>2, <3>1, <3>2, <3>3, <3>4, <3>5 DEF SubmitStep, ShutdownStep
  <2>4. \A t \in Threads : Ph(t)' = Ph(t)
    BY <2>3, MovedPhase
  <2>. QED
    BY <2>1, <2>2, <2>4, TokensStay
<1>. QED
  BY <1>1, <1>2

LEMMA OthersTokenStep ==
    ASSUME PcType, CoreInv, TokenInv,
           \/ \E t \in Threads : FallAsleep(t) \/ SpuriousWakeup(t)
           \/ SpawnFails \/ StopAfterFailedBuild \/ BuildHasFailed \/ UNCHANGED vars
    PROVE  TokenInv'
<1>1. \A u \in Threads : Ph(u)' = Ph(u)
  <2>1. ASSUME NEW t \in Threads, FallAsleep(t) \/ SpuriousWakeup(t)
        PROVE  \A u \in Threads : Ph(u)' = Ph(u)
    <3>1. /\ Moved(t, pc'[t])
          /\ \/ pc[t] = "stall" /\ pc'[t] = "stalls"
             \/ pc[t] = "doze" /\ pc'[t] = "awaits"
             \/ pc[t] = "sleep" /\ pc'[t] = "asleep"
             \/ Roused(t)
      BY <2>1, SleeperMoves
    <3>2. Ph(t)' = Ph(t)
      BY <3>1 DEF Roused, Ph, Phase
    <3>. QED
      BY <3>1, <3>2, MovedPhase
  <2>2. ASSUME SpawnFails \/ StopAfterFailedBuild \/ BuildHasFailed \/ UNCHANGED vars
        PROVE  \A u \in Threads : Ph(u)' = Ph(u)
    BY <2>2, BuilderMoves DEF Roused, Ph, Phase
  <2>. QED
    BY <2>1, <2>2
<1>2. UNCHANGED <<wakes, idle_workers, queues>>
  BY DEF FallAsleep, SpuriousWakeup, SpawnFails, StopAfterFailedBuild, BuildHasFailed, vars, mine
<1>3. Waiting' = Waiting
  BY <1>2 DEF Waiting, queues
<1>. QED
  BY <1>1, <1>2, <1>3, TokensStay

LEMMA TokenInvariance == Spec => []TokenInv
<1>1. PcType /\ CoreInv /\ TokenInv /\ [Next]_vars => TokenInv'
  BY WorkerTokenStep, ClientTokenStep, OthersTokenStep DEF Next
<1>. QED
  BY <1>1, TokenInit, CoreInvariance, PTL DEF Spec

(* A running pool does not sleep on a job by its own decision: when all    *)
(* workers sleep and no submitter is about to wake one, every waiting job  *)
(* has its token in pending_worker_wakes, or there is one for each worker, *)
(* although the idle workers are counted and the tokens added without a    *)
(* lock.                                                                   *)
THEOREM TokensAreLeftForSleepers == Spec => []WakeTokensAreLeft
<1>1. PcType /\ CoreInv /\ TokenInv => WakeTokensAreLeft
  <2>. SUFFICES ASSUME PcType, CoreInv, TokenInv, AllAsleep, Holders({"count_idle", "add_wake"}) = {}
                PROVE  \/ pending_worker_wakes >= Cardinality(Waiting)
                       \/ pending_worker_wakes >= Cardinality(Workers)
    BY DEF WakeTokensAreLeft
  <2>1. AllRest
    BY DEF AllAsleep, AllRest, Ph, Phase
  <2>2. Owing = {}
    BY DEF Owing, Holders, Ph, Phase, Threads
  <2>3. Cardinality(Owing) = 0
    BY <2>2, FS_EmptySet
  <2>. QED
    BY <2>1, <2>3 DEF TokenInv, RestInv, WakeType
<1>. QED
  BY <1>1, CoreInvariance, TokenInvariance, PTL

=============================================================================
