-------------------------- MODULE ThreadPoolProofs --------------------------
(***************************************************************************)
(* Proofs about ThreadPool, for every number of workers, clients and jobs, *)
(* every capacity and every set of configured sizes.                       *)
(***************************************************************************)
EXTENDS ThreadPool, TLAPS, FiniteSetTheorems, SequenceTheorems

(* The actions of the pool, flattened: the case analysis of every step.    *)
ClientAction(c) ==
    \/ \E j \in Jobs : SubmitRejected(c, j)
    \/ \E j \in Jobs : SubmitToNewWorker(c, j)
    \/ \E j \in Jobs : SubmitSpawnFails(c, j)
    \/ \E j \in Jobs : SubmitQueued(c, j)
    \/ \E j \in Jobs : SubmitWithdrawn(c, j)
    \/ NotifyOne(c)
    \/ NotifyAll(c)
    \/ CancelJob(c)
    \/ PrestartOne(c)
    \/ PrestartAll(c)
    \/ PrestartNext(c)
    \/ \E n \in CoreSizes : SetCorePoolSize(c, n)
    \/ \E n \in MaxSizes : SetMaximumPoolSize(c, n)
    \/ SetKeepAlive(c)
    \/ \E allow \in BOOLEAN : AllowCoreThreadTimeout(c, allow)
    \/ Shutdown(c)
    \/ ShutdownNow(c)
    \/ AwaitTermination(c)
    \/ SpuriousReturn(c)

WorkerAction(w) ==
    \/ \E v \in Workers : TakeLocalJob(w, v)
    \/ TakeGlobalJob(w)
    \/ GoIdle(w)
    \/ ExitWorker(w)
    \/ RunJob(w)
    \/ FinishRunningJob(w)
    \/ KeepAliveExpires(w)
    \/ SpuriousWakeup(w)

LEMMA NextCases ==
    Next => \/ \E c \in Clients : ClientAction(c)
            \/ \E w \in Workers : WorkerAction(w)
<1>1. ASSUME NEW c \in Clients, ClientCall(c)
      PROVE  ClientAction(c)
  BY <1>1 DEF ClientCall, Submit, ClientAction
<1>2. ASSUME NEW c \in Clients, ClientStep(c)
      PROVE  ClientAction(c)
  BY <1>2 DEF ClientStep, ClientAction
<1>3. ASSUME NEW w \in Workers, WorkerStep(w) \/ Environment(w)
      PROVE  WorkerAction(w)
  BY <1>3 DEF WorkerStep, WaitForJob, Environment, WorkerAction
<1>. QED
  BY <1>1, <1>2, <1>3 DEF Next, ClientAction

-----------------------------------------------------------------------------
(* Counting the points of a finite domain that a function maps into a set. *)

Count(D, f, S) == Cardinality({x \in D : f[x] \in S})

Chi(x, S) == IF x \in S THEN 1 ELSE 0

LEMMA CountType ==
    ASSUME NEW D, IsFiniteSet(D), NEW f, NEW S
    PROVE  /\ IsFiniteSet({x \in D : f[x] \in S})
           /\ Count(D, f, S) \in Nat
BY FS_Subset, FS_CardinalityType DEF Count

LEMMA CountZero ==
    ASSUME NEW D, IsFiniteSet(D), NEW f, NEW S
    PROVE  Count(D, f, S) = 0 <=> \A x \in D : f[x] \notin S
<1>. DEFINE F == {x \in D : f[x] \in S}
<1>1. IsFiniteSet(F)
  BY CountType
<1>2. Cardinality(F) = 0 <=> F = {}
  BY <1>1, FS_EmptySet
<1>. QED
  BY <1>2 DEF Count

(* One point changes: it may enter the set, leave it, or neither.          *)
LEMMA CountUpdate ==
    ASSUME NEW D, IsFiniteSet(D), NEW f, NEW g, NEW d \in D, NEW S,
           \A x \in D \ {d} : g[x] = f[x]
    PROVE  Count(D, g, S) = Count(D, f, S) + Chi(g[d], S) - Chi(f[d], S)
<1>. DEFINE F == {x \in D : f[x] \in S}
            G == {x \in D : g[x] \in S}
<1>0. IsFiniteSet(F)
  <2>1. F \in SUBSET D
    OBVIOUS
  <2>. QED
    BY <2>1, FS_Subset
<1>1. IsFiniteSet(F) /\ Cardinality(F) \in Nat
  BY <1>0, FS_CardinalityType
<1>2. CASE g[d] \in S
  <2>1. G = F \cup {d}
    BY <1>2
  <2>2. Cardinality(G) = IF d \in F THEN Cardinality(F) ELSE Cardinality(F) + 1
    BY <2>1, <1>1, FS_AddElement
  <2>. QED
    BY <2>2, <1>1, <1>2 DEF Count, Chi
<1>3. CASE g[d] \notin S
  <2>1. G = F \ {d}
    BY <1>3
  <2>2. Cardinality(G) = IF d \in F THEN Cardinality(F) - 1 ELSE Cardinality(F)
    BY <2>1, <1>1, FS_RemoveElement
  <2>. QED
    BY <2>2, <1>1, <1>3 DEF Count, Chi
<1>. QED
  BY <1>2, <1>3

(* Waking everybody moves no thread into or out of a set that treats       *)
(* waiting and woken threads alike.                                        *)
LEMMA CountWoken ==
    ASSUME NEW D, IsFiniteSet(D), NEW R, NEW f \in [D -> R], NEW S,
           \/ {"wait", "timed_wait", "woken"} \subseteq S
           \/ {"wait", "timed_wait", "woken"} \cap S = {}
    PROVE  Count(D, Woken(f), S) = Count(D, f, S)
<1>1. {x \in D : Woken(f)[x] \in S} = {x \in D : f[x] \in S}
  BY DEF Woken, Waiting
<1>. QED
  BY <1>1 DEF Count

-----------------------------------------------------------------------------
(* Types.  That live_workers, idle_workers and queued_tasks never go below *)
(* zero is not inductive; here they are only integers.                     *)

TypeInv ==
    /\ lifecycle \in Lifecycles
    /\ queue \in Seq(Jobs)
    /\ worker_queues \in [Workers -> Seq(Jobs)]
    /\ queued_tasks \in Int /\ running_tasks \in Nat
    /\ live_workers \in Int /\ idle_workers \in Int
    /\ submitted_tasks \in Nat /\ completed_tasks \in Nat
    /\ cancelled_tasks \in Int
    /\ core_pool_size \in Nat /\ maximum_pool_size \in Nat \ {0}
    /\ core_pool_size <= maximum_pool_size
    /\ allow_core_thread_timeout \in BOOLEAN
    /\ worker \in [Workers -> WorkerStates]
    /\ held \in [Workers -> Jobs \cup {NoJob}]
    /\ caller \in [Clients -> CallerStates]
    /\ drained \in [Clients -> SUBSET Jobs]
    /\ fate \in [Jobs -> Fates]

LEMMA WokenType ==
    ASSUME NEW D
    PROVE  /\ \A f \in [D -> WorkerStates] : Woken(f) \in [D -> WorkerStates]
           /\ \A f \in [D -> CallerStates] : Woken(f) \in [D -> CallerStates]
BY DEF Woken, Waiting, WorkerStates, CallerStates

LEMMA RangeType ==
    ASSUME NEW s \in Seq(Jobs)
    PROVE  Range(s) \subseteq Jobs
BY LenProperties DEF Range

LEMMA SpawnType ==
    ASSUME TypeInv, NEW first \in Jobs \cup {NoJob}
    PROVE  /\ \A w \in Workers : SpawnWorker(w, first) =>
                /\ live_workers' \in Int /\ running_tasks' \in Nat
                /\ worker' \in [Workers -> WorkerStates]
                /\ held' \in [Workers -> Jobs \cup {NoJob}]
           /\ SpawnFails(first) =>
                /\ running_tasks' \in Nat
                /\ UNCHANGED <<live_workers, idle_workers, worker, held>>
<1>1. ASSUME NEW w \in Workers, SpawnWorker(w, first)
      PROVE  /\ live_workers' \in Int /\ running_tasks' \in Nat
             /\ worker' \in [Workers -> WorkerStates]
             /\ held' \in [Workers -> Jobs \cup {NoJob}]
  BY <1>1 DEF TypeInv, SpawnWorker, WorkerStates
<1>2. ASSUME SpawnFails(first)
      PROVE  /\ running_tasks' \in Nat
             /\ UNCHANGED <<live_workers, idle_workers, worker, held>>
  BY <1>2 DEF TypeInv, SpawnFails, threads
<1>. QED
  BY <1>1, <1>2

LEMMA TypeInit == Init => TypeInv
BY ConstantsAssumption
   DEF Init, ValidSizes, TypeInv, Lifecycles, WorkerStates, CallerStates, Fates

LEMMA TypeStep == TypeInv /\ [Next]_vars => TypeInv'
<1>. SUFFICES ASSUME TypeInv, [Next]_vars PROVE TypeInv'
  OBVIOUS
<1>. USE ConstantsAssumption
<1>1. CASE UNCHANGED vars
  BY <1>1 DEF TypeInv, vars, queues, counters, sizes, threads
<1>2. ASSUME NEW c \in Clients, NEW j \in Jobs,
             SubmitRejected(c, j) \/ SubmitToNewWorker(c, j) \/ SubmitSpawnFails(c, j)
      PROVE  TypeInv'
  <2>1. CASE SubmitRejected(c, j)
    BY <2>1 DEF TypeInv, SubmitRejected, Reject, Fates, queues, counters, sizes, threads
  <2>2. CASE SubmitToNewWorker(c, j)
    <3>1. PICK w \in Workers : SpawnWorker(w, j)
      BY <2>2 DEF SubmitToNewWorker
    <3>. QED
      BY <2>2, <3>1, SpawnType DEF TypeInv, SubmitToNewWorker, Fates, queues, sizes
  <2>3. CASE SubmitSpawnFails(c, j)
    BY <2>3, SpawnType DEF TypeInv, SubmitSpawnFails, Reject, Fates, queues, counters, sizes
  <2>. QED
    BY <1>2, <2>1, <2>2, <2>3
<1>3. ASSUME NEW c \in Clients, NEW j \in Jobs, SubmitQueued(c, j)
      PROVE  TypeInv'
  <2>1. queue' \in Seq(Jobs) /\ worker_queues' \in [Workers -> Seq(Jobs)]
    <3>1. CASE worker_queues' = worker_queues /\ queue' = Append(queue, j)
      BY <3>1 DEF TypeInv
    <3>2. ASSUME NEW w \in Workers, queue' = queue,
                 worker_queues' = [worker_queues EXCEPT ![w] = Append(@, j)]
          PROVE  queue' \in Seq(Jobs) /\ worker_queues' \in [Workers -> Seq(Jobs)]
      BY <3>2 DEF TypeInv
    <3>. QED
      BY <1>3, <3>1, <3>2 DEF SubmitQueued, PushJob, Registered
  <2>2. /\ live_workers' \in Int /\ running_tasks' \in Nat
        /\ worker' \in [Workers -> WorkerStates]
        /\ held' \in [Workers -> Jobs \cup {NoJob}]
    BY <1>3, SpawnType DEF TypeInv, SubmitQueued
  <2>. QED
    BY <1>3, <2>1, <2>2 DEF TypeInv, SubmitQueued, CallerStates, Fates, sizes
<1>4. ASSUME NEW c \in Clients, NEW j \in Jobs, SubmitWithdrawn(c, j)
      PROVE  TypeInv'
  BY <1>4 DEF TypeInv, SubmitWithdrawn, SpawnFails, CallerStates, Fates,
     queues, counters, sizes, threads
<1>5. ASSUME NEW c \in Clients, NotifyOne(c)
      PROVE  TypeInv'
  BY <1>5 DEF TypeInv, NotifyOne, WorkerStates, CallerStates, queues, counters, sizes
<1>6. ASSUME NEW c \in Clients, NotifyAll(c)
      PROVE  TypeInv'
  BY <1>6, WokenType DEF TypeInv, NotifyAll, NotifyAllFrom, CallerStates,
     queues, counters, sizes
<1>7. ASSUME NEW c \in Clients, CancelJob(c)
      PROVE  TypeInv'
  BY <1>7 DEF TypeInv, CancelJob, CallerStates, Fates, queues, counters, sizes, threads
<1>8. ASSUME NEW c \in Clients, PrestartOne(c) \/ PrestartAll(c) \/ PrestartNext(c)
      PROVE  TypeInv'
  <2>1. CASE PrestartAll(c)
    BY <2>1 DEF TypeInv, PrestartAll, CallerStates, queues, counters, sizes, threads
  <2>2. ASSUME NEW next \in {"idle", "prestart"}, PrestartCoreThread(c, next)
        PROVE  TypeInv'
    <3>1. /\ live_workers' \in Int /\ running_tasks' \in Nat /\ idle_workers' \in Int
          /\ worker' \in [Workers -> WorkerStates]
          /\ held' \in [Workers -> Jobs \cup {NoJob}]
      BY <2>2, SpawnType DEF TypeInv, PrestartCoreThread, threads
    <3>2. caller' \in [Clients -> CallerStates]
      BY <2>2 DEF TypeInv, PrestartCoreThread, CallerStates
    <3>. QED
      BY <2>2, <3>1, <3>2 DEF TypeInv, PrestartCoreThread, queues, counters, sizes
  <2>. QED
    BY <1>8, <2>1, <2>2 DEF PrestartOne, PrestartNext
<1>9. ASSUME NEW c \in Clients,
             \/ \E n \in CoreSizes : SetCorePoolSize(c, n)
             \/ \E n \in MaxSizes : SetMaximumPoolSize(c, n)
             \/ SetKeepAlive(c)
             \/ \E allow \in BOOLEAN : AllowCoreThreadTimeout(c, allow)
      PROVE  TypeInv'
  <2>1. Reconfigured(c)
    BY <1>9 DEF SetCorePoolSize, SetMaximumPoolSize, SetKeepAlive, AllowCoreThreadTimeout
  <2>2. /\ core_pool_size' \in Nat /\ maximum_pool_size' \in Nat \ {0}
        /\ core_pool_size' <= maximum_pool_size'
        /\ allow_core_thread_timeout' \in BOOLEAN
    BY <1>9 DEF TypeInv, SetCorePoolSize, SetMaximumPoolSize, SetKeepAlive,
       AllowCoreThreadTimeout, sizes
  <2>. QED
    BY <2>1, <2>2 DEF TypeInv, Reconfigured, CallerStates, queues, counters, threads
<1>10. ASSUME NEW c \in Clients, Shutdown(c)
       PROVE  TypeInv'
  BY <1>10, WokenType DEF TypeInv, Shutdown, NotifyAllFrom, Lifecycles,
     queues, counters, sizes
<1>11. ASSUME NEW c \in Clients, ShutdownNow(c)
       PROVE  TypeInv'
  <2>. DEFINE jobs == Range(queue) \cup UNION {Range(worker_queues[w]) : w \in Registered}
  <2>1. jobs \subseteq Jobs
    BY RangeType DEF TypeInv, Registered
  <2>2. worker_queues' \in [Workers -> Seq(Jobs)] /\ queue' \in Seq(Jobs)
    BY <1>11 DEF TypeInv, ShutdownNow
  <2>3. fate' \in [Jobs -> Fates] /\ drained' \in [Clients -> SUBSET Jobs]
    BY <1>11, <2>1 DEF TypeInv, ShutdownNow, Fates
  <2>4. [caller EXCEPT ![c] = IF jobs = {} THEN "idle" ELSE "cancel"] \in [Clients -> CallerStates]
    BY DEF TypeInv, CallerStates
  <2>5. worker' \in [Workers -> WorkerStates] /\ caller' \in [Clients -> CallerStates]
    BY <1>11, <2>4, WokenType DEF TypeInv, ShutdownNow, NotifyAllFrom
  <2>. QED
    BY <1>11, <2>2, <2>3, <2>5 DEF TypeInv, ShutdownNow, Lifecycles, sizes
<1>12. ASSUME NEW c \in Clients, AwaitTermination(c) \/ SpuriousReturn(c)
       PROVE  TypeInv'
  BY <1>12 DEF TypeInv, AwaitTermination, SpuriousReturn, CallerStates,
     queues, counters, sizes, threads
<1>13. ASSUME NEW w \in Workers, NEW v \in Workers, TakeLocalJob(w, v)
       PROVE  TypeInv'
  <2>1. Head(worker_queues[v]) \in Jobs /\ Tail(worker_queues[v]) \in Seq(Jobs)
    BY <1>13, HeadTailProperties DEF TypeInv, TakeLocalJob, HasLocalJob
  <2>. QED
    BY <1>13, <2>1 DEF TypeInv, TakeLocalJob, Claim, IdleAfterWait, WorkerStates, Fates,
       counters, sizes
<1>14. ASSUME NEW w \in Workers, TakeGlobalJob(w)
       PROVE  TypeInv'
  <2>1. Head(queue) \in Jobs /\ Tail(queue) \in Seq(Jobs)
    BY <1>14, HeadTailProperties DEF TypeInv, TakeGlobalJob
  <2>. QED
    BY <1>14, <2>1 DEF TypeInv, TakeGlobalJob, Claim, IdleAfterWait, WorkerStates, Fates,
       counters, sizes
<1>15. ASSUME NEW w \in Workers, GoIdle(w)
       PROVE  TypeInv'
  BY <1>15 DEF TypeInv, GoIdle, IdleAfterWait, WorkerStates, queues, counters, sizes
<1>16. ASSUME NEW w \in Workers, ExitWorker(w)
       PROVE  TypeInv'
  <2>1. queue' \in Seq(Jobs) /\ worker_queues' \in [Workers -> Seq(Jobs)]
    BY <1>16, ConcatProperties DEF TypeInv, ExitWorker
  <2>2. [worker EXCEPT ![w] = "dead"] \in [Workers -> WorkerStates]
    BY DEF TypeInv, WorkerStates
  <2>3. worker' \in [Workers -> WorkerStates] /\ caller' \in [Clients -> CallerStates]
    <3>1. NotifyIfTerminated([worker EXCEPT ![w] = "dead"], caller)
      BY <1>16 DEF ExitWorker
    <3>2. \/ worker' = [worker EXCEPT ![w] = "dead"] /\ caller' = caller
          \/ worker' = Woken([worker EXCEPT ![w] = "dead"]) /\ caller' = Woken(caller)
      BY <3>1 DEF NotifyIfTerminated, NotifyAllFrom
    <3>3. /\ Woken([worker EXCEPT ![w] = "dead"]) \in [Workers -> WorkerStates]
          /\ Woken(caller) \in [Clients -> CallerStates]
      BY <2>2, WokenType DEF TypeInv
    <3>. QED
      BY <3>2, <3>3, <2>2 DEF TypeInv
  <2>. QED
    BY <1>16, <2>1, <2>3 DEF TypeInv, ExitWorker, IdleAfterWait, counters, sizes
<1>17. ASSUME NEW w \in Workers, RunJob(w)
       PROVE  TypeInv'
  BY <1>17 DEF TypeInv, RunJob, WorkerStates, Fates, queues, counters, sizes
<1>18. ASSUME NEW w \in Workers, FinishRunningJob(w)
       PROVE  TypeInv'
  <2>1. [worker EXCEPT ![w] = "seek"] \in [Workers -> WorkerStates]
    BY DEF TypeInv, WorkerStates
  <2>2. worker' \in [Workers -> WorkerStates] /\ caller' \in [Clients -> CallerStates]
    <3>1. CASE running_tasks > 0
      <4>1. NotifyIfTerminated([worker EXCEPT ![w] = "seek"], caller)
        BY <1>18, <3>1 DEF FinishRunningJob
      <4>2. \/ worker' = [worker EXCEPT ![w] = "seek"] /\ caller' = caller
            \/ worker' = Woken([worker EXCEPT ![w] = "seek"]) /\ caller' = Woken(caller)
        BY <4>1 DEF NotifyIfTerminated, NotifyAllFrom
      <4>3. /\ Woken([worker EXCEPT ![w] = "seek"]) \in [Workers -> WorkerStates]
            /\ Woken(caller) \in [Clients -> CallerStates]
        BY <2>1, WokenType DEF TypeInv
      <4>. QED
        BY <4>2, <4>3, <2>1 DEF TypeInv
    <3>2. CASE ~(running_tasks > 0)
      BY <1>18, <3>2 DEF TypeInv, FinishRunningJob, WorkerStates
    <3>. QED
      BY <3>1, <3>2
  <2>3. /\ running_tasks' \in Nat /\ completed_tasks' \in Nat
        /\ held' \in [Workers -> Jobs \cup {NoJob}]
    <3>1. CASE running_tasks > 0
      <4>1. /\ running_tasks' = running_tasks - 1
            /\ completed_tasks' = completed_tasks + 1
            /\ held' = [held EXCEPT ![w] = NoJob]
        BY <1>18, <3>1 DEF FinishRunningJob
      <4>. QED
        BY <3>1, <4>1 DEF TypeInv
    <3>2. CASE ~(running_tasks > 0)
      BY <1>18, <3>2 DEF TypeInv, FinishRunningJob
    <3>. QED
      BY <3>1, <3>2
  <2>. QED
    BY <1>18, <2>2, <2>3 DEF TypeInv, FinishRunningJob, queues, sizes
<1>19. ASSUME NEW w \in Workers, KeepAliveExpires(w) \/ SpuriousWakeup(w)
       PROVE  TypeInv'
  BY <1>19 DEF TypeInv, KeepAliveExpires, SpuriousWakeup, WorkerStates,
     queues, counters, sizes
<1>. QED
  BY <1>1, <1>2, <1>3, <1>4, <1>5, <1>6, <1>7, <1>8, <1>9, <1>10, <1>11, <1>12, <1>13,
     <1>14, <1>15, <1>16, <1>17, <1>18, <1>19, NextCases DEF ClientAction, WorkerAction

-----------------------------------------------------------------------------
(* The counters count threads. *)

LiveStates == WorkerStates \ {"dead"}

Live == Count(Workers, worker, LiveStates)
Idle == Count(Workers, worker, IdleStates)
Hold == Count(Workers, worker, HoldStates)

NoPrestartFailures == "prestart" \notin SpawnFailures

ThreadInv ==
    /\ live_workers = Live
    /\ idle_workers = Idle
    /\ NoPrestartFailures => running_tasks = Hold

LEMMA CountsAreNat == Live \in Nat /\ Idle \in Nat /\ Hold \in Nat
BY CountType, ConstantsAssumption DEF Live, Idle, Hold

(* One worker moves, possibly together with a notification of all.         *)
LEMMA WorkerMove ==
    ASSUME TypeInv, NEW w \in Workers, NEW x \in WorkerStates,
           \/ worker' = [worker EXCEPT ![w] = x]
           \/ worker' = Woken([worker EXCEPT ![w] = x])
    PROVE  /\ Live' = Live + Chi(x, LiveStates) - Chi(worker[w], LiveStates)
           /\ Idle' = Idle + Chi(x, IdleStates) - Chi(worker[w], IdleStates)
           /\ Hold' = Hold + Chi(x, HoldStates) - Chi(worker[w], HoldStates)
<1>. DEFINE ws == [worker EXCEPT ![w] = x]
<1>0. IsFiniteSet(Workers)
  BY ConstantsAssumption
<1>1. worker \in [Workers -> WorkerStates] /\ ws \in [Workers -> WorkerStates]
  BY DEF TypeInv
<1>2. ASSUME NEW S
      PROVE  Count(Workers, ws, S) = Count(Workers, worker, S) + Chi(x, S) - Chi(worker[w], S)
  <2>1. ws[w] = x /\ \A v \in Workers \ {w} : ws[v] = worker[v]
    BY <1>1
  <2>. HIDE DEF ws
  <2>. QED
    BY <1>0, <2>1, CountUpdate
<1>3. ASSUME NEW S,
             \/ {"wait", "timed_wait", "woken"} \subseteq S
             \/ {"wait", "timed_wait", "woken"} \cap S = {}
      PROVE  Count(Workers, worker', S) = Count(Workers, ws, S)
  <2>1. Count(Workers, Woken(ws), S) = Count(Workers, ws, S)
    BY <1>0, <1>1, <1>3, CountWoken
  <2>. QED
    BY <2>1
<1>4. Count(Workers, worker', LiveStates) = Count(Workers, ws, LiveStates)
  BY <1>3 DEF LiveStates, WorkerStates
<1>5. Count(Workers, worker', IdleStates) = Count(Workers, ws, IdleStates)
  BY <1>3 DEF IdleStates
<1>6. Count(Workers, worker', HoldStates) = Count(Workers, ws, HoldStates)
  BY <1>3 DEF HoldStates
<1>. HIDE DEF ws
<1>. QED
  BY <1>2, <1>4, <1>5, <1>6 DEF Live, Idle, Hold

LEMMA WorkersStay ==
    ASSUME TypeInv, worker' = worker \/ worker' = Woken(worker)
    PROVE  Live' = Live /\ Idle' = Idle /\ Hold' = Hold
<1>1. IsFiniteSet(Workers) /\ worker \in [Workers -> WorkerStates]
  BY ConstantsAssumption DEF TypeInv
<1>2. /\ Count(Workers, Woken(worker), LiveStates) = Live
      /\ Count(Workers, Woken(worker), IdleStates) = Idle
      /\ Count(Workers, Woken(worker), HoldStates) = Hold
  BY <1>1, CountWoken DEF Live, Idle, Hold, LiveStates, WorkerStates, IdleStates, HoldStates
<1>. QED
  BY <1>2 DEF Live, Idle, Hold

LEMMA ThreadInit == Init => ThreadInv
<1>. SUFFICES ASSUME Init PROVE ThreadInv
  OBVIOUS
<1>1. Live = 0 /\ Idle = 0 /\ Hold = 0
  BY CountZero, ConstantsAssumption
     DEF Init, Live, Idle, Hold, LiveStates, WorkerStates, IdleStates, HoldStates
<1>. QED
  BY <1>1 DEF Init, ThreadInv

(* A spawned worker is counted once; a failed spawn only disturbs          *)
(* running_tasks, when no first job had been counted.                      *)
LEMMA SpawnCounts ==
    ASSUME TypeInv, ThreadInv, NEW w \in Workers, NEW first \in Jobs \cup {NoJob},
           SpawnWorker(w, first)
    PROVE  /\ live_workers' = Live' /\ Idle' = Idle
           /\ NoPrestartFailures => running_tasks' = Hold'
<1>. DEFINE x == IF first = NoJob THEN "seek" ELSE "run"
<1>1. /\ Live' = Live + Chi(x, LiveStates) - Chi("dead", LiveStates)
      /\ Idle' = Idle + Chi(x, IdleStates) - Chi("dead", IdleStates)
      /\ Hold' = Hold + Chi(x, HoldStates) - Chi("dead", HoldStates)
  <2>1. /\ x \in WorkerStates /\ worker[w] = "dead"
        /\ worker' = [worker EXCEPT ![w] = x]
    BY DEF SpawnWorker, WorkerStates
  <2>. HIDE DEF x
  <2>2. /\ Live' = Live + Chi(x, LiveStates) - Chi(worker[w], LiveStates)
        /\ Idle' = Idle + Chi(x, IdleStates) - Chi(worker[w], IdleStates)
        /\ Hold' = Hold + Chi(x, HoldStates) - Chi(worker[w], HoldStates)
    BY <2>1, WorkerMove
  <2>. QED
    BY <2>1, <2>2
<1>2. /\ Chi(x, LiveStates) = 1 /\ Chi("dead", LiveStates) = 0
      /\ Chi(x, IdleStates) = 0 /\ Chi("dead", IdleStates) = 0
      /\ Chi(x, HoldStates) = (IF first = NoJob THEN 0 ELSE 1) /\ Chi("dead", HoldStates) = 0
  BY DEF Chi, LiveStates, WorkerStates, IdleStates, HoldStates
<1>3. Live' = Live + 1 /\ Idle' = Idle /\ Hold' = Hold + (IF first = NoJob THEN 0 ELSE 1)
  BY <1>1, <1>2, CountsAreNat
<1>. QED
  BY <1>3, CountsAreNat DEF SpawnWorker, ThreadInv, TypeInv

LEMMA NobodyHolds ==
    ASSUME TypeInv, Live = 0
    PROVE  Hold = 0
<1>1. \A v \in Workers : worker[v] \notin LiveStates
  BY CountZero, ConstantsAssumption DEF Live
<1>2. \A v \in Workers : worker[v] \notin HoldStates
  BY <1>1 DEF LiveStates, HoldStates, WorkerStates
<1>. QED
  BY <1>2, CountZero, ConstantsAssumption DEF Hold

LEMMA ThreadStep == TypeInv /\ ThreadInv /\ [Next]_vars => ThreadInv'
<1>. SUFFICES ASSUME TypeInv, ThreadInv, [Next]_vars PROVE ThreadInv'
  OBVIOUS
<1>. USE ConstantsAssumption, CountsAreNat
<1>1. CASE UNCHANGED vars
  BY <1>1, WorkersStay DEF ThreadInv, vars, threads
<1>2. ASSUME NEW c \in Clients, NEW j \in Jobs,
             SubmitRejected(c, j) \/ SubmitSpawnFails(c, j)
      PROVE  ThreadInv'
  <2>1. CASE SubmitRejected(c, j)
    BY <2>1, WorkersStay DEF ThreadInv, SubmitRejected, threads
  <2>2. CASE SubmitSpawnFails(c, j)
    <3>1. UNCHANGED <<running_tasks, live_workers, idle_workers, worker>>
      BY <2>2 DEF TypeInv, SubmitSpawnFails, SpawnFails, threads
    <3>. QED
      BY <3>1, WorkersStay DEF ThreadInv
  <2>. QED
    BY <1>2, <2>1, <2>2
<1>3. ASSUME NEW c \in Clients, NEW j \in Jobs, SubmitToNewWorker(c, j)
      PROVE  ThreadInv'
  BY <1>3, SpawnCounts DEF ThreadInv, SubmitToNewWorker
<1>4. ASSUME NEW c \in Clients, NEW j \in Jobs, SubmitQueued(c, j)
      PROVE  ThreadInv'
  <2>1. CASE live_workers = 0
    BY <1>4, <2>1, SpawnCounts DEF ThreadInv, SubmitQueued
  <2>2. CASE live_workers # 0
    BY <1>4, <2>2, WorkersStay DEF ThreadInv, SubmitQueued
  <2>. QED
    BY <2>1, <2>2
<1>5. ASSUME NEW c \in Clients, NEW j \in Jobs, SubmitWithdrawn(c, j)
      PROVE  ThreadInv'
  <2>1. Live' = Live /\ Idle' = Idle /\ Hold' = Hold
    BY <1>5, WorkersStay DEF SubmitWithdrawn, SpawnFails, threads
  <2>2. Hold = 0
    BY <1>5, NobodyHolds DEF ThreadInv, SubmitWithdrawn
  <2>3. UNCHANGED <<live_workers, idle_workers>>
    BY <1>5 DEF SubmitWithdrawn, SpawnFails, threads
  <2>4. running_tasks = 0 => running_tasks' = 0
    BY <1>5 DEF SubmitWithdrawn, SpawnFails
  <2>. QED
    BY <2>1, <2>2, <2>3, <2>4 DEF ThreadInv
<1>6. ASSUME NEW c \in Clients, NotifyOne(c)
      PROVE  ThreadInv'
  <2>1. CASE worker' = worker
    BY <1>6, <2>1, WorkersStay DEF ThreadInv, NotifyOne
  <2>2. ASSUME NEW w \in Workers, worker[w] \in Waiting,
               worker' = [worker EXCEPT ![w] = "woken"]
        PROVE  ThreadInv'
    <3>0. /\ Live' = Live + Chi("woken", LiveStates) - Chi(worker[w], LiveStates)
          /\ Idle' = Idle + Chi("woken", IdleStates) - Chi(worker[w], IdleStates)
          /\ Hold' = Hold + Chi("woken", HoldStates) - Chi(worker[w], HoldStates)
      BY <2>2, WorkerMove DEF WorkerStates
    <3>1. Live' = Live /\ Idle' = Idle /\ Hold' = Hold
      BY <2>2, <3>0
         DEF Waiting, Chi, LiveStates, IdleStates, HoldStates, WorkerStates
    <3>. QED
      BY <1>6, <3>1 DEF ThreadInv, NotifyOne
  <2>. QED
    BY <1>6, <2>1, <2>2 DEF NotifyOne
<1>7. ASSUME NEW c \in Clients, NotifyAll(c) \/ Shutdown(c) \/ ShutdownNow(c)
      PROVE  ThreadInv'
  <2>1. worker' = Woken(worker)
    BY <1>7 DEF NotifyAll, Shutdown, ShutdownNow, NotifyAllFrom
  <2>2. UNCHANGED <<live_workers, idle_workers, running_tasks>>
    BY <1>7 DEF NotifyAll, Shutdown, ShutdownNow
  <2>. QED
    BY <2>1, <2>2, WorkersStay DEF ThreadInv
<1>8. ASSUME NEW c \in Clients,
             \/ CancelJob(c) \/ PrestartAll(c) \/ AwaitTermination(c) \/ SpuriousReturn(c)
             \/ \E n \in CoreSizes : SetCorePoolSize(c, n)
             \/ \E n \in MaxSizes : SetMaximumPoolSize(c, n)
             \/ SetKeepAlive(c)
             \/ \E allow \in BOOLEAN : AllowCoreThreadTimeout(c, allow)
      PROVE  ThreadInv'
  <2>1. UNCHANGED <<live_workers, idle_workers, running_tasks, worker>>
    BY <1>8 DEF CancelJob, PrestartAll, AwaitTermination, SpuriousReturn, SetCorePoolSize,
       SetMaximumPoolSize, SetKeepAlive, AllowCoreThreadTimeout, Reconfigured, threads
  <2>. QED
    BY <2>1, WorkersStay DEF ThreadInv
<1>9. ASSUME NEW c \in Clients, PrestartOne(c) \/ PrestartNext(c)
      PROVE  ThreadInv'
  <2>. SUFFICES ASSUME NEW next, PrestartCoreThread(c, next) PROVE ThreadInv'
    BY <1>9 DEF PrestartOne, PrestartNext
  <2>1. CASE UNCHANGED <<running_tasks, threads>>
    BY <2>1, WorkersStay DEF ThreadInv, threads
  <2>2. ASSUME NEW w \in Workers, SpawnWorker(w, NoJob), UNCHANGED idle_workers
        PROVE  ThreadInv'
    BY <2>2, SpawnCounts DEF ThreadInv
  <2>3. CASE "prestart" \in SpawnFailures /\ SpawnFails(NoJob)
    BY <2>3, WorkersStay DEF ThreadInv, SpawnFails, NoPrestartFailures, threads
  <2>. QED
    BY <2>1, <2>2, <2>3 DEF PrestartCoreThread
<1>10. ASSUME NEW w \in Workers,
              (\E v \in Workers : TakeLocalJob(w, v)) \/ TakeGlobalJob(w)
       PROVE  ThreadInv'
  <2>1. PICK j : Claim(w, j)
    BY <1>10 DEF TakeLocalJob, TakeGlobalJob
  <2>2. AtMonitor(w)
    BY <1>10 DEF TakeLocalJob, TakeGlobalJob, MayTakeJob
  <2>3. /\ Live' = Live + Chi("run", LiveStates) - Chi(worker[w], LiveStates)
        /\ Idle' = Idle + Chi("run", IdleStates) - Chi(worker[w], IdleStates)
        /\ Hold' = Hold + Chi("run", HoldStates) - Chi(worker[w], HoldStates)
    BY <2>1, WorkerMove DEF Claim, WorkerStates
  <2>. QED
    BY <2>1, <2>2, <2>3 DEF Claim, AtMonitor, IdleAfterWait, ThreadInv, TypeInv, Chi,
       LiveStates, IdleStates, HoldStates, WorkerStates
<1>11. ASSUME NEW w \in Workers, GoIdle(w)
       PROVE  ThreadInv'
  <2>. DEFINE x == IF WorkerWaitIsTimed THEN "timed_wait" ELSE "wait"
  <2>1. /\ Live' = Live + Chi(x, LiveStates) - Chi(worker[w], LiveStates)
        /\ Idle' = Idle + Chi(x, IdleStates) - Chi(worker[w], IdleStates)
        /\ Hold' = Hold + Chi(x, HoldStates) - Chi(worker[w], HoldStates)
    BY <1>11, WorkerMove DEF GoIdle, WorkerStates
  <2>. QED
    BY <1>11, <2>1 DEF GoIdle, MayTakeJob, AtMonitor, IdleAfterWait, ThreadInv, TypeInv, Chi,
       LiveStates, IdleStates, HoldStates, WorkerStates
<1>12. ASSUME NEW w \in Workers, ExitWorker(w)
       PROVE  ThreadInv'
  <2>1. /\ Live' = Live + Chi("dead", LiveStates) - Chi(worker[w], LiveStates)
        /\ Idle' = Idle + Chi("dead", IdleStates) - Chi(worker[w], IdleStates)
        /\ Hold' = Hold + Chi("dead", HoldStates) - Chi(worker[w], HoldStates)
    BY <1>12, WorkerMove DEF ExitWorker, NotifyIfTerminated, NotifyAllFrom, WorkerStates
  <2>. QED
    BY <1>12, <2>1 DEF ExitWorker, AtMonitor, IdleAfterWait, ThreadInv, TypeInv, Chi,
       LiveStates, IdleStates, HoldStates, WorkerStates
<1>13. ASSUME NEW w \in Workers, RunJob(w)
       PROVE  ThreadInv'
  <2>. DEFINE x == IF held[w] \in PanickingJobs THEN "crashed" ELSE "finish"
  <2>1. /\ Live' = Live + Chi(x, LiveStates) - Chi(worker[w], LiveStates)
        /\ Idle' = Idle + Chi(x, IdleStates) - Chi(worker[w], IdleStates)
        /\ Hold' = Hold + Chi(x, HoldStates) - Chi(worker[w], HoldStates)
    BY <1>13, WorkerMove DEF RunJob, WorkerStates
  <2>. QED
    BY <1>13, <2>1 DEF RunJob, ThreadInv, TypeInv, Chi,
       LiveStates, IdleStates, HoldStates, WorkerStates
<1>14. ASSUME NEW w \in Workers, FinishRunningJob(w)
       PROVE  ThreadInv'
  <2>1. CASE running_tasks > 0
    <3>1. /\ Live' = Live + Chi("seek", LiveStates) - Chi(worker[w], LiveStates)
          /\ Idle' = Idle + Chi("seek", IdleStates) - Chi(worker[w], IdleStates)
          /\ Hold' = Hold + Chi("seek", HoldStates) - Chi(worker[w], HoldStates)
      BY <1>14, <2>1, WorkerMove
         DEF FinishRunningJob, NotifyIfTerminated, NotifyAllFrom, WorkerStates
    <3>. QED
      BY <1>14, <2>1, <3>1 DEF FinishRunningJob, ThreadInv, TypeInv, Chi,
         LiveStates, IdleStates, HoldStates, WorkerStates
  <2>2. CASE ~(running_tasks > 0)
    <3>1. /\ Live' = Live + Chi("crashed", LiveStates) - Chi(worker[w], LiveStates)
          /\ Idle' = Idle + Chi("crashed", IdleStates) - Chi(worker[w], IdleStates)
          /\ Hold' = Hold + Chi("crashed", HoldStates) - Chi(worker[w], HoldStates)
      BY <1>14, <2>2, WorkerMove DEF FinishRunningJob, WorkerStates
    <3>. QED
      BY <1>14, <2>2, <3>1 DEF FinishRunningJob, ThreadInv, TypeInv, Chi,
         LiveStates, IdleStates, HoldStates, WorkerStates
  <2>. QED
    BY <2>1, <2>2
<1>15. ASSUME NEW w \in Workers, KeepAliveExpires(w) \/ SpuriousWakeup(w)
       PROVE  ThreadInv'
  <2>1. PICK x \in {"timed_out", "woken"} : worker' = [worker EXCEPT ![w] = x]
    BY <1>15 DEF KeepAliveExpires, SpuriousWakeup
  <2>2. worker[w] \in Waiting
    BY <1>15 DEF KeepAliveExpires, SpuriousWakeup, Waiting
  <2>0. /\ Live' = Live + Chi(x, LiveStates) - Chi(worker[w], LiveStates)
        /\ Idle' = Idle + Chi(x, IdleStates) - Chi(worker[w], IdleStates)
        /\ Hold' = Hold + Chi(x, HoldStates) - Chi(worker[w], HoldStates)
    <3>1. x \in WorkerStates
      BY DEF WorkerStates
    <3>. QED
      BY <2>1, <3>1, WorkerMove
  <2>4. /\ Chi(x, LiveStates) = Chi(worker[w], LiveStates)
        /\ Chi(x, IdleStates) = Chi(worker[w], IdleStates)
        /\ Chi(x, HoldStates) = Chi(worker[w], HoldStates)
        /\ Chi(x, LiveStates) = 1 /\ Chi(x, IdleStates) = 1 /\ Chi(x, HoldStates) = 0
    BY <2>1, <2>2 DEF Waiting, Chi, LiveStates, IdleStates, HoldStates, WorkerStates
  <2>3. Live' = Live /\ Idle' = Idle /\ Hold' = Hold
    BY <2>0, <2>4, CountsAreNat
  <2>. QED
    BY <1>15, <2>3 DEF ThreadInv, KeepAliveExpires, SpuriousWakeup
<1>. QED
  BY <1>1, <1>2, <1>3, <1>4, <1>5, <1>6, <1>7, <1>8, <1>9, <1>10, <1>11, <1>12, <1>13,
     <1>14, <1>15, NextCases DEF ClientAction, WorkerAction

-----------------------------------------------------------------------------
LEMMA Invariance == Spec => [](TypeInv /\ ThreadInv)
<1>1. Init => TypeInv /\ ThreadInv
  BY TypeInit, ThreadInit
<1>2. TypeInv /\ ThreadInv /\ [Next]_vars => (TypeInv /\ ThreadInv)'
  BY TypeStep, ThreadStep
<1>. QED
  BY <1>1, <1>2, PTL DEF Spec

(* When prestart_core_thread never fails to create a thread, the counters  *)
(* on which submit, wait_for_job and is_terminated decide agree with the   *)
(* threads, in every pool and whatever jobs panic.                         *)
THEOREM CountersAreExact ==
    ASSUME NoPrestartFailures
    PROVE  Spec => []CountersMatchThreads
<1>1. TypeInv /\ ThreadInv => CountersMatchThreads
  <2>. SUFFICES ASSUME TypeInv, ThreadInv PROVE CountersMatchThreads
    OBVIOUS
  <2>1. Registered = {w \in Workers : worker[w] \in LiveStates}
    BY DEF TypeInv, Registered, LiveStates
  <2>. QED
    BY <2>1 DEF ThreadInv, CountersMatchThreads, Live, Idle, Hold, Count
<1>. QED
  BY <1>1, Invariance, PTL

-----------------------------------------------------------------------------
(* What a step may never do. *)

LEMMA LiveGrowsBySpawn ==
    ASSUME TypeInv, [Next]_vars, live_workers' > live_workers
    PROVE  /\ live_workers' = live_workers + 1
           /\ \/ HandsOver
              \/ live_workers = 0
              \/ live_workers < core_pool_size
           /\ UNCHANGED sizes
<1>0. live_workers \in Int
  BY DEF TypeInv
<1>1. ASSUME NEW c \in Clients, ClientAction(c), live_workers' # live_workers
      PROVE  /\ \E w \in Workers, first \in Jobs \cup {NoJob} : SpawnWorker(w, first)
             /\ HandsOver \/ live_workers = 0 \/ live_workers < core_pool_size
             /\ UNCHANGED sizes
  <2>1. ASSUME NEW j \in Jobs,
               \/ SubmitRejected(c, j) \/ SubmitSpawnFails(c, j) \/ SubmitWithdrawn(c, j)
        PROVE  FALSE
    BY <1>1, <2>1 DEF SubmitRejected, SubmitSpawnFails, SubmitWithdrawn, SpawnFails, threads
  <2>2. CASE \/ NotifyOne(c) \/ NotifyAll(c) \/ CancelJob(c) \/ PrestartAll(c) \/ Shutdown(c)
             \/ ShutdownNow(c) \/ AwaitTermination(c) \/ SpuriousReturn(c)
    BY <1>1, <2>2 DEF NotifyOne, NotifyAll, CancelJob, PrestartAll, Shutdown, ShutdownNow,
       AwaitTermination, SpuriousReturn, threads
  <2>3. CASE \/ \E n \in CoreSizes : SetCorePoolSize(c, n)
             \/ \E n \in MaxSizes : SetMaximumPoolSize(c, n)
             \/ SetKeepAlive(c)
             \/ \E allow \in BOOLEAN : AllowCoreThreadTimeout(c, allow)
    BY <1>1, <2>3 DEF SetCorePoolSize, SetMaximumPoolSize, SetKeepAlive,
       AllowCoreThreadTimeout, Reconfigured, threads
  <2>4. ASSUME NEW j \in Jobs, SubmitToNewWorker(c, j) \/ SubmitQueued(c, j)
        PROVE  /\ \E w \in Workers, first \in Jobs \cup {NoJob} : SpawnWorker(w, first)
               /\ HandsOver \/ live_workers = 0
               /\ UNCHANGED sizes
    BY <1>1, <2>4 DEF SubmitToNewWorker, SubmitQueued
  <2>5. CASE PrestartOne(c) \/ PrestartNext(c)
    BY <1>1, <2>5 DEF PrestartOne, PrestartNext, PrestartCoreThread, SpawnFails, threads
  <2>. QED
    BY <1>1, <2>1, <2>2, <2>3, <2>4, <2>5 DEF ClientAction
<1>2. ASSUME NEW w \in Workers, WorkerAction(w)
      PROVE  ~(live_workers' > live_workers)
  BY <1>0, <1>2 DEF WorkerAction, TakeLocalJob, TakeGlobalJob, Claim, GoIdle, ExitWorker,
     RunJob, FinishRunningJob, KeepAliveExpires, SpuriousWakeup
<1>3. ~UNCHANGED vars
  BY <1>0 DEF vars, threads
<1>. QED
  BY <1>0, <1>1, <1>2, <1>3, NextCases DEF SpawnWorker

LEMMA LiveShrinksByExit ==
    ASSUME TypeInv, [Next]_vars, live_workers' < live_workers
    PROVE  \E w \in Workers : ExitWorker(w)
<1>0. live_workers \in Int
  BY DEF TypeInv
<1>1. ASSUME NEW c \in Clients, ClientAction(c)
      PROVE  ~(live_workers' < live_workers)
  <2>1. ASSUME NEW j \in Jobs,
               \/ SubmitRejected(c, j) \/ SubmitSpawnFails(c, j) \/ SubmitWithdrawn(c, j)
               \/ SubmitToNewWorker(c, j) \/ SubmitQueued(c, j)
        PROVE  ~(live_workers' < live_workers)
    BY <1>0, <2>1 DEF SubmitRejected, SubmitSpawnFails, SubmitWithdrawn, SpawnFails, threads,
       SubmitToNewWorker, SubmitQueued, SpawnWorker
  <2>2. CASE \/ NotifyOne(c) \/ NotifyAll(c) \/ CancelJob(c) \/ PrestartAll(c) \/ Shutdown(c)
             \/ ShutdownNow(c) \/ AwaitTermination(c) \/ SpuriousReturn(c)
    BY <1>0, <2>2 DEF NotifyOne, NotifyAll, CancelJob, PrestartAll, Shutdown, ShutdownNow,
       AwaitTermination, SpuriousReturn, threads
  <2>3. CASE \/ \E n \in CoreSizes : SetCorePoolSize(c, n)
             \/ \E n \in MaxSizes : SetMaximumPoolSize(c, n)
             \/ SetKeepAlive(c)
             \/ \E allow \in BOOLEAN : AllowCoreThreadTimeout(c, allow)
    BY <1>0, <2>3 DEF SetCorePoolSize, SetMaximumPoolSize, SetKeepAlive,
       AllowCoreThreadTimeout, Reconfigured, threads
  <2>4. CASE PrestartOne(c) \/ PrestartNext(c)
    BY <1>0, <2>4 DEF PrestartOne, PrestartNext, PrestartCoreThread, SpawnWorker, SpawnFails,
       threads
  <2>. QED
    BY <1>1, <2>1, <2>2, <2>3, <2>4 DEF ClientAction
<1>2. ASSUME NEW w \in Workers, WorkerAction(w), ~ExitWorker(w)
      PROVE  ~(live_workers' < live_workers)
  BY <1>0, <1>2 DEF WorkerAction, TakeLocalJob, TakeGlobalJob, Claim, GoIdle,
     RunJob, FinishRunningJob, KeepAliveExpires, SpuriousWakeup
<1>3. ~UNCHANGED vars
  BY <1>0 DEF vars, threads
<1>. QED
  BY <1>1, <1>2, <1>3, NextCases

(* Core workers stay.                                                      *)
LEMMA RetirementLeavesCore ==
    ASSUME TypeInv, [Next]_vars, live_workers' < live_workers,
           lifecycle = "Running", ~allow_core_thread_timeout
    PROVE  live_workers' >= core_pool_size
<1>1. PICK w \in Workers : ExitWorker(w)
  BY LiveShrinksByExit
<1>2. live_workers' = live_workers - 1
  BY <1>1 DEF ExitWorker
<1>3. live_workers > maximum_pool_size \/ live_workers > core_pool_size
  BY <1>1 DEF ExitWorker, ShouldExit, RetiresOnTimeout, IdleWorkerCanRetire
<1>. QED
  BY <1>2, <1>3 DEF TypeInv

(* No step starts a worker beyond the maximum size in force, and no worker *)
(* leaves a running pool below its core size unless core workers may time  *)
(* out, for any number of workers, clients and jobs.                       *)
THEOREM PoolStaysWithinSizes == Spec => WorkersStayWithinSizes
<1>1. TypeInv /\ [Next]_vars =>
        [/\ live_workers' > live_workers => live_workers' <= maximum_pool_size
         /\ live_workers' < live_workers /\ lifecycle = "Running" /\ ~allow_core_thread_timeout
              => live_workers' >= core_pool_size]_vars
  <2>1. ASSUME TypeInv, [Next]_vars, live_workers' > live_workers
        PROVE  live_workers' <= maximum_pool_size
    BY <2>1, LiveGrowsBySpawn DEF TypeInv, HandsOver
  <2>. QED
    BY <2>1, RetirementLeavesCore
<1>. QED
  BY <1>1, Invariance, PTL DEF Spec, WorkersStayWithinSizes

-----------------------------------------------------------------------------
(***************************************************************************)
(* No thread of the pool sleeps when it should not: idle workers at a      *)
(* shutdown or a change of policy, callers of await_termination at the end *)
(* of the pool.                                                            *)
(***************************************************************************)

(* No worker and no caller starts to wait in a step that calls notify_all. *)
LEMMA WokenNobodyWaits ==
    ASSUME NEW D, NEW f, DOMAIN f = D
    PROVE  \A t \in D : /\ Woken(f)[t] \notin Waiting
                        /\ f[t] \notin Waiting => Woken(f)[t] = f[t]
BY DEF Woken, Waiting

(* A terminated pool has no thread left.                                   *)
LEMMA TerminatedNoWorker ==
    ASSUME TypeInv, ThreadInv, live_workers = 0
    PROVE  \A w \in Workers : worker[w] = "dead"
<1>1. \A w \in Workers : worker[w] \notin LiveStates
  BY CountZero, ConstantsAssumption DEF ThreadInv, Live
<1>. QED
  BY <1>1 DEF TypeInv, LiveStates

LEMMA DeadDoesNothing ==
    ASSUME NEW w \in Workers, worker[w] = "dead"
    PROVE  ~WorkerAction(w)
BY DEF WorkerAction, TakeLocalJob, TakeGlobalJob, MayTakeJob, GoIdle, ExitWorker, RunJob,
   FinishRunningJob, KeepAliveExpires, SpuriousWakeup, AtMonitor, Waiting

(* Once is_terminated() is true it stays true: nothing is accepted and no  *)
(* thread is started after a shutdown, and no thread is left to move.      *)
THEOREM TerminationStays == Spec => TerminationIsFinal
<1>1. ASSUME TypeInv, ThreadInv, [Next]_vars, IsTerminated
      PROVE  IsTerminated'
  <2>1. CASE UNCHANGED vars
    BY <1>1, <2>1 DEF IsTerminated, vars, queues, threads
  <2>2. ASSUME NEW w \in Workers, WorkerAction(w)
        PROVE  FALSE
    BY <1>1, <2>2, TerminatedNoWorker, DeadDoesNothing DEF IsTerminated
  <2>3. ASSUME NEW c \in Clients, ClientAction(c)
        PROVE  IsTerminated'
    <3>1. ASSUME NEW j \in Jobs,
                 \/ SubmitRejected(c, j) \/ SubmitSpawnFails(c, j) \/ SubmitWithdrawn(c, j)
                 \/ SubmitToNewWorker(c, j) \/ SubmitQueued(c, j)
          PROVE  IsTerminated'
      BY <1>1, <3>1 DEF IsTerminated, SubmitRejected, Reject, SubmitSpawnFails,
         SubmitWithdrawn, SubmitToNewWorker, SubmitQueued, queues, threads
    <3>2. CASE \/ NotifyOne(c) \/ NotifyAll(c) \/ CancelJob(c) \/ PrestartAll(c)
               \/ AwaitTermination(c) \/ SpuriousReturn(c)
      BY <1>1, <3>2 DEF IsTerminated, NotifyOne, NotifyAll, CancelJob, PrestartAll,
         AwaitTermination, SpuriousReturn, queues, threads
    <3>3. CASE Shutdown(c) \/ ShutdownNow(c)
      BY <1>1, <3>3 DEF IsTerminated, Shutdown, ShutdownNow, queues
    <3>4. CASE \/ \E n \in CoreSizes : SetCorePoolSize(c, n)
               \/ \E n \in MaxSizes : SetMaximumPoolSize(c, n)
               \/ SetKeepAlive(c)
               \/ \E allow \in BOOLEAN : AllowCoreThreadTimeout(c, allow)
      BY <1>1, <3>4 DEF IsTerminated, SetCorePoolSize, SetMaximumPoolSize, SetKeepAlive,
         AllowCoreThreadTimeout, Reconfigured, queues, threads
    <3>5. CASE PrestartOne(c) \/ PrestartNext(c)
      BY <1>1, <3>5 DEF IsTerminated, PrestartOne, PrestartNext, PrestartCoreThread,
         queues, threads
    <3>. QED
      BY <2>3, <3>1, <3>2, <3>3, <3>4, <3>5 DEF ClientAction
  <2>. QED
    BY <1>1, <2>1, <2>2, <2>3, NextCases
<1>2. TypeInv /\ ThreadInv /\ [Next]_vars => [IsTerminated => IsTerminated']_vars
  BY <1>1
<1>. QED
  BY <1>2, Invariance, PTL DEF Spec, TerminationIsFinal

-----------------------------------------------------------------------------
(* Shutdown wakes every worker, and the step that ends the pool wakes      *)
(* every caller of await_termination.                                      *)

LEMMA SleepInit == Init => NobodySleepsThroughShutdown
BY DEF Init, NobodySleepsThroughShutdown, Sleeping, IsTerminated, Waiting

LEMMA SleepStep ==
    ASSUME TypeInv, ThreadInv, NobodySleepsThroughShutdown, [Next]_vars
    PROVE  NobodySleepsThroughShutdown'
<1>. DEFINE Quiet(ws, cs) ==
        /\ lifecycle' # "Running" => \A w \in Workers : ws[w] \notin Waiting
        /\ IsTerminated' => \A c \in Clients : cs[c] # "wait"
<1>0. /\ Quiet(worker', caller') => NobodySleepsThroughShutdown'
      /\ lifecycle # "Running" => \A w \in Workers : worker[w] \notin Waiting
      /\ IsTerminated => \A c \in Clients : caller[c] # "wait"
  BY DEF NobodySleepsThroughShutdown, Sleeping
<1>1. CASE UNCHANGED vars
  BY <1>0, <1>1 DEF vars, IsTerminated, queues, threads
<1>2. ASSUME worker' = Woken(worker), NEW cs \in [Clients -> CallerStates], caller' = Woken(cs)
      PROVE  Quiet(worker', caller')
  BY <1>2, WokenNobodyWaits DEF TypeInv, Waiting
<1>3. ASSUME NEW c \in Clients, NotifyAll(c) \/ Shutdown(c) \/ ShutdownNow(c)
      PROVE  Quiet(worker', caller')
  <2>1. worker' = Woken(worker) /\ \E cs \in [Clients -> CallerStates] : caller' = Woken(cs)
    BY <1>3 DEF TypeInv, NotifyAll, Shutdown, ShutdownNow, NotifyAllFrom, CallerStates
  <2>. QED
    BY <2>1, <1>2
<1>4. ASSUME NEW c \in Clients, NEW j \in Jobs,
             \/ SubmitRejected(c, j) \/ SubmitSpawnFails(c, j) \/ SubmitWithdrawn(c, j)
             \/ SubmitToNewWorker(c, j) \/ SubmitQueued(c, j)
      PROVE  Quiet(worker', caller')
  <2>1. CASE SubmitRejected(c, j)
    BY <1>0, <2>1 DEF SubmitRejected, Reject, IsTerminated, queues, threads
  <2>2. CASE lifecycle = "Running" /\ lifecycle' = "Running"
    BY <2>2 DEF IsTerminated
  <2>. QED
    BY <1>4, <2>1, <2>2 DEF SubmitSpawnFails, Reject, SubmitWithdrawn, SubmitToNewWorker,
       SubmitQueued
<1>5. ASSUME NEW c \in Clients, NotifyOne(c)
      PROVE  Quiet(worker', caller')
  <2>1. UNCHANGED <<lifecycle, queued_tasks, running_tasks, live_workers>>
    BY <1>5 DEF NotifyOne, queues
  <2>2. /\ \A w \in Workers : worker'[w] \in Waiting => worker[w] \in Waiting
        /\ \A d \in Clients : caller'[d] = "wait" => caller[d] = "wait"
    BY <1>5 DEF NotifyOne, TypeInv, Waiting
  <2>. QED
    BY <1>0, <2>1, <2>2 DEF IsTerminated
<1>6. ASSUME NEW c \in Clients,
             \/ CancelJob(c) \/ PrestartAll(c) \/ SpuriousReturn(c)
             \/ \E n \in CoreSizes : SetCorePoolSize(c, n)
             \/ \E n \in MaxSizes : SetMaximumPoolSize(c, n)
             \/ SetKeepAlive(c)
             \/ \E allow \in BOOLEAN : AllowCoreThreadTimeout(c, allow)
      PROVE  Quiet(worker', caller')
  <2>1. UNCHANGED <<lifecycle, queued_tasks, running_tasks, live_workers, worker>>
    BY <1>6 DEF CancelJob, PrestartAll, SpuriousReturn, SetCorePoolSize, SetMaximumPoolSize,
       SetKeepAlive, AllowCoreThreadTimeout, Reconfigured, queues, threads
  <2>2. \A d \in Clients : caller'[d] = "wait" => caller[d] = "wait"
    BY <1>6 DEF CancelJob, PrestartAll, SpuriousReturn, SetCorePoolSize, SetMaximumPoolSize,
       SetKeepAlive, AllowCoreThreadTimeout, Reconfigured, TypeInv
  <2>. QED
    BY <1>0, <2>1, <2>2 DEF IsTerminated
<1>7. ASSUME NEW c \in Clients, AwaitTermination(c)
      PROVE  Quiet(worker', caller')
  <2>1. /\ UNCHANGED <<lifecycle, queued_tasks, running_tasks, live_workers, worker>>
        /\ IsTerminated' <=> IsTerminated
    BY <1>7 DEF AwaitTermination, IsTerminated, queues, threads
  <2>2. ASSUME IsTerminated, NEW d \in Clients
        PROVE  caller'[d] # "wait"
    BY <1>0, <1>7, <2>2 DEF AwaitTermination, TypeInv
  <2>. QED
    BY <1>0, <2>1, <2>2
<1>8. ASSUME NEW c \in Clients, PrestartOne(c) \/ PrestartNext(c)
      PROVE  Quiet(worker', caller')
  <2>1. CASE lifecycle = "Running"
    BY <1>8, <2>1 DEF PrestartOne, PrestartNext, PrestartCoreThread, IsTerminated
  <2>2. CASE lifecycle # "Running"
    <3>1. /\ UNCHANGED <<lifecycle, queued_tasks, running_tasks, live_workers, worker>>
          /\ caller' = [caller EXCEPT ![c] = "idle"]
      BY <1>8, <2>2 DEF PrestartOne, PrestartNext, PrestartCoreThread, queues, threads
    <3>. QED
      BY <1>0, <3>1 DEF IsTerminated, TypeInv
  <2>. QED
    BY <2>1, <2>2
<1>9. ASSUME NEW w \in Workers,
             \/ (\E v \in Workers : TakeLocalJob(w, v)) \/ TakeGlobalJob(w)
             \/ RunJob(w) \/ KeepAliveExpires(w) \/ SpuriousWakeup(w)
      PROVE  Quiet(worker', caller')
  <2>1. UNCHANGED <<lifecycle, live_workers, caller>>
    BY <1>9 DEF TakeLocalJob, TakeGlobalJob, Claim, RunJob, KeepAliveExpires, SpuriousWakeup
  <2>2. \A v \in Workers : worker'[v] \in Waiting => worker[v] \in Waiting
    BY <1>9 DEF TakeLocalJob, TakeGlobalJob, Claim, RunJob, KeepAliveExpires, SpuriousWakeup,
       TypeInv, Waiting
  <2>3. worker[w] # "dead"
    BY <1>9 DEF TakeLocalJob, TakeGlobalJob, MayTakeJob, AtMonitor, RunJob, KeepAliveExpires,
       SpuriousWakeup, Waiting
  <2>4. live_workers # 0
    BY <2>3, TerminatedNoWorker
  <2>. QED
    BY <1>0, <2>1, <2>2, <2>4 DEF IsTerminated
<1>10. ASSUME NEW w \in Workers, GoIdle(w)
       PROVE  Quiet(worker', caller')
  BY <1>10 DEF GoIdle, IsTerminated
<1>11. ASSUME NEW w \in Workers, NEW x \in {"dead", "seek"},
              NotifyIfTerminated([worker EXCEPT ![w] = x], caller),
              lifecycle' = lifecycle
       PROVE  Quiet(worker', caller')
  <2>. DEFINE ws == [worker EXCEPT ![w] = x]
  <2>1. DOMAIN ws = Workers /\ DOMAIN caller = Clients
    BY DEF TypeInv
  <2>2. \A v \in Workers : ws[v] \in Waiting => worker[v] \in Waiting
    BY DEF TypeInv, Waiting
  <2>3. CASE IsTerminated'
    <3>1. worker' = Woken(ws) /\ caller' = Woken(caller)
      BY <1>11, <2>3 DEF NotifyIfTerminated, NotifyAllFrom
    <3>. HIDE DEF ws
    <3>. QED
      BY <2>1, <3>1, WokenNobodyWaits DEF Waiting
  <2>4. CASE ~IsTerminated'
    BY <1>0, <1>11, <2>2, <2>4 DEF NotifyIfTerminated
  <2>. QED
    BY <2>3, <2>4
<1>12. ASSUME NEW w \in Workers, ExitWorker(w)
       PROVE  Quiet(worker', caller')
  BY <1>11, <1>12 DEF ExitWorker
<1>13. ASSUME NEW w \in Workers, FinishRunningJob(w)
       PROVE  Quiet(worker', caller')
  <2>1. CASE running_tasks > 0
    BY <1>11, <1>13, <2>1 DEF FinishRunningJob
  <2>2. CASE ~(running_tasks > 0)
    <3>1. /\ UNCHANGED <<lifecycle, live_workers, caller>>
          /\ worker' = [worker EXCEPT ![w] = "crashed"]
      BY <1>13, <2>2 DEF FinishRunningJob
    <3>2. live_workers # 0
      BY <1>13, TerminatedNoWorker DEF FinishRunningJob
    <3>. QED
      BY <1>0, <3>1, <3>2 DEF IsTerminated, TypeInv, Waiting
  <2>. QED
    BY <2>1, <2>2
<1>. HIDE DEF Quiet
<1>. QED
  BY <1>0, <1>1, <1>3, <1>4, <1>5, <1>6, <1>7, <1>8, <1>9, <1>10, <1>12, <1>13, NextCases
     DEF ClientAction, WorkerAction

(* No worker waits in a pool that is shut down and no caller waits for the *)
(* termination of a pool that has terminated, although both share one      *)
(* condition variable with each other and with submit.                     *)
THEOREM NobodySleeps == Spec => []NobodySleepsThroughShutdown
<1>1. /\ TypeInv /\ ThreadInv /\ NobodySleepsThroughShutdown
      /\ [Next]_vars
      => NobodySleepsThroughShutdown'
  BY SleepStep
<1>. QED
  BY <1>1, SleepInit, Invariance, PTL DEF Spec

-----------------------------------------------------------------------------
(* The policy a sleeping worker decided on is never stale for good. *)

Untimed == {w \in Workers : worker[w] = "wait"}

(* The states of the workers, as a function.                               *)
WaitersOf(f) == {w \in Workers : f[w] = "wait"}
LiveOf(f) == {w \in Workers : f[w] \in LiveStates}

LEMMA WaitersAreLive ==
    ASSUME NEW f
    PROVE  /\ IsFiniteSet(WaitersOf(f)) /\ Cardinality(WaitersOf(f)) \in Nat
           /\ Cardinality(WaitersOf(f)) <= Cardinality(LiveOf(f))
<1>1. WaitersOf(f) \in SUBSET LiveOf(f) /\ LiveOf(f) \in SUBSET Workers
  BY DEF WaitersOf, LiveOf, LiveStates, WorkerStates
<1>2. IsFiniteSet(LiveOf(f))
  BY <1>1, FS_Subset, ConstantsAssumption
<1>. QED
  BY <1>1, <1>2, FS_Subset, FS_CardinalityType

LEMMA UntimedFinite == IsFiniteSet(Untimed) /\ Cardinality(Untimed) \in Nat
<1>1. Untimed = WaitersOf(worker)
  BY DEF Untimed, WaitersOf
<1>. QED
  BY <1>1, WaitersAreLive

(* A step that lets nobody start an untimed wait, and neither changes the  *)
(* policy nor takes back a pending notify_all, keeps the invariant.        *)
LEMMA UntimedStays ==
    ASSUME TypeInv, UntimedWaitersAreCore,
           \A w \in Workers : worker'[w] = "wait" => worker[w] = "wait",
           UNCHANGED sizes,
           \A c \in Clients : caller[c] = "notify_all" => caller'[c] = "notify_all"
    PROVE  UntimedWaitersAreCore'
<1>1. Untimed' \in SUBSET Untimed
  BY DEF Untimed
<1>2. IsFiniteSet(Untimed) /\ Cardinality(Untimed) \in Nat
  BY UntimedFinite
<1>3. Cardinality(Untimed') <= Cardinality(Untimed)
  BY <1>1, <1>2, FS_Subset
<1>4. Cardinality(Untimed') \in Nat
  BY <1>1, <1>2, FS_Subset, FS_CardinalityType
<1>. QED
  BY <1>1, <1>2, <1>3, <1>4 DEF UntimedWaitersAreCore, Untimed, sizes, TypeInv

LEMMA UntimedInit == Init => UntimedWaitersAreCore
BY DEF Init, UntimedWaitersAreCore

LEMMA UntimedStep ==
    ASSUME TypeInv, ThreadInv, UntimedWaitersAreCore, [Next]_vars, TypeInv', ThreadInv'
    PROVE  UntimedWaitersAreCore'
<1>1. CASE UNCHANGED vars
  BY <1>1, UntimedStays DEF vars, threads
<1>2. ASSUME NEW c \in Clients, NEW j \in Jobs,
             \/ SubmitRejected(c, j) \/ SubmitSpawnFails(c, j) \/ SubmitWithdrawn(c, j)
             \/ SubmitToNewWorker(c, j) \/ SubmitQueued(c, j)
      PROVE  UntimedWaitersAreCore'
  <2>1. UNCHANGED sizes /\ caller[c] = "idle"
    BY <1>2 DEF SubmitRejected, Reject, SubmitSpawnFails, SubmitWithdrawn, SubmitToNewWorker,
       SubmitQueued, Submitting
  <2>2. \A d \in Clients \ {c} : caller'[d] = caller[d]
    BY <1>2 DEF SubmitRejected, Reject, SubmitSpawnFails, SubmitWithdrawn, SubmitToNewWorker,
       SubmitQueued, TypeInv
  <2>3. \A w \in Workers : worker'[w] = "wait" => worker[w] = "wait"
    <3>1. \/ worker' = worker
          \/ \E w \in Workers, first \in {j, NoJob} : SpawnWorker(w, first)
      BY <1>2 DEF SubmitRejected, SubmitSpawnFails, SubmitWithdrawn, SubmitToNewWorker,
         SubmitQueued, SpawnFails, threads
    <3>. QED
      BY <3>1 DEF SpawnWorker, TypeInv
  <2>. QED
    BY <2>1, <2>2, <2>3, UntimedStays
<1>3. ASSUME NEW c \in Clients, NotifyAll(c) \/ Shutdown(c) \/ ShutdownNow(c)
      PROVE  UntimedWaitersAreCore'
  <2>1. worker' = Woken(worker) /\ DOMAIN worker = Workers
    BY <1>3 DEF NotifyAll, Shutdown, ShutdownNow, NotifyAllFrom, TypeInv
  <2>2. \A w \in Workers : worker'[w] # "wait"
    BY <2>1, WokenNobodyWaits DEF Waiting
  <2>. QED
    BY <2>2 DEF UntimedWaitersAreCore
<1>4. ASSUME NEW c \in Clients,
             \/ \E n \in CoreSizes : SetCorePoolSize(c, n)
             \/ \E n \in MaxSizes : SetMaximumPoolSize(c, n)
             \/ SetKeepAlive(c)
             \/ \E allow \in BOOLEAN : AllowCoreThreadTimeout(c, allow)
      PROVE  UntimedWaitersAreCore'
  <2>1. caller'[c] = "notify_all"
    BY <1>4 DEF SetCorePoolSize, SetMaximumPoolSize, SetKeepAlive, AllowCoreThreadTimeout,
       Reconfigured, TypeInv
  <2>. QED
    BY <2>1 DEF UntimedWaitersAreCore
<1>5. ASSUME NEW c \in Clients,
             NotifyOne(c) \/ CancelJob(c) \/ PrestartAll(c) \/ AwaitTermination(c)
             \/ SpuriousReturn(c)
      PROVE  UntimedWaitersAreCore'
  <2>1. UNCHANGED sizes /\ caller[c] # "notify_all"
    BY <1>5 DEF NotifyOne, CancelJob, PrestartAll, AwaitTermination, SpuriousReturn
  <2>2. \A d \in Clients : caller[d] = "notify_all" => caller'[d] = "notify_all"
    BY <1>5, <2>1 DEF NotifyOne, CancelJob, PrestartAll, AwaitTermination, SpuriousReturn,
       TypeInv, Waiting
  <2>3. \A w \in Workers : worker'[w] = "wait" => worker[w] = "wait"
    BY <1>5 DEF NotifyOne, CancelJob, PrestartAll, AwaitTermination, SpuriousReturn,
       TypeInv, threads
  <2>. QED
    BY <2>1, <2>2, <2>3, UntimedStays
<1>6. ASSUME NEW c \in Clients, PrestartOne(c) \/ PrestartNext(c)
      PROVE  UntimedWaitersAreCore'
  <2>1. UNCHANGED sizes /\ caller[c] # "notify_all"
    BY <1>6 DEF PrestartOne, PrestartNext, PrestartCoreThread
  <2>2. \A d \in Clients \ {c} : caller'[d] = caller[d]
    BY <1>6 DEF PrestartOne, PrestartNext, PrestartCoreThread, TypeInv
  <2>3. \A w \in Workers : worker'[w] = "wait" => worker[w] = "wait"
    <3>1. worker' = worker \/ \E w \in Workers : SpawnWorker(w, NoJob)
      BY <1>6 DEF PrestartOne, PrestartNext, PrestartCoreThread, SpawnFails, threads
    <3>. QED
      BY <3>1 DEF SpawnWorker, TypeInv
  <2>. QED
    BY <2>1, <2>2, <2>3, UntimedStays
<1>7. ASSUME NEW w \in Workers,
             \/ (\E v \in Workers : TakeLocalJob(w, v)) \/ TakeGlobalJob(w)
             \/ RunJob(w) \/ KeepAliveExpires(w) \/ SpuriousWakeup(w)
      PROVE  UntimedWaitersAreCore'
  <2>1. UNCHANGED <<sizes, caller>>
    BY <1>7 DEF TakeLocalJob, TakeGlobalJob, Claim, RunJob, KeepAliveExpires, SpuriousWakeup
  <2>2. \A v \in Workers : worker'[v] = "wait" => worker[v] = "wait"
    BY <1>7 DEF TakeLocalJob, TakeGlobalJob, Claim, RunJob, KeepAliveExpires, SpuriousWakeup,
       TypeInv
  <2>. QED
    BY <2>1, <2>2, UntimedStays
<1>8. ASSUME NEW w \in Workers, GoIdle(w)
      PROVE  UntimedWaitersAreCore'
  <2>1. CASE WorkerWaitIsTimed
    <3>1. \A v \in Workers : worker'[v] = "wait" => worker[v] = "wait"
      BY <1>8, <2>1 DEF GoIdle, TypeInv
    <3>. QED
      BY <1>8, <3>1, UntimedStays DEF GoIdle
  <2>2. CASE ~WorkerWaitIsTimed
    <3>1. ~allow_core_thread_timeout' /\ live_workers' <= core_pool_size'
      BY <1>8, <2>2 DEF GoIdle, WorkerWaitIsTimed, sizes, TypeInv
    <3>2. Cardinality(Untimed') <= live_workers' /\ Cardinality(Untimed') \in Nat
      <4>1. Untimed' = WaitersOf(worker') /\ live_workers' = Cardinality(LiveOf(worker'))
        BY DEF Untimed, WaitersOf, LiveOf, ThreadInv, Live, Count
      <4>. QED
        BY <4>1, WaitersAreLive
    <3>3. Cardinality(Untimed') <= core_pool_size'
      <4>1. live_workers' \in Int /\ core_pool_size' \in Int
        BY DEF TypeInv
      <4>. QED
        BY <3>1, <3>2, <4>1
    <3>. QED
      BY <3>1, <3>3 DEF UntimedWaitersAreCore, Untimed
  <2>. QED
    BY <2>1, <2>2
<1>9. ASSUME NEW w \in Workers, NEW x \in {"dead", "seek"},
             NotifyIfTerminated([worker EXCEPT ![w] = x], caller), UNCHANGED sizes
      PROVE  UntimedWaitersAreCore'
  <2>. DEFINE ws == [worker EXCEPT ![w] = x]
  <2>1. DOMAIN ws = Workers /\ DOMAIN caller = Clients
    BY DEF TypeInv
  <2>2. \A v \in Workers : ws[v] = "wait" => worker[v] = "wait"
    BY DEF TypeInv
  <2>3. \/ worker' = ws /\ caller' = caller
        \/ worker' = Woken(ws) /\ caller' = Woken(caller)
    BY <1>9 DEF NotifyIfTerminated, NotifyAllFrom
  <2>. HIDE DEF ws
  <2>4. \A v \in Workers : worker'[v] = "wait" => worker[v] = "wait"
    BY <2>1, <2>2, <2>3, WokenNobodyWaits DEF Waiting
  <2>5. \A c \in Clients : caller[c] = "notify_all" => caller'[c] = "notify_all"
    BY <2>1, <2>3, WokenNobodyWaits DEF Waiting
  <2>. QED
    BY <1>9, <2>4, <2>5, UntimedStays
<1>10. ASSUME NEW w \in Workers, ExitWorker(w)
       PROVE  UntimedWaitersAreCore'
  BY <1>9, <1>10 DEF ExitWorker
<1>11. ASSUME NEW w \in Workers, FinishRunningJob(w)
       PROVE  UntimedWaitersAreCore'
  <2>1. CASE running_tasks > 0
    BY <1>9, <1>11, <2>1 DEF FinishRunningJob
  <2>2. CASE ~(running_tasks > 0)
    <3>1. UNCHANGED <<sizes, caller>> /\ worker' = [worker EXCEPT ![w] = "crashed"]
      BY <1>11, <2>2 DEF FinishRunningJob
    <3>2. \A v \in Workers : worker'[v] = "wait" => worker[v] = "wait"
      BY <3>1 DEF TypeInv
    <3>. QED
      BY <3>1, <3>2, UntimedStays
  <2>. QED
    BY <2>1, <2>2
<1>. QED
  BY <1>1, <1>2, <1>3, <1>4, <1>5, <1>6, <1>7, <1>8, <1>10, <1>11, NextCases
     DEF ClientAction, WorkerAction

(* A worker that waits without a time-out is one of the core workers the   *)
(* current policy keeps, or is about to be woken by the caller that        *)
(* changed the policy.                                                     *)
THEOREM UntimedWaitsAreJustified == Spec => []UntimedWaitersAreCore
<1>1. /\ TypeInv /\ ThreadInv /\ UntimedWaitersAreCore
      /\ [Next]_vars /\ (TypeInv /\ ThreadInv)'
      => UntimedWaitersAreCore'
  BY UntimedStep
<1>. QED
  BY <1>1, UntimedInit, Invariance, PTL DEF Spec

-----------------------------------------------------------------------------
(***************************************************************************)
(* The jobs of the pool: where each one is, what the statistics say of     *)
(* them, and the contract of ExecutorService.                              *)
(***************************************************************************)

(* Queues without duplicates.                                              *)

LEMMA EmptyQueue == Range(<<>>) = {} /\ IsInjective(<<>>)
BY DEF Range, IsInjective

LEMMA AppendQueue ==
    ASSUME NEW s \in Seq(Jobs), NEW j \in Jobs
    PROVE  /\ Range(Append(s, j)) = Range(s) \cup {j}
           /\ IsInjective(s) /\ j \notin Range(s) => IsInjective(Append(s, j))
<1>. DEFINE t == Append(s, j)
<1>1. /\ t \in Seq(Jobs) /\ Len(t) = Len(s) + 1 /\ Len(s) \in Nat
      /\ \A i \in 1 .. Len(s) : t[i] = s[i]
      /\ t[Len(s) + 1] = j
  BY LenProperties
<1>2. DOMAIN t = 1 .. Len(s) + 1 /\ DOMAIN s = 1 .. Len(s)
  BY <1>1, LenProperties
<1>. HIDE DEF t
<1>3. Range(t) = Range(s) \cup {j}
  <2>1. ASSUME NEW x \in Range(t) PROVE x \in Range(s) \cup {j}
    <3>1. PICK i \in 1 .. Len(s) + 1 : x = t[i]
      BY <1>2 DEF Range
    <3>. QED
      BY <1>1, <1>2, <3>1 DEF Range
  <2>2. ASSUME NEW x \in Range(s) PROVE x \in Range(t)
    <3>1. PICK i \in 1 .. Len(s) : x = s[i]
      BY <1>2 DEF Range
    <3>2. i \in 1 .. Len(s) + 1 /\ x = t[i]
      BY <1>1, <3>1
    <3>. QED
      BY <1>2, <3>2 DEF Range
  <2>3. j \in Range(t)
    BY <1>1, <1>2 DEF Range
  <2>. QED
    BY <2>1, <2>2, <2>3
<1>4. ASSUME IsInjective(s), j \notin Range(s) PROVE IsInjective(t)
  BY <1>1, <1>2, <1>4 DEF IsInjective, Range
<1>. QED
  BY <1>3, <1>4 DEF t

LEMMA TailQueue ==
    ASSUME NEW s \in Seq(Jobs), s # <<>>, IsInjective(s)
    PROVE  /\ Head(s) \in Range(s)
           /\ Range(Tail(s)) = Range(s) \ {Head(s)}
           /\ IsInjective(Tail(s))
<1>. DEFINE t == Tail(s)
            h == Head(s)
<1>1. /\ t \in Seq(Jobs) /\ Len(t) = Len(s) - 1 /\ Len(s) \in Nat \ {0}
      /\ \A i \in 1 .. Len(t) : t[i] = s[i + 1]
  BY HeadTailProperties, EmptySeq
<1>2. h = s[1]
  OBVIOUS
<1>3. DOMAIN t = 1 .. Len(s) - 1 /\ DOMAIN s = 1 .. Len(s)
  BY <1>1, LenProperties
<1>. HIDE DEF t, h
<1>4. h \in Range(s)
  BY <1>1, <1>2, <1>3 DEF Range
<1>5. IsInjective(t)
  <2>. SUFFICES ASSUME NEW a \in 1 .. Len(s) - 1, NEW b \in 1 .. Len(s) - 1, t[a] = t[b]
                PROVE  a = b
    BY <1>3 DEF IsInjective
  <2>1. a + 1 \in 1 .. Len(s) /\ b + 1 \in 1 .. Len(s) /\ s[a + 1] = s[b + 1]
    BY <1>1
  <2>2. a + 1 = b + 1
    BY <1>3, <2>1 DEF IsInjective
  <2>. QED
    BY <2>2
<1>6. Range(t) = Range(s) \ {h}
  <2>1. ASSUME NEW x \in Range(t) PROVE x \in Range(s) \ {h}
    <3>1. PICK i \in 1 .. Len(s) - 1 : x = t[i]
      BY <1>3 DEF Range
    <3>2. i + 1 \in 1 .. Len(s) /\ x = s[i + 1] /\ i + 1 # 1 /\ 1 \in 1 .. Len(s)
      BY <1>1, <3>1
    <3>. QED
      BY <1>2, <1>3, <3>2 DEF Range, IsInjective
  <2>2. ASSUME NEW x \in Range(s), x # h PROVE x \in Range(t)
    <3>1. PICK i \in 1 .. Len(s) : x = s[i]
      BY <1>3 DEF Range
    <3>2. i - 1 \in 1 .. Len(s) - 1 /\ (i - 1) + 1 = i
      BY <1>1, <1>2, <2>2, <3>1
    <3>3. t[i - 1] = x
      BY <1>1, <3>1, <3>2
    <3>. QED
      BY <1>3, <3>2, <3>3 DEF Range
  <2>. QED
    BY <2>1, <2>2
<1>. QED
  BY <1>4, <1>5, <1>6 DEF t, h

LEMMA ConcatQueues ==
    ASSUME NEW s \in Seq(Jobs), NEW r \in Seq(Jobs)
    PROVE  /\ Range(s \o r) = Range(s) \cup Range(r)
           /\ IsInjective(s) /\ IsInjective(r) /\ Range(s) \cap Range(r) = {}
                => IsInjective(s \o r)
<1>. DEFINE t == s \o r
<1>1. /\ t \in Seq(Jobs) /\ Len(t) = Len(s) + Len(r) /\ Len(s) \in Nat /\ Len(r) \in Nat
      /\ \A i \in 1 .. Len(s) + Len(r) : t[i] = IF i <= Len(s) THEN s[i] ELSE r[i - Len(s)]
  BY ConcatProperties, LenProperties
<1>2. /\ DOMAIN t = 1 .. Len(s) + Len(r)
      /\ DOMAIN s = 1 .. Len(s) /\ DOMAIN r = 1 .. Len(r)
  BY <1>1, LenProperties
<1>. HIDE DEF t
<1>3. ASSUME NEW i \in 1 .. Len(s) + Len(r)
      PROVE  \/ i \in 1 .. Len(s) /\ t[i] = s[i]
             \/ i - Len(s) \in 1 .. Len(r) /\ t[i] = r[i - Len(s)]
  BY <1>1
<1>4. Range(t) = Range(s) \cup Range(r)
  <2>1. ASSUME NEW x \in Range(t) PROVE x \in Range(s) \cup Range(r)
    BY <1>2, <1>3 DEF Range
  <2>2. ASSUME NEW x \in Range(s) PROVE x \in Range(t)
    <3>1. PICK i \in 1 .. Len(s) : x = s[i]
      BY <1>2 DEF Range
    <3>2. i \in 1 .. Len(s) + Len(r) /\ t[i] = x
      BY <1>1, <3>1
    <3>. QED
      BY <1>2, <3>2 DEF Range
  <2>3. ASSUME NEW x \in Range(r) PROVE x \in Range(t)
    <3>1. PICK i \in 1 .. Len(r) : x = r[i]
      BY <1>2 DEF Range
    <3>. DEFINE k == i + Len(s)
    <3>0. k \in 1 .. Len(s) + Len(r) /\ ~(k <= Len(s)) /\ k - Len(s) = i
      BY <1>1, <3>1
    <3>. HIDE DEF k
    <3>2. k \in 1 .. Len(s) + Len(r) /\ t[k] = x
      BY <1>1, <3>0, <3>1
    <3>3. k \in DOMAIN t
      BY <1>2, <3>2
    <3>. QED
      BY <3>2, <3>3 DEF Range
  <2>. QED
    BY <2>1, <2>2, <2>3
<1>5. ASSUME IsInjective(s), IsInjective(r), Range(s) \cap Range(r) = {}
      PROVE  IsInjective(t)
  <2>. SUFFICES ASSUME NEW a \in 1 .. Len(s) + Len(r), NEW b \in 1 .. Len(s) + Len(r), t[a] = t[b]
                PROVE  a = b
    BY <1>2 DEF IsInjective
  <2>1. \A x \in 1 .. Len(s), y \in 1 .. Len(r) : s[x] # r[y]
    BY <1>2, <1>5 DEF Range
  <2>2. \A x, y \in 1 .. Len(s) : s[x] = s[y] => x = y
    BY <1>2, <1>5 DEF IsInjective
  <2>3. \A x, y \in 1 .. Len(r) : r[x] = r[y] => x = y
    BY <1>2, <1>5 DEF IsInjective
  <2>4. ASSUME NEW x \in 1 .. Len(s) + Len(r), NEW y \in 1 .. Len(s) + Len(r),
               t[x] = t[y], x <= Len(s)
        PROVE  x = y
    <3>1. x \in 1 .. Len(s) /\ t[x] = s[x]
      BY <1>1, <2>4
    <3>2. y \in 1 .. Len(s) /\ t[y] = s[y]
      BY <1>3, <2>1, <2>4, <3>1
    <3>. QED
      BY <2>2, <2>4, <3>1, <3>2
  <2>5. ASSUME ~(a <= Len(s)), ~(b <= Len(s))
        PROVE  a = b
    <3>1. /\ a - Len(s) \in 1 .. Len(r) /\ t[a] = r[a - Len(s)]
          /\ b - Len(s) \in 1 .. Len(r) /\ t[b] = r[b - Len(s)]
      BY <1>1, <2>5
    <3>2. a - Len(s) = b - Len(s)
      BY <2>3, <3>1
    <3>. QED
      BY <1>1, <3>2
  <2>. QED
    BY <2>4, <2>5
<1>. QED
  BY <1>4, <1>5 DEF t

-----------------------------------------------------------------------------
(* Where the jobs are.  JobInOnePlace, in three parts, and one fact that   *)
(* makes it inductive: only a caller that is about to cancel jobs has      *)
(* drained any.                                                            *)

InQueue(j) == j \in Range(queue) \/ \E w \in Workers : j \in Range(worker_queues[w])

QueueInv ==
    /\ \A j \in Jobs : fate[j] = "queued" <=> InQueue(j)
    /\ IsInjective(queue)
    /\ \A w \in Workers :
         /\ IsInjective(worker_queues[w])
         /\ worker[w] = "dead" => worker_queues[w] = <<>>
         /\ Range(queue) \cap Range(worker_queues[w]) = {}
         /\ \A v \in Workers \ {w} : Range(worker_queues[v]) \cap Range(worker_queues[w]) = {}

RunInv ==
    /\ \A w \in Workers : worker[w] = "run" =>
         /\ held[w] \in Jobs /\ fate[held[w]] = "running"
         /\ \A v \in Workers \ {w} : worker[v] = "run" => held[w] # held[v]
    /\ \A j \in Jobs : fate[j] = "running" =>
         \E w \in Workers : worker[w] = "run" /\ held[w] = j

DrainInv ==
    /\ \A j \in Jobs : fate[j] \in {"drained", "withdrawn"} <=> \E c \in Clients : j \in drained[c]
    /\ \A c, d \in Clients : c # d => drained[c] \cap drained[d] = {}
    /\ \A c \in Clients : drained[c] # {} => caller[c] = "cancel"

JobInv == QueueInv /\ RunInv /\ DrainInv

LEMMA JobInit == Init => JobInv
<1>. SUFFICES ASSUME Init PROVE JobInv
  OBVIOUS
<1>1. QueueInv
  BY EmptyQueue DEF Init, QueueInv, InQueue
<1>2. RunInv /\ DrainInv
  BY DEF Init, RunInv, DrainInv
<1>. QED
  BY <1>1, <1>2 DEF JobInv

(* Steps that leave the queues, the running jobs or the drained jobs alone. *)
LEMMA QueueKept ==
    ASSUME QueueInv, UNCHANGED <<queue, worker_queues>>,
           \A j \in Jobs : fate'[j] = "queued" <=> fate[j] = "queued",
           \A w \in Workers : worker'[w] = "dead" => worker[w] = "dead"
    PROVE  QueueInv'
BY DEF QueueInv, InQueue

LEMMA RunKept ==
    ASSUME RunInv,
           \A w \in Workers : worker'[w] = "run" <=> worker[w] = "run",
           \A w \in Workers : worker[w] = "run" => held'[w] = held[w],
           \A j \in Jobs : fate'[j] = "running" <=> fate[j] = "running"
    PROVE  RunInv'
BY DEF RunInv

LEMMA DrainKept ==
    ASSUME DrainInv, UNCHANGED drained,
           \A c \in Clients : caller[c] = "cancel" => caller'[c] = "cancel",
           \A j \in Jobs : fate'[j] \in {"drained", "withdrawn"} <=>
                           fate[j] \in {"drained", "withdrawn"}
    PROVE  DrainInv'
BY DEF DrainInv

(* A step that changes no job's place: nobody takes, ends or cancels one.  *)
LEMMA JobsKept ==
    ASSUME JobInv, UNCHANGED <<queue, worker_queues, drained, fate>>,
           \A w \in Workers : /\ worker'[w] = "run" <=> worker[w] = "run"
                              /\ worker[w] = "run" => held'[w] = held[w]
                              /\ worker'[w] = "dead" => worker[w] = "dead",
           \A c \in Clients : caller[c] = "cancel" => caller'[c] = "cancel"
    PROVE  JobInv'
BY QueueKept, RunKept, DrainKept DEF JobInv

LEMMA WokenKeeps ==
    ASSUME NEW D, NEW f, DOMAIN f = D, NEW g, g = Woken(f)
    PROVE  \A d \in D : g[d] = f[d] \/ (f[d] \in Waiting /\ g[d] = "woken")
BY DEF Woken

(* The threads after a step that may have notified all of them.            *)
LEMMA NotifiedKeeps ==
    ASSUME NEW ws, DOMAIN ws = Workers, NEW cs, DOMAIN cs = Clients,
           \/ worker' = ws /\ caller' = cs
           \/ worker' = Woken(ws) /\ caller' = Woken(cs)
    PROVE  /\ \A v \in Workers : worker'[v] = ws[v] \/ (ws[v] \in Waiting /\ worker'[v] = "woken")
           /\ \A d \in Clients : caller'[d] = cs[d] \/ (cs[d] \in Waiting /\ caller'[d] = "woken")
<1>1. CASE worker' = ws /\ caller' = cs
  BY <1>1
<1>2. CASE worker' = Woken(ws) /\ caller' = Woken(cs)
  <2>1. \A v \in Workers : worker'[v] = ws[v] \/ (ws[v] \in Waiting /\ worker'[v] = "woken")
    BY <1>2, WokenKeeps
  <2>2. \A d \in Clients : caller'[d] = cs[d] \/ (cs[d] \in Waiting /\ caller'[d] = "woken")
    BY <1>2, WokenKeeps
  <2>. QED
    BY <2>1, <2>2
<1>. QED
  BY <1>1, <1>2

LEMMA JobStep == TypeInv /\ ThreadInv /\ JobInv /\ [Next]_vars => JobInv'
<1>. SUFFICES ASSUME TypeInv, ThreadInv, JobInv, [Next]_vars PROVE JobInv'
  OBVIOUS
<1>. USE ConstantsAssumption
<1>1. CASE UNCHANGED vars
  BY <1>1, JobsKept DEF vars, queues, threads
<1>2. ASSUME NEW c \in Clients, NEW j \in Jobs, SubmitRejected(c, j) \/ SubmitSpawnFails(c, j)
      PROVE  JobInv'
  <2>1. /\ UNCHANGED <<queue, worker_queues, drained, caller, worker, held>>
        /\ fate[j] = "new" /\ fate' = [fate EXCEPT ![j] = "rejected"]
    BY <1>2 DEF SubmitRejected, SubmitSpawnFails, Submitting, Reject, SpawnFails, queues, threads
  <2>. QED
    BY <2>1, QueueKept, RunKept, DrainKept DEF JobInv, TypeInv
<1>3. ASSUME NEW c \in Clients, NEW j \in Jobs, SubmitToNewWorker(c, j)
      PROVE  JobInv'
  <2>1. PICK w \in Workers : SpawnWorker(w, j)
    BY <1>3 DEF SubmitToNewWorker
  <2>2. /\ UNCHANGED <<queue, worker_queues, drained, caller>>
        /\ fate[j] = "new" /\ fate' = [fate EXCEPT ![j] = "running"]
        /\ worker[w] = "dead" /\ worker' = [worker EXCEPT ![w] = "run"]
        /\ held' = [held EXCEPT ![w] = j]
    BY <1>3, <2>1 DEF SubmitToNewWorker, Submitting, SpawnWorker, queues
  <2>3. QueueInv' /\ DrainInv'
    BY <2>2, QueueKept, DrainKept DEF JobInv, TypeInv
  <2>4. RunInv'
    BY <2>2 DEF JobInv, RunInv, TypeInv
  <2>. QED
    BY <2>3, <2>4 DEF JobInv
<1>4. ASSUME NEW c \in Clients, NEW j \in Jobs, SubmitQueued(c, j)
      PROVE  JobInv'
  <2>1. /\ fate[j] = "new" /\ fate' = [fate EXCEPT ![j] = "queued"]
        /\ UNCHANGED drained
        /\ caller[c] = "idle" /\ \A d \in Clients \ {c} : caller'[d] = caller[d]
    BY <1>4 DEF SubmitQueued, Submitting, TypeInv
  <2>2. \A v \in Workers : /\ worker'[v] = "run" <=> worker[v] = "run"
                           /\ worker[v] = "run" => held'[v] = held[v]
                           /\ worker'[v] = "dead" => worker[v] = "dead"
    BY <1>4 DEF SubmitQueued, SpawnWorker, TypeInv
  <2>3. RunInv' /\ DrainInv'
    BY <2>1, <2>2, RunKept, DrainKept DEF JobInv, TypeInv
  <2>4. ~InQueue(j)
    BY <2>1 DEF JobInv, QueueInv
  <2>5. QueueInv'
    <3>1. CASE worker_queues' = worker_queues /\ queue' = Append(queue, j)
      <4>1. Range(queue') = Range(queue) \cup {j} /\ IsInjective(queue')
        BY <2>4, <3>1, AppendQueue DEF TypeInv, JobInv, QueueInv, InQueue
      <4>. QED
        BY <2>1, <2>2, <2>4, <3>1, <4>1 DEF JobInv, QueueInv, InQueue, TypeInv
    <3>2. ASSUME NEW w \in Workers, worker[w] # "dead", queue' = queue,
                 worker_queues' = [worker_queues EXCEPT ![w] = Append(@, j)]
          PROVE  QueueInv'
      <4>1. /\ \A v \in Workers \ {w} : worker_queues'[v] = worker_queues[v]
            /\ Range(worker_queues'[w]) = Range(worker_queues[w]) \cup {j}
            /\ IsInjective(worker_queues'[w])
        BY <2>4, <3>2, AppendQueue DEF TypeInv, JobInv, QueueInv, InQueue
      <4>2. \A x \in Jobs : InQueue(x)' <=> InQueue(x) \/ x = j
        BY <3>2, <4>1 DEF InQueue
      <4>3. \A x \in Jobs : fate'[x] = "queued" <=> InQueue(x)'
        BY <2>1, <4>2 DEF JobInv, QueueInv, TypeInv
      <4>4. ASSUME NEW v \in Workers
            PROVE  /\ IsInjective(worker_queues'[v])
                   /\ worker'[v] = "dead" => worker_queues'[v] = <<>>
                   /\ Range(queue') \cap Range(worker_queues'[v]) = {}
        BY <2>2, <2>4, <3>2, <4>1 DEF JobInv, QueueInv, InQueue
      <4>5. ASSUME NEW v \in Workers, NEW u \in Workers \ {v}
            PROVE  Range(worker_queues'[u]) \cap Range(worker_queues'[v]) = {}
        BY <2>4, <4>1 DEF JobInv, QueueInv, InQueue
      <4>. QED
        BY <3>2, <4>3, <4>4, <4>5 DEF JobInv, QueueInv
    <3>. QED
      BY <1>4, <3>1, <3>2 DEF SubmitQueued, PushJob, Registered
  <2>. QED
    BY <2>3, <2>5 DEF JobInv
<1>5. ASSUME NEW c \in Clients, NEW j \in Jobs, SubmitWithdrawn(c, j)
      PROVE  JobInv'
  <2>1. /\ UNCHANGED <<queue, worker_queues, worker, held>>
        /\ fate[j] = "new" /\ fate' = [fate EXCEPT ![j] = "withdrawn"]
        /\ caller[c] = "idle" /\ caller' = [caller EXCEPT ![c] = "cancel"]
        /\ drained' = [drained EXCEPT ![c] = {j}]
    BY <1>5 DEF SubmitWithdrawn, Submitting, SpawnFails, queues, threads
  <2>2. QueueInv' /\ RunInv'
    BY <2>1, QueueKept, RunKept DEF JobInv, TypeInv
  <2>3. /\ drained'[c] = {j} /\ drained[c] = {}
        /\ \A d \in Clients \ {c} : drained'[d] = drained[d] /\ j \notin drained[d]
        /\ \A d \in Clients \ {c} : caller'[d] = caller[d]
        /\ caller'[c] = "cancel"
        /\ \A i \in Jobs \ {j} : fate'[i] = fate[i]
        /\ fate'[j] = "withdrawn"
    <3>1. drained[c] = {} /\ \A d \in Clients : j \notin drained[d]
      BY <2>1 DEF JobInv, DrainInv
    <3>. QED
      BY <2>1, <3>1 DEF TypeInv
  <2>4. DrainInv'
    <3>1. ASSUME NEW i \in Jobs
          PROVE  fate'[i] \in {"drained", "withdrawn"} <=> \E d \in Clients : i \in drained'[d]
      <4>1. CASE i = j
        BY <2>3, <4>1
      <4>2. CASE i # j
        BY <2>3, <4>2 DEF JobInv, DrainInv
      <4>. QED
        BY <4>1, <4>2
    <3>2. \A a, b \in Clients : a # b => drained'[a] \cap drained'[b] = {}
      BY <2>3 DEF JobInv, DrainInv
    <3>3. \A d \in Clients : drained'[d] # {} => caller'[d] = "cancel"
      BY <2>3 DEF JobInv, DrainInv
    <3>. QED
      BY <3>1, <3>2, <3>3 DEF DrainInv
  <2>. QED
    BY <2>2, <2>4 DEF JobInv
<1>6. ASSUME NEW c \in Clients,
             \/ NotifyOne(c) \/ NotifyAll(c) \/ Shutdown(c) \/ PrestartAll(c)
             \/ AwaitTermination(c) \/ SpuriousReturn(c)
             \/ \E n \in CoreSizes : SetCorePoolSize(c, n)
             \/ \E n \in MaxSizes : SetMaximumPoolSize(c, n)
             \/ SetKeepAlive(c)
             \/ \E allow \in BOOLEAN : AllowCoreThreadTimeout(c, allow)
      PROVE  JobInv'
  <2>1. /\ UNCHANGED <<queue, worker_queues, drained, fate, held>>
        /\ \A w \in Workers : worker'[w] = worker[w] \/ (worker[w] \in Waiting /\ worker'[w] = "woken")
        /\ \A d \in Clients : caller[d] = "cancel" => caller'[d] = "cancel"
    <3>1. CASE NotifyOne(c)
      BY <3>1 DEF NotifyOne, TypeInv, queues, Waiting
    <3>2. CASE NotifyAll(c) \/ Shutdown(c)
      <4>1. PICK cs \in [Clients -> CallerStates] :
              /\ worker' = Woken(worker) /\ caller' = Woken(cs)
              /\ \A d \in Clients : caller[d] = "cancel" => cs[d] = "cancel"
        <5>1. CASE NotifyAll(c)
          <6>. DEFINE cs == [caller EXCEPT ![c] = "idle"]
          <6>1. /\ cs \in [Clients -> CallerStates]
                /\ \A d \in Clients : caller[d] = "cancel" => cs[d] = "cancel"
            BY <5>1 DEF NotifyAll, TypeInv, CallerStates
          <6>2. worker' = Woken(worker) /\ caller' = Woken(cs)
            BY <5>1 DEF NotifyAll, NotifyAllFrom
          <6>. HIDE DEF cs
          <6>. QED
            BY <6>1, <6>2
        <5>2. CASE Shutdown(c)
          BY <5>2 DEF Shutdown, NotifyAllFrom, TypeInv
        <5>. QED
          BY <3>2, <5>1, <5>2
      <4>2. \A w \in Workers : worker'[w] = worker[w] \/ (worker[w] \in Waiting /\ worker'[w] = "woken")
        <5>1. DOMAIN worker = Workers
          BY DEF TypeInv
        <5>. QED
          BY <4>1, <5>1, WokenKeeps
      <4>3. \A d \in Clients : caller[d] = "cancel" => caller'[d] = "cancel"
        <5>1. DOMAIN cs = Clients
          BY <4>1
        <5>2. \A d \in Clients : caller'[d] = cs[d] \/ cs[d] \in Waiting
          BY <4>1, <5>1, WokenKeeps
        <5>. QED
          BY <4>1, <5>2 DEF Waiting
      <4>. QED
        BY <3>2, <4>2, <4>3 DEF NotifyAll, Shutdown, queues
    <3>3. CASE PrestartAll(c) \/ AwaitTermination(c) \/ SpuriousReturn(c)
      BY <3>3 DEF PrestartAll, AwaitTermination, SpuriousReturn, TypeInv, queues, threads
    <3>4. CASE Reconfigured(c)
      BY <3>4 DEF Reconfigured, TypeInv, queues, threads
    <3>. QED
      BY <1>6, <3>1, <3>2, <3>3, <3>4 DEF SetCorePoolSize, SetMaximumPoolSize, SetKeepAlive,
         AllowCoreThreadTimeout
  <2>. QED
    BY <2>1, JobsKept DEF Waiting
<1>7. ASSUME NEW c \in Clients, PrestartOne(c) \/ PrestartNext(c)
      PROVE  JobInv'
  <2>1. PICK next \in {"idle", "prestart"} : PrestartCoreThread(c, next) /\ caller[c] # "cancel"
    BY <1>7 DEF PrestartOne, PrestartNext
  <2>2. /\ UNCHANGED <<queue, worker_queues, drained, fate>>
        /\ \A d \in Clients : caller[d] = "cancel" => caller'[d] = "cancel"
    BY <2>1 DEF PrestartCoreThread, TypeInv, queues
  <2>3. \A w \in Workers : /\ worker'[w] = "run" <=> worker[w] = "run"
                           /\ worker[w] = "run" => held'[w] = held[w]
                           /\ worker'[w] = "dead" => worker[w] = "dead"
    BY <2>1 DEF PrestartCoreThread, SpawnWorker, SpawnFails, TypeInv, threads
  <2>. QED
    BY <2>2, <2>3, JobsKept
<1>8. ASSUME NEW c \in Clients, CancelJob(c)
      PROVE  JobInv'
  <2>1. PICK j \in drained[c] :
          /\ fate' = [fate EXCEPT ![j] = IF @ = "withdrawn" THEN "rejected" ELSE "cancelled"]
          /\ drained' = [drained EXCEPT ![c] = @ \ {j}]
          /\ caller' = [caller EXCEPT ![c] = IF drained[c] = {j} THEN "idle" ELSE @]
    BY <1>8 DEF CancelJob
  <2>2. j \in Jobs /\ fate[j] \in {"drained", "withdrawn"} /\ caller[c] = "cancel"
    BY <1>8 DEF CancelJob, JobInv, DrainInv, TypeInv
  <2>3. UNCHANGED <<queue, worker_queues, worker, held>>
    BY <1>8 DEF CancelJob, queues, threads
  <2>4. /\ fate'[j] \in {"rejected", "cancelled"}
        /\ \A i \in Jobs \ {j} : fate'[i] = fate[i]
        /\ drained'[c] = drained[c] \ {j}
        /\ \A d \in Clients \ {c} : drained'[d] = drained[d] /\ j \notin drained[d]
        /\ \A d \in Clients \ {c} : caller'[d] = caller[d]
        /\ drained'[c] # {} => caller'[c] = "cancel"
    BY <2>1, <2>2 DEF JobInv, DrainInv, TypeInv
  <2>5. QueueInv' /\ RunInv'
    BY <2>2, <2>3, <2>4, QueueKept, RunKept DEF JobInv
  <2>6. DrainInv'
    <3>1. ASSUME NEW i \in Jobs
          PROVE  fate'[i] \in {"drained", "withdrawn"} <=> \E d \in Clients : i \in drained'[d]
      <4>1. CASE i = j
        BY <2>4, <4>1
      <4>2. CASE i # j
        BY <2>4, <4>2 DEF JobInv, DrainInv
      <4>. QED
        BY <4>1, <4>2
    <3>2. \A a, b \in Clients : a # b => drained'[a] \cap drained'[b] = {}
      BY <2>4 DEF JobInv, DrainInv
    <3>3. \A d \in Clients : drained'[d] # {} => caller'[d] = "cancel"
      BY <2>4 DEF JobInv, DrainInv
    <3>. QED
      BY <3>1, <3>2, <3>3 DEF DrainInv
  <2>. QED
    BY <2>5, <2>6 DEF JobInv
<1>9. ASSUME NEW c \in Clients, ShutdownNow(c)
      PROVE  JobInv'
  <2>. DEFINE jobs == Range(queue) \cup UNION {Range(worker_queues[w]) : w \in Registered}
              cs == [caller EXCEPT ![c] = IF jobs = {} THEN "idle" ELSE "cancel"]
  <2>1. \A j \in Jobs : j \in jobs <=> fate[j] = "queued"
    <3>1. \A j : j \in jobs <=> InQueue(j)
      BY EmptyQueue DEF JobInv, QueueInv, InQueue, Registered
    <3>. QED
      BY <3>1 DEF JobInv, QueueInv
  <2>2. jobs \subseteq Jobs
    BY RangeType DEF TypeInv, Registered
  <2>3. /\ queue' = <<>> /\ caller[c] = "idle"
        /\ worker_queues' = [w \in Workers |-> IF w \in Registered THEN <<>> ELSE worker_queues[w]]
        /\ fate' = [j \in Jobs |-> IF j \in jobs THEN "drained" ELSE fate[j]]
        /\ drained' = [drained EXCEPT ![c] = jobs]
        /\ worker' = Woken(worker) /\ caller' = Woken(cs)
        /\ UNCHANGED held
    BY <1>9 DEF ShutdownNow, NotifyAllFrom
  <2>4. \A w \in Workers : worker'[w] = worker[w] \/ (worker[w] \in Waiting /\ worker'[w] = "woken")
    <3>1. DOMAIN worker = Workers
      BY DEF TypeInv
    <3>. QED
      BY <2>3, <3>1, WokenKeeps
  <2>5. cs \in [Clients -> CallerStates]
    BY DEF TypeInv, CallerStates
  <2>6. /\ caller'[c] = IF jobs = {} THEN "idle" ELSE "cancel"
        /\ \A d \in Clients \ {c} : caller[d] = "cancel" => caller'[d] = "cancel"
    <3>1. \A d \in Clients : \/ caller'[d] = cs[d]
                             \/ cs[d] \in Waiting /\ caller'[d] = "woken"
      <4>1. DOMAIN cs = Clients
        BY <2>5
      <4>. HIDE DEF cs
      <4>. QED
        BY <2>3, <4>1, WokenKeeps
    <3>. QED
      BY <3>1 DEF Waiting, TypeInv
  <2>. HIDE DEF jobs, cs
  <2>7. RunInv'
    BY <2>1, <2>3, <2>4, RunKept DEF JobInv, TypeInv, Waiting
  <2>8. \A w \in Workers : worker_queues'[w] = <<>>
    BY <2>3 DEF JobInv, QueueInv, Registered
  <2>9. QueueInv'
    <3>1. \A j \in Jobs : fate'[j] # "queued"
      BY <2>1, <2>3
    <3>2. \A j \in Jobs : ~InQueue(j)'
      BY <2>3, <2>8, EmptyQueue DEF InQueue
    <3>. QED
      BY <2>3, <2>8, <3>1, <3>2, EmptyQueue DEF QueueInv
  <2>10. DrainInv'
    <3>0. /\ drained[c] = {} /\ drained'[c] = jobs
          /\ \A d \in Clients \ {c} : drained'[d] = drained[d]
          /\ \A d \in Clients : drained[d] \cap jobs = {}
      <4>1. drained[c] = {} /\ \A d \in Clients, i \in Jobs : i \in drained[d] => i \notin jobs
        BY <2>1, <2>3 DEF JobInv, DrainInv
      <4>. QED
        BY <2>2, <2>3, <4>1 DEF TypeInv
    <3>1. ASSUME NEW i \in Jobs
          PROVE  fate'[i] \in {"drained", "withdrawn"} <=> \E d \in Clients : i \in drained'[d]
      <4>1. CASE i \in jobs
        BY <2>3, <3>0, <4>1
      <4>2. CASE i \notin jobs
        BY <2>3, <3>0, <4>2 DEF JobInv, DrainInv
      <4>. QED
        BY <4>1, <4>2
    <3>2. \A a, b \in Clients : a # b => drained'[a] \cap drained'[b] = {}
      BY <3>0 DEF JobInv, DrainInv
    <3>3. \A d \in Clients : drained'[d] # {} => caller'[d] = "cancel"
      BY <2>6, <3>0 DEF JobInv, DrainInv
    <3>. QED
      BY <3>1, <3>2, <3>3 DEF DrainInv
  <2>. QED
    BY <2>7, <2>9, <2>10 DEF JobInv
<1>10. ASSUME NEW w \in Workers, NEW j \in Jobs, Claim(w, j), AtMonitor(w), fate[j] = "queued"
       PROVE  RunInv' /\ DrainInv'
  <2>1. /\ worker' = [worker EXCEPT ![w] = "run"] /\ held' = [held EXCEPT ![w] = j]
        /\ fate' = [fate EXCEPT ![j] = "running"] /\ worker[w] # "run"
        /\ UNCHANGED <<caller, drained>>
    BY <1>10 DEF Claim, AtMonitor
  <2>2. RunInv'
    BY <1>10, <2>1 DEF JobInv, RunInv, TypeInv
  <2>3. DrainInv'
    BY <1>10, <2>1, DrainKept DEF JobInv, TypeInv
  <2>. QED
    BY <2>2, <2>3
<1>11. ASSUME NEW w \in Workers, NEW v \in Workers, TakeLocalJob(w, v)
       PROVE  JobInv'
  <2>. DEFINE j == Head(worker_queues[v])
  <2>1. /\ Claim(w, j) /\ AtMonitor(w) /\ worker_queues[v] # <<>>
        /\ worker_queues' = [worker_queues EXCEPT ![v] = Tail(@)] /\ queue' = queue
        /\ worker' = [worker EXCEPT ![w] = "run"]
        /\ fate' = [fate EXCEPT ![j] = "running"]
        /\ worker[v] # "dead"
    BY <1>11 DEF TakeLocalJob, HasLocalJob, MayTakeJob, Claim, Registered
  <2>2. worker_queues[v] \in Seq(Jobs) /\ IsInjective(worker_queues[v])
    BY DEF TypeInv, JobInv, QueueInv
  <2>3. /\ j \in Range(worker_queues[v])
        /\ Range(Tail(worker_queues[v])) = Range(worker_queues[v]) \ {j}
        /\ IsInjective(Tail(worker_queues[v]))
    BY <2>1, <2>2, TailQueue
  <2>4. j \in Jobs /\ fate[j] = "queued"
    BY <2>2, <2>3, RangeType DEF JobInv, QueueInv, InQueue
  <2>. HIDE DEF j
  <2>5. RunInv' /\ DrainInv'
    BY <1>10, <2>1, <2>4
  <2>6. /\ \A u \in Workers \ {v} : worker_queues'[u] = worker_queues[u]
        /\ Range(worker_queues'[v]) = Range(worker_queues[v]) \ {j}
        /\ IsInjective(worker_queues'[v])
        /\ \A i \in Jobs \ {j} : fate'[i] = fate[i]
        /\ fate'[j] = "running"
        /\ \A u \in Workers : worker'[u] = "dead" => worker[u] = "dead"
    BY <2>1, <2>3, <2>4 DEF TypeInv
  <2>7. \A x \in Jobs : InQueue(x)' <=> InQueue(x) /\ x # j
    <3>1. j \notin Range(queue) /\ \A u \in Workers \ {v} : j \notin Range(worker_queues[u])
      BY <2>3 DEF JobInv, QueueInv
    <3>. QED
      BY <2>1, <2>6, <3>1 DEF InQueue
  <2>8. \A x \in Jobs : fate'[x] = "queued" <=> InQueue(x)'
    BY <2>6, <2>7 DEF JobInv, QueueInv
  <2>9. ASSUME NEW u \in Workers
        PROVE  /\ IsInjective(worker_queues'[u])
               /\ worker'[u] = "dead" => worker_queues'[u] = <<>>
               /\ Range(queue') \cap Range(worker_queues'[u]) = {}
    BY <2>1, <2>6 DEF JobInv, QueueInv
  <2>10. ASSUME NEW x \in Workers, NEW u \in Workers \ {x}
         PROVE  Range(worker_queues'[u]) \cap Range(worker_queues'[x]) = {}
    BY <2>6 DEF JobInv, QueueInv
  <2>11. QueueInv'
    BY <2>1, <2>8, <2>9, <2>10 DEF JobInv, QueueInv
  <2>. QED
    BY <2>5, <2>11 DEF JobInv
<1>12. ASSUME NEW w \in Workers, TakeGlobalJob(w)
       PROVE  JobInv'
  <2>. DEFINE j == Head(queue)
  <2>1. /\ Claim(w, j) /\ AtMonitor(w) /\ queue # <<>>
        /\ queue' = Tail(queue) /\ worker_queues' = worker_queues
        /\ worker' = [worker EXCEPT ![w] = "run"]
        /\ fate' = [fate EXCEPT ![j] = "running"]
    BY <1>12 DEF TakeGlobalJob, MayTakeJob, Claim
  <2>2. queue \in Seq(Jobs) /\ IsInjective(queue)
    BY DEF TypeInv, JobInv, QueueInv
  <2>3. /\ j \in Range(queue) /\ Range(queue') = Range(queue) \ {j} /\ IsInjective(queue')
    BY <2>1, <2>2, TailQueue
  <2>4. j \in Jobs /\ fate[j] = "queued"
    BY <2>2, <2>3, RangeType DEF JobInv, QueueInv, InQueue
  <2>. HIDE DEF j
  <2>5. RunInv' /\ DrainInv'
    BY <1>10, <2>1, <2>4
  <2>6. \A x \in Jobs : InQueue(x)' <=> InQueue(x) /\ x # j
    BY <2>1, <2>3 DEF InQueue, JobInv, QueueInv
  <2>7. \A x \in Jobs : fate'[x] = "queued" <=> InQueue(x)'
    BY <2>1, <2>4, <2>6 DEF JobInv, QueueInv, TypeInv
  <2>8. ASSUME NEW u \in Workers
        PROVE  /\ IsInjective(worker_queues'[u])
               /\ worker'[u] = "dead" => worker_queues'[u] = <<>>
               /\ Range(queue') \cap Range(worker_queues'[u]) = {}
    BY <2>1, <2>3 DEF JobInv, QueueInv, TypeInv
  <2>9. QueueInv'
    BY <2>1, <2>3, <2>7, <2>8 DEF JobInv, QueueInv
  <2>. QED
    BY <2>5, <2>9 DEF JobInv
<1>13. ASSUME NEW w \in Workers, ExitWorker(w)
       PROVE  JobInv'
  <2>1. /\ queue' = queue \o worker_queues[w]
        /\ worker_queues' = [worker_queues EXCEPT ![w] = <<>>]
        /\ UNCHANGED <<held, drained, fate>> /\ AtMonitor(w)
    BY <1>13 DEF ExitWorker
  <2>2. /\ \A v \in Workers \ {w} :
             worker'[v] = worker[v] \/ (worker[v] \in Waiting /\ worker'[v] = "woken")
        /\ worker'[w] = "dead"
        /\ \A d \in Clients : caller[d] = "cancel" => caller'[d] = "cancel"
    <3>. DEFINE ws == [worker EXCEPT ![w] = "dead"]
    <3>1. \/ worker' = ws /\ caller' = caller
          \/ worker' = Woken(ws) /\ caller' = Woken(caller)
      BY <1>13 DEF ExitWorker, NotifyIfTerminated, NotifyAllFrom
    <3>2. /\ DOMAIN ws = Workers /\ ws[w] = "dead"
          /\ \A v \in Workers \ {w} : ws[v] = worker[v]
      BY DEF TypeInv
    <3>3. DOMAIN caller = Clients
      BY DEF TypeInv
    <3>. HIDE DEF ws
    <3>4. /\ \A v \in Workers : worker'[v] = ws[v] \/ (ws[v] \in Waiting /\ worker'[v] = "woken")
          /\ \A d \in Clients : caller'[d] = caller[d] \/ caller[d] \in Waiting
      BY <3>1, <3>2, <3>3, NotifiedKeeps
    <3>. QED
      BY <3>2, <3>4 DEF Waiting
  <2>3. RunInv' /\ DrainInv'
    BY <2>1, <2>2, RunKept, DrainKept DEF JobInv, AtMonitor, Waiting
  <2>4. /\ Range(queue') = Range(queue) \cup Range(worker_queues[w])
        /\ IsInjective(queue')
    BY <2>1, ConcatQueues DEF TypeInv, JobInv, QueueInv
  <2>5. /\ worker_queues'[w] = <<>>
        /\ \A v \in Workers \ {w} : worker_queues'[v] = worker_queues[v]
    BY <2>1 DEF TypeInv
  <2>6. \A x \in Jobs : InQueue(x)' <=> InQueue(x)
    BY <2>4, <2>5, EmptyQueue DEF InQueue
  <2>7. ASSUME NEW u \in Workers
        PROVE  /\ IsInjective(worker_queues'[u])
               /\ worker'[u] = "dead" => worker_queues'[u] = <<>>
               /\ Range(queue') \cap Range(worker_queues'[u]) = {}
    <3>1. CASE u = w
      BY <2>5, <3>1, EmptyQueue
    <3>2. CASE u # w
      BY <2>2, <2>4, <2>5, <3>2 DEF JobInv, QueueInv, Waiting
    <3>. QED
      BY <3>1, <3>2
  <2>8. ASSUME NEW x \in Workers, NEW u \in Workers \ {x}
        PROVE  Range(worker_queues'[u]) \cap Range(worker_queues'[x]) = {}
    BY <2>5, EmptyQueue DEF JobInv, QueueInv
  <2>9. QueueInv'
    BY <2>1, <2>4, <2>6, <2>7, <2>8 DEF JobInv, QueueInv
  <2>. QED
    BY <2>3, <2>9 DEF JobInv
<1>14. ASSUME NEW w \in Workers, RunJob(w)
       PROVE  JobInv'
  <2>1. held[w] \in Jobs /\ fate[held[w]] = "running" /\ worker[w] = "run"
    BY <1>14 DEF RunJob, JobInv, RunInv
  <2>2. PICK x \in {"crashed", "finish"}, y \in {"panicked", "completed"} :
          worker' = [worker EXCEPT ![w] = x] /\ fate' = [fate EXCEPT ![held[w]] = y]
    BY <1>14 DEF RunJob
  <2>3. UNCHANGED <<queue, worker_queues, held, caller, drained>>
    BY <1>14 DEF RunJob, queues
  <2>4. QueueInv' /\ DrainInv'
    BY <2>1, <2>2, <2>3, QueueKept, DrainKept DEF JobInv, TypeInv
  <2>5. RunInv'
    BY <2>1, <2>2, <2>3 DEF JobInv, RunInv, TypeInv
  <2>. QED
    BY <2>4, <2>5 DEF JobInv
<1>15. ASSUME NEW w \in Workers, FinishRunningJob(w)
       PROVE  JobInv'
  <2>1. /\ UNCHANGED <<queue, worker_queues, drained, fate>>
        /\ worker[w] = "finish"
        /\ \A v \in Workers \ {w} : held'[v] = held[v]
    BY <1>15 DEF FinishRunningJob, TypeInv, queues
  <2>2. /\ \A v \in Workers \ {w} :
             worker'[v] = worker[v] \/ (worker[v] \in Waiting /\ worker'[v] = "woken")
        /\ worker'[w] \in {"seek", "crashed"}
        /\ \A d \in Clients : caller[d] = "cancel" => caller'[d] = "cancel"
    <3>. DEFINE ws == [worker EXCEPT ![w] = "seek"]
    <3>1. \/ worker' = ws /\ caller' = caller
          \/ worker' = Woken(ws) /\ caller' = Woken(caller)
          \/ worker' = [worker EXCEPT ![w] = "crashed"] /\ caller' = caller
      <4>1. CASE running_tasks > 0
        <5>1. NotifyIfTerminated(ws, caller)
          BY <1>15, <4>1 DEF FinishRunningJob
        <5>. QED
          BY <5>1 DEF NotifyIfTerminated, NotifyAllFrom
      <4>2. CASE ~(running_tasks > 0)
        BY <1>15, <4>2 DEF FinishRunningJob
      <4>. QED
        BY <4>1, <4>2
    <3>2. /\ DOMAIN ws = Workers /\ ws[w] = "seek"
          /\ \A v \in Workers \ {w} : ws[v] = worker[v]
      BY DEF TypeInv
    <3>3. DOMAIN caller = Clients
      BY DEF TypeInv
    <3>4. CASE worker' = [worker EXCEPT ![w] = "crashed"] /\ caller' = caller
      BY <3>4 DEF TypeInv
    <3>5. CASE \/ worker' = ws /\ caller' = caller
               \/ worker' = Woken(ws) /\ caller' = Woken(caller)
      <4>. HIDE DEF ws
      <4>1. /\ \A v \in Workers : worker'[v] = ws[v] \/ (ws[v] \in Waiting /\ worker'[v] = "woken")
            /\ \A d \in Clients : caller'[d] = caller[d] \/ caller[d] \in Waiting
        BY <3>2, <3>3, <3>5, NotifiedKeeps
      <4>. QED
        BY <3>2, <4>1 DEF Waiting
    <3>. QED
      BY <3>1, <3>4, <3>5
  <2>. QED
    BY <2>1, <2>2, JobsKept DEF Waiting
<1>16. ASSUME NEW w \in Workers, GoIdle(w) \/ KeepAliveExpires(w) \/ SpuriousWakeup(w)
       PROVE  JobInv'
  <2>1. /\ UNCHANGED <<queue, worker_queues, drained, fate, caller, held>>
        /\ worker[w] # "run"
        /\ \E x \in {"wait", "timed_wait", "woken", "timed_out"} : worker' = [worker EXCEPT ![w] = x]
    BY <1>16 DEF GoIdle, MayTakeJob, AtMonitor, KeepAliveExpires, SpuriousWakeup, Waiting, queues
  <2>. QED
    BY <2>1, JobsKept DEF TypeInv
<1>. QED
  BY <1>1, <1>2, <1>3, <1>4, <1>5, <1>6, <1>7, <1>8, <1>9, <1>11, <1>12, <1>13, <1>14,
     <1>15, <1>16, NextCases DEF ClientAction, WorkerAction

-----------------------------------------------------------------------------
(* The statistics count jobs.                                              *)

Accepted == Fates \ {"new", "rejected", "withdrawn"}
Started == {"running", "completed", "panicked"}
Dropped == {"drained", "cancelled"}

StatsInv ==
    /\ queued_tasks = Count(Jobs, fate, {"queued"})
    /\ submitted_tasks = Count(Jobs, fate, Accepted)
    /\ cancelled_tasks = Count(Jobs, fate, Dropped)
    /\ NoPrestartFailures => running_tasks + completed_tasks = Count(Jobs, fate, Started)

LEMMA TallyType == \A S : Count(Jobs, fate, S) \in Nat
BY CountType, ConstantsAssumption

LEMMA FateMove ==
    ASSUME TypeInv, NEW j \in Jobs, NEW y \in Fates, fate' = [fate EXCEPT ![j] = y], NEW S
    PROVE  Count(Jobs, fate', S) = Count(Jobs, fate, S) + Chi(y, S) - Chi(fate[j], S)
<1>1. fate'[j] = y /\ \A i \in Jobs \ {j} : fate'[i] = fate[i]
  BY DEF TypeInv
<1>2. IsFiniteSet(Jobs)
  BY ConstantsAssumption
<1>. DEFINE g == fate'
<1>3. g[j] = y /\ \A i \in Jobs \ {j} : g[i] = fate[i]
  BY <1>1
<1>. HIDE DEF g
<1>4. Count(Jobs, g, S) = Count(Jobs, fate, S) + Chi(g[j], S) - Chi(fate[j], S)
  BY <1>2, <1>3, CountUpdate
<1>. QED
  BY <1>3, <1>4 DEF g

LEMMA FatesMove ==
    ASSUME TypeInv, NEW j \in Jobs, NEW y \in Fates, fate' = [fate EXCEPT ![j] = y]
    PROVE  /\ Count(Jobs, fate', {"queued"}) =
                Count(Jobs, fate, {"queued"}) + Chi(y, {"queued"}) - Chi(fate[j], {"queued"})
           /\ Count(Jobs, fate', Accepted) =
                Count(Jobs, fate, Accepted) + Chi(y, Accepted) - Chi(fate[j], Accepted)
           /\ Count(Jobs, fate', Dropped) =
                Count(Jobs, fate, Dropped) + Chi(y, Dropped) - Chi(fate[j], Dropped)
           /\ Count(Jobs, fate', Started) =
                Count(Jobs, fate, Started) + Chi(y, Started) - Chi(fate[j], Started)
BY FateMove

LEMMA CountSum ==
    ASSUME NEW D, IsFiniteSet(D), NEW f, NEW S, NEW T, S \cap T = {}
    PROVE  Count(D, f, S \cup T) = Count(D, f, S) + Count(D, f, T)
<1>. DEFINE F == {x \in D : f[x] \in S}
            G == {x \in D : f[x] \in T}
            H == {x \in D : f[x] \in S \cup T}
<1>1. IsFiniteSet(F) /\ IsFiniteSet(G) /\ Cardinality(F) \in Nat /\ Cardinality(G) \in Nat
  <2>1. F \in SUBSET D /\ G \in SUBSET D
    OBVIOUS
  <2>. QED
    BY <2>1, FS_Subset, FS_CardinalityType
<1>2. H = F \cup G /\ F \cap G = {}
  OBVIOUS
<1>3. Cardinality(F \cap G) = 0
  BY <1>2, FS_EmptySet
<1>. HIDE DEF F, G, H
<1>4. Cardinality(F \cup G) = Cardinality(F) + Cardinality(G) - Cardinality(F \cap G)
  BY <1>1, FS_Union
<1>5. Cardinality(H) = Cardinality(F) + Cardinality(G)
  BY <1>1, <1>2, <1>3, <1>4
<1>. QED
  BY <1>5 DEF Count, F, G, H

LEMMA StatsInit == Init => StatsInv
<1>. SUFFICES ASSUME Init PROVE StatsInv
  OBVIOUS
<1>1. ASSUME NEW S, "new" \notin S PROVE Count(Jobs, fate, S) = 0
  BY <1>1, CountZero, ConstantsAssumption DEF Init
<1>2. Count(Jobs, fate, {"queued"}) = 0 /\ Count(Jobs, fate, Accepted) = 0 /\ Count(Jobs, fate, Dropped) = 0 /\ Count(Jobs, fate, Started) = 0
  BY <1>1 DEF Accepted, Dropped, Started
<1>. QED
  BY <1>2 DEF Init, StatsInv

LEMMA StatsKept ==
    ASSUME StatsInv, UNCHANGED <<fate, queued_tasks, submitted_tasks, cancelled_tasks>>,
           NoPrestartFailures => running_tasks' + completed_tasks' = running_tasks + completed_tasks
    PROVE  StatsInv'
BY DEF StatsInv

(* One job moves on, and the counters with it.                             *)
LEMMA StatsMove ==
    ASSUME TypeInv, StatsInv, NEW j \in Jobs, NEW y \in Fates, fate' = [fate EXCEPT ![j] = y],
           queued_tasks' = queued_tasks + Chi(y, {"queued"}) - Chi(fate[j], {"queued"}),
           submitted_tasks' = submitted_tasks + Chi(y, Accepted) - Chi(fate[j], Accepted),
           cancelled_tasks' = cancelled_tasks + Chi(y, Dropped) - Chi(fate[j], Dropped),
           NoPrestartFailures =>
               running_tasks' + completed_tasks' =
                   (running_tasks + completed_tasks) + Chi(y, Started) - Chi(fate[j], Started)
    PROVE  StatsInv'
BY FatesMove DEF StatsInv

LEMMA StatsStep == TypeInv /\ ThreadInv /\ JobInv /\ StatsInv /\ [Next]_vars => StatsInv'
<1>. SUFFICES ASSUME TypeInv, ThreadInv, JobInv, StatsInv, [Next]_vars PROVE StatsInv'
  OBVIOUS
<1>. USE ConstantsAssumption
<1>0. /\ queued_tasks \in Int /\ running_tasks \in Nat /\ submitted_tasks \in Nat
      /\ completed_tasks \in Nat /\ cancelled_tasks \in Int
      /\ Count(Jobs, fate, {"queued"}) \in Nat /\ Count(Jobs, fate, Accepted) \in Nat
      /\ Count(Jobs, fate, Dropped) \in Nat /\ Count(Jobs, fate, Started) \in Nat
  BY TallyType DEF TypeInv
<1>1. CASE UNCHANGED vars
  BY <1>1, StatsKept DEF vars, queues, counters
<1>2. ASSUME NEW c \in Clients, NEW j \in Jobs, SubmitRejected(c, j) \/ SubmitSpawnFails(c, j)
      PROVE  StatsInv'
  <2>1. /\ UNCHANGED <<queued_tasks, submitted_tasks, completed_tasks, cancelled_tasks, running_tasks>>
        /\ fate[j] = "new" /\ fate' = [fate EXCEPT ![j] = "rejected"]
    BY <1>0, <1>2 DEF SubmitRejected, SubmitSpawnFails, Submitting, Reject, SpawnFails, queues, counters
  <2>move. /\ "rejected" \in Fates
           /\ queued_tasks' = queued_tasks + Chi("rejected", {"queued"}) - Chi(fate[j], {"queued"})
           /\ submitted_tasks' = submitted_tasks + Chi("rejected", Accepted) - Chi(fate[j], Accepted)
           /\ cancelled_tasks' = cancelled_tasks + Chi("rejected", Dropped) - Chi(fate[j], Dropped)
           /\ NoPrestartFailures =>
                running_tasks' + completed_tasks' =
                  (running_tasks + completed_tasks) + Chi("rejected", Started) - Chi(fate[j], Started)
    BY <1>0, <2>1 DEF Chi, Accepted, Dropped, Started, Fates
  <2>. QED
    BY <2>1, <2>move, StatsMove
<1>3. ASSUME NEW c \in Clients, NEW j \in Jobs, SubmitToNewWorker(c, j)
      PROVE  StatsInv'
  <2>1. /\ UNCHANGED <<queued_tasks, completed_tasks, cancelled_tasks>>
        /\ submitted_tasks' = submitted_tasks + 1 /\ running_tasks' = running_tasks + 1
        /\ fate[j] = "new" /\ fate' = [fate EXCEPT ![j] = "running"]
    BY <1>3 DEF SubmitToNewWorker, Submitting, SpawnWorker, queues
  <2>move. /\ "running" \in Fates
           /\ queued_tasks' = queued_tasks + Chi("running", {"queued"}) - Chi(fate[j], {"queued"})
           /\ submitted_tasks' = submitted_tasks + Chi("running", Accepted) - Chi(fate[j], Accepted)
           /\ cancelled_tasks' = cancelled_tasks + Chi("running", Dropped) - Chi(fate[j], Dropped)
           /\ NoPrestartFailures =>
                running_tasks' + completed_tasks' =
                  (running_tasks + completed_tasks) + Chi("running", Started) - Chi(fate[j], Started)
    BY <1>0, <2>1 DEF Chi, Accepted, Dropped, Started, Fates
  <2>. QED
    BY <2>1, <2>move, StatsMove
<1>4. ASSUME NEW c \in Clients, NEW j \in Jobs, SubmitQueued(c, j)
      PROVE  StatsInv'
  <2>1. /\ UNCHANGED <<completed_tasks, cancelled_tasks, running_tasks>>
        /\ submitted_tasks' = submitted_tasks + 1 /\ queued_tasks' = queued_tasks + 1
        /\ fate[j] = "new" /\ fate' = [fate EXCEPT ![j] = "queued"]
    BY <1>4 DEF SubmitQueued, Submitting, SpawnWorker
  <2>move. /\ "queued" \in Fates
           /\ queued_tasks' = queued_tasks + Chi("queued", {"queued"}) - Chi(fate[j], {"queued"})
           /\ submitted_tasks' = submitted_tasks + Chi("queued", Accepted) - Chi(fate[j], Accepted)
           /\ cancelled_tasks' = cancelled_tasks + Chi("queued", Dropped) - Chi(fate[j], Dropped)
           /\ NoPrestartFailures =>
                running_tasks' + completed_tasks' =
                  (running_tasks + completed_tasks) + Chi("queued", Started) - Chi(fate[j], Started)
    BY <1>0, <2>1 DEF Chi, Accepted, Dropped, Started, Fates
  <2>. QED
    BY <2>1, <2>move, StatsMove
<1>5. ASSUME NEW c \in Clients, NEW j \in Jobs, SubmitWithdrawn(c, j)
      PROVE  StatsInv'
  <2>1. /\ UNCHANGED <<queued_tasks, submitted_tasks, completed_tasks, cancelled_tasks>>
        /\ fate[j] = "new" /\ fate' = [fate EXCEPT ![j] = "withdrawn"]
    BY <1>5 DEF SubmitWithdrawn, Submitting, queues, counters
  <2>2. NoPrestartFailures => UNCHANGED running_tasks
    <3>1. Hold = 0
      BY <1>5, NobodyHolds DEF ThreadInv, SubmitWithdrawn
    <3>2. running_tasks = 0 => running_tasks' = 0
      BY <1>5 DEF SubmitWithdrawn, SpawnFails
    <3>. QED
      BY <3>1, <3>2 DEF ThreadInv
  <2>move. /\ "withdrawn" \in Fates
           /\ queued_tasks' = queued_tasks + Chi("withdrawn", {"queued"}) - Chi(fate[j], {"queued"})
           /\ submitted_tasks' = submitted_tasks + Chi("withdrawn", Accepted) - Chi(fate[j], Accepted)
           /\ cancelled_tasks' = cancelled_tasks + Chi("withdrawn", Dropped) - Chi(fate[j], Dropped)
           /\ NoPrestartFailures =>
                running_tasks' + completed_tasks' =
                  (running_tasks + completed_tasks) + Chi("withdrawn", Started) - Chi(fate[j], Started)
    BY <1>0, <2>1, <2>2 DEF Chi, Accepted, Dropped, Started, Fates
  <2>. QED
    BY <2>1, <2>2, <2>move, StatsMove
<1>6. ASSUME NEW c \in Clients,
             \/ NotifyOne(c) \/ NotifyAll(c) \/ Shutdown(c) \/ PrestartAll(c)
             \/ AwaitTermination(c) \/ SpuriousReturn(c)
             \/ \E n \in CoreSizes : SetCorePoolSize(c, n)
             \/ \E n \in MaxSizes : SetMaximumPoolSize(c, n)
             \/ SetKeepAlive(c)
             \/ \E allow \in BOOLEAN : AllowCoreThreadTimeout(c, allow)
      PROVE  StatsInv'
  <2>1. UNCHANGED <<fate, queued_tasks, submitted_tasks, completed_tasks, cancelled_tasks, running_tasks>>
    BY <1>6 DEF NotifyOne, NotifyAll, Shutdown, PrestartAll, AwaitTermination, SpuriousReturn,
       SetCorePoolSize, SetMaximumPoolSize, SetKeepAlive, AllowCoreThreadTimeout, Reconfigured,
       queues, counters
  <2>. QED
    BY <2>1, StatsKept
<1>7. ASSUME NEW c \in Clients, PrestartOne(c) \/ PrestartNext(c)
      PROVE  StatsInv'
  <2>1. PICK next \in {"idle", "prestart"} : PrestartCoreThread(c, next)
    BY <1>7 DEF PrestartOne, PrestartNext
  <2>2. UNCHANGED <<fate, queued_tasks, submitted_tasks, completed_tasks, cancelled_tasks>>
    BY <2>1 DEF PrestartCoreThread, queues, counters
  <2>3. NoPrestartFailures => UNCHANGED running_tasks
    BY <2>1 DEF PrestartCoreThread, SpawnWorker, NoPrestartFailures
  <2>. QED
    BY <2>2, <2>3, StatsKept
<1>8. ASSUME NEW c \in Clients, CancelJob(c)
      PROVE  StatsInv'
  <2>1. PICK j \in drained[c], y \in {"rejected", "cancelled"} :
          /\ fate' = [fate EXCEPT ![j] = y]
          /\ fate[j] = "withdrawn" <=> y = "rejected"
    BY <1>8 DEF CancelJob
  <2>2. j \in Jobs /\ fate[j] \in {"drained", "withdrawn"}
    BY DEF JobInv, DrainInv, TypeInv
  <2>3. UNCHANGED <<queued_tasks, submitted_tasks, completed_tasks, cancelled_tasks, running_tasks>>
    BY <1>8 DEF CancelJob, queues, counters
  <2>move. /\ y \in Fates
           /\ queued_tasks' = queued_tasks + Chi(y, {"queued"}) - Chi(fate[j], {"queued"})
           /\ submitted_tasks' = submitted_tasks + Chi(y, Accepted) - Chi(fate[j], Accepted)
           /\ cancelled_tasks' = cancelled_tasks + Chi(y, Dropped) - Chi(fate[j], Dropped)
           /\ NoPrestartFailures =>
                running_tasks' + completed_tasks' =
                  (running_tasks + completed_tasks) + Chi(y, Started) - Chi(fate[j], Started)
    BY <1>0, <2>1, <2>2, <2>3 DEF Chi, Accepted, Dropped, Started, Fates
  <2>. QED
    BY <2>1, <2>2, <2>3, <2>move, StatsMove
<1>9. ASSUME NEW c \in Clients, ShutdownNow(c)
      PROVE  StatsInv'
  <2>1. /\ queued_tasks' = 0 /\ cancelled_tasks' = cancelled_tasks + queued_tasks
        /\ UNCHANGED <<running_tasks, submitted_tasks, completed_tasks>>
    BY <1>9 DEF ShutdownNow
  <2>2. \A j \in Jobs : fate'[j] = IF fate[j] = "queued" THEN "drained" ELSE fate[j]
    <3>. DEFINE jobs == Range(queue) \cup UNION {Range(worker_queues[w]) : w \in Registered}
    <3>1. \A j : j \in jobs <=> InQueue(j)
      BY EmptyQueue DEF JobInv, QueueInv, InQueue, Registered
    <3>2. fate' = [j \in Jobs |-> IF j \in jobs THEN "drained" ELSE fate[j]]
      BY <1>9 DEF ShutdownNow
    <3>. HIDE DEF jobs
    <3>. QED
      BY <3>1, <3>2 DEF JobInv, QueueInv
  <2>3. Count(Jobs, fate', {"queued"}) = 0
    <3>1. \A j \in Jobs : fate'[j] \notin {"queued"}
      BY <2>2
    <3>. QED
      BY <3>1, CountZero
  <2>4. Count(Jobs, fate', Accepted) = Count(Jobs, fate, Accepted)
    <3>1. {j \in Jobs : fate'[j] \in Accepted} = {j \in Jobs : fate[j] \in Accepted}
      BY <2>2 DEF Accepted, Fates
    <3>. QED
      BY <3>1 DEF Count
  <2>5. Count(Jobs, fate', Started) = Count(Jobs, fate, Started)
    <3>1. {j \in Jobs : fate'[j] \in Started} = {j \in Jobs : fate[j] \in Started}
      BY <2>2 DEF Started
    <3>. QED
      BY <3>1 DEF Count
  <2>6. Count(Jobs, fate', Dropped) = Count(Jobs, fate, Dropped) + Count(Jobs, fate, {"queued"})
    <3>1. {j \in Jobs : fate'[j] \in Dropped} = {j \in Jobs : fate[j] \in Dropped \cup {"queued"}}
      BY <2>2 DEF Dropped
    <3>2. Count(Jobs, fate', Dropped) = Count(Jobs, fate, Dropped \cup {"queued"})
      BY <3>1 DEF Count
    <3>3. Dropped \cap {"queued"} = {}
      BY DEF Dropped
    <3>. QED
      BY <3>2, <3>3, CountSum
  <2>. QED
    BY <1>0, <2>1, <2>3, <2>4, <2>5, <2>6 DEF StatsInv
<1>10. ASSUME NEW w \in Workers, NEW j, Claim(w, j), InQueue(j)
       PROVE  StatsInv'
  <2>1. j \in Jobs /\ fate[j] = "queued"
    BY <1>10, RangeType DEF JobInv, QueueInv, InQueue, TypeInv
  <2>2. /\ queued_tasks' = queued_tasks - 1 /\ running_tasks' = running_tasks + 1
        /\ UNCHANGED <<submitted_tasks, completed_tasks, cancelled_tasks>>
        /\ fate' = [fate EXCEPT ![j] = "running"]
    BY <1>10 DEF Claim, counters
  <2>move. /\ "running" \in Fates
           /\ queued_tasks' = queued_tasks + Chi("running", {"queued"}) - Chi(fate[j], {"queued"})
           /\ submitted_tasks' = submitted_tasks + Chi("running", Accepted) - Chi(fate[j], Accepted)
           /\ cancelled_tasks' = cancelled_tasks + Chi("running", Dropped) - Chi(fate[j], Dropped)
           /\ NoPrestartFailures =>
                running_tasks' + completed_tasks' =
                  (running_tasks + completed_tasks) + Chi("running", Started) - Chi(fate[j], Started)
    BY <1>0, <2>1, <2>2 DEF Chi, Accepted, Dropped, Started, Fates
  <2>. QED
    BY <2>1, <2>2, <2>move, StatsMove
<1>11. ASSUME NEW w \in Workers, (\E v \in Workers : TakeLocalJob(w, v)) \/ TakeGlobalJob(w)
       PROVE  StatsInv'
  <2>1. ASSUME NEW v \in Workers, TakeLocalJob(w, v)
        PROVE  StatsInv'
    <3>1. InQueue(Head(worker_queues[v]))
      BY <2>1, TailQueue DEF TakeLocalJob, HasLocalJob, InQueue, TypeInv, JobInv, QueueInv
    <3>. QED
      BY <1>10, <2>1, <3>1 DEF TakeLocalJob
  <2>2. ASSUME TakeGlobalJob(w)
        PROVE  StatsInv'
    <3>1. InQueue(Head(queue))
      BY <2>2, TailQueue DEF TakeGlobalJob, InQueue, TypeInv, JobInv, QueueInv
    <3>. QED
      BY <1>10, <2>2, <3>1 DEF TakeGlobalJob
  <2>. QED
    BY <1>11, <2>1, <2>2
<1>12. ASSUME NEW w \in Workers,
              GoIdle(w) \/ ExitWorker(w) \/ KeepAliveExpires(w) \/ SpuriousWakeup(w)
       PROVE  StatsInv'
  <2>1. UNCHANGED <<fate, queued_tasks, submitted_tasks, completed_tasks, cancelled_tasks, running_tasks>>
    BY <1>12 DEF GoIdle, ExitWorker, KeepAliveExpires, SpuriousWakeup, queues, counters
  <2>. QED
    BY <2>1, StatsKept
<1>13. ASSUME NEW w \in Workers, RunJob(w)
       PROVE  StatsInv'
  <2>1. held[w] \in Jobs /\ fate[held[w]] = "running"
    BY <1>13 DEF RunJob, JobInv, RunInv
  <2>2. PICK y \in {"panicked", "completed"} : fate' = [fate EXCEPT ![held[w]] = y]
    BY <1>13 DEF RunJob
  <2>3. UNCHANGED <<queued_tasks, submitted_tasks, completed_tasks, cancelled_tasks, running_tasks>>
    BY <1>13 DEF RunJob, queues, counters
  <2>move. /\ y \in Fates
           /\ queued_tasks' = queued_tasks + Chi(y, {"queued"}) - Chi(fate[held[w]], {"queued"})
           /\ submitted_tasks' = submitted_tasks + Chi(y, Accepted) - Chi(fate[held[w]], Accepted)
           /\ cancelled_tasks' = cancelled_tasks + Chi(y, Dropped) - Chi(fate[held[w]], Dropped)
           /\ NoPrestartFailures =>
                running_tasks' + completed_tasks' =
                  (running_tasks + completed_tasks) + Chi(y, Started) - Chi(fate[held[w]], Started)
    BY <1>0, <2>1, <2>2, <2>3 DEF Chi, Accepted, Dropped, Started, Fates
  <2>. QED
    BY <2>1, <2>2, <2>3, <2>move, StatsMove
<1>14. ASSUME NEW w \in Workers, FinishRunningJob(w)
       PROVE  StatsInv'
  <2>1. /\ UNCHANGED <<fate, queued_tasks, submitted_tasks, cancelled_tasks>>
        /\ running_tasks' + completed_tasks' = running_tasks + completed_tasks
    BY <1>0, <1>14 DEF FinishRunningJob, queues
  <2>. QED
    BY <2>1, StatsKept
<1>. QED
  BY <1>1, <1>2, <1>3, <1>4, <1>5, <1>6, <1>7, <1>8, <1>9, <1>11, <1>12, <1>13, <1>14,
     NextCases DEF ClientAction, WorkerAction

-----------------------------------------------------------------------------
(* What a worker finds.  A pool that is stopping has nothing queued, and   *)
(* the local queues of an unbounded pool are never used.                   *)

FindInv ==
    /\ lifecycle = "Stopping" => \A j \in Jobs : fate[j] # "queued"
    /\ ~IsBounded => \A w \in Workers : worker_queues[w] = <<>>

LEMMA FindStep == TypeInv /\ JobInv /\ FindInv /\ [Next]_vars => FindInv'
<1>. SUFFICES ASSUME TypeInv, JobInv, FindInv, [Next]_vars PROVE FindInv'
  OBVIOUS
<1>1. ASSUME UNCHANGED <<lifecycle, worker_queues>>,
             \A j \in Jobs : fate'[j] = "queued" => fate[j] = "queued"
      PROVE  FindInv'
  BY <1>1 DEF FindInv
<1>2. CASE UNCHANGED vars
  BY <1>1, <1>2 DEF vars, queues
<1>3. ASSUME NEW c \in Clients, NEW j \in Jobs,
             \/ SubmitRejected(c, j) \/ SubmitToNewWorker(c, j) \/ SubmitSpawnFails(c, j)
             \/ SubmitWithdrawn(c, j)
      PROVE  FindInv'
  <2>1. /\ UNCHANGED <<lifecycle, worker_queues>>
        /\ \E y \in {"rejected", "running", "withdrawn"} : fate' = [fate EXCEPT ![j] = y]
    BY <1>3 DEF SubmitRejected, SubmitToNewWorker, SubmitSpawnFails, SubmitWithdrawn, Reject, queues
  <2>. QED
    BY <1>1, <2>1 DEF TypeInv
<1>4. ASSUME NEW c \in Clients, NEW j \in Jobs, SubmitQueued(c, j)
      PROVE  FindInv'
  <2>1. lifecycle' = "Running" /\ (~IsBounded => UNCHANGED worker_queues)
    BY <1>4 DEF SubmitQueued, PushJob, UsesLocalQueue
  <2>. QED
    BY <2>1 DEF FindInv
<1>5. ASSUME NEW c \in Clients,
             \/ NotifyOne(c) \/ NotifyAll(c) \/ PrestartOne(c) \/ PrestartAll(c) \/ PrestartNext(c)
             \/ AwaitTermination(c) \/ SpuriousReturn(c)
             \/ \E n \in CoreSizes : SetCorePoolSize(c, n)
             \/ \E n \in MaxSizes : SetMaximumPoolSize(c, n)
             \/ SetKeepAlive(c)
             \/ \E allow \in BOOLEAN : AllowCoreThreadTimeout(c, allow)
      PROVE  FindInv'
  <2>1. UNCHANGED <<lifecycle, worker_queues, fate>>
    BY <1>5 DEF NotifyOne, NotifyAll, PrestartOne, PrestartNext, PrestartAll, PrestartCoreThread,
       AwaitTermination, SpuriousReturn, SetCorePoolSize, SetMaximumPoolSize, SetKeepAlive,
       AllowCoreThreadTimeout, Reconfigured, queues
  <2>. QED
    BY <1>1, <2>1
<1>6. ASSUME NEW c \in Clients, CancelJob(c)
      PROVE  FindInv'
  <2>1. /\ UNCHANGED <<lifecycle, worker_queues>>
        /\ \E j \in drained[c], y \in {"rejected", "cancelled"} : fate' = [fate EXCEPT ![j] = y]
    BY <1>6 DEF CancelJob, queues
  <2>. QED
    BY <1>1, <2>1 DEF TypeInv
<1>7. ASSUME NEW c \in Clients, Shutdown(c)
      PROVE  FindInv'
  BY <1>7 DEF FindInv, Shutdown, queues
<1>8. ASSUME NEW c \in Clients, ShutdownNow(c)
      PROVE  FindInv'
  <2>. DEFINE jobs == Range(queue) \cup UNION {Range(worker_queues[w]) : w \in Registered}
  <2>1. \A j : j \in jobs <=> InQueue(j)
    BY EmptyQueue DEF JobInv, QueueInv, InQueue, Registered
  <2>2. /\ fate' = [j \in Jobs |-> IF j \in jobs THEN "drained" ELSE fate[j]]
        /\ worker_queues' = [w \in Workers |-> IF w \in Registered THEN <<>> ELSE worker_queues[w]]
    BY <1>8 DEF ShutdownNow
  <2>. HIDE DEF jobs
  <2>. QED
    BY <2>1, <2>2 DEF FindInv, JobInv, QueueInv
<1>9. ASSUME NEW w \in Workers, NEW v \in Workers, TakeLocalJob(w, v)
      PROVE  FindInv'
  BY <1>9 DEF FindInv, TakeLocalJob, MayTakeJob, Claim
<1>10. ASSUME NEW w \in Workers, TakeGlobalJob(w)
       PROVE  FindInv'
  BY <1>10 DEF FindInv, TakeGlobalJob, MayTakeJob, Claim
<1>11. ASSUME NEW w \in Workers, ExitWorker(w)
       PROVE  FindInv'
  BY <1>11 DEF FindInv, ExitWorker, TypeInv
<1>12. ASSUME NEW w \in Workers, RunJob(w)
       PROVE  FindInv'
  <2>1. /\ UNCHANGED <<lifecycle, worker_queues>>
        /\ \E y \in {"panicked", "completed"} : fate' = [fate EXCEPT ![held[w]] = y]
    BY <1>12 DEF RunJob, queues
  <2>. QED
    BY <1>1, <2>1 DEF TypeInv
<1>13. ASSUME NEW w \in Workers,
              \/ GoIdle(w) \/ FinishRunningJob(w) \/ KeepAliveExpires(w) \/ SpuriousWakeup(w)
       PROVE  FindInv'
  <2>1. UNCHANGED <<lifecycle, worker_queues, fate>>
    BY <1>13 DEF GoIdle, FinishRunningJob, KeepAliveExpires, SpuriousWakeup, queues
  <2>. QED
    BY <1>1, <2>1
<1>. QED
  BY <1>2, <1>3, <1>4, <1>5, <1>6, <1>7, <1>8, <1>9, <1>10, <1>11, <1>12, <1>13, NextCases
     DEF ClientAction, WorkerAction

-----------------------------------------------------------------------------
PoolInv == TypeInv /\ ThreadInv /\ JobInv /\ StatsInv /\ FindInv

LEMMA PoolInvariance == Spec => []PoolInv
<1>1. Init => PoolInv
  BY TypeInit, ThreadInit, JobInit, StatsInit DEF PoolInv, FindInv, Init
<1>2. PoolInv /\ [Next]_vars => PoolInv'
  BY TypeStep, ThreadStep, JobStep, StatsStep, FindStep DEF PoolInv
<1>. QED
  BY <1>1, <1>2, PTL DEF Spec

(* No job is lost or duplicated on its way through the global queue, the   *)
(* local queues, thieves, exiting workers, failed submits and              *)
(* shutdown_now, for any number of threads and jobs, whatever jobs panic   *)
(* and whatever threads cannot be created.                                 *)
THEOREM EveryJobIsInOnePlace == Spec => []JobInOnePlace
<1>1. PoolInv => JobInOnePlace
  <2>. SUFFICES ASSUME PoolInv PROVE JobInOnePlace
    OBVIOUS
  <2>1. \A j \in Jobs : j \in QueuedJobs <=> InQueue(j)
    BY DEF QueuedJobs, InQueue
  <2>2. \A j \in Jobs : (\E c \in Clients : j \in drained[c]) <=>
                        (\E c \in Clients : caller[c] = "cancel" /\ j \in drained[c])
    BY DEF PoolInv, JobInv, DrainInv
  <2>. QED
    BY <2>1, <2>2 DEF PoolInv, JobInv, QueueInv, RunInv, DrainInv, JobInOnePlace
<1>. QED
  BY <1>1, PoolInvariance, PTL

(* The counters that stats() reports are exact, when prestart_core_thread  *)
(* never fails to create a thread: each job is counted once as submitted,  *)
(* queued, started and cancelled.                                          *)
THEOREM StatisticsAreExact ==
    ASSUME NoPrestartFailures
    PROVE  Spec => []StatsMatchFates
<1>1. PoolInv => StatsMatchFates
  <2>. SUFFICES ASSUME PoolInv PROVE StatsMatchFates
    OBVIOUS
  <2>1. Jobs \ JobsWith({"new", "rejected", "withdrawn"}) = {j \in Jobs : fate[j] \in Accepted}
    BY DEF PoolInv, TypeInv, JobsWith, Accepted
  <2>. QED
    BY <2>1 DEF PoolInv, StatsInv, StatsMatchFates, Count, JobsWith, Dropped, Started
<1>. QED
  BY <1>1, PoolInvariance, PTL

(* A pool that says it is terminated has nothing unsettled but jobs that a *)
(* shutdown_now has drained and is about to cancel.  No hypothesis on      *)
(* prestarts: a job that a failed one took out of running_tasks is held by *)
(* a worker, and no worker is live.                                        *)
THEOREM TerminationLeavesNoWork == Spec => []TerminatedLeavesOnlyDrained
<1>1. PoolInv => TerminatedLeavesOnlyDrained
  <2>. SUFFICES ASSUME PoolInv, IsTerminated, NEW j \in Jobs,
                       ServiceStatus(j) \in Service!Pending
                PROVE  /\ fate[j] = "drained"
                       /\ \E c \in Clients : caller[c] = "cancel" /\ j \in drained[c]
    BY DEF TerminatedLeavesOnlyDrained
  <2>0. TypeInv /\ ThreadInv /\ JobInv /\ StatsInv
    BY DEF PoolInv
  <2>1. fate[j] # "queued"
    <3>1. Count(Jobs, fate, {"queued"}) = 0
      BY <2>0 DEF StatsInv, IsTerminated
    <3>. QED
      BY <3>1, CountZero, ConstantsAssumption
  <2>2. fate[j] # "running"
    BY <2>0, TerminatedNoWorker DEF JobInv, RunInv, IsTerminated
  <2>3. fate[j] = "drained"
    BY <2>0, <2>1, <2>2 DEF TypeInv, Fates, ServiceStatus, Service!Pending
  <2>. QED
    BY <2>0, <2>3 DEF JobInv, DrainInv
<1>. QED
  BY <1>1, PoolInvariance, PTL

-----------------------------------------------------------------------------
(* The notification of submit is enough, where no client that waits for    *)
(* termination can take it and no worker is lost to a panic.               *)

AwakeStates == {"seek", "run", "finish", "woken", "timed_out"}

(* No worker has crashed and no client waits.                              *)
CalmInv ==
    /\ \A w \in Workers : worker[w] # "crashed"
    /\ \A c \in Clients : caller[c] \notin {"wait", "woken"}

NoticeInv ==
    queued_tasks > 0 =>
        \/ \E w \in Workers : worker[w] \in AwakeStates
        \/ /\ \E w \in Workers : worker[w] \in Waiting
           /\ \E c \in Clients : caller[c] = "notify_one"

LEMMA QueuedIsFound ==
    ASSUME PoolInv, queued_tasks > 0
    PROVE  ~NoJobToTake /\ lifecycle # "Stopping"
<1>1. PICK j \in Jobs : fate[j] = "queued"
  <2>1. Count(Jobs, fate, {"queued"}) # 0
    BY DEF PoolInv, StatsInv
  <2>2. ~(\A j \in Jobs : fate[j] \notin {"queued"})
    BY <2>1, CountZero, ConstantsAssumption
  <2>. QED
    BY <2>2
<1>2. InQueue(j)
  BY <1>1 DEF PoolInv, JobInv, QueueInv
<1>3. CASE j \in Range(queue)
  BY <1>1, <1>3, EmptyQueue DEF NoJobToTake, PoolInv, FindInv
<1>4. ASSUME NEW w \in Workers, j \in Range(worker_queues[w])
      PROVE  ~NoJobToTake /\ lifecycle # "Stopping"
  <2>1. worker_queues[w] # <<>>
    BY <1>4, EmptyQueue
  <2>2. IsBounded /\ HasLocalJob(w)
    BY <2>1 DEF PoolInv, FindInv, JobInv, QueueInv, HasLocalJob, Registered
  <2>. QED
    BY <1>1, <2>2 DEF NoJobToTake, PoolInv, FindInv
<1>. QED
  BY <1>2, <1>3, <1>4 DEF InQueue

LEMMA CalmStep ==
    ASSUME WaitingClients = {}, PanickingJobs = {}, NoPrestartFailures,
           PoolInv, CalmInv, [Next]_vars
    PROVE  CalmInv'
<1>. USE DEF PoolInv
<1>1. ASSUME \A w \in Workers : worker'[w] = "crashed" => worker[w] = "crashed",
             \A c \in Clients : caller'[c] \in {"wait", "woken"} => caller[c] \in {"wait", "woken"}
      PROVE  CalmInv'
  BY <1>1 DEF CalmInv
<1>2. CASE UNCHANGED vars
  BY <1>1, <1>2 DEF vars, threads
<1>3. ASSUME NEW c \in Clients, NEW j \in Jobs,
             \/ SubmitRejected(c, j) \/ SubmitToNewWorker(c, j) \/ SubmitSpawnFails(c, j)
             \/ SubmitQueued(c, j) \/ SubmitWithdrawn(c, j)
      PROVE  CalmInv'
  <2>1. \A w \in Workers : worker'[w] = "crashed" => worker[w] = "crashed"
    <3>1. \/ UNCHANGED worker
          \/ \E w \in Workers, x \in {"seek", "run"} : worker' = [worker EXCEPT ![w] = x]
      BY <1>3 DEF SubmitRejected, SubmitToNewWorker, SubmitSpawnFails, SubmitQueued,
         SubmitWithdrawn, SpawnWorker, SpawnFails, threads
    <3>. QED
      BY <3>1 DEF TypeInv
  <2>2. \A d \in Clients : caller'[d] \in {"wait", "woken"} => caller[d] \in {"wait", "woken"}
    BY <1>3 DEF SubmitRejected, SubmitToNewWorker, SubmitSpawnFails, SubmitQueued,
       SubmitWithdrawn, Reject, TypeInv
  <2>. QED
    BY <1>1, <2>1, <2>2
<1>4. ASSUME NEW c \in Clients, NotifyOne(c)
      PROVE  CalmInv'
  <2>1. {d \in Clients : caller[d] \in Waiting} = {}
    BY DEF CalmInv, Waiting, TypeInv, CallerStates
  <2>2. /\ caller' = [caller EXCEPT ![c] = "idle"]
        /\ \/ UNCHANGED worker
           \/ \E w \in Workers : worker' = [worker EXCEPT ![w] = "woken"]
    BY <1>4, <2>1 DEF NotifyOne
  <2>. QED
    BY <1>1, <2>2 DEF TypeInv
<1>5. ASSUME NEW c \in Clients, NotifyAll(c) \/ Shutdown(c) \/ ShutdownNow(c)
      PROVE  CalmInv'
  <2>1. PICK x \in {"idle", "cancel"} :
          worker' = Woken(worker) /\ caller' = Woken([caller EXCEPT ![c] = x])
    <3>1. caller[c] = "idle" => caller = [caller EXCEPT ![c] = "idle"]
      BY DEF TypeInv
    <3>. QED
      BY <1>5, <3>1 DEF NotifyAll, Shutdown, ShutdownNow, NotifyAllFrom
  <2>2. DOMAIN worker = Workers /\ DOMAIN [caller EXCEPT ![c] = x] = Clients
    BY DEF TypeInv
  <2>. DEFINE cs == [caller EXCEPT ![c] = x]
  <2>3. \A d \in Clients : cs[d] \notin {"wait", "timed_wait", "woken"}
    BY DEF CalmInv, TypeInv, CallerStates
  <2>4. caller' = Woken(cs) /\ DOMAIN cs = Clients
    BY <2>1, <2>2
  <2>. HIDE DEF cs
  <2>5. /\ \A v \in Workers : worker'[v] = worker[v] \/ worker'[v] = "woken"
        /\ \A d \in Clients : caller'[d] = cs[d] \/ cs[d] \in Waiting
    BY <2>1, <2>2, <2>4, NotifiedKeeps
  <2>. QED
    BY <2>3, <2>5 DEF CalmInv, Waiting
<1>6. ASSUME NEW c \in Clients, AwaitTermination(c) \/ SpuriousReturn(c)
      PROVE  FALSE
  BY <1>6 DEF AwaitTermination, SpuriousReturn, CalmInv
<1>7. ASSUME NEW c \in Clients,
             \/ CancelJob(c) \/ PrestartAll(c)
             \/ \E n \in CoreSizes : SetCorePoolSize(c, n)
             \/ \E n \in MaxSizes : SetMaximumPoolSize(c, n)
             \/ SetKeepAlive(c)
             \/ \E allow \in BOOLEAN : AllowCoreThreadTimeout(c, allow)
      PROVE  CalmInv'
  <2>1. UNCHANGED worker
    BY <1>7 DEF CancelJob, PrestartAll, SetCorePoolSize, SetMaximumPoolSize, SetKeepAlive,
       AllowCoreThreadTimeout, Reconfigured, threads
  <2>2. \A d \in Clients : caller'[d] \in {"wait", "woken"} => caller[d] \in {"wait", "woken"}
    BY <1>7 DEF CancelJob, PrestartAll, SetCorePoolSize, SetMaximumPoolSize, SetKeepAlive,
       AllowCoreThreadTimeout, Reconfigured, TypeInv
  <2>. QED
    BY <1>1, <2>1, <2>2
<1>8. ASSUME NEW c \in Clients, PrestartOne(c) \/ PrestartNext(c)
      PROVE  CalmInv'
  <2>1. PICK next \in {"idle", "prestart"} : PrestartCoreThread(c, next)
    BY <1>8 DEF PrestartOne, PrestartNext
  <2>2. /\ \E x \in {"idle", "prestart"} : caller' = [caller EXCEPT ![c] = x]
        /\ \/ UNCHANGED worker
           \/ \E w \in Workers : worker' = [worker EXCEPT ![w] = "seek"]
    BY <2>1 DEF PrestartCoreThread, SpawnWorker, SpawnFails, threads
  <2>. QED
    BY <1>1, <2>2 DEF TypeInv
<1>9. ASSUME NEW w \in Workers, NEW x \in WorkerStates \ {"crashed"},
             \/ worker' = [worker EXCEPT ![w] = x] /\ UNCHANGED caller
             \/ /\ worker' = Woken([worker EXCEPT ![w] = x])
                /\ caller' = Woken(caller)
      PROVE  CalmInv'
  <2>. DEFINE ws == [worker EXCEPT ![w] = x]
  <2>1. /\ DOMAIN ws = Workers /\ DOMAIN caller = Clients
        /\ \A v \in Workers : ws[v] # "crashed"
        /\ \A d \in Clients : caller[d] \notin Waiting
    BY DEF TypeInv, CalmInv, Waiting, CallerStates
  <2>2. \/ worker' = ws /\ caller' = caller
        \/ worker' = Woken(ws) /\ caller' = Woken(caller)
    BY <1>9
  <2>. HIDE DEF ws
  <2>3. /\ \A v \in Workers : worker'[v] = ws[v] \/ worker'[v] = "woken"
        /\ \A d \in Clients : caller'[d] = caller[d] \/ caller[d] \in Waiting
    BY <2>1, <2>2, NotifiedKeeps
  <2>. QED
    BY <2>1, <2>3 DEF CalmInv
<1>10. ASSUME NEW w \in Workers,
              \/ \E v \in Workers : TakeLocalJob(w, v)
              \/ TakeGlobalJob(w) \/ GoIdle(w) \/ KeepAliveExpires(w) \/ SpuriousWakeup(w)
              \/ RunJob(w)
       PROVE  CalmInv'
  <2>1. \E x \in WorkerStates \ {"crashed"} :
          worker' = [worker EXCEPT ![w] = x] /\ UNCHANGED caller
    BY <1>10 DEF TakeLocalJob, TakeGlobalJob, Claim, GoIdle, KeepAliveExpires, SpuriousWakeup,
       RunJob, WorkerStates
  <2>. QED
    BY <1>9, <2>1
<1>11. ASSUME NEW w \in Workers, ExitWorker(w)
       PROVE  CalmInv'
  BY <1>9, <1>11 DEF ExitWorker, NotifyIfTerminated, NotifyAllFrom, WorkerStates
<1>12. ASSUME NEW w \in Workers, FinishRunningJob(w)
       PROVE  CalmInv'
  <2>1. running_tasks > 0
    <3>1. ~(\A v \in Workers : worker[v] \notin HoldStates)
      BY <1>12 DEF FinishRunningJob, HoldStates
    <3>2. Hold # 0 /\ Hold \in Nat
      BY <3>1, CountZero, CountsAreNat, ConstantsAssumption DEF Hold
    <3>. QED
      BY <3>2 DEF ThreadInv
  <2>2. NotifyIfTerminated([worker EXCEPT ![w] = "seek"], caller)
    BY <1>12, <2>1 DEF FinishRunningJob
  <2>. QED
    BY <1>9, <2>2 DEF NotifyIfTerminated, NotifyAllFrom, WorkerStates
<1>. QED
  BY <1>2, <1>3, <1>4, <1>5, <1>6, <1>7, <1>8, <1>10, <1>11, <1>12, NextCases
     DEF ClientAction, WorkerAction

LEMMA NoticeStep ==
    ASSUME WaitingClients = {}, PanickingJobs = {}, NoPrestartFailures,
           PoolInv, CalmInv, CalmInv', NoticeInv, [Next]_vars
    PROVE  NoticeInv'
<1>. USE DEF PoolInv
<1>0. queued_tasks \in Nat
  BY TallyType DEF StatsInv
<1>1. ASSUME \E w \in Workers : worker'[w] \in AwakeStates
      PROVE  NoticeInv'
  BY <1>1 DEF NoticeInv
<1>2. ASSUME queued_tasks' = 0
      PROVE  NoticeInv'
  BY <1>2 DEF NoticeInv
<1>3. ASSUME UNCHANGED queued_tasks,
             \A w \in Workers : worker[w] \in AwakeStates => worker'[w] \in AwakeStates,
             \A w \in Workers : worker[w] \in Waiting => worker'[w] \in Waiting,
             \A c \in Clients : caller[c] = "notify_one" => caller'[c] = "notify_one"
      PROVE  NoticeInv'
  BY <1>3 DEF NoticeInv
<1>4. CASE UNCHANGED vars
  BY <1>3, <1>4 DEF vars, queues, threads
<1>5. ASSUME NEW c \in Clients, NEW j \in Jobs,
             SubmitRejected(c, j) \/ SubmitSpawnFails(c, j) \/ SubmitWithdrawn(c, j)
      PROVE  NoticeInv'
  <2>1. /\ UNCHANGED <<queued_tasks, worker>>
        /\ \A d \in Clients : caller[d] = "notify_one" => caller'[d] = "notify_one"
    BY <1>5 DEF SubmitRejected, SubmitSpawnFails, SubmitWithdrawn, Submitting, Reject, SpawnFails,
       queues, threads, TypeInv
  <2>. QED
    BY <1>3, <2>1
<1>6. ASSUME NEW c \in Clients, NEW j \in Jobs, SubmitToNewWorker(c, j)
      PROVE  NoticeInv'
  <2>1. \E w \in Workers : worker' = [worker EXCEPT ![w] = "run"]
    BY <1>6, ConstantsAssumption DEF SubmitToNewWorker, SpawnWorker
  <2>. QED
    BY <1>1, <2>1 DEF TypeInv, AwakeStates
<1>7. ASSUME NEW c \in Clients, NEW j \in Jobs, SubmitQueued(c, j)
      PROVE  NoticeInv'
  <2>1. CASE live_workers = 0
    <3>1. \E w \in Workers : worker' = [worker EXCEPT ![w] = "seek"]
      BY <1>7, <2>1 DEF SubmitQueued, SpawnWorker
    <3>. QED
      BY <1>1, <3>1 DEF TypeInv, AwakeStates
  <2>2. CASE live_workers # 0 /\ idle_workers = 0
    <3>1. ~(\A w \in Workers : worker[w] \notin LiveStates)
      BY <2>2, CountZero, ConstantsAssumption DEF ThreadInv, Live
    <3>2. \A w \in Workers : worker[w] \notin IdleStates
      BY <2>2, CountZero, ConstantsAssumption DEF ThreadInv, Idle
    <3>3. \E w \in Workers : worker[w] \in AwakeStates
      BY <3>1, <3>2 DEF LiveStates, IdleStates, AwakeStates, WorkerStates, CalmInv, TypeInv
    <3>4. UNCHANGED worker
      BY <1>7, <2>2 DEF SubmitQueued
    <3>. QED
      BY <1>1, <3>3, <3>4
  <2>3. CASE live_workers # 0 /\ idle_workers # 0
    <3>1. ~(\A w \in Workers : worker[w] \notin IdleStates)
      BY <2>3, CountZero, ConstantsAssumption DEF ThreadInv, Idle
    <3>2. \E w \in Workers : worker[w] \in Waiting \/ worker[w] \in AwakeStates
      BY <3>1 DEF IdleStates, AwakeStates, Waiting
    <3>3. idle_workers > 0
      BY <2>3, CountsAreNat DEF ThreadInv
    <3>4. UNCHANGED worker /\ caller'[c] = "notify_one"
      BY <1>7, <2>3, <3>3 DEF SubmitQueued, TypeInv
    <3>. QED
      BY <3>2, <3>4 DEF NoticeInv
  <2>. QED
    BY <2>1, <2>2, <2>3
<1>8. ASSUME NEW c \in Clients, NotifyOne(c)
      PROVE  NoticeInv'
  <2>1. {d \in Clients : caller[d] \in Waiting} = {}
    BY DEF CalmInv, Waiting, TypeInv, CallerStates
  <2>2. CASE \E w \in Workers : worker' = [worker EXCEPT ![w] = "woken"]
    BY <1>1, <2>2 DEF TypeInv, AwakeStates
  <2>3. CASE {w \in Workers : worker[w] \in Waiting} = {} /\ UNCHANGED worker
    <3>1. UNCHANGED queued_tasks
      BY <1>8 DEF NotifyOne, queues
    <3>. QED
      BY <2>3, <3>1 DEF NoticeInv
  <2>. QED
    BY <1>8, <2>1, <2>2, <2>3 DEF NotifyOne
<1>9. ASSUME NEW c \in Clients, NotifyAll(c) \/ Shutdown(c)
      PROVE  NoticeInv'
  <2>1. worker' = Woken(worker) /\ UNCHANGED queued_tasks
    BY <1>9 DEF NotifyAll, Shutdown, NotifyAllFrom, queues
  <2>2. ASSUME NEW w \in Workers, worker[w] \in Waiting \/ worker[w] \in AwakeStates
        PROVE  worker'[w] \in AwakeStates
    BY <2>1, <2>2 DEF Woken, Waiting, AwakeStates, TypeInv
  <2>. QED
    BY <2>1, <2>2 DEF NoticeInv
<1>10. ASSUME NEW c \in Clients, ShutdownNow(c)
       PROVE  NoticeInv'
  BY <1>2, <1>10 DEF ShutdownNow
<1>11. ASSUME NEW c \in Clients,
              \/ CancelJob(c) \/ PrestartAll(c)
              \/ \E n \in CoreSizes : SetCorePoolSize(c, n)
              \/ \E n \in MaxSizes : SetMaximumPoolSize(c, n)
              \/ SetKeepAlive(c)
              \/ \E allow \in BOOLEAN : AllowCoreThreadTimeout(c, allow)
       PROVE  NoticeInv'
  <2>1. UNCHANGED <<worker, queued_tasks>>
    BY <1>11 DEF CancelJob, PrestartAll, SetCorePoolSize, SetMaximumPoolSize, SetKeepAlive,
       AllowCoreThreadTimeout, Reconfigured, threads, queues
  <2>2. \A d \in Clients : caller[d] = "notify_one" => caller'[d] = "notify_one"
    BY <1>11 DEF CancelJob, PrestartAll, SetCorePoolSize, SetMaximumPoolSize, SetKeepAlive,
       AllowCoreThreadTimeout, Reconfigured, TypeInv
  <2>. QED
    BY <1>3, <2>1, <2>2
<1>12. ASSUME NEW c \in Clients, PrestartOne(c) \/ PrestartNext(c)
       PROVE  NoticeInv'
  <2>1. PICK next \in {"idle", "prestart"} :
          PrestartCoreThread(c, next) /\ caller[c] # "notify_one"
    BY <1>12 DEF PrestartOne, PrestartNext
  <2>2. CASE \E w \in Workers : worker' = [worker EXCEPT ![w] = "seek"]
    BY <1>1, <2>2 DEF TypeInv, AwakeStates
  <2>3. CASE UNCHANGED worker
    <3>1. /\ UNCHANGED queued_tasks
          /\ \A d \in Clients : caller[d] = "notify_one" => caller'[d] = "notify_one"
      BY <2>1 DEF PrestartCoreThread, queues, TypeInv
    <3>. QED
      BY <1>3, <2>3, <3>1
  <2>. QED
    BY <2>1, <2>2, <2>3 DEF PrestartCoreThread, SpawnWorker, SpawnFails, threads
<1>13. ASSUME NEW w \in Workers,
              \/ \E v \in Workers : TakeLocalJob(w, v)
              \/ TakeGlobalJob(w) \/ KeepAliveExpires(w) \/ SpuriousWakeup(w) \/ RunJob(w)
       PROVE  NoticeInv'
  <2>1. \E x \in AwakeStates : worker' = [worker EXCEPT ![w] = x]
    BY <1>13 DEF TakeLocalJob, TakeGlobalJob, Claim, KeepAliveExpires, SpuriousWakeup, RunJob,
       AwakeStates
  <2>. QED
    BY <1>1, <2>1 DEF TypeInv
<1>14. ASSUME NEW w \in Workers, GoIdle(w) \/ ExitWorker(w)
       PROVE  NoticeInv'
  <2>1. UNCHANGED queued_tasks
    BY <1>14 DEF GoIdle, ExitWorker, queues
  <2>2. queued_tasks = 0
    BY <1>0, <1>14, QueuedIsFound DEF GoIdle, ExitWorker, ShouldExit, RetiresOnTimeout
  <2>. QED
    BY <1>2, <2>1, <2>2
<1>15. ASSUME NEW w \in Workers, FinishRunningJob(w)
       PROVE  NoticeInv'
  <2>1. \/ worker' = [worker EXCEPT ![w] = "seek"]
        \/ worker' = Woken([worker EXCEPT ![w] = "seek"])
        \/ worker' = [worker EXCEPT ![w] = "crashed"]
    <3>1. CASE running_tasks > 0
      <4>1. NotifyIfTerminated([worker EXCEPT ![w] = "seek"], caller)
        BY <1>15, <3>1 DEF FinishRunningJob
      <4>. QED
        BY <4>1 DEF NotifyIfTerminated, NotifyAllFrom
    <3>2. CASE ~(running_tasks > 0)
      BY <1>15, <3>2 DEF FinishRunningJob
    <3>. QED
      BY <3>1, <3>2
  <2>2. worker'[w] = "seek"
    BY <2>1 DEF TypeInv, CalmInv, Woken, Waiting
  <2>. QED
    BY <1>1, <2>2 DEF AwakeStates
<1>16. ASSUME NEW c \in Clients, AwaitTermination(c) \/ SpuriousReturn(c)
       PROVE  FALSE
  BY <1>16 DEF AwaitTermination, SpuriousReturn, CalmInv
<1>. QED
  BY <1>4, <1>5, <1>6, <1>7, <1>8, <1>9, <1>10, <1>11, <1>12, <1>13, <1>14, <1>15, <1>16,
     NextCases DEF ClientAction, WorkerAction

(* Where no client waits for termination, no job panics and prestart never *)
(* fails to create a thread, submit's single notification loses no job:    *)
(* while one is queued, a worker is about to look at the queues or a       *)
(* submitter is about to wake one that sleeps, however many there are.     *)
THEOREM NoQueuedJobIsOverlooked ==
    ASSUME WaitingClients = {}, PanickingJobs = {}, NoPrestartFailures
    PROVE  Spec => []QueuedJobIsNoticed
<1>1. Init => CalmInv /\ NoticeInv
  BY DEF Init, CalmInv, NoticeInv
<1>2. PoolInv /\ CalmInv /\ NoticeInv /\ [Next]_vars => CalmInv' /\ NoticeInv'
  BY CalmStep, NoticeStep
<1>3. PoolInv /\ CalmInv /\ NoticeInv => QueuedJobIsNoticed
  BY DEF PoolInv, TypeInv, NoticeInv, QueuedJobIsNoticed, AwakeStates, WorkerStates, Waiting,
     Sleeping
<1>. QED
  BY <1>1, <1>2, <1>3, PoolInvariance, PTL DEF Spec

-----------------------------------------------------------------------------
(* The pool implements ExecutorService.                                    *)

(* The status of a job changes with its fate only.                         *)
LEMMA StatusMoves ==
    ASSUME TypeInv, NEW j \in Jobs, NEW y \in Fates, fate' = [fate EXCEPT ![j] = y]
    PROVE  [i \in Jobs |-> ServiceStatus(i)]' =
             [[i \in Jobs |-> ServiceStatus(i)] EXCEPT ![j] =
                CASE y \in {"new", "withdrawn"}      -> "new"
                  [] y \in {"queued", "drained"}     -> "accepted"
                  [] y \in {"completed", "panicked"} -> "completed"
                  [] OTHER                           -> y]
BY DEF TypeInv, ServiceStatus

LEMMA StatusKept ==
    ASSUME UNCHANGED <<fate, lifecycle>>
    PROVE  UNCHANGED Service!vars
BY DEF Service!vars, ServiceStatus

(* The pool implements the contract of the trait ExecutorService, whatever *)
(* threads cannot be created and whatever jobs panic: jobs are accepted    *)
(* only before shutdown, each is run once or cancelled before it starts,   *)
(* and a job whose submit failed was never run.                            *)
THEOREM PoolImplementsService == Spec => ImplementsService
<1>1. Init => Service!Init
  BY DEF Init, Service!Init, ServiceStatus
<1>2. PoolInv /\ [Next]_vars => [Service!Next]_(Service!vars)
  <2>. SUFFICES ASSUME PoolInv, [Next]_vars
                PROVE  Service!Next \/ UNCHANGED Service!vars
    OBVIOUS
  <2>. USE DEF Service!Next
  <2>0. TypeInv /\ JobInv
    BY DEF PoolInv
  <2>1. CASE UNCHANGED vars
    BY <2>1, StatusKept DEF vars
  <2>2. ASSUME NEW c \in Clients, NEW j \in Jobs, SubmitRejected(c, j) \/ SubmitSpawnFails(c, j)
        PROVE  Service!Submit(j)
    <3>1. fate[j] = "new" /\ fate' = [fate EXCEPT ![j] = "rejected"] /\ UNCHANGED lifecycle
      BY <2>2 DEF SubmitRejected, SubmitSpawnFails, Submitting, Reject
    <3>. QED
      BY <2>0, <3>1, StatusMoves DEF Service!Submit, Service!Becomes, ServiceStatus, Fates
  <2>3. ASSUME NEW c \in Clients, NEW j \in Jobs, SubmitToNewWorker(c, j)
        PROVE  Service!Submit(j)
    <3>1. /\ fate[j] = "new" /\ fate' = [fate EXCEPT ![j] = "running"]
          /\ lifecycle = "Running" /\ UNCHANGED lifecycle
      BY <2>3 DEF SubmitToNewWorker, Submitting
    <3>. QED
      BY <2>0, <3>1, StatusMoves
         DEF Service!Submit, Service!Becomes, Service!Pending, ServiceStatus, Fates
  <2>4. ASSUME NEW c \in Clients, NEW j \in Jobs, SubmitQueued(c, j)
        PROVE  Service!Submit(j)
    <3>1. /\ fate[j] = "new" /\ fate' = [fate EXCEPT ![j] = "queued"]
          /\ lifecycle = "Running" /\ UNCHANGED lifecycle
      BY <2>4 DEF SubmitQueued, Submitting
    <3>. QED
      BY <2>0, <3>1, StatusMoves
         DEF Service!Submit, Service!Becomes, Service!Pending, ServiceStatus, Fates
  <2>5. ASSUME NEW c \in Clients, NEW j \in Jobs, SubmitWithdrawn(c, j)
        PROVE  UNCHANGED Service!vars
    <3>1. /\ fate[j] = "new" /\ fate' = [fate EXCEPT ![j] = "withdrawn"] /\ UNCHANGED lifecycle
      BY <2>5 DEF SubmitWithdrawn, Submitting
    <3>2. \A i \in Jobs : ServiceStatus(i)' = ServiceStatus(i)
      BY <2>0, <3>1 DEF ServiceStatus, TypeInv
    <3>. QED
      BY <3>1, <3>2 DEF Service!vars
  <2>6. ASSUME NEW c \in Clients,
               \/ NotifyOne(c) \/ NotifyAll(c) \/ PrestartAll(c)
               \/ AwaitTermination(c) \/ SpuriousReturn(c)
               \/ \E n \in CoreSizes : SetCorePoolSize(c, n)
               \/ \E n \in MaxSizes : SetMaximumPoolSize(c, n)
               \/ SetKeepAlive(c)
               \/ \E allow \in BOOLEAN : AllowCoreThreadTimeout(c, allow)
               \/ PrestartOne(c) \/ PrestartNext(c)
        PROVE  UNCHANGED Service!vars
    BY <2>6, StatusKept DEF NotifyOne, NotifyAll, PrestartAll, AwaitTermination, SpuriousReturn,
       SetCorePoolSize, SetMaximumPoolSize, SetKeepAlive, AllowCoreThreadTimeout, Reconfigured,
       PrestartOne, PrestartNext, PrestartCoreThread
  <2>7. ASSUME NEW c \in Clients, CancelJob(c)
        PROVE  \E j \in Jobs : Service!Submit(j) \/ Service!Cancel(j)
    <3>1. PICK j \in drained[c] :
            fate' = [fate EXCEPT ![j] = IF @ = "withdrawn" THEN "rejected" ELSE "cancelled"]
      BY <2>7 DEF CancelJob
    <3>2. j \in Jobs /\ fate[j] \in {"drained", "withdrawn"} /\ UNCHANGED lifecycle
      BY <2>0, <2>7, <3>1 DEF TypeInv, JobInv, DrainInv, CancelJob
    <3>3. CASE fate[j] = "withdrawn"
      <4>1. fate' = [fate EXCEPT ![j] = "rejected"]
        BY <3>1, <3>3
      <4>. QED
        BY <2>0, <3>2, <3>3, <4>1, StatusMoves
           DEF Service!Submit, Service!Becomes, ServiceStatus, Fates
    <3>4. CASE fate[j] = "drained"
      <4>1. fate' = [fate EXCEPT ![j] = "cancelled"]
        BY <3>1, <3>4
      <4>. QED
        BY <2>0, <3>2, <3>4, <4>1, StatusMoves
           DEF Service!Cancel, Service!Becomes, ServiceStatus, Fates
    <3>. QED
      BY <3>2, <3>3, <3>4
  <2>8. ASSUME NEW c \in Clients, Shutdown(c)
        PROVE  Service!RequestShutdown
    BY <2>0, <2>8 DEF Shutdown, Service!RequestShutdown, ServiceStatus
  <2>9. ASSUME NEW c \in Clients, ShutdownNow(c)
        PROVE  Service!RequestShutdown
    <3>1. lifecycle' = "Stopping"
      BY <2>9 DEF ShutdownNow
    <3>2. \A j \in Jobs : fate'[j] = fate[j] \/ (fate[j] = "queued" /\ fate'[j] = "drained")
      BY <2>0, <2>9 DEF ShutdownNow, JobInv, QueueInv, InQueue, Registered
    <3>3. \A j \in Jobs : ServiceStatus(j)' = ServiceStatus(j)
      BY <3>2 DEF ServiceStatus
    <3>. QED
      BY <3>1, <3>3 DEF Service!RequestShutdown
  <2>10. ASSUME NEW w \in Workers, TakeGlobalJob(w) \/ \E v \in Workers : TakeLocalJob(w, v)
         PROVE  \E j \in Jobs : Service!Start(j)
    <3>1. PICK s \in Seq(Jobs) : s # <<>> /\ Claim(w, Head(s)) /\
                                 (s = queue \/ \E v \in Workers : s = worker_queues[v])
      BY <2>0, <2>10 DEF TakeGlobalJob, TakeLocalJob, HasLocalJob, TypeInv
    <3>. DEFINE j == Head(s)
    <3>2. j \in Jobs /\ j \in Range(s)
      <4>1. IsInjective(s)
        BY <2>0, <3>1 DEF JobInv, QueueInv
      <4>. QED
        BY <3>1, <4>1, TailQueue
    <3>3. fate[j] = "queued"
      BY <2>0, <3>1, <3>2 DEF JobInv, QueueInv, InQueue
    <3>4. fate' = [fate EXCEPT ![j] = "running"] /\ UNCHANGED lifecycle
      BY <3>1 DEF Claim
    <3>. HIDE DEF j
    <3>5. Service!Start(j)
      BY <2>0, <3>2, <3>3, <3>4, StatusMoves DEF Service!Start, Service!Becomes, ServiceStatus, Fates
    <3>. QED
      BY <3>2, <3>5
  <2>11. ASSUME NEW w \in Workers, RunJob(w)
         PROVE  \E j \in Jobs : Service!Complete(j)
    <3>1. /\ held[w] \in Jobs /\ fate[held[w]] = "running" /\ UNCHANGED lifecycle
          /\ fate' = [fate EXCEPT ![held[w]] = IF held[w] \in PanickingJobs THEN "panicked"
                                                                            ELSE "completed"]
      BY <2>0, <2>11 DEF RunJob, JobInv, RunInv
    <3>. QED
      BY <2>0, <3>1, StatusMoves DEF Service!Complete, Service!Becomes, ServiceStatus, Fates
  <2>12. ASSUME NEW w \in Workers,
                \/ GoIdle(w) \/ ExitWorker(w) \/ FinishRunningJob(w)
                \/ KeepAliveExpires(w) \/ SpuriousWakeup(w)
         PROVE  UNCHANGED Service!vars
    BY <2>12, StatusKept DEF GoIdle, ExitWorker, FinishRunningJob, KeepAliveExpires, SpuriousWakeup
  <2>. QED
    BY <2>1, <2>2, <2>3, <2>4, <2>5, <2>6, <2>7, <2>8, <2>9, <2>10, <2>11, <2>12, NextCases
       DEF ClientAction, WorkerAction
<1>. QED
  BY <1>1, <1>2, PoolInvariance, PTL DEF Spec, ImplementsService, Service!Spec

=============================================================================
