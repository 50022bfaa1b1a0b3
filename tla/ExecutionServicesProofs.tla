----------------------- MODULE ExecutionServicesProofs -----------------------
(***************************************************************************)
(* What the answers of the facade are worth, for any number of tasks and   *)
(* of clients.  The argument: a shutdown is never taken back, nor is what  *)
(* is_terminated answers (StepIsMonotone), so what a call has found at the *)
(* services it has visited still holds when it returns; and a pool that    *)
(* answers "terminated" has only those tasks left that a shutdown_now is   *)
(* about to cancel (PoolIsKept).                                           *)
(***************************************************************************)
EXTENDS ExecutionServices, TLAPS

Statuses == {"new", "accepted", "running", "rejected", "completed", "cancelled"}
Pending == {"accepted", "running"}

Types ==
    /\ status \in [Services -> [Tasks -> Statuses]]
    /\ shutdown \in [Services -> BOOLEAN]
    /\ stopped \in BOOLEAN
    /\ call \in [Clients -> Calls]
    /\ alone \in [Clients -> BOOLEAN]
    /\ next \in [Clients -> 1 .. 4]
    /\ stage \in [Clients -> Stages]
    /\ batch \in [Clients -> SUBSET Tasks]
    /\ answer \in [Clients -> Answers]

(* Only a shutdown_now in its loop holds tasks, and a client outside every *)
(* call is ready to begin one.                                             *)
Shape ==
    \A c \in Clients :
        /\ stage[c] = "cancel" => call[c] = "shutdown_now"
        /\ stage[c] # "cancel" => batch[c] = {}
        /\ call[c] = "none" => next[c] = 1 /\ ~alone[c]

(* What is drained from the pool does not start, and a pool that has       *)
(* stopped has nothing else left.                                          *)
Pool ==
    /\ \A t \in Tasks : Taken("blocking", t) => status["blocking"][t] \in {"accepted", "cancelled"}
    /\ stopped => /\ shutdown["blocking"]
                  /\ \A t \in Tasks : status["blocking"][t] \in Pending => Taken("blocking", t)

(* A shutdown_now in its loop has requested the shutdown.                  *)
Requested == \A c \in Clients : stage[c] = "cancel" => shutdown[Visited(c)]

(* What call k has found out about a service it has left behind, and what  *)
(* answer a says about every service.                                      *)
Found(k, s) ==
    /\ k \in {"shutdown", "shutdown_now", "is_shutdown"} => shutdown[s]
    /\ k \in {"is_terminated", "await_termination"} => IsOver(s)
Said(a, s) ==
    /\ a = "shut" => shutdown[s]
    /\ a = "over" => IsOver(s)

(* Client c is told the truth if what its call has found is true.          *)
Honest(c) ==
    /\ ~alone[c] => \A i \in 1 .. 4 : i < next[c] => Found(call[c], Fields[i])
    /\ \A s \in Services : Said(answer[c], s)

(* The inductive invariant: answers alone are not inductive, because they  *)
(* rest on what the call found on its way, and what the pool answers rests *)
(* on what a shutdown_now holds.                                           *)
Inv == Types /\ Shape /\ Pool /\ Requested /\ \A c \in Clients : Honest(c)

(* The four fields are the services.                                       *)
LEMMA FieldsAreServices ==
    /\ Len(Fields) = 4
    /\ \A i \in 1 .. 4 : Fields[i] \in Services
    /\ \A s \in Services : \E i \in 1 .. 4 : s = Fields[i]
    /\ "blocking" \in Services
  BY DEF Fields, Services

(* The contract's statuses do not depend on the service.                   *)
LEMMA Contract ==
    ASSUME NEW s \in Services
    PROVE  Service(s)!Statuses = Statuses /\ Service(s)!Pending = Pending
  BY DEF Service!Statuses, Service!Pending, Service!Settled, Statuses, Pending

(* A call that goes on or returns.                                         *)
LEMMA AdvanceTypes ==
    ASSUME Types, NEW c \in Clients, NEW a \in Answers, call[c] # "none",
           Advance(c, a) \/ Return(c, a)
    PROVE  /\ call' \in [Clients -> Calls]
           /\ alone' \in [Clients -> BOOLEAN]
           /\ next' \in [Clients -> 1 .. 4]
           /\ answer' \in [Clients -> Answers]
           /\ \A d \in Clients \ {c} : /\ call'[d] = call[d] /\ alone'[d] = alone[d]
                                       /\ next'[d] = next[d] /\ answer'[d] = answer[d]
           /\ call'[c] = "none" => next'[c] = 1 /\ ~alone'[c]
           /\ call'[c] \in {call[c], "none"}
<1>0. "unknown" \in Answers /\ "none" \in Calls
  BY DEF Answers, Calls
<1>1. ASSUME NEW b \in Answers, Return(c, b)
      PROVE  /\ call' \in [Clients -> Calls]
             /\ alone' \in [Clients -> BOOLEAN]
             /\ next' \in [Clients -> 1 .. 4]
             /\ answer' \in [Clients -> Answers]
             /\ \A d \in Clients \ {c} : /\ call'[d] = call[d] /\ alone'[d] = alone[d]
                                         /\ next'[d] = next[d] /\ answer'[d] = answer[d]
             /\ next'[c] = 1 /\ ~alone'[c] /\ call'[c] = "none"
  BY <1>0, <1>1 DEF Return, Types
<1>2. CASE Return(c, a) \/ Return(c, "unknown")
  BY <1>0, <1>1, <1>2
<1>3. CASE /\ ~alone[c] /\ next[c] # Len(Fields)
           /\ next' = [next EXCEPT ![c] = @ + 1]
           /\ UNCHANGED <<call, alone, answer>>
  BY <1>3, FieldsAreServices DEF Types
<1> QED
  BY <1>2, <1>3 DEF Advance

(* The steps that call Advance or Return, each with the answer it gives.   *)
LEMMA CallSteps ==
    ASSUME Types, Shape, NEW c \in Clients, ClientStep(c)
    PROVE  \/ UNCHANGED calls
           \/ /\ call[c] # "none"
              /\ \E a \in Answers : Advance(c, a) \/ Return(c, a)
<1>1. CASE Shutdown(c) \/ IsShutdown(c) \/ IsTerminated(c)
  BY <1>1 DEF Shutdown, IsShutdown, IsTerminated, Answers
<1>2. CASE ShutdownNowDone(c)
  BY <1>2 DEF ShutdownNowDone, Shape, Answers
<1>3. CASE AwaitTermination(c)
  BY <1>3 DEF AwaitTermination, Answers
<1>4. CASE ShutdownNow(c) \/ AwaitRegisters(c) \/ \E t \in Tasks : CancelNext(c, t)
  BY <1>4 DEF ShutdownNow, AwaitRegisters, CancelNext
<1> QED
  BY <1>1, <1>2, <1>3, <1>4 DEF ClientStep

(* A notification moves waiters only, and to the look at the service.      *)
LEMMA WokenStages ==
    ASSUME Types, NEW s
    PROVE  /\ Woken(s) \in [Clients -> Stages]
           /\ \A c \in Clients : Woken(s)[c] = "cancel" <=> stage[c] = "cancel"
  BY DEF Types, Woken, Stages

(* The types are kept by every step.                                       *)
LEMMA TypesInductive == Types /\ Shape /\ [Next]_vars => Types'
<1> SUFFICES ASSUME Types, Shape, [Next]_vars PROVE Types'
  OBVIOUS
<1>1. CASE \E s \in Services : ServiceStep(s) \/ \E t \in Tasks : Submit(s, t)
  <2>1. PICK s \in Services, t \in Tasks, x \in Statuses :
        /\ status' = [status EXCEPT ![s][t] = x]
        /\ UNCHANGED <<shutdown, stopped, calls, batch>>
        /\ stage' \in {stage, Woken(s)}
    BY <1>1, Contract DEF ServiceStep, Submit, NotifyIfOver
  <2> QED
    BY <2>1, WokenStages DEF Types, calls
<1>2. CASE \E c \in Clients : ClientStep(c)
  <2>1. PICK c \in Clients : ClientStep(c)
    BY <1>2
  <2>2. /\ call' \in [Clients -> Calls]
        /\ alone' \in [Clients -> BOOLEAN]
        /\ next' \in [Clients -> 1 .. 4]
        /\ answer' \in [Clients -> Answers]
    BY <2>1, CallSteps, AdvanceTypes DEF Types, calls
  <2>3. Visited(c) \in Services
    BY FieldsAreServices DEF Visited, Types
  <2>4. /\ status' \in [Services -> [Tasks -> Statuses]]
        /\ shutdown' \in [Services -> BOOLEAN]
        /\ stopped' \in BOOLEAN
        /\ stage' \in [Clients -> Stages]
        /\ batch' \in [Clients -> SUBSET Tasks]
    <3>1. CASE Shutdown(c)
      BY <3>1, WokenStages DEF Shutdown, Types, NotifyIfOver
    <3>2. CASE ShutdownNow(c)
      BY <3>2, <2>3 DEF ShutdownNow, Types, Stages, calls
    <3>3. CASE \E t \in Tasks : CancelNext(c, t)
      BY <3>3, <2>3, WokenStages DEF CancelNext, Types, NotifyIfOver, Statuses
    <3>4. CASE ShutdownNowDone(c)
      BY <3>4, WokenStages DEF ShutdownNowDone, Types, Stages, tasks
    <3>5. CASE \/ IsShutdown(c) \/ IsTerminated(c) \/ AwaitTermination(c)
               \/ AwaitRegisters(c)
      BY <3>5 DEF IsShutdown, IsTerminated, AwaitTermination, AwaitRegisters, Types,
                  Stages, tasks
    <3> QED
      BY <2>1, <3>1, <3>2, <3>3, <3>4, <3>5 DEF ClientStep
  <2> QED
    BY <2>2, <2>4 DEF Types
<1>3. CASE \E c \in Clients, k \in Calls \ {"none"} : Begin(c, k)
  <2>1. PICK c \in Clients, k \in Calls : Begin(c, k)
    BY <1>3
  <2>2. alone' \in [Clients -> BOOLEAN] /\ next' \in [Clients -> 1 .. 4]
    <3>1. CASE UNCHANGED <<alone, next>>
      BY <3>1 DEF Types
    <3>2. CASE /\ alone' = [alone EXCEPT ![c] = TRUE]
               /\ \E i \in 1 .. 4 : next' = [next EXCEPT ![c] = i]
      BY <3>2 DEF Types
    <3> QED
      BY <2>1, <3>1, <3>2, FieldsAreServices DEF Begin
  <2>3. call' \in [Clients -> Calls] /\ answer' \in [Clients -> Answers]
    BY <2>1 DEF Begin, Types, Answers
  <2> QED
    BY <2>1, <2>2, <2>3 DEF Begin, Types, tasks
<1>4. CASE PoolStops \/ \E s \in Services : NotifiesAgain(s)
  BY <1>4, WokenStages DEF PoolStops, NotifiesAgain, Types, calls, tasks
<1>5. CASE Build \/ BuildFails \/ Failed \/ UNCHANGED vars
  BY <1>5, FieldsAreServices DEF Build, BuildFails, Failed, Types, vars, calls, tasks
<1> QED
  BY <1>1, <1>2, <1>3, <1>4, <1>5 DEF Next

(* So is the shape of the calls.                                           *)
LEMMA ShapeInductive == Types /\ Shape /\ [Next]_vars => Shape'
<1> SUFFICES ASSUME Types, Shape, [Next]_vars PROVE Shape'
  OBVIOUS
<1>1. CASE \E c \in Clients : ClientStep(c)
  <2>1. PICK c \in Clients : ClientStep(c)
    BY <1>1
  <2>2. \A d \in Clients :
          /\ call'[d] = "none" => next'[d] = 1 /\ ~alone'[d]
          /\ d # c => call'[d] = call[d]
    BY <2>1, CallSteps, AdvanceTypes DEF Shape, calls
  <2>3. CASE Shutdown(c)
    BY <2>2, <2>3, WokenStages, CallSteps, AdvanceTypes DEF Shutdown, NotifyIfOver, Shape, Answers
  <2>4. CASE ShutdownNow(c)
    BY <2>2, <2>4 DEF ShutdownNow, Shape, Types, calls
  <2>5. CASE \E t \in Tasks : CancelNext(c, t)
    BY <2>2, <2>5, WokenStages DEF CancelNext, NotifyIfOver, Shape, Types, calls
  <2>6. CASE ShutdownNowDone(c)
    <3>1. \A d \in Clients : /\ stage'[d] = "cancel" => d # c /\ stage[d] = "cancel"
                             /\ stage'[d] # "cancel" => d = c \/ stage[d] # "cancel"
      BY <2>6, WokenStages DEF ShutdownNowDone, Types
    <3> QED
      BY <2>2, <2>6, <3>1 DEF ShutdownNowDone, Shape
  <2>7. CASE \/ IsShutdown(c) \/ IsTerminated(c) \/ AwaitTermination(c)
             \/ AwaitRegisters(c)
    BY <2>2, <2>7, CallSteps, AdvanceTypes
       DEF IsShutdown, IsTerminated, AwaitTermination, AwaitRegisters, Shape, Types, calls
  <2> QED
    BY <2>1, <2>3, <2>4, <2>5, <2>6, <2>7 DEF ClientStep
<1>2. CASE \E c \in Clients, k \in Calls \ {"none"} : Begin(c, k)
  BY <1>2 DEF Begin, Shape, Types
<1>3. CASE \/ PoolStops
           \/ \E s \in Services : \/ ServiceStep(s) \/ NotifiesAgain(s)
                                  \/ \E t \in Tasks : Submit(s, t)
  BY <1>3, WokenStages DEF PoolStops, ServiceStep, NotifiesAgain, Submit, NotifyIfOver,
                           Shape, calls, tasks
<1>4. CASE Build \/ BuildFails \/ Failed \/ UNCHANGED vars
  BY <1>4 DEF Build, BuildFails, Failed, Shape, vars, calls
<1> QED
  BY <1>1, <1>2, <1>3, <1>4 DEF Next

(* What the steps of a service do to the tasks: one task of it moves, and  *)
(* one that is not pending becomes pending only before the shutdown.       *)
LEMMA TaskMoves ==
    ASSUME Types, NEW s \in Services, ServiceStep(s) \/ \E t \in Tasks : Submit(s, t)
    PROVE  \E t \in Tasks, x \in Statuses :
             /\ status' = [status EXCEPT ![s][t] = x]
             /\ UNCHANGED <<shutdown, stopped, calls, batch>>
             /\ x \in Pending => \/ status[s][t] = "new" /\ ~shutdown[s]
                                 \/ /\ status[s][t] = "accepted" /\ ~Drained(s, t)
                                    /\ x = "running"
             /\ x \notin Pending => \/ status[s][t] = "new"
                                    \/ x = "cancelled" /\ status[s][t] \in Pending
                                    \/ status[s][t] = "running"
<1>1. CASE ServiceStep(s)
  <2>1. PICK t \in Tasks, x \in Service(s)!Statuses :
          /\ status' = [status EXCEPT ![s][t] = x]
          /\ \/ Service(s)!Start(t) /\ ~Drained(s, t)
             \/ Service(s)!Complete(t)
             \/ Service(s)!Cancel(t)
    BY <1>1 DEF ServiceStep
  <2>2. x \in Statuses /\ status'[s][t] = x
    BY <2>1, Contract DEF Types
  <2>3. \/ status[s][t] = "accepted" /\ ~Drained(s, t) /\ x = "running"
        \/ status[s][t] = "running" /\ x = "completed"
        \/ status[s][t] \in Pending /\ x = "cancelled"
    BY <2>1, <2>2 DEF Service!Start, Service!Complete, Service!Cancel, Service!Becomes,
                      Service!Pending, Pending, Types
  <2> QED
    BY <1>1, <2>1, <2>2, <2>3 DEF ServiceStep, Pending
<1>2. CASE \E t \in Tasks : Submit(s, t)
  <2>1. PICK t \in Tasks, x \in Service(s)!Statuses :
          /\ Submit(s, t) /\ status' = [status EXCEPT ![s][t] = x] /\ Service(s)!Submit(t)
    BY <1>2 DEF Submit
  <2>2. x \in Statuses /\ status'[s][t] = x
    BY <2>1, Contract DEF Types
  <2>3. status[s][t] = "new" /\ (x \in Pending => ~shutdown[s])
    BY <2>1, <2>2 DEF Service!Submit, Service!Becomes, Service!Pending, Pending, Types
  <2> QED
    BY <2>1, <2>2, <2>3 DEF Submit
<1> QED
  BY <1>1, <1>2

(* What a client's step does to the tasks: nothing, or one of those it     *)
(* holds is cancelled; the pool's are cancelled for certain.               *)
LEMMA CancelMoves ==
    ASSUME Types, NEW c \in Clients, NEW t \in Tasks, CancelNext(c, t),
           NEW s \in Services, s = Visited(c)
    PROVE  /\ \/ /\ status' = [status EXCEPT ![s][t] = "cancelled"]
                 /\ status[s][t] \in Pending
              \/ UNCHANGED status /\ (s = "blocking" => status[s][t] # "accepted")
           /\ UNCHANGED <<shutdown, stopped, calls>>
           /\ batch' = [batch EXCEPT ![c] = @ \ {t}]
           /\ t \in batch[c]
<1>1. \/ status' = [status EXCEPT ![s][t] = "cancelled"] /\ Service(s)!Cancel(t)
      \/ (status[s][t] = "accepted" => Aborts(s)) /\ UNCHANGED status
  BY DEF CancelNext
<1>2. Service(s)!Cancel(t) => status[s][t] \in Pending
  BY DEF Service!Cancel, Service!Pending, Pending
<1> QED
  BY <1>1, <1>2 DEF CancelNext, Aborts

(* No step takes back a shutdown or an answer of is_terminated.            *)
LEMMA StepIsMonotone ==
    ASSUME Types, [Next]_vars, NEW s \in Services
    PROVE  (shutdown[s] => shutdown'[s]) /\ (IsOver(s) => IsOver(s)')
<1> DEFINE Idle(r) == shutdown[r] /\ \A t \in Tasks : status[r][t] \notin Pending
<1>0. /\ IsOver(s) <=> IF s = "blocking" THEN stopped ELSE Idle(s)
      /\ IsOver(s)' <=> IF s = "blocking" THEN stopped' ELSE Idle(s)'
  BY Contract DEF IsOver, Service!Pending, Pending
<1> SUFFICES (shutdown[s] => shutdown'[s]) /\ (stopped => stopped') /\ (Idle(s) => Idle(s)')
  BY <1>0
<1>1. CASE \E r \in Services : ServiceStep(r) \/ \E t \in Tasks : Submit(r, t)
  <2>1. PICK r \in Services : ServiceStep(r) \/ \E t \in Tasks : Submit(r, t)
    BY <1>1
  <2> QED
    BY <2>1, TaskMoves DEF Types, Pending
<1>2. CASE \E c \in Clients, t \in Tasks : CancelNext(c, t)
  <2>1. PICK c \in Clients, t \in Tasks : CancelNext(c, t)
    BY <1>2
  <2>2. Visited(c) \in Services
    BY FieldsAreServices DEF Visited, Types
  <2>3. /\ UNCHANGED <<shutdown, stopped>>
        /\ \/ status' = [status EXCEPT ![Visited(c)][t] = "cancelled"]
           \/ UNCHANGED status
    BY <2>1, <2>2, CancelMoves
  <2> QED
    BY <2>2, <2>3 DEF Types, Pending
<1>3. CASE \E c \in Clients : Shutdown(c) \/ ShutdownNow(c)
  BY <1>3 DEF Shutdown, ShutdownNow, Types
<1>4. CASE BuildFails \/ PoolStops
  BY <1>4, FieldsAreServices DEF BuildFails, PoolStops, Types
<1>5. CASE UNCHANGED tasks
  BY <1>5 DEF tasks
<1> QED
  BY <1>1, <1>2, <1>3, <1>4, <1>5
     DEF Next, ClientStep, vars, Build, Failed, Begin, NotifiesAgain, ShutdownNowDone,
         IsShutdown, IsTerminated, AwaitTermination, AwaitRegisters

(* A step that moves no task and no batch, and no client that holds one,   *)
(* leaves the pool's drained tasks where they are.                         *)
LEMMA TakenIsKept ==
    ASSUME Types, NEW s, UNCHANGED batch,
           \A d \in Clients : batch[d] = {} \/ next'[d] = next[d]
    PROVE  \A t \in Tasks : Taken(s, t)' <=> Taken(s, t)
  BY DEF Taken, Visited, Types

(* Every step keeps what is known of the pool.                             *)
LEMMA PoolIsKept == Types /\ Shape /\ Pool /\ [Next]_vars => Pool'
<1> SUFFICES ASSUME Types, Shape, Pool, [Next]_vars PROVE Pool'
  OBVIOUS
<1> DEFINE b == "blocking"
<1>0. b \in Services
  BY FieldsAreServices
<1>1. CASE \E s \in Services : ServiceStep(s) \/ \E t \in Tasks : Submit(s, t)
  <2>1. PICK s \in Services : ServiceStep(s) \/ \E t \in Tasks : Submit(s, t)
    BY <1>1
  <2>2. UNCHANGED <<shutdown, stopped, calls, batch>>
    BY <2>1, TaskMoves
  <2>3. \A t \in Tasks : Taken(b, t)' <=> Taken(b, t)
    BY <2>2, TakenIsKept DEF calls
  <2> QED
    BY <1>0, <2>1, <2>2, <2>3, TaskMoves DEF Pool, Types, Pending, Drained
<1>2. CASE \E c \in Clients, t \in Tasks : CancelNext(c, t)
  <2>1. PICK c \in Clients, t \in Tasks : CancelNext(c, t)
    BY <1>2
  <2>2. Visited(c) \in Services /\ Visited(c)' = Visited(c)
    BY <2>1, FieldsAreServices DEF Visited, Types, CancelNext, calls
  <2>3. \A u \in Tasks : Taken(b, u)' => Taken(b, u)
    BY <2>1 DEF CancelNext, Taken, Visited, Types, calls
  <2>4. \A u \in Tasks \ {t} : Taken(b, u) => Taken(b, u)'
    BY <2>1 DEF CancelNext, Taken, Visited, Types, calls
  <2>5. Visited(c) # b => (Taken(b, t) => Taken(b, t)')
    BY <2>1 DEF CancelNext, Taken, Visited, Types, calls
  <2>6. Visited(c) = b => Taken(b, t) /\ status'[b][t] \notin Pending
    <3> SUFFICES ASSUME Visited(c) = b PROVE Taken(b, t) /\ status'[b][t] \notin Pending
      OBVIOUS
    <3>1. Taken(b, t)
      BY <2>1 DEF Taken, CancelNext
    <3>2. \/ status' = [status EXCEPT ![b][t] = "cancelled"]
          \/ UNCHANGED status /\ status[b][t] # "accepted"
      BY <1>0, <2>1, CancelMoves
    <3> QED
      BY <1>0, <3>1, <3>2 DEF Pool, Types, Pending
  <2>7. \A u \in Tasks : \/ status'[b][u] = status[b][u]
                         \/ status'[b][u] = "cancelled"
    <3>1. \/ status' = [status EXCEPT ![Visited(c)][t] = "cancelled"]
          \/ UNCHANGED status
      BY <2>1, <2>2, CancelMoves
    <3> QED
      BY <1>0, <2>2, <3>1 DEF Types
  <2>8. UNCHANGED <<shutdown, stopped>>
    BY <2>1 DEF CancelNext
  <2> QED
    BY <2>3, <2>4, <2>5, <2>6, <2>7, <2>8 DEF Pool, Pending
<1>3. CASE \E c \in Clients : ShutdownNow(c)
  <2>1. PICK c \in Clients : ShutdownNow(c)
    BY <1>3
  <2>2. /\ batch[c] = {} /\ UNCHANGED <<status, stopped, calls>>
        /\ shutdown[b] => shutdown'[b]
    BY <1>0, <2>1 DEF ShutdownNow, Shape, Types
  <2>3. PICK B \in SUBSET Tasks :
          /\ batch' = [batch EXCEPT ![c] = B]
          /\ Visited(c) = b => \A t \in B : status[b][t] = "accepted"
    BY <2>1 DEF ShutdownNow, Aborts
  <2>4. \A t \in Tasks : Taken(b, t) => Taken(b, t)'
    BY <2>2, <2>3 DEF Taken, Visited, Types, calls
  <2>5. \A t \in Tasks : Taken(b, t)' => Taken(b, t) \/ status[b][t] = "accepted"
    BY <2>2, <2>3 DEF Taken, Visited, Types, calls
  <2> QED
    BY <2>2, <2>4, <2>5 DEF Pool
<1>4. CASE PoolStops
  <2>1. \A t \in Tasks : Taken(b, t)' <=> Taken(b, t)
    BY <1>4, TakenIsKept DEF PoolStops, calls
  <2>2. Service(b)!Pending = Pending
    BY <1>0, Contract
  <2> QED
    BY <1>4, <2>1, <2>2 DEF PoolStops, Pool, Drained
<1>5. ASSUME /\ UNCHANGED <<status, stopped, batch>>
             /\ \A d \in Clients : batch[d] = {} \/ next'[d] = next[d]
      PROVE  Pool'
  <2>1. \A t \in Tasks : Taken(b, t)' <=> Taken(b, t)
    BY <1>5, TakenIsKept
  <2>2. shutdown[b] => shutdown'[b]
    BY <1>0, StepIsMonotone
  <2> QED
    BY <1>5, <2>1, <2>2 DEF Pool
<1>6. ASSUME NEW c \in Clients, \/ Shutdown(c) \/ ShutdownNowDone(c) \/ IsShutdown(c)
             \/ IsTerminated(c) \/ AwaitTermination(c) \/ AwaitRegisters(c)
      PROVE  Pool'
  <2>1. batch[c] = {} \/ UNCHANGED calls
    BY <1>6 DEF Shutdown, ShutdownNowDone, IsShutdown, IsTerminated, AwaitTermination,
                AwaitRegisters, Shape
  <2>2. \A d \in Clients \ {c} : next'[d] = next[d]
    BY <1>6, CallSteps, AdvanceTypes DEF calls, ClientStep
  <2>3. UNCHANGED <<status, stopped, batch>>
    BY <1>6 DEF Shutdown, ShutdownNowDone, IsShutdown, IsTerminated, AwaitTermination,
                AwaitRegisters, tasks
  <2> QED
    BY <1>5, <2>1, <2>2, <2>3 DEF calls
<1>7. ASSUME NEW c \in Clients, NEW k \in Calls, Begin(c, k) PROVE Pool'
  <2>1. batch[c] = {} /\ \A d \in Clients \ {c} : next'[d] = next[d]
    BY <1>7 DEF Begin, Shape, Types
  <2> QED
    BY <1>5, <1>7, <2>1 DEF Begin, tasks
<1>8. CASE \/ Build \/ BuildFails \/ Failed \/ UNCHANGED vars
           \/ \E s \in Services : NotifiesAgain(s)
  BY <1>5, <1>8 DEF Build, BuildFails, Failed, NotifiesAgain, vars, calls, tasks
<1> QED
  BY <1>1, <1>2, <1>3, <1>4, <1>6, <1>7, <1>8 DEF Next, ClientStep

(* A client enters the loop by ShutdownNow and stays at its service in it. *)
LEMMA LoopStays ==
    ASSUME Types, Shape, [Next]_vars, NEW d \in Clients, stage'[d] = "cancel"
    PROVE  ShutdownNow(d) \/ (stage[d] = "cancel" /\ next'[d] = next[d])
<1>1. ASSUME NEW c \in Clients, ClientStep(c), c # d
      PROVE  stage[d] = "cancel" /\ next'[d] = next[d]
  <2>1. next'[d] = next[d]
    BY <1>1, CallSteps, AdvanceTypes DEF calls
  <2>2. stage[d] = "cancel"
    <3>1. CASE Shutdown(c)
      BY <3>1, WokenStages DEF Shutdown, NotifyIfOver
    <3>2. CASE ShutdownNowDone(c)
      <4>1. PICK f \in {stage, Woken(Visited(c))} : stage' = [f EXCEPT ![c] = "visit"]
        BY <3>2 DEF ShutdownNowDone
      <4>2. f \in [Clients -> Stages] /\ (f[d] = "cancel" <=> stage[d] = "cancel")
        BY <4>1, WokenStages DEF Types
      <4> QED
        BY <1>1, <4>1, <4>2
    <3>3. CASE \E t \in Tasks : CancelNext(c, t)
      BY <3>3, WokenStages DEF CancelNext, NotifyIfOver
    <3>4. CASE ShutdownNow(c)
      BY <1>1, <3>4 DEF ShutdownNow, Types
    <3>5. CASE IsShutdown(c) \/ IsTerminated(c)
      BY <3>5 DEF IsShutdown, IsTerminated
    <3>6. CASE AwaitTermination(c) \/ AwaitRegisters(c)
      BY <1>1, <3>6 DEF AwaitTermination, AwaitRegisters, Types
    <3> QED
      BY <1>1, <3>1, <3>2, <3>3, <3>4, <3>5, <3>6 DEF ClientStep
  <2> QED
    BY <2>1, <2>2
<1>2. CASE ClientStep(d)
  <2>1. CASE ShutdownNow(d) \/ \E t \in Tasks : CancelNext(d, t)
    BY <2>1 DEF CancelNext, calls
  <2>2. CASE Shutdown(d)
    BY <2>2, WokenStages DEF Shutdown, NotifyIfOver, Shape
  <2>3. CASE ShutdownNowDone(d)
    BY <2>3, WokenStages DEF ShutdownNowDone, Types
  <2>4. CASE \/ IsShutdown(d) \/ IsTerminated(d) \/ AwaitTermination(d) \/ AwaitRegisters(d)
    BY <2>4 DEF IsShutdown, IsTerminated, AwaitTermination, AwaitRegisters, Types, Shape
  <2> QED
    BY <1>2, <2>1, <2>2, <2>3, <2>4 DEF ClientStep
<1>3. ASSUME NEW c \in Clients, NEW k \in Calls, Begin(c, k)
      PROVE  stage[d] = "cancel" /\ next'[d] = next[d]
  BY <1>3 DEF Begin, Shape, Types
<1>4. CASE \/ PoolStops
           \/ \E s \in Services : \/ ServiceStep(s) \/ NotifiesAgain(s)
                                  \/ \E t \in Tasks : Submit(s, t)
  BY <1>4, WokenStages DEF PoolStops, ServiceStep, NotifiesAgain, Submit, NotifyIfOver, calls
<1>5. CASE Build \/ BuildFails \/ Failed \/ UNCHANGED vars
  BY <1>5 DEF Build, BuildFails, Failed, vars, calls
<1> QED
  BY <1>1, <1>2, <1>3, <1>4, <1>5 DEF Next

(* Hence the shutdown it requested is the one of the service it visits.    *)
LEMMA RequestedIsKept == Types /\ Shape /\ Requested /\ [Next]_vars => Requested'
<1> SUFFICES ASSUME Types, Shape, Requested, [Next]_vars,
                    NEW d \in Clients, stage'[d] = "cancel"
             PROVE  shutdown'[Visited(d)']
  BY DEF Requested
<1>1. Visited(d) \in Services
  BY FieldsAreServices DEF Visited, Types
<1>2. CASE ShutdownNow(d)
  BY <1>1, <1>2 DEF ShutdownNow, Types, Visited, calls
<1>3. CASE stage[d] = "cancel" /\ next'[d] = next[d]
  <2>1. Visited(d)' = Visited(d)
    BY <1>3 DEF Visited
  <2>2. shutdown[Visited(d)]
    BY <1>3 DEF Requested
  <2>3. ASSUME NEW r \in Services, shutdown[r] PROVE shutdown'[r]
    BY <2>3, StepIsMonotone
  <2> QED
    BY <1>1, <2>1, <2>2, <2>3
<1> QED
  BY <1>2, <1>3, LoopStays

(* What a client has found and been told stays true while it does nothing. *)
LEMMA HonestyLasts ==
    ASSUME Inv, [Next]_vars, NEW c \in Clients,
           alone'[c] = alone[c], next'[c] = next[c], call'[c] = call[c],
           answer'[c] = answer[c]
    PROVE  Honest(c)'
  BY StepIsMonotone, FieldsAreServices DEF Inv, Honest, Found, Said

(* A call that advances has found at the service it visits what it had     *)
(* found before; one that returns an answer has found it everywhere.       *)
LEMMA AdvanceIsHonest ==
    ASSUME Inv, [Next]_vars, NEW c \in Clients, NEW a \in Answers, Advance(c, a),
           NEW k \in Calls, k = call[c],
           NEW v \in Services, v = Visited(c), Found(k, v)',
           \A s \in Services : Found(k, s)' => Said(a, s)'
    PROVE  Honest(c)'
<1>1. next[c] \in 1 .. 4 /\ alone[c] \in BOOLEAN
  BY DEF Inv, Types
<1>2. CASE alone[c]
  BY <1>2 DEF Advance, Return, Inv, Types, Said, Honest
<1>3. CASE ~alone[c]
  <2>1. \A i \in 1 .. 4 : i < next[c] => Found(k, Fields[i])'
    BY <1>3, StepIsMonotone, FieldsAreServices DEF Inv, Honest, Found
  <2>2. \A i \in 1 .. 4 : i <= next[c] => Found(k, Fields[i])'
    <3> TAKE i \in 1 .. 4
    <3>1. v = Fields[next[c]]
      BY DEF Visited
    <3> QED
      BY <1>1, <2>1, <3>1
  <2>3. CASE next[c] = 4
    <3>1. \A s \in Services : Found(k, s)'
      BY <2>2, <2>3, FieldsAreServices
    <3>2. next'[c] = 1 /\ answer'[c] = a
      BY <1>3, <2>3, FieldsAreServices DEF Advance, Return, Inv, Types
    <3> QED
      BY <3>1, <3>2 DEF Honest
  <2>4. CASE next[c] # 4
    <3>1. next'[c] = next[c] + 1 /\ call' = call /\ answer' = answer
      BY <1>3, <2>4, FieldsAreServices DEF Advance, Inv, Types
    <3>2. \A s \in Services : Said(answer[c], s)'
      BY <3>1, StepIsMonotone DEF Inv, Honest, Said
    <3>3. \A i \in 1 .. 4 : i < next'[c] => Found(k, Fields[i])'
      BY <1>1, <2>2, <3>1
    <3> QED
      BY <3>1, <3>2, <3>3 DEF Honest, Found
  <2> QED
    BY <2>3, <2>4
<1> QED
  BY <1>1, <1>2, <1>3

(* Every step of a call leaves its client with the truth.                  *)
LEMMA CallIsHonest ==
    ASSUME Inv, [Next]_vars, NEW c \in Clients, ClientStep(c)
    PROVE  Honest(c)'
<1> DEFINE k == call[c]
           v == Visited(c)
<1>1. k \in Calls /\ v \in Services
  BY FieldsAreServices DEF Inv, Types, Visited
<1>2. ASSUME Return(c, "unknown") PROVE Honest(c)'
  BY <1>2 DEF Return, Inv, Types, Said, Honest
<1>3. CASE Shutdown(c) \/ ShutdownNowDone(c) \/ (IsShutdown(c) /\ shutdown[v])
  <2>1. Advance(c, "shut") /\ k \in {"shutdown", "shutdown_now", "is_shutdown"}
    BY <1>3 DEF Shutdown, ShutdownNowDone, IsShutdown, Inv, Shape
  <2>2. ASSUME NEW r \in Services, r = v PROVE shutdown'[r]
    BY <1>3, <2>2, StepIsMonotone
       DEF Shutdown, ShutdownNowDone, IsShutdown, Inv, Types, Requested
  <2> QED
    BY <1>1, <2>1, <2>2, AdvanceIsHonest DEF Found, Said, Answers
<1>4. CASE (IsTerminated(c) \/ AwaitTermination(c)) /\ IsOver(v)
  <2>1. Advance(c, "over") /\ k \in {"is_terminated", "await_termination"}
    BY <1>4 DEF IsTerminated, AwaitTermination
  <2>2. ASSUME NEW r \in Services, r = v PROVE IsOver(r)'
    BY <1>4, <2>2, StepIsMonotone DEF Inv
  <2> QED
    BY <1>1, <2>1, <2>2, AdvanceIsHonest DEF Found, Said, Answers
<1>5. CASE (IsShutdown(c) /\ ~shutdown[v]) \/ (IsTerminated(c) /\ ~IsOver(v))
  BY <1>2, <1>5 DEF IsShutdown, IsTerminated
<1>6. CASE \/ ShutdownNow(c) \/ AwaitRegisters(c) \/ (AwaitTermination(c) /\ ~IsOver(v))
           \/ \E t \in Tasks : CancelNext(c, t)
  BY <1>6, HonestyLasts DEF ShutdownNow, AwaitRegisters, AwaitTermination, CancelNext, calls
<1> QED
  BY <1>3, <1>4, <1>5, <1>6 DEF ClientStep

(* Every step keeps the invariant: the client that moves by CallIsHonest,  *)
(* the others because what they have found is not taken back.              *)
LEMMA Inductive == Inv /\ [Next]_vars => Inv'
<1> SUFFICES ASSUME Inv, [Next]_vars PROVE Inv'
  OBVIOUS
<1>1. Types' /\ Shape' /\ Pool' /\ Requested'
  BY TypesInductive, ShapeInductive, PoolIsKept, RequestedIsKept DEF Inv
<1>2. ASSUME NEW c \in Clients PROVE Honest(c)'
  <2>1. CASE ClientStep(c)
    BY <2>1, CallIsHonest
  <2>2. ASSUME NEW k \in Calls, Begin(c, k) PROVE Honest(c)'
    <3>1. answer'[c] = "unknown" /\ (~alone'[c] => next'[c] = 1)
      BY <2>2 DEF Begin, Inv, Types, Shape
    <3> QED
      BY <3>1 DEF Honest, Said
  <2>3. ASSUME NEW d \in Clients, d # c,
               ClientStep(d) \/ \E k \in Calls : Begin(d, k)
        PROVE  Honest(c)'
    <3>1. CASE ClientStep(d)
      BY <2>3, <3>1, CallSteps, AdvanceTypes, HonestyLasts DEF Inv, calls
    <3>2. CASE \E k \in Calls : Begin(d, k)
      BY <2>3, <3>2, HonestyLasts DEF Begin, Inv, Types
    <3> QED
      BY <2>3, <3>1, <3>2
  <2>4. CASE UNCHANGED calls
    BY <2>4, HonestyLasts DEF calls
  <2>5. CASE \/ Build \/ BuildFails \/ Failed \/ PoolStops \/ UNCHANGED vars
             \/ \E s \in Services : \/ ServiceStep(s) \/ NotifiesAgain(s)
                                    \/ \E t \in Tasks : Submit(s, t)
    BY <2>4, <2>5 DEF Build, BuildFails, Failed, PoolStops, ServiceStep, NotifiesAgain,
                      Submit, vars
  <2> QED
    BY <2>1, <2>2, <2>3, <2>5 DEF Next
<1> QED
  BY <1>1, <1>2 DEF Inv

(* Nobody has called or found anything yet.                                *)
LEMMA Initially == Init => Inv
<1> SUFFICES ASSUME Init PROVE Inv
  OBVIOUS
<1>1. Types
  <2>1. status \in [Services -> [Tasks -> Statuses]]
    BY DEF Init, Statuses
  <2>2. call \in [Clients -> Calls] /\ stage \in [Clients -> Stages]
    BY DEF Init, Calls, Stages
  <2>3. answer \in [Clients -> Answers]
    BY DEF Init, Answers
  <2>4. next \in [Clients -> 1 .. 4] /\ batch \in [Clients -> SUBSET Tasks]
    BY DEF Init
  <2>5. /\ shutdown \in [Services -> BOOLEAN] /\ stopped \in BOOLEAN
        /\ alone \in [Clients -> BOOLEAN]
    BY Zenon DEF Init
  <2> QED
    BY <2>1, <2>2, <2>3, <2>4, <2>5 DEF Types
<1>2. Shape /\ Requested
  BY DEF Init, Shape, Requested
<1>3. Pool
  BY FieldsAreServices DEF Init, Pool, Taken, Pending
<1>4. \A c \in Clients : Honest(c)
  BY DEF Init, Honest, Said
<1> QED
  BY <1>1, <1>2, <1>3, <1>4 DEF Inv

(* The invariant holds in every reachable state.                           *)
LEMMA InvHolds == Spec => []Inv
<1>1. Init => Inv
  BY Initially
<1>2. Inv /\ [Next]_vars => Inv'
  BY Inductive
<1> QED
  BY <1>1, <1>2, PTL DEF Spec

(* When is_terminated has answered true or await_termination has returned, *)
(* every service was shut down and has no task left that runs or may start,*)
(* although the calls look at the services one by one and lock nothing;    *)
(* what may be left is a job of the blocking pool that a shutdown_now has  *)
(* drained and is about to cancel.                                         *)
THEOREM AnswersAreTrue == Spec => []TerminationIsTrue
<1> SUFFICES ASSUME Inv PROVE TerminationIsTrue
  BY InvHolds, PTL
<1> SUFFICES ASSUME NEW c \in Clients, answer[c] = "over", NEW s \in Services
             PROVE  /\ shutdown[s]
                    /\ \A t \in Tasks : status[s][t] \in Service(s)!Pending =>
                          /\ s = "blocking" /\ status[s][t] = "accepted"
                          /\ \E d \in Clients : /\ call[d] = "shutdown_now"
                                                /\ Visited(d) = s /\ t \in batch[d]
  BY DEF TerminationIsTrue
<1>1. IsOver(s) /\ Service(s)!Pending = Pending
  BY Contract DEF Inv, Honest, Said
<1>2. CASE s # "blocking"
  BY <1>1, <1>2 DEF IsOver
<1>3. CASE s = "blocking"
  <2>1. shutdown[s] /\ \A t \in Tasks : status[s][t] \in Pending => Taken(s, t)
    BY <1>1, <1>3 DEF IsOver, Inv, Pool
  <2>2. \A t \in Tasks : Taken(s, t) => status[s][t] \in {"accepted", "cancelled"}
    BY <1>3 DEF Inv, Pool
  <2>3. \A t \in Tasks : Taken(s, t) =>
          \E d \in Clients : call[d] = "shutdown_now" /\ Visited(d) = s /\ t \in batch[d]
    BY DEF Taken, Inv, Shape
  <2> QED
    BY <1>1, <1>3, <2>1, <2>2, <2>3 DEF Pending
<1> QED
  BY <1>2, <1>3

(* After shutdown or shutdown_now has returned, or is_shutdown was true,   *)
(* no submit function of the facade succeeds.                              *)
THEOREM ShutdownClosesEveryService == Spec => NothingAcceptedAfterShutdown
<1>1. ASSUME Inv, [Next]_vars, NEW c \in Clients, answer[c] = "shut",
             NEW s \in Services, NEW t \in Tasks,
             status[s][t] = "new", status'[s][t] \in Service(s)!Pending
      PROVE  FALSE
  <2>1. shutdown[s] /\ status'[s][t] \in Pending
    BY <1>1, Contract DEF Inv, Honest, Said
  <2>2. ASSUME NEW r \in Services, ServiceStep(r) \/ \E u \in Tasks : Submit(r, u)
        PROVE  FALSE
    BY <1>1, <2>1, <2>2, TaskMoves DEF Inv, Types, Pending
  <2>3. ASSUME NEW d \in Clients, NEW u \in Tasks, CancelNext(d, u) PROVE FALSE
    <3>1. Visited(d) \in Services
      BY <1>1, FieldsAreServices DEF Visited, Inv, Types
    <3>2. \/ status' = [status EXCEPT ![Visited(d)][u] = "cancelled"]
          \/ UNCHANGED status
      BY <1>1, <2>3, <3>1, CancelMoves DEF Inv
    <3> QED
      BY <1>1, <2>1, <3>1, <3>2 DEF Inv, Types, Pending
  <2>4. CASE UNCHANGED status
    BY <1>1, <2>1, <2>4 DEF Pending
  <2> QED
    BY <1>1, <2>2, <2>3, <2>4
       DEF Next, ClientStep, vars, tasks, Build, BuildFails, Failed, PoolStops,
           NotifiesAgain, Begin, Shutdown, ShutdownNow, ShutdownNowDone, IsShutdown,
           IsTerminated, AwaitTermination, AwaitRegisters
<1>2. Inv /\ [Next]_vars =>
        [\A s \in Services, t \in Tasks :
            (\E c \in Clients : answer[c] = "shut")
               => ~(status[s][t] = "new" /\ status'[s][t] \in Service(s)!Pending)]_vars
  BY <1>1
<1> QED
  BY <1>2, InvHolds, PTL DEF Spec, NothingAcceptedAfterShutdown

=============================================================================
