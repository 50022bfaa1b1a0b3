-------------------------- MODULE TaskHandleProofs --------------------------
(* Safety of TaskHandle for any number of runners and cancellers.          *)
EXTENDS TaskHandle, TLAPS

Claimed(c) == thread[c] \in {"notify", "wake", "won"}

(* started tells runners and cancellers apart: a runner past start() left  *)
(* it set, a cancel that published found it clear.                         *)
StartInv ==
    /\ \A r \in Runners : thread[r] \notin {"ready", "lost"} => started
    /\ \A c \in Cancellers :
         Claimed(c) => /\ completed /\ ~started
                       /\ result \in {Nothing, "Cancelled"}
                       /\ got \in {Nothing, "Cancelled"}
    /\ ~completed => got = Nothing

(* A result is in the cell from its publication until the owner took it.   *)
ResultInv ==
    /\ done = completed
    /\ \A r \in Runners : thread[r] = "complete" => value[r] # Nothing
    /\ owner # "panicked"
    /\ completed /\ owner # "finished" => result # Nothing

(* Before completion, the waker of a parked owner is in the cell.          *)
WakerInv ==
    /\ SleepingOwnerIsWoken
    /\ ~completed /\ owner = "parked" => waker = TRUE

Inv == TypeOK /\ StartInv /\ ResultInv /\ WakerInv

(* The actions of Next, one level deep.                                    *)
LEMMA TaskCases ==
    ASSUME [Next]_vars
    PROVE  \/ UNCHANGED vars
           \/ \E r \in Runners : Start(r) \/ Execute(r) \/ Complete(r)
           \/ \E c \in Cancellers : Cancel(c)
           \/ \E t \in Finishers : NotifyCompletion(t) \/ Wake(t)
           \/ Get \/ Poll \/ SpuriousWakeup
BY DEF Next, RunnerStep, FinisherStep, Finishers, Terminating

(* What a published or refused call of finish does.                        *)
LEMMA FinishCases ==
    ASSUME NEW t \in Finishers, NEW r, NEW canFinish \in BOOLEAN, NEW refused,
           Finish(t, r, canFinish, refused)
    PROVE  /\ UNCHANGED <<value, owner, got, started>>
           /\ \/ /\ completed \/ ~canFinish
                 /\ thread' = [thread EXCEPT ![t] = refused]
                 /\ UNCHANGED <<cell, to_wake>>
              \/ /\ ~completed /\ canFinish
                 /\ result' = r /\ completed' = TRUE /\ done' = TRUE
                 /\ waker' = FALSE
                 /\ to_wake' = IF waker THEN to_wake \cup {t} ELSE to_wake
                 /\ thread' = [thread EXCEPT ![t] = "notify"]
BY DEF Finish, cell

LEMMA TaskInit == Init => Inv
BY DEF Init, Inv, TypeOK, StartInv, ResultInv, WakerInv, SleepingOwnerIsWoken, Claimed,
   ThreadStates, OwnerStates, Finishers, Nothing, Results

LEMMA TaskStep ==
    ASSUME Inv, [Next]_vars
    PROVE  Inv'
<1>. USE DEF Inv
<1>1. CASE UNCHANGED vars
  BY <1>1 DEF vars, cell, TypeOK, StartInv, ResultInv, WakerInv, SleepingOwnerIsWoken,
     Claimed, Published
<1>2. ASSUME NEW r \in Runners, Start(r)
      PROVE  Inv'
  <2>1. TypeOK'
    BY <1>2 DEF Start, TypeOK, ThreadStates, Finishers
  <2>2. StartInv'
    BY <1>2, TaskAssumption DEF Start, TypeOK, StartInv, Claimed, Finishers
  <2>3. ResultInv'
    BY <1>2 DEF Start, TypeOK, ResultInv, Finishers
  <2>4. WakerInv'
    BY <1>2 DEF Start, TypeOK, WakerInv, SleepingOwnerIsWoken, Published, Finishers
  <2>. QED
    BY <2>1, <2>2, <2>3, <2>4
<1>3. ASSUME NEW r \in Runners, Execute(r)
      PROVE  Inv'
  <2>1. PICK outcome \in Outcomes : value' = [value EXCEPT ![r] = RunCallable(outcome)]
    BY <1>3 DEF Execute
  <2>2. RunCallable(outcome) \in Results /\ RunCallable(outcome) # Nothing
    BY TaskAssumption DEF RunCallable, TaskOutcomes, Results, Nothing
  <2>3. TypeOK'
    BY <1>3, <2>1, <2>2 DEF Execute, TypeOK, ThreadStates, Finishers, cell
  <2>4. StartInv'
    BY <1>3, TaskAssumption DEF Execute, TypeOK, StartInv, Claimed, Finishers, cell
  <2>5. ResultInv'
    BY <1>3, <2>1, <2>2 DEF Execute, TypeOK, ResultInv, Finishers, cell
  <2>6. WakerInv'
    BY <1>3 DEF Execute, TypeOK, WakerInv, SleepingOwnerIsWoken, Published, Finishers, cell
  <2>. QED
    BY <2>3, <2>4, <2>5, <2>6
<1>4. ASSUME NEW r \in Runners, Complete(r)
      PROVE  Inv'
  <2>1. r \in Finishers /\ thread[r] = "complete" /\ Finish(r, value[r], TRUE, "won")
    BY <1>4 DEF Complete, Finishers
  <2>2. \/ completed /\ UNCHANGED <<cell, to_wake>> /\ thread' = [thread EXCEPT ![r] = "won"]
        \/ /\ ~completed /\ completed' = TRUE /\ done' = TRUE /\ result' = value[r]
           /\ waker' = FALSE
           /\ to_wake' = IF waker THEN to_wake \cup {r} ELSE to_wake
           /\ thread' = [thread EXCEPT ![r] = "notify"]
    BY <2>1, FinishCases
  <2>3. UNCHANGED <<value, owner, got, started>>
    BY <2>1, FinishCases
  <2>4. TypeOK'
    BY <2>1, <2>2, <2>3 DEF TypeOK, ThreadStates, cell
  <2>5. StartInv'
    BY <1>4, <2>1, <2>2, <2>3, TaskAssumption DEF TypeOK, StartInv, Claimed, Finishers, cell
  <2>6. ResultInv'
    BY <1>4, <2>1, <2>2, <2>3 DEF TypeOK, ResultInv, cell, Finishers
  <2>7. WakerInv'
    BY <2>1, <2>2, <2>3 DEF TypeOK, WakerInv, SleepingOwnerIsWoken, Published, cell
  <2>. QED
    BY <2>4, <2>5, <2>6, <2>7
<1>5. ASSUME NEW c \in Cancellers, Cancel(c)
      PROVE  Inv'
  <2>1. c \in Finishers /\ thread[c] = "ready" /\ Finish(c, "Cancelled", ~started, "lost")
    BY <1>5 DEF Cancel, Finishers
  <2>2. \/ UNCHANGED <<cell, to_wake>> /\ thread' = [thread EXCEPT ![c] = "lost"]
        \/ /\ ~completed /\ ~started
           /\ completed' = TRUE /\ done' = TRUE /\ result' = "Cancelled"
           /\ waker' = FALSE
           /\ to_wake' = IF waker THEN to_wake \cup {c} ELSE to_wake
           /\ thread' = [thread EXCEPT ![c] = "notify"]
    BY <2>1, FinishCases
  <2>3. UNCHANGED <<value, owner, got, started>>
    BY <2>1, FinishCases
  <2>4. TypeOK'
    BY <2>1, <2>2, <2>3 DEF TypeOK, ThreadStates, cell, Results
  <2>5. StartInv'
    BY <1>5, <2>1, <2>2, <2>3, TaskAssumption DEF TypeOK, StartInv, Claimed, Finishers, cell
  <2>6. ResultInv'
    <3>1. \A r \in Runners : thread'[r] = thread[r]
      BY <1>5, <2>2, TaskAssumption DEF TypeOK, Finishers
    <3>2. "Cancelled" # Nothing
      BY DEF Nothing
    <3>3. done' = completed'
      <4>1. \/ done' = done /\ completed' = completed
            \/ done' = TRUE /\ completed' = TRUE
        BY <2>2 DEF cell
      <4>2. done = completed
        BY DEF ResultInv
      <4>. QED
        BY <4>1, <4>2, Zenon
    <3>4. \A r \in Runners : thread'[r] = "complete" => value'[r] # Nothing
      BY <2>3, <3>1 DEF ResultInv
    <3>5. completed' /\ owner' # "finished" => result' # Nothing
      BY <2>2, <2>3, <3>2 DEF ResultInv, cell
    <3>6. owner' # "panicked"
      BY <2>3 DEF ResultInv
    <3>. QED
      BY <3>3, <3>4, <3>5, <3>6 DEF ResultInv
  <2>7. WakerInv'
    BY <2>1, <2>2, <2>3 DEF TypeOK, WakerInv, SleepingOwnerIsWoken, Published, cell
  <2>. QED
    BY <2>4, <2>5, <2>6, <2>7
<1>6. ASSUME NEW t \in Finishers, NotifyCompletion(t) \/ Wake(t)
      PROVE  Inv'
  <2>1. TypeOK'
    BY <1>6 DEF NotifyCompletion, Wake, TypeOK, ThreadStates, OwnerStates, cell
  <2>2. StartInv'
    BY <1>6, TaskAssumption DEF NotifyCompletion, Wake, TypeOK, StartInv, Claimed, Finishers, cell
  <2>3. ResultInv'
    BY <1>6 DEF NotifyCompletion, Wake, TypeOK, ResultInv, Finishers, cell
  <2>4. WakerInv'
    BY <1>6 DEF NotifyCompletion, Wake, TypeOK, WakerInv, SleepingOwnerIsWoken, Published, cell
  <2>. QED
    BY <2>1, <2>2, <2>3, <2>4
<1>7. ASSUME Get \/ Poll \/ SpuriousWakeup
      PROVE  Inv'
  <2>1. TypeOK'
    BY <1>7 DEF Get, Poll, SpuriousWakeup, TakeResult, TypeOK, OwnerStates, cell
  <2>2. StartInv'
    BY <1>7 DEF Get, Poll, SpuriousWakeup, TakeResult, TypeOK, StartInv, Claimed, cell
  <2>3. ResultInv'
    BY <1>7 DEF Get, Poll, SpuriousWakeup, TakeResult, TypeOK, ResultInv, OutsideCall, cell
  <2>4. WakerInv'
    BY <1>7 DEF Get, Poll, SpuriousWakeup, TakeResult, TypeOK, WakerInv,
       SleepingOwnerIsWoken, Published, cell
  <2>. QED
    BY <2>1, <2>2, <2>3, <2>4
<1>. HIDE DEF Inv
<1>. QED
  BY <1>1, <1>2, <1>3, <1>4, <1>5, <1>6, <1>7, TaskCases

LEMMA TaskInvariance == Spec => []Inv
<1>1. Inv /\ [Next]_vars => Inv'
  BY TaskStep
<1>. QED
  BY <1>1, TaskInit, PTL DEF Spec

(* A cancel that returned true excludes every execution of the callable    *)
(* and every other result, for any number of runners and cancellers.       *)
THEOREM CancelWinsForGood == Spec => []CancelledNeverRuns
<1>1. Inv => CancelledNeverRuns
  BY DEF Inv, StartInv, Claimed, CancelledNeverRuns
<1>. QED
  BY <1>1, TaskInvariance, PTL

(* get() and poll() never meet a completed task without its result.        *)
THEOREM CompletedHasResult == Spec => []ResultIsThere
<1>1. Inv => ResultIsThere
  BY DEF Inv, ResultInv, ResultIsThere
<1>. QED
  BY <1>1, TaskInvariance, PTL

(* No completion is missed by an owner blocked in get() or parked by poll. *)
THEOREM CompletionIsNoticed == Spec => []SleepingOwnerIsWoken
<1>1. Inv => SleepingOwnerIsWoken
  BY DEF Inv, WakerInv
<1>. QED
  BY <1>1, TaskInvariance, PTL

(* The first published result is the one the owner gets.                   *)
THEOREM FirstResultWins == Spec => ResultIsFinal
<1>1. ASSUME Inv, [Next]_vars
      PROVE  [completed => /\ completed' /\ done'
                           /\ result' # result => result' = Nothing /\ got' = result]_vars
  <2>1. done = completed
    BY <1>1 DEF Inv, ResultInv
  <2>2. ASSUME NEW t \in Finishers, NEW r, NEW canFinish \in BOOLEAN, NEW refused,
               Finish(t, r, canFinish, refused), completed
        PROVE  completed' /\ done' /\ result' = result
    BY <2>1, <2>2, FinishCases DEF cell
  <2>. QED
    BY <1>1, <2>1, <2>2, TaskCases
       DEF Start, Execute, Complete, Cancel, NotifyCompletion, Wake, Get, Poll, TakeResult,
           SpuriousWakeup, Finishers, cell, vars
<1>. QED
  BY <1>1, TaskInvariance, PTL DEF Spec, ResultIsFinal
=============================================================================
