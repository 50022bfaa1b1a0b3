----------------------------- MODULE LockProofs -----------------------------
(***************************************************************************)
(* Proofs about the two components that are built on locks: Monitor, for   *)
(* every number of threads, every set of timeouts and every bound on the   *)
(* tokens, and, in the second part, DoubleChecked, for every finite set of *)
(* callers, every way of configuring the executor and every discipline for *)
(* the condition.                                                          *)
(***************************************************************************)
EXTENDS Monitor, DoubleChecked, TLAPS, FiniteSetTheorems

(* What a thread is about, by where it stands.                             *)
OpInv(t) ==
    /\ op[t] = "wait_notify" => broadcast
    /\ pc[t] \in {"idle", "notify", "unwound"} => op[t] = "write"
    /\ pc[t] = "measure" => op[t] = "wait_timeout_until"
    /\ pc[t] \in {"sleep", "asleep", "relock"} => op[t] # "write"

(* A thread that has looked at the state keeps the mutex until it sleeps,  *)
(* so what it has seen is still true.                                      *)
HoldInv(t) ==
    /\ pc[t] \in {"test", "measure", "sleep"} => mutex = t
    /\ pc[t] \in {"measure", "sleep"} /\ op[t] \in Waits => tokens = 0

(* The time a call has slept and the time it may still sleep are together  *)
(* within its timeout.                                                     *)
ClockInv(t) ==
    /\ op[t] \notin Timed => timeout[t] = 0
    /\ pc[t] = "lock" => slept[t] = 0 /\ alarm[t] = 0
    /\ slept[t] + alarm[t] <= timeout[t]
    /\ slept[t] <= elapsed[t]
    /\ op[t] = "wait_notify" /\ pc[t] # "lock" => slept[t] + alarm[t] = timeout[t]
    /\ status[t] # "None" => pc[t] = "relock"
    /\ op[t] = "wait_notify" /\ status[t] = "TimedOut" => slept[t] >= timeout[t]

ThreadInv(t) == OpInv(t) /\ HoldInv(t) /\ ClockInv(t)

Inv == TypeOK /\ (\A t \in Threads : ThreadInv(t)) /\ ReadyStateIsNoticed

LEMMA Initially == Init => Inv
<1>. SUFFICES ASSUME Init PROVE Inv
  OBVIOUS
<1>1. TypeOK
  <2>1. tokens \in 0 .. MaxTokens /\ {timeout, elapsed, slept, alarm} \subseteq [Threads -> Nat]
    BY MonitorAssumption DEF Init
  <2>2. /\ broadcast \in BOOLEAN /\ poisoned \in BOOLEAN /\ mutex \in Threads \cup {Nobody}
        /\ pc \in [Threads -> States] /\ op \in [Threads -> Operations]
        /\ status \in [Threads -> Statuses]
    BY DEF Init, States, Operations, Statuses
  <2>. QED
    BY <2>1, <2>2 DEF TypeOK
<1>2. \A t \in Threads : ThreadInv(t)
  BY DEF Init, ThreadInv, OpInv, HoldInv, ClockInv, Timed, Waits
<1>3. Sleepers = {}
  BY DEF Init, Sleepers
<1>. QED
  BY <1>1, <1>2, <1>3 DEF Inv, ReadyStateIsNoticed

-----------------------------------------------------------------------------
(* Types                                                                   *)

LEMMA TypeStep == TypeOK /\ [Next]_vars => TypeOK'
<1>. SUFFICES ASSUME TypeOK, [Next]_vars PROVE TypeOK'
  OBVIOUS
<1>. USE MonitorAssumption DEF TypeOK, States, Operations, Statuses, Waits, Timed, clock
<1>1. ASSUME NEW t \in Threads, NEW o \in Calls(t), NEW d \in Timeouts, Call(t, o, d)
      PROVE  TypeOK'
  <2>1. o \in Operations /\ d \in Nat
    BY DEF Calls
  <2>2. (IF o \in Timed THEN d ELSE 0) \in Nat
    BY <2>1
  <2>3. /\ timeout' \in [Threads -> Nat] /\ op' \in [Threads -> Operations]
        /\ pc' \in [Threads -> States]
    BY <1>1, <2>1, <2>2 DEF Call, Goto
  <2>. QED
    BY <1>1, <2>3 DEF Call
<1>2. ASSUME NEW t \in Threads, Lock(t)
      PROVE  TypeOK'
  BY <1>2 DEF Lock, AfterLock, Goto
<1>3. ASSUME NEW t \in Threads, Write(t) \/ WritePanics(t) \/ Sleep(t)
      PROVE  TypeOK'
  <2>1. tokens' \in 0 .. MaxTokens
    BY <1>3 DEF Write, WritePanics, Sleep
  <2>2. poisoned' \in BOOLEAN /\ pc' \in [Threads -> States] /\ mutex' = Nobody
    BY <1>3 DEF Write, WritePanics, Sleep, Goto
  <2>3. UNCHANGED <<broadcast, op, clock, status>>
    BY <1>3 DEF Write, WritePanics, Sleep
  <2>. QED
    BY <2>1, <2>2, <2>3
<1>4. ASSUME NEW t \in Threads, Test(t)
      PROVE  TypeOK'
  BY <1>4 DEF Test, Goto, Return
<1>5. ASSUME NEW t \in Threads, Measure(t)
      PROVE  TypeOK'
  <2>1. Remaining(t) \in Nat
    BY DEF Remaining
  <2>. QED
    BY <1>5, <2>1 DEF Measure, Goto, Return
<1>6. ASSUME NEW t \in Threads, TimesOut(t) \/ SpuriousWakeup(t)
      PROVE  TypeOK'
  BY <1>6 DEF TimesOut, SpuriousWakeup, Leave, Goto
<1>7. ASSUME NEW t \in Threads, Relock(t)
      PROVE  TypeOK'
  BY <1>7 DEF Relock, Goto, Return
<1>8. ASSUME NEW t \in Threads, Notify(t)
      PROVE  TypeOK'
  BY <1>8 DEF Notify, Sleepers
<1>9. CASE Tick
  <2>1. \A t \in Threads : Counts(t) => alarm[t] > 0
    BY DEF Counts
  <2>2. /\ elapsed' \in [Threads -> Nat] /\ slept' \in [Threads -> Nat]
    BY <1>9 DEF Tick
  <2>3. alarm' \in [Threads -> Nat]
    BY <1>9, <2>1 DEF Tick
  <2>. QED
    BY <1>9, <2>2, <2>3 DEF Tick
<1>10. CASE UNCHANGED vars
  BY <1>10 DEF vars
<1>. QED
  BY <1>1, <1>2, <1>3, <1>4, <1>5, <1>6, <1>7, <1>8, <1>9, <1>10 DEF Next, Step, Stuck

-----------------------------------------------------------------------------
(* The threads one by one                                                  *)

(* The steps of a thread that change only its own call.                    *)
OwnStep(t) ==
    \/ \E o \in Calls(t), d \in Timeouts : Call(t, o, d)
    \/ Lock(t) \/ Write(t) \/ WritePanics(t) \/ Test(t) \/ Measure(t) \/ Sleep(t)
    \/ TimesOut(t) \/ SpuriousWakeup(t) \/ Relock(t)

LEMMA OthersUntouched ==
    ASSUME TypeOK, NEW t \in Threads, NEW u \in Threads \ {t}, OwnStep(t)
    PROVE  /\ pc'[u] = pc[u] /\ op'[u] = op[u] /\ status'[u] = status[u]
           /\ timeout'[u] = timeout[u] /\ elapsed'[u] = elapsed[u]
           /\ slept'[u] = slept[u] /\ alarm'[u] = alarm[u]
           /\ broadcast' = broadcast
<1>. USE DEF OwnStep, Call, Lock, Write, WritePanics, Test, Measure, Sleep, TimesOut, SpuriousWakeup,
             Leave, Relock, Return, Goto, clock, TypeOK
<1>1. broadcast' = broadcast
  OBVIOUS
<1>2. pc'[u] = pc[u]
  OBVIOUS
<1>3. op'[u] = op[u] /\ status'[u] = status[u]
  OBVIOUS
<1>4. timeout'[u] = timeout[u] /\ elapsed'[u] = elapsed[u]
  OBVIOUS
<1>5. slept'[u] = slept[u] /\ alarm'[u] = alarm[u]
  OBVIOUS
<1>. QED
  BY <1>1, <1>2, <1>3, <1>4, <1>5

(* Nobody changes the state under a thread that holds the mutex.           *)
LEMMA OthersKeep ==
    ASSUME Inv, NEW t \in Threads, NEW u \in Threads \ {t}, OwnStep(t)
    PROVE  ThreadInv(u)'
<1>1. TypeOK /\ ThreadInv(t) /\ ThreadInv(u)
  BY DEF Inv
<1>2. /\ pc'[u] = pc[u] /\ op'[u] = op[u] /\ status'[u] = status[u]
      /\ timeout'[u] = timeout[u] /\ elapsed'[u] = elapsed[u]
      /\ slept'[u] = slept[u] /\ alarm'[u] = alarm[u]
      /\ broadcast' = broadcast
  BY <1>1, OthersUntouched
<1>3. OpInv(u)' /\ ClockInv(u)'
  BY <1>1, <1>2 DEF ThreadInv, OpInv, ClockInv
<1>4. \/ UNCHANGED <<mutex, tokens>> \/ mutex = Nobody
      \/ pc[t] \in {"test", "measure", "sleep"}
  BY DEF OwnStep, Call, Lock, Write, WritePanics, Test, Measure, Sleep, TimesOut, SpuriousWakeup,
     Leave, Relock
<1>5. u # Nobody
  BY MonitorAssumption DEF Threads
<1>6. HoldInv(u)'
  BY <1>1, <1>2, <1>4, <1>5 DEF ThreadInv, HoldInv
<1>. QED
  BY <1>3, <1>6 DEF ThreadInv

LEMMA OwnInv ==
    ASSUME Inv, NEW t \in Threads, OwnStep(t)
    PROVE  ThreadInv(t)'
<1>1. TypeOK /\ ThreadInv(t)
  BY DEF Inv
<1>2. /\ timeout[t] \in Nat /\ elapsed[t] \in Nat /\ slept[t] \in Nat /\ alarm[t] \in Nat
      /\ tokens \in Nat /\ op[t] \in Operations
  BY <1>1, MonitorAssumption DEF TypeOK
<1>. USE DEF ThreadInv, OpInv, HoldInv, ClockInv, Timed, Waits, clock
<1>3. ASSUME NEW o \in Calls(t), NEW d \in Timeouts, Call(t, o, d)
      PROVE  ThreadInv(t)'
  <2>1. /\ pc'[t] = "lock" /\ op'[t] = o /\ timeout'[t] = IF o \in Timed THEN d ELSE 0
        /\ pc[t] = "idle" /\ (o = "wait_notify" => broadcast) /\ d \in Nat
        /\ UNCHANGED <<broadcast, elapsed, slept, alarm, status>>
    BY <1>1, <1>3, MonitorAssumption DEF Call, Goto, TypeOK
  <2>2. op[t] = "write" /\ timeout[t] = 0 /\ status[t] = "None"
    BY <1>1, <2>1
  <2>3. slept[t] = 0 /\ alarm[t] = 0
    BY <1>1, <1>2, <2>2
  <2>4. OpInv(t)' /\ HoldInv(t)'
    BY <2>1
  <2>5. ClockInv(t)'
    BY <1>1, <1>2, <2>1, <2>2, <2>3
  <2>. QED
    BY <2>4, <2>5
<1>4. CASE Lock(t)
  <2>1. /\ pc[t] = "lock" /\ pc'[t] = AfterLock(t) /\ mutex' = t /\ elapsed'[t] = 0
        /\ alarm'[t] = timeout[t]
        /\ UNCHANGED <<broadcast, tokens, poisoned, op, timeout, slept, status>>
    BY <1>1, <1>4 DEF Lock, Goto, TypeOK
  <2>2. OpInv(t)' /\ HoldInv(t)'
    BY <1>1, <2>1 DEF AfterLock
  <2>3. ClockInv(t)'
    BY <1>1, <1>2, <2>1 DEF AfterLock
  <2>. QED
    BY <2>2, <2>3
<1>5. CASE Write(t) \/ WritePanics(t)
  <2>1. /\ pc[t] = "test" /\ op[t] = "write" /\ pc'[t] \in {"notify", "unwound"}
        /\ UNCHANGED <<broadcast, op, clock, status>>
    BY <1>1, <1>5 DEF Write, WritePanics, Goto, TypeOK
  <2>. QED
    BY <1>1, <2>1
<1>6. ASSUME Return(t), UNCHANGED broadcast
      PROVE  ThreadInv(t)'
  <2>1. /\ pc'[t] = "idle" /\ op'[t] = "write" /\ timeout'[t] = 0 /\ elapsed'[t] = 0
        /\ slept'[t] = 0 /\ alarm'[t] = 0 /\ status'[t] = "None"
    BY <1>1, <1>6 DEF Return, Goto, TypeOK
  <2>. QED
    BY <2>1
<1>7. CASE Test(t)
  <2>1. CASE tokens > 0
    BY <1>6, <1>7, <2>1 DEF Test
  <2>2. CASE ~(tokens > 0)
    <3>1. /\ pc[t] = "test" /\ op[t] \in Waits
          /\ pc'[t] = IF op[t] \in Timed THEN "measure" ELSE "sleep"
          /\ UNCHANGED <<broadcast, tokens, mutex, op, clock, status>>
      BY <1>1, <1>7, <2>2 DEF Test, Goto, TypeOK
    <3>2. tokens = 0
      BY <1>2, <2>2
    <3>. QED
      BY <1>1, <3>1, <3>2
  <2>. QED
    BY <2>1, <2>2
<1>8. CASE Measure(t)
  <2>1. CASE Remaining(t) = 0
    BY <1>6, <1>8, <2>1 DEF Measure
  <2>2. CASE Remaining(t) # 0
    <3>1. /\ pc[t] = "measure" /\ pc'[t] = "sleep" /\ alarm'[t] = timeout[t] - elapsed[t]
          /\ elapsed[t] < timeout[t]
          /\ UNCHANGED <<broadcast, tokens, mutex, op, timeout, elapsed, slept, status>>
      BY <1>1, <1>8, <2>2 DEF Measure, Remaining, Goto, TypeOK
    <3>2. OpInv(t)' /\ HoldInv(t)'
      BY <1>1, <3>1
    <3>3. ClockInv(t)'
      BY <1>1, <1>2, <3>1
    <3>. QED
      BY <3>2, <3>3
  <2>. QED
    BY <2>1, <2>2
<1>9. CASE Sleep(t)
  <2>1. /\ pc[t] = "sleep" /\ pc'[t] = "asleep" /\ UNCHANGED <<broadcast, op, clock, status>>
    BY <1>1, <1>9 DEF Sleep, Goto, TypeOK
  <2>. QED
    BY <1>1, <2>1
<1>10. CASE TimesOut(t) \/ SpuriousWakeup(t)
  <2>1. /\ pc[t] = "asleep" /\ pc'[t] = "relock" /\ UNCHANGED <<broadcast, op, clock>>
        /\ status'[t] = "TimedOut" => alarm[t] = 0
    BY <1>1, <1>10 DEF TimesOut, SpuriousWakeup, Leave, Goto, TypeOK
  <2>2. OpInv(t)' /\ HoldInv(t)'
    BY <1>1, <2>1
  <2>3. ClockInv(t)'
    BY <1>1, <1>2, <2>1
  <2>. QED
    BY <2>2, <2>3
<1>11. CASE Relock(t)
  <2>1. CASE op[t] \notin Waits
    BY <1>6, <1>11, <2>1 DEF Relock
  <2>2. CASE op[t] \in Waits
    <3>1. /\ pc'[t] = "test" /\ pc[t] = "relock" /\ mutex' = t /\ status'[t] = "None"
          /\ UNCHANGED <<broadcast, op, clock>>
      BY <1>1, <1>11, <2>2 DEF Relock, Goto, TypeOK
    <3>. QED
      BY <1>1, <2>2, <3>1
  <2>. QED
    BY <2>1, <2>2
<1>. QED
  BY <1>3, <1>4, <1>5, <1>7, <1>8, <1>9, <1>10, <1>11 DEF OwnStep

(* A notification sends sleepers back to the mutex; the rest stay.         *)
LEMMA NotifyInv ==
    ASSUME Inv, NEW t \in Threads, NEW u \in Threads, Notify(t)
    PROVE  ThreadInv(u)'
<1>1. TypeOK /\ ThreadInv(u)
  BY DEF Inv
<1>2. /\ pc[t] = "notify" /\ pc'[t] = "idle"
      /\ u # t => pc'[u] = pc[u] \/ (pc[u] = "asleep" /\ pc'[u] = "relock")
      /\ \/ status'[u] = status[u]
         \/ pc[u] = "asleep" /\ u # t /\ pc'[u] = "relock" /\ status'[u] = "Woken"
      /\ UNCHANGED <<broadcast, tokens, mutex, op, timeout, elapsed, slept, alarm>>
  BY <1>1 DEF Notify, Sleepers, TypeOK, clock
<1>3. OpInv(u)' /\ HoldInv(u)'
  BY <1>1, <1>2 DEF ThreadInv, OpInv, HoldInv
<1>4. ClockInv(u)'
  BY <1>1, <1>2 DEF ThreadInv, OpInv, ClockInv
<1>. QED
  BY <1>3, <1>4 DEF ThreadInv

LEMMA TickInv ==
    ASSUME Inv, NEW u \in Threads, Tick
    PROVE  ThreadInv(u)'
<1>1. TypeOK /\ ThreadInv(u)
  BY DEF Inv
<1>2. timeout[u] \in Nat /\ elapsed[u] \in Nat /\ slept[u] \in Nat /\ alarm[u] \in Nat
  BY <1>1 DEF TypeOK
<1>3. /\ UNCHANGED <<broadcast, tokens, mutex, pc, op, timeout, status>>
      /\ elapsed'[u] = elapsed[u] + (IF Ages(u) THEN 1 ELSE 0)
      /\ alarm'[u] = alarm[u] - (IF Counts(u) THEN 1 ELSE 0)
      /\ slept'[u] = slept[u] + (IF Counts(u) THEN 1 ELSE 0)
  BY DEF Tick
<1>4. OpInv(u)' /\ HoldInv(u)'
  BY <1>1, <1>3 DEF ThreadInv, OpInv, HoldInv
<1>5. CASE Counts(u)
  <2>1. pc[u] = "asleep" /\ alarm[u] > 0
    BY <1>5 DEF Counts, Sleepers
  <2>2. op[u] \in Timed
    BY <1>1, <1>2, <2>1 DEF ThreadInv, ClockInv
  <2>3. Ages(u) <=> elapsed[u] < timeout[u]
    BY <2>1, <2>2 DEF Ages, Running
  <2>. QED
    BY <1>1, <1>2, <1>3, <1>4, <1>5, <2>1, <2>3 DEF ThreadInv, ClockInv
<1>6. CASE ~Counts(u)
  <2>1. /\ alarm'[u] = alarm[u] /\ slept'[u] = slept[u]
        /\ elapsed'[u] \in Nat /\ elapsed'[u] >= elapsed[u]
    BY <1>2, <1>3, <1>6
  <2>. QED
    BY <1>1, <1>2, <1>3, <1>4, <2>1 DEF ThreadInv, ClockInv
<1>. QED
  BY <1>5, <1>6

-----------------------------------------------------------------------------
(* Tokens and helpers                                                      *)

Napping == \E t \in Sleepers : op[t] \in Waits

LEMMA HelpersAreFinite == IsFiniteSet(Helpers) /\ Cardinality(Helpers) \in Nat
<1>1. IsFiniteSet(Threads)
  BY FS_Union, MonitorAssumption DEF Threads
<1>2. IsFiniteSet(Helpers)
  BY <1>1, FS_Subset DEF Helpers
<1>. QED
  BY <1>2, FS_CardinalityType

LEMMA HelpersPrime == IsFiniteSet(Helpers') /\ Cardinality(Helpers') \in Nat
<1>1. (IsFiniteSet(Helpers) /\ Cardinality(Helpers) \in Nat)'
  BY HelpersAreFinite, PTL
<1>. QED
  BY <1>1

LEMMA EnoughHelpers ==
    ASSUME Inv,
           \/ tokens' = 0
           \/ (Napping' => Napping) /\ Helpers \subseteq Helpers' /\ tokens' = tokens
           \/ /\ Napping' => Napping
              /\ \E t \in Threads \ Helpers : Helpers' = Helpers \cup {t}
              /\ tokens' \in Nat /\ tokens' <= tokens + 1
           \/ /\ Napping' => Napping
              /\ \E t \in Helpers : Helpers' = Helpers \ {t}
              /\ tokens' = tokens - 1
    PROVE  ReadyStateIsNoticed'
<1>. SUFFICES ASSUME Napping' PROVE Cardinality(Helpers') >= tokens'
  BY DEF Napping, ReadyStateIsNoticed
<1>0. tokens \in Nat /\ (Napping => Cardinality(Helpers) >= tokens)
  BY MonitorAssumption DEF Inv, TypeOK, Napping, ReadyStateIsNoticed
<1>1. CASE tokens' = 0
  BY <1>1, HelpersPrime
<1>2. CASE Napping /\ Helpers \subseteq Helpers' /\ tokens' = tokens
  BY <1>0, <1>2, HelpersAreFinite, HelpersPrime, FS_Subset
<1>3. ASSUME Napping, NEW t \in Threads \ Helpers, Helpers' = Helpers \cup {t},
             tokens' \in Nat, tokens' <= tokens + 1
      PROVE  Cardinality(Helpers') >= tokens'
  <2>1. Cardinality(Helpers') = Cardinality(Helpers) + 1
    BY <1>3, HelpersAreFinite, FS_AddElement
  <2>. QED
    BY <1>0, <1>3, <2>1, HelpersAreFinite
<1>4. ASSUME Napping, NEW t \in Helpers, Helpers' = Helpers \ {t}, tokens' = tokens - 1
      PROVE  Cardinality(Helpers') >= tokens'
  <2>1. Cardinality(Helpers') = Cardinality(Helpers) - 1
    BY <1>4, HelpersAreFinite, FS_RemoveElement
  <2>. QED
    BY <1>0, <1>4, <2>1, HelpersAreFinite
<1>. QED
  BY <1>1, <1>2, <1>3, <1>4

LEMMA OwnNotice ==
    ASSUME Inv, NEW t \in Threads, OwnStep(t)
    PROVE  ReadyStateIsNoticed'
<1>1. TypeOK /\ ThreadInv(t)
  BY DEF Inv
<1>2. \A u \in Threads \ {t} : pc'[u] = pc[u] /\ op'[u] = op[u]
  BY <1>1, OthersUntouched
<1>3. \A u \in Threads \ {t} : u \in Helpers' <=> u \in Helpers
  BY <1>2 DEF Helpers
<1>4. ASSUME pc'[t] # "asleep"
      PROVE  Napping' => Napping
  BY <1>2, <1>4 DEF Napping, Sleepers
<1>5. tokens \in Nat
  BY <1>1, MonitorAssumption DEF TypeOK
<1>. USE DEF TypeOK, Goto
<1>6. ASSUME NEW o \in Calls(t), NEW d \in Timeouts, Call(t, o, d)
      PROVE  ReadyStateIsNoticed'
  <2>1. pc[t] = "idle" /\ pc'[t] = "lock" /\ tokens' = tokens
    BY <1>1, <1>6 DEF Call
  <2>2. Helpers \subseteq Helpers'
    BY <1>3, <2>1 DEF Helpers
  <2>. QED
    BY <1>4, <2>1, <2>2, EnoughHelpers
<1>7. CASE Lock(t)
  <2>1. pc[t] = "lock" /\ pc'[t] \in {"sleep", "test"} /\ tokens' = tokens
    BY <1>1, <1>7 DEF Lock, AfterLock
  <2>2. Helpers \subseteq Helpers'
    BY <1>3, <2>1 DEF Helpers
  <2>. QED
    BY <1>4, <2>1, <2>2, EnoughHelpers
<1>8. CASE Write(t)
  <2>1. /\ pc[t] = "test" /\ op[t] = "write" /\ pc'[t] = "notify"
        /\ tokens' \in Nat /\ tokens' <= tokens + 1
    BY <1>1, <1>5, <1>8 DEF Write
  <2>2. t \in Threads \ Helpers /\ Helpers' = Helpers \cup {t}
    <3>1. t \notin Helpers /\ t \in Helpers'
      BY <2>1 DEF Helpers, Waits
    <3>2. Helpers \subseteq Threads /\ Helpers' \subseteq Threads
      BY DEF Helpers
    <3>. QED
      BY <1>3, <3>1, <3>2
  <2>3. Napping' => Napping
    BY <1>4, <2>1
  <2>. QED
    BY <2>1, <2>2, <2>3, EnoughHelpers
<1>9. CASE WritePanics(t)
  <2>1. pc[t] = "test" /\ op[t] = "write" /\ pc'[t] = "unwound" /\ tokens' = tokens
    BY <1>1, <1>9 DEF WritePanics
  <2>2. Helpers \subseteq Helpers'
    BY <1>3, <2>1 DEF Helpers, Waits
  <2>. QED
    BY <1>4, <2>1, <2>2, EnoughHelpers
<1>10. CASE Test(t)
  <2>1. CASE tokens > 0
    <3>1. pc[t] = "test" /\ op[t] \in Waits /\ pc'[t] = "idle" /\ tokens' = tokens - 1
      BY <1>1, <1>10, <2>1 DEF Test, Return
    <3>2. t \in Helpers /\ t \notin Helpers'
      BY <3>1 DEF Helpers
    <3>3. Helpers' = Helpers \ {t}
      <4>1. Helpers \subseteq Threads /\ Helpers' \subseteq Threads
        BY DEF Helpers
      <4>. QED
        BY <1>3, <3>2, <4>1
    <3>4. Napping' => Napping
      BY <1>4, <3>1
    <3>. QED
      BY <3>1, <3>2, <3>3, <3>4, EnoughHelpers
  <2>2. CASE ~(tokens > 0)
    <3>1. tokens' = 0
      BY <1>5, <1>10, <2>2 DEF Test
    <3>. QED
      BY <3>1, EnoughHelpers
  <2>. QED
    BY <2>1, <2>2
<1>11. CASE Measure(t)
  <2>1. pc[t] = "measure" /\ pc'[t] \in {"idle", "sleep"} /\ tokens' = tokens
    BY <1>1, <1>11 DEF Measure, Return
  <2>2. Helpers \subseteq Helpers'
    BY <1>3, <2>1 DEF Helpers
  <2>. QED
    BY <1>4, <2>1, <2>2, EnoughHelpers
<1>12. CASE Sleep(t)
  <2>1. pc[t] = "sleep" /\ pc'[t] = "asleep" /\ tokens' = tokens /\ op' = op
    BY <1>1, <1>12 DEF Sleep
  <2>2. CASE op[t] \in Waits
    BY <1>1, <2>1, <2>2, EnoughHelpers DEF ThreadInv, HoldInv
  <2>3. CASE op[t] \notin Waits
    <3>1. Napping' => Napping
      BY <1>2, <2>1, <2>3 DEF Napping, Sleepers
    <3>2. Helpers \subseteq Helpers'
      BY <1>3, <2>1 DEF Helpers
    <3>. QED
      BY <2>1, <3>1, <3>2, EnoughHelpers
  <2>. QED
    BY <2>2, <2>3
<1>13. CASE TimesOut(t) \/ SpuriousWakeup(t)
  <2>1. pc[t] = "asleep" /\ pc'[t] = "relock" /\ tokens' = tokens
    BY <1>1, <1>13 DEF TimesOut, SpuriousWakeup, Leave
  <2>2. Helpers \subseteq Helpers'
    BY <1>3, <2>1 DEF Helpers
  <2>. QED
    BY <1>4, <2>1, <2>2, EnoughHelpers
<1>14. CASE Relock(t)
  <2>1. /\ pc[t] = "relock" /\ tokens' = tokens
        /\ \/ op[t] \in Waits /\ op' = op /\ pc'[t] = "test"
           \/ op[t] \notin Waits /\ pc'[t] = "idle"
    BY <1>1, <1>14 DEF Relock, Return
  <2>2. Helpers \subseteq Helpers'
    BY <1>3, <2>1 DEF Helpers
  <2>. QED
    BY <1>4, <2>1, <2>2, EnoughHelpers
<1>. QED
  BY <1>6, <1>7, <1>8, <1>9, <1>10, <1>11, <1>12, <1>13, <1>14 DEF OwnStep

(* A writer that has notified is replaced by the waiter it has woken.      *)
LEMMA NotifyNotice ==
    ASSUME Inv, NEW t \in Threads, Notify(t)
    PROVE  ReadyStateIsNoticed'
<1>1. TypeOK
  BY DEF Inv
<1>2. PICK woken \in SUBSET Sleepers :
        /\ IF broadcast \/ Sleepers = {} THEN woken = Sleepers ELSE Cardinality(woken) = 1
        /\ pc' = [s \in Threads |-> IF s = t THEN "idle"
                                    ELSE IF s \in woken THEN "relock" ELSE pc[s]]
  BY DEF Notify
<1>3. pc[t] = "notify" /\ UNCHANGED <<op, tokens>>
  BY DEF Notify
<1>4. CASE woken = Sleepers
  <2>1. Sleepers' = {}
    BY <1>2, <1>4 DEF Sleepers
  <2>. QED
    BY <2>1 DEF ReadyStateIsNoticed
<1>5. CASE woken # Sleepers
  <2>1. ~broadcast /\ Cardinality(woken) = 1
    BY <1>2, <1>5
  <2>2. PICK u \in woken : TRUE
    BY <2>1, FS_EmptySet
  <2>3. u \in Threads /\ pc[u] = "asleep" /\ u # t /\ pc'[u] = "relock"
    BY <1>2, <1>3, <2>2 DEF Sleepers
  <2>4. op[u] \in Waits
    BY <1>1, <2>1, <2>3 DEF Inv, ThreadInv, OpInv, TypeOK, Operations, Waits, Timed
  <2>5. u \notin Helpers /\ u \in Helpers' /\ t \in Helpers
    BY <1>3, <2>3, <2>4 DEF Helpers
  <2>6. \A s \in Threads \ {t} : s \in Helpers => s \in Helpers'
    BY <1>2, <1>3 DEF Helpers, Sleepers
  <2>7. (Helpers \ {t}) \cup {u} \subseteq Helpers'
    BY <2>5, <2>6 DEF Helpers
  <2>8. Cardinality((Helpers \ {t}) \cup {u}) = Cardinality(Helpers)
    <3>1. IsFiniteSet(Helpers \ {t}) /\ Cardinality(Helpers \ {t}) = Cardinality(Helpers) - 1
      BY <2>5, HelpersAreFinite, FS_RemoveElement
    <3>2. u \notin Helpers \ {t}
      BY <2>5
    <3>3. Cardinality((Helpers \ {t}) \cup {u}) = Cardinality(Helpers \ {t}) + 1
      BY <3>1, <3>2, FS_AddElement
    <3>. QED
      BY <3>1, <3>3, HelpersAreFinite
  <2>9. Cardinality(Helpers') >= Cardinality(Helpers)
    BY <2>7, <2>8, HelpersPrime, FS_Subset
  <2>10. Napping' => Napping
    BY <1>2, <1>3 DEF Napping, Sleepers
  <2>11. tokens \in Nat /\ (Napping => Cardinality(Helpers) >= tokens)
    BY <1>1, MonitorAssumption DEF Inv, TypeOK, Napping, ReadyStateIsNoticed
  <2>. QED
    BY <1>3, <2>9, <2>10, <2>11, HelpersAreFinite, HelpersPrime DEF ReadyStateIsNoticed, Napping
<1>. QED
  BY <1>4, <1>5

LEMMA InvStep == Inv /\ [Next]_vars => Inv'
<1>. SUFFICES ASSUME Inv, [Next]_vars PROVE Inv'
  OBVIOUS
<1>1. TypeOK'
  BY TypeStep DEF Inv
<1>2. ASSUME NEW t \in Threads, OwnStep(t)
      PROVE  Inv'
  <2>1. ASSUME NEW u \in Threads PROVE ThreadInv(u)'
    BY <1>2, OwnInv, OthersKeep
  <2>. QED
    BY <1>1, <1>2, <2>1, OwnNotice DEF Inv
<1>3. ASSUME NEW t \in Threads, Notify(t)
      PROVE  Inv'
  BY <1>1, <1>3, NotifyInv, NotifyNotice DEF Inv
<1>4. CASE Tick
  <2>1. UNCHANGED <<tokens, pc, op>>
    BY <1>4 DEF Tick
  <2>2. ReadyStateIsNoticed'
    BY <2>1 DEF Inv, ReadyStateIsNoticed, Sleepers, Helpers
  <2>. QED
    BY <1>1, <1>4, <2>2, TickInv DEF Inv
<1>5. CASE UNCHANGED vars
  BY <1>1, <1>5 DEF Inv, vars, clock, ThreadInv, OpInv, HoldInv, ClockInv, ReadyStateIsNoticed,
     Sleepers, Helpers
<1>. QED
  BY <1>2, <1>3, <1>4, <1>5 DEF Next, Step, OwnStep, Stuck

LEMMA Invariance == Spec => []Inv
<1>. QED
  BY Initially, InvStep, PTL DEF Spec

(* While a wait sleeps next to tokens, as many threads are on their way to *)
(* look at the state again, although write has released the mutex before   *)
(* the caller notifies: no notification is lost, not even to a wait that   *)
(* times out, for any number of threads.                                   *)
THEOREM NoNotificationIsLost == Spec => []ReadyStateIsNoticed
<1>1. Inv => ReadyStateIsNoticed
  BY DEF Inv
<1>. QED
  BY <1>1, Invariance, PTL

(* wait_timeout_while never sleeps longer than its timeout, however often  *)
(* it is woken in vain, gives up only when the time is over and the state  *)
(* not ready, and wait_notify reports TimedOut only after its full timeout.*)
THEOREM TimeoutsAreKept == Spec => TimeoutIsKept
<1>. DEFINE Kept == \A t \in Threads :
              /\ slept'[t] <= timeout'[t]
              /\ Ends(t, "wait_timeout_until") /\ tokens' = tokens
                    => elapsed[t] >= timeout[t] /\ tokens = 0
              /\ Ends(t, "wait_notify") /\ status[t] = "TimedOut"
                    => slept[t] >= timeout[t]
<1>1. Inv /\ Inv' /\ [Next]_vars => [Kept]_vars
  <2>. SUFFICES ASSUME Inv, Inv', Next, NEW t \in Threads
                PROVE  /\ slept'[t] <= timeout'[t]
                       /\ Ends(t, "wait_timeout_until") /\ tokens' = tokens
                             => elapsed[t] >= timeout[t] /\ tokens = 0
                       /\ Ends(t, "wait_notify") /\ status[t] = "TimedOut"
                             => slept[t] >= timeout[t]
    OBVIOUS
  <2>1. slept'[t] <= timeout'[t]
    <3>1. slept'[t] + alarm'[t] <= timeout'[t]
      <4>1. ThreadInv(t)'
        BY DEF Inv
      <4>. QED
        BY <4>1 DEF ThreadInv, ClockInv
    <3>2. slept'[t] \in Nat /\ alarm'[t] \in Nat /\ timeout'[t] \in Nat
      BY DEF Inv, TypeOK
    <3>. QED
      BY <3>1, <3>2
  <2>2. ASSUME Ends(t, "wait_timeout_until"), tokens' = tokens
        PROVE  elapsed[t] >= timeout[t] /\ tokens = 0
    <3>0. TypeOK /\ ThreadInv(t) /\ tokens \in Nat /\ elapsed[t] \in Nat /\ timeout[t] \in Nat
      BY MonitorAssumption DEF Inv, TypeOK
    <3>1. pc[t] # "idle" /\ pc'[t] = "idle" /\ op[t] = "wait_timeout_until"
      BY <2>2 DEF Ends
    <3>2. Measure(t) /\ Remaining(t) = 0
      <4>1. ASSUME NEW u \in Threads, OwnStep(u)
            PROVE  u = t
        BY <3>0, <3>1, <4>1, OthersUntouched
      <4>2. ~\E o \in Calls(t), d \in Timeouts : Call(t, o, d)
        BY <3>1 DEF Call
      <4>3. ~(Lock(t) \/ Write(t) \/ WritePanics(t) \/ Sleep(t) \/ TimesOut(t) \/ SpuriousWakeup(t))
        BY <3>0, <3>1 DEF Lock, AfterLock, Write, WritePanics, Sleep, TimesOut, SpuriousWakeup, Leave,
           Goto, TypeOK
      <4>4. ~Test(t)
        BY <2>2, <3>0, <3>1 DEF Test, Goto, TypeOK
      <4>5. ~Relock(t)
        BY <3>0, <3>1 DEF Relock, Goto, TypeOK, Waits
      <4>6. ASSUME NEW u \in Threads PROVE ~Notify(u)
        BY <3>0, <3>1 DEF Notify, ThreadInv, OpInv
      <4>7. ~Tick /\ ~Stuck
        BY <3>1 DEF Tick, Stuck, vars
      <4>8. Measure(t)
        BY <4>1, <4>2, <4>3, <4>4, <4>5, <4>6, <4>7 DEF Next, Step, OwnStep
      <4>. QED
        BY <3>0, <3>1, <4>8 DEF Measure, Goto, TypeOK
    <3>. QED
      BY <3>0, <3>1, <3>2 DEF Measure, Remaining, ThreadInv, HoldInv, Waits
  <2>3. ASSUME Ends(t, "wait_notify"), status[t] = "TimedOut"
        PROVE  slept[t] >= timeout[t]
    BY <2>3 DEF Ends, Inv, ThreadInv, ClockInv
  <2>. QED
    BY <2>1, <2>2, <2>3
<1>. QED
  BY <1>1, Invariance, PTL DEF Spec, TimeoutIsKept

-----------------------------------------------------------------------------
(* DoubleChecked                                                           *)

(* Who is in the critical section holds the lock.                          *)
LockInv == \A c \in Callers : stage[c] \in {"retest", "task"} => lock = c

(* What a call has recorded at each of its stages.                         *)
CallInv(c) ==
    /\ stage[c] \in {"idle", "prepare", "acquire", "retest", "task"} =>
         outcome[c] = None /\ finalized[c] = None /\ result[c] = None
    /\ stage[c] \in {"idle", "prepare"} => c \notin prepared
    /\ stage[c] = "finalize" =>
         /\ c \in prepared /\ finalized[c] = None
         /\ \/ result[c] = "Success" /\ outcome[c] = "ok"
            \/ result[c] = "TaskFailed" /\ outcome[c] = "fails"
            \/ result[c] = "ConditionNotMet" /\ outcome[c] = None
    /\ stage[c] = "returned" => finalized[c] = ExpectedFinalizer(c)
    /\ stage[c] = "returned" =>
         /\ result[c] \in {"Success", "PrepareCommitFailed"} <=> outcome[c] = "ok"
         /\ result[c] = "TaskFailed" => outcome[c] = "fails"
         /\ result[c] \in {"ConditionNotMet", "PrepareFailed"} => outcome[c] = None
    /\ stage[c] = "unwound" => outcome[c] # "ok"

(* With tasks that make the condition false, a success is the last one.    *)
OnceInv ==
    usage = "once" =>
        /\ \A c \in Callers : outcome[c] = "ok" => ~condition
        /\ \A c, d \in Callers : outcome[c] = "ok" /\ outcome[d] = "ok" => c = d

CallsInv ==
    /\ DCTypeOK
    /\ LockInv
    /\ ConditionHoldsInTask
    /\ \A c \in Callers : CallInv(c)
    /\ OnceInv

(* The invariant holds initially.                                          *)
LEMMA CallsInitially == DCInit => CallsInv
<1>. SUFFICES ASSUME DCInit PROVE CallsInv
  OBVIOUS
<1>1. DCTypeOK /\ LockInv /\ ConditionHoldsInTask /\ OnceInv
  BY DEF DCInit, DCTypeOK, Stages, None, LockInv, ConditionHoldsInTask, OnceInv
<1>2. \A c \in Callers : CallInv(c)
  BY DEF DCInit, CallInv, None
<1>. QED
  BY <1>1, <1>2 DEF CallsInv

(* The calls of the others do not change.                                  *)
LEMMA OthersKeepTheirCall ==
    ASSUME CallsInv, NEW c \in Callers, NEW d \in Callers, CallerStep(c), d # c
    PROVE  CallInv(d)'
<1>1. /\ stage'[d] = stage[d] /\ outcome'[d] = outcome[d] /\ result'[d] = result[d]
      /\ finalized'[d] = finalized[d] /\ (d \in prepared' <=> d \in prepared)
      /\ configured' = configured
  BY DEF CallerStep, FirstTest, Prepare, Acquire, Retest, RunTask,
         FinalizePrepare, Proceed,
         Yields, CallsInv, DCTypeOK, shared, setup, call
<1>2. CallInv(d)
  BY DEF CallsInv
<1>. QED
  BY <1>1, <1>2 DEF CallInv, ExpectedFinalizer

(* The invariant is preserved: one step per action.                        *)
LEMMA CallsStep ==
    CallsInv /\ [DCNext]_DCVars => CallsInv'
<1>. SUFFICES ASSUME CallsInv, [DCNext]_DCVars PROVE CallsInv'
  OBVIOUS
<1>. USE DEF CallsInv, shared, setup, call
<1>1. ASSUME NEW c \in Callers, CallerStep(c), CallInv(c)',
             (DCTypeOK /\ LockInv /\ ConditionHoldsInTask /\ OnceInv)'
      PROVE  CallsInv'
  BY <1>1, OthersKeepTheirCall
<1>. USE DEF DCTypeOK, Stages, Results, Actions, Usages, None
<1>2. ASSUME NEW c \in Callers, FirstTest(c)
      PROVE  CallsInv'
  <2>1. (DCTypeOK /\ LockInv /\ ConditionHoldsInTask /\ OnceInv)'
    BY <1>2 DEF FirstTest, Proceed, Yields, LockInv, ConditionHoldsInTask, OnceInv
  <2>2. CallInv(c)'
    BY <1>2 DEF FirstTest, Proceed, Yields, CallInv, ExpectedFinalizer
  <2>. QED
    BY <1>1, <1>2, <2>1, <2>2 DEF CallerStep
<1>3. ASSUME NEW c \in Callers, Prepare(c)
      PROVE  CallsInv'
  <2>1. (DCTypeOK /\ LockInv /\ ConditionHoldsInTask /\ OnceInv)'
    BY <1>3 DEF Prepare, Proceed, Yields, LockInv, ConditionHoldsInTask, OnceInv
  <2>2. CallInv(c)'
    BY <1>3 DEF Prepare, Proceed, Yields, CallInv, ExpectedFinalizer
  <2>. QED
    BY <1>1, <1>3, <2>1, <2>2 DEF CallerStep
<1>4. ASSUME NEW c \in Callers, Acquire(c)
      PROVE  CallsInv'
  <2>1. (DCTypeOK /\ LockInv /\ ConditionHoldsInTask /\ OnceInv)'
    BY <1>4, DoubleCheckedAssumption
       DEF Acquire, Proceed, LockInv, ConditionHoldsInTask, OnceInv
  <2>2. CallInv(c)'
    BY <1>4 DEF Acquire, Proceed, CallInv, ExpectedFinalizer
  <2>. QED
    BY <1>1, <1>4, <2>1, <2>2 DEF CallerStep
<1>5. ASSUME NEW c \in Callers, Retest(c)
      PROVE  CallsInv'
  <2>1. (DCTypeOK /\ LockInv /\ ConditionHoldsInTask /\ OnceInv)'
    BY <1>5, DoubleCheckedAssumption
       DEF Retest, Proceed, Yields, AfterSection, LockInv,
           ConditionHoldsInTask, OnceInv
  <2>2. CallInv(c)'
    BY <1>5 DEF Retest, Proceed, Yields, AfterSection, CallInv, ExpectedFinalizer
  <2>. QED
    BY <1>1, <1>5, <2>1, <2>2 DEF CallerStep
<1>6. ASSUME NEW c \in Callers, RunTask(c)
      PROVE  CallsInv'
  <2>1. DCTypeOK'
    BY <1>6 DEF RunTask, Proceed, Yields, AfterSection
  <2>2. \A d \in Callers : stage'[d] \in {"retest", "task"} => d # c /\ stage[d] = stage'[d]
    BY <1>6 DEF RunTask, Proceed, Yields, AfterSection
  <2>3. \A d \in Callers : stage'[d] \notin {"retest", "task"}
    BY <2>2, <1>6 DEF RunTask, LockInv
  <2>4. (LockInv /\ ConditionHoldsInTask)'
    BY <2>3 DEF LockInv, ConditionHoldsInTask
  <2>5. OnceInv'
    BY <1>6 DEF RunTask, OnceInv, ConditionHoldsInTask
  <2>6. CallInv(c)'
    BY <1>6 DEF RunTask, Proceed, Yields, AfterSection, CallInv, ExpectedFinalizer
  <2>. QED
    BY <1>1, <1>6, <2>1, <2>4, <2>5, <2>6 DEF CallerStep
<1>7. ASSUME NEW c \in Callers, FinalizePrepare(c)
      PROVE  CallsInv'
  <2>1. (DCTypeOK /\ LockInv /\ ConditionHoldsInTask /\ OnceInv)'
    BY <1>7 DEF FinalizePrepare, Proceed, Yields, LockInv, ConditionHoldsInTask, OnceInv
  <2>2. CallInv(c)'
    BY <1>7 DEF FinalizePrepare, Proceed, Yields, CallInv, ExpectedFinalizer
  <2>. QED
    BY <1>1, <1>7, <2>1, <2>2 DEF CallerStep
<1>8. CASE ConditionChanges
  BY <1>8 DEF ConditionChanges, LockInv, ConditionHoldsInTask, CallInv,
     ExpectedFinalizer, OnceInv
<1>9. CASE UNCHANGED DCVars
  BY <1>9 DEF DCVars, LockInv, ConditionHoldsInTask, CallInv, ExpectedFinalizer, OnceInv
<1>. QED
  BY <1>2, <1>3, <1>4, <1>5, <1>6, <1>7, <1>8, <1>9 DEF DCNext, CallerStep, AllOver

(* Hence the invariant holds in every reachable state.                     *)
LEMMA CallsInvariance ==
    DCSpec => []CallsInv
<1>. QED
  BY CallsInitially, CallsStep, PTL DEF DCSpec

-----------------------------------------------------------------------------
(* When the condition only changes under the lock, a task never runs       *)
(* without it.                                                             *)
THEOREM TasksRunUnderTheirCondition ==
    DCSpec => []ConditionHoldsInTask
<1>1. CallsInv => ConditionHoldsInTask
  BY DEF CallsInv
<1>. QED
  BY <1>1, CallsInvariance, PTL

(* If a successful task makes the condition false, at most one of any      *)
(* number of racing callers succeeds.                                      *)
THEOREM AtMostOneSuccess ==
    DCSpec => []OneSuccess
<1>1. CallsInv => OneSuccess
  <2>. SUFFICES ASSUME CallsInv, usage = "once"
                PROVE  Cardinality({c \in Callers : outcome[c] = "ok"}) <= 1
    BY DEF OneSuccess
  <2>. DEFINE Successful == {c \in Callers : outcome[c] = "ok"}
  <2>1. CASE Successful = {}
    BY <2>1, FS_EmptySet
  <2>2. CASE Successful # {}
    <3>1. PICK c \in Callers : outcome[c] = "ok"
      BY <2>2
    <3>2. Successful = {c}
      BY <3>1 DEF CallsInv, OnceInv
    <3>3. Cardinality({c}) = 1
      BY FS_Singleton
    <3>. QED
      BY <3>2, <3>3
  <2>. QED
    BY <2>1, <2>2
<1>. QED
  BY <1>1, CallsInvariance, PTL

(* Every call that returns has finalized its prepare by the action that    *)
(* its task calls for.                                                     *)
THEOREM PreparesAreFinalized ==
    DCSpec => []PrepareIsFinalized
<1>1. CallsInv => PrepareIsFinalized
  BY DEF CallsInv, CallInv, PrepareIsFinalized
<1>. QED
  BY <1>1, CallsInvariance, PTL

(* The result of a call tells what its task did.                           *)
THEOREM ResultsTellOutcomes ==
    DCSpec => []ResultTellsOutcome
<1>1. CallsInv => ResultTellsOutcome
  BY DEF CallsInv, CallInv, ResultTellsOutcome
<1>. QED
  BY <1>1, CallsInvariance, PTL

=============================================================================
