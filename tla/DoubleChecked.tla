---------------------------- MODULE DoubleChecked ----------------------------
(***************************************************************************)
(* DoubleCheckedLockExecutor                                               *)
(* (double_checked/double_checked_lock_executor.rs): test the condition,   *)
(* prepare, lock, test again, run the task, unlock, then commit or roll    *)
(* back what was prepared.                                                 *)
(*                                                                         *)
(* The executor itself is immutable; what its callers share is the lock    *)
(* and the condition the tester reads, so every call of the tester and of  *)
(* an action is a step.  call, execute, call_with and execute_with differ  *)
(* only in the task they pass on.  The lock is any implementation of Lock  *)
(* (lock/lock.rs); those over std locks are poisoned by a panic.           *)
(*                                                                         *)
(* How the executor is used is chosen once: which actions it has, which    *)
(* lock, and who changes the condition, namely anyone at any time (free),  *)
(* only those who hold the lock (guarded), or guarded with tasks that make *)
(* the condition false when they succeed (once).                           *)
(*                                                                         *)
(* The names of the specification carry the prefix DC, so that a module    *)
(* can extend this one and Monitor.                                        *)
(***************************************************************************)
EXTENDS Naturals, FiniteSets

CONSTANTS
    Callers,         \* threads, each of which makes one call
    NoCaller         \* the lock is free

ASSUME DoubleCheckedAssumption ==
    IsFiniteSet(Callers) /\ NoCaller \notin Callers

VARIABLES
    configured,      \* which of the optional actions were configured
    std_lock,        \* TRUE for a lock that a panic poisons
    usage,           \* who changes the condition
    condition,       \* what the tester reads
    lock,            \* who holds the write lock
    lock_poisoned,
    stage,           \* where each caller stands
    prepared,        \* callers whose prepare action has succeeded
    outcome,         \* how each caller's task ended
    finalized,       \* the action that was run to finalize the prepare
    result           \* what execute_with_write_lock has computed

setup == <<configured, std_lock, usage>>
shared == <<setup, condition, lock, lock_poisoned>>
call == <<prepared, outcome, finalized, result>>
DCVars == <<shared, stage, call>>

Actions == {"prepare", "commit", "rollback"}
Usages == {"free", "guarded", "once"}

(* retest, task: inside the critical section; unwound: left by a panic.    *)
Stages == {"idle", "prepare", "acquire", "retest", "task", "finalize",
           "returned", "unwound"}

Results == {"Success", "ConditionNotMet", "TaskFailed", "PrepareFailed",
            "PrepareCommitFailed", "PrepareRollbackFailed"}

None == "None"

DCTypeOK ==
    /\ configured \subseteq Actions
    /\ std_lock \in BOOLEAN /\ usage \in Usages
    /\ condition \in BOOLEAN /\ lock_poisoned \in BOOLEAN
    /\ lock \in Callers \cup {NoCaller}
    /\ stage \in [Callers -> Stages]
    /\ prepared \subseteq Callers
    /\ outcome \in [Callers -> {"ok", "fails", "panics", None}]
    /\ finalized \in [Callers -> Actions \cup {None}]
    /\ result \in [Callers -> Results \cup {None}]

(* build: prepare, commit_prepare and rollback_prepare are optional.       *)
DCInit ==
    /\ configured \in SUBSET Actions
    /\ std_lock \in BOOLEAN /\ usage \in Usages
    /\ condition \in BOOLEAN
    /\ lock = NoCaller /\ lock_poisoned = FALSE
    /\ stage = [c \in Callers |-> "idle"]
    /\ prepared = {}
    /\ outcome = [c \in Callers |-> None]
    /\ finalized = [c \in Callers |-> None]
    /\ result = [c \in Callers |-> None]

Proceed(c, s) == stage' = [stage EXCEPT ![c] = s]

Yields(c, r) == result' = [result EXCEPT ![c] = r]

(* After the critical section: finalize if something was prepared.         *)
AfterSection(c) == IF c \in prepared THEN "finalize" ELSE "returned"

-----------------------------------------------------------------------------
(* The first test, outside the lock                                        *)
FirstTest(c) ==
    /\ stage[c] = "idle"
    /\ IF condition
       THEN Proceed(c, "prepare") /\ UNCHANGED result
       ELSE Proceed(c, "returned") /\ Yields(c, "ConditionNotMet")
    /\ UNCHANGED <<shared, prepared, outcome, finalized>>

(* run_prepare_action *)
Prepare(c) ==
    /\ stage[c] = "prepare"
    /\ \/ /\ "prepare" \notin configured
          /\ Proceed(c, "acquire") /\ UNCHANGED <<prepared, result>>
       \/ /\ "prepare" \in configured
          /\ Proceed(c, "acquire") /\ prepared' = prepared \cup {c} /\ UNCHANGED result
       \/ /\ "prepare" \in configured
          /\ Proceed(c, "returned") /\ Yields(c, "PrepareFailed") /\ UNCHANGED prepared
    /\ UNCHANGED <<shared, outcome, finalized>>

(* Lock::write; unwrap() panics on a poisoned lock.                        *)
Acquire(c) ==
    /\ stage[c] = "acquire"
    /\ lock = NoCaller
    /\ IF lock_poisoned
       THEN Proceed(c, "unwound") /\ UNCHANGED lock
       ELSE Proceed(c, "retest") /\ lock' = c
    /\ UNCHANGED <<setup, condition, lock_poisoned, call>>

(* Mutant: the condition is not tested again.                              *)
RetestSkipped(c) ==
    /\ stage[c] = "retest"
    /\ Proceed(c, "task")
    /\ UNCHANGED <<shared, call>>

(* Mutant: an unmet condition returns without finalizing.                  *)
RetestReturns(c) ==
    /\ stage[c] = "retest"
    /\ IF condition
       THEN Proceed(c, "task") /\ UNCHANGED <<lock, result>>
       ELSE /\ Proceed(c, "returned") /\ Yields(c, "ConditionNotMet")
            /\ lock' = NoCaller
    /\ UNCHANGED <<setup, condition, lock_poisoned, prepared, outcome, finalized>>

(* The second test, inside the lock                                        *)
Retest(c) ==
    /\ stage[c] = "retest"
    /\ IF condition
       THEN Proceed(c, "task") /\ UNCHANGED <<lock, result>>
       ELSE /\ Proceed(c, AfterSection(c)) /\ Yields(c, "ConditionNotMet")
            /\ lock' = NoCaller
    /\ UNCHANGED <<setup, condition, lock_poisoned, prepared, outcome, finalized>>

(* The task runs and the lock is released, by return or by unwinding.      *)
RunTask(c) ==
    /\ stage[c] = "task"
    /\ lock' = NoCaller
    /\ condition' \in BOOLEAN
    /\ \/ /\ outcome' = [outcome EXCEPT ![c] = "ok"]
          /\ usage = "once" => ~condition'
          /\ Yields(c, "Success") /\ Proceed(c, AfterSection(c)) /\ UNCHANGED lock_poisoned
       \/ /\ outcome' = [outcome EXCEPT ![c] = "fails"]
          /\ usage = "once" => ~condition' \/ UNCHANGED condition
          /\ Yields(c, "TaskFailed") /\ Proceed(c, AfterSection(c)) /\ UNCHANGED lock_poisoned
       \/ /\ outcome' = [outcome EXCEPT ![c] = "panics"]
          /\ usage = "once" => ~condition' \/ UNCHANGED condition
          /\ lock_poisoned' = std_lock
          /\ Proceed(c, "unwound") /\ UNCHANGED result
    /\ UNCHANGED <<setup, prepared, finalized>>

(* Mutant: what was prepared is always committed.                          *)
FinalizeCommits(c) ==
    /\ stage[c] = "finalize"
    /\ \/ "commit" \notin configured /\ UNCHANGED <<finalized, result>>
       \/ /\ "commit" \in configured
          /\ finalized' = [finalized EXCEPT ![c] = "commit"]
          /\ UNCHANGED result \/ Yields(c, "PrepareCommitFailed")
    /\ Proceed(c, "returned")
    /\ UNCHANGED <<shared, prepared, outcome>>

(* finalize_prepare: commit on success, otherwise roll back; an action     *)
(* that fails replaces the result.                                         *)
FinalizePrepare(c) ==
    /\ stage[c] = "finalize"
    /\ LET action == IF result[c] = "Success" THEN "commit" ELSE "rollback"
           failure == IF action = "commit" THEN "PrepareCommitFailed"
                                           ELSE "PrepareRollbackFailed"
       IN  \/ action \notin configured /\ UNCHANGED <<finalized, result>>
           \/ /\ action \in configured
              /\ finalized' = [finalized EXCEPT ![c] = action]
              /\ UNCHANGED result \/ Yields(c, failure)
    /\ Proceed(c, "returned")
    /\ UNCHANGED <<shared, prepared, outcome>>

(* External: the state behind the tester changes outside the lock.         *)
ConditionChanges ==
    /\ usage = "free"
    /\ condition' = ~condition
    /\ UNCHANGED <<setup, lock, lock_poisoned, stage, call>>

-----------------------------------------------------------------------------
CallerStep(c) ==
    \/ FirstTest(c) \/ Prepare(c) \/ Acquire(c) \/ Retest(c) \/ RunTask(c)
    \/ FinalizePrepare(c)

Over(c) == stage[c] \in {"returned", "unwound"}

AllOver == (\A c \in Callers : Over(c)) /\ UNCHANGED DCVars

DCNext == (\E c \in Callers : CallerStep(c)) \/ ConditionChanges \/ AllOver

DCSpec == DCInit /\ [][DCNext]_DCVars

-----------------------------------------------------------------------------
(* When the condition only changes under the lock, a task never runs       *)
(* without it, however long ago the caller made its first test.            *)
ConditionHoldsInTask ==
    usage # "free" => \A c \in Callers : stage[c] = "task" => condition

(* The purpose of double-checked locking: if a successful task makes the   *)
(* condition false, then of all racing callers one succeeds.               *)
OneSuccess ==
    usage = "once" =>
        Cardinality({c \in Callers : outcome[c] = "ok"}) <= 1

(* Every call that returns has finalized what it prepared, by the action   *)
(* that its task calls for and by no other, and a call that prepared       *)
(* nothing finalizes nothing.                                              *)
ExpectedFinalizer(c) ==
    IF c \notin prepared THEN None
    ELSE LET action == IF outcome[c] = "ok" THEN "commit" ELSE "rollback"
         IN  IF action \in configured THEN action ELSE None

PrepareIsFinalized ==
    \A c \in Callers : stage[c] = "returned" => finalized[c] = ExpectedFinalizer(c)

(* The result tells whether the task took effect: a success means that it  *)
(* did, and only a failed commit reports a failure although it did.        *)
ResultTellsOutcome ==
    \A c \in Callers : stage[c] = "returned" =>
        /\ result[c] \in {"Success", "PrepareCommitFailed"} => outcome[c] = "ok"
        /\ outcome[c] = "ok" => result[c] \in {"Success", "PrepareCommitFailed"}
        /\ result[c] = "TaskFailed" => outcome[c] = "fails"
        /\ result[c] \in {"ConditionNotMet", "PrepareFailed"} => outcome[c] = None

=============================================================================
