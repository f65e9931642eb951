------------------------------ MODULE Semaphore ------------------------------
(***************************************************************************)
(* Utility/Semaphore.h: a semaphore on a mutex and a condition variable.   *)
(* The mutex is held from entry to return except while a thread sleeps, so *)
(* a step is what a thread does between two sleeps.                        *)
(*                                                                         *)
(* count goes negative by the threads that have no permit; a signal meant  *)
(* for one of them adds a wakeup.  The wakeup is not addressed: a thread   *)
(* that comes later may take it before the one that was notified runs.     *)
(*                                                                         *)
(* SilentSignal, EarlySignal and KeepWakeup are wrong variants of the      *)
(* definitions after them.                                                 *)
(***************************************************************************)
EXTENDS Integers, FiniteSets

CONSTANTS
    Thread,
    Value,      \* the constructor's argument
    MaxCalls    \* bound: calls of wait and signal a thread makes

ASSUME SemaphoreAssumption ==
    /\ IsFiniteSet(Thread)
    /\ Value \in Nat /\ MaxCalls \in Nat

VARIABLES
    count, wakeups,
    asleep,     \* threads blocked in condition.wait
    awake,      \* threads notified or woken by themselves, yet to look at wakeups
    calls

semvars == <<count, wakeups, asleep, awake, calls>>

suspended == asleep \cup awake

SemaphoreInit ==
    /\ count = Value /\ wakeups = 0
    /\ asleep = {} /\ awake = {}
    /\ calls = [t \in Thread |-> 0]

Enter(t) ==
    /\ t \notin suspended /\ calls[t] < MaxCalls
    /\ calls' = [calls EXCEPT ![t] = @ + 1]

\* A permit is left: wait returns at once.
WaitPasses(t) ==
    /\ Enter(t)
    /\ count > 0
    /\ count' = count - 1
    /\ UNCHANGED <<wakeups, asleep, awake>>

\* No permit, but a wakeup that nobody took yet.
WaitBarges(t) ==
    /\ Enter(t)
    /\ count <= 0 /\ wakeups > 0
    /\ count' = count - 1 /\ wakeups' = wakeups - 1
    /\ UNCHANGED <<asleep, awake>>

WaitSleeps(t) ==
    /\ Enter(t)
    /\ count <= 0 /\ wakeups = 0
    /\ count' = count - 1
    /\ asleep' = asleep \cup {t}
    /\ UNCHANGED <<wakeups, awake>>

KeepWakeup(t) ==
    /\ t \in awake
    /\ awake' = awake \ {t}
    /\ asleep' = IF wakeups > 0 THEN asleep ELSE asleep \cup {t}
    /\ UNCHANGED <<count, wakeups, calls>>

\* A woken thread returns with a wakeup, or sleeps again without one.
Wake(t) ==
    /\ t \in awake
    /\ awake' = awake \ {t}
    /\ IF wakeups > 0 THEN wakeups' = wakeups - 1 /\ UNCHANGED asleep
                      ELSE asleep' = asleep \cup {t} /\ UNCHANGED wakeups
    /\ UNCHANGED <<count, calls>>

SpuriousWake(t) ==
    /\ t \in asleep
    /\ asleep' = asleep \ {t} /\ awake' = awake \cup {t}
    /\ UNCHANGED <<count, wakeups, calls>>

\* notify_one wakes one of the sleeping threads, if there is one.
NotifyOne ==
    IF asleep = {} THEN UNCHANGED <<asleep, awake>>
    ELSE \E u \in asleep : asleep' = asleep \ {u} /\ awake' = awake \cup {u}

SilentSignal(t) ==
    /\ Enter(t)
    /\ count' = count + 1
    /\ IF count < 0 THEN wakeups' = wakeups + 1 ELSE UNCHANGED wakeups
    /\ IF count < 0 /\ wakeups = 0 THEN NotifyOne ELSE UNCHANGED <<asleep, awake>>

EarlySignal(t) ==
    /\ Enter(t)
    /\ count' = count + 1
    /\ IF count <= 0 THEN wakeups' = wakeups + 1 /\ NotifyOne
                     ELSE UNCHANGED <<wakeups, asleep, awake>>

Signal(t) ==
    /\ Enter(t)
    /\ count' = count + 1
    /\ IF count < 0 THEN wakeups' = wakeups + 1 /\ NotifyOne
                    ELSE UNCHANGED <<wakeups, asleep, awake>>

SemaphoreStep(t) ==
    \/ WaitPasses(t) \/ WaitBarges(t) \/ WaitSleeps(t)
    \/ Wake(t) \/ SpuriousWake(t) \/ Signal(t)

SemaphoreNext == \E t \in Thread : SemaphoreStep(t)

\* A woken thread gets the mutex some time.
SemaphoreSpec ==
    /\ SemaphoreInit /\ [][SemaphoreNext]_semvars
    /\ \A t \in Thread : WF_semvars(Wake(t))

-----------------------------------------------------------------------------
(***************************************************************************)
(* The books balance: the threads inside wait() are those count says are   *)
(* missing a permit and those a wakeup waits for.                          *)
(***************************************************************************)
Owed == IF count < 0 THEN -count ELSE 0

Accounted ==
    /\ asleep \cap awake = {} /\ wakeups \in Nat
    /\ Cardinality(suspended) = Owed + wakeups

(***************************************************************************)
(* No wakeup is lost: for every one there is a thread on its way to look,  *)
(* however often later threads took the wakeup of a notified one.          *)
(***************************************************************************)
NoLostWakeup == wakeups <= Cardinality(awake)

(***************************************************************************)
(* The class implements a counting semaphore: nobody passes without a      *)
(* permit, and a permit is taken while a thread waits.                     *)
(***************************************************************************)
Counting == INSTANCE CountingSemaphore
    WITH permits <- wakeups + (IF count > 0 THEN count ELSE 0),
         waiting <- suspended

ImplementsCounting == Counting!Spec
==============================================================================
