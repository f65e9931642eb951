--------------------------- MODULE SemaphoreProofs ---------------------------
(***************************************************************************)
(* For every number of threads and calls and every initial count that is   *)
(* not negative: the semaphore's books balance, it loses no wakeup, and it *)
(* takes only the steps of a counting semaphore.                           *)
(***************************************************************************)
EXTENDS Semaphore, FiniteSetTheorems, TLAPS

SemaphoreInv ==
    /\ count \in Int
    /\ asleep \subseteq Thread /\ awake \subseteq Thread
    /\ Accounted /\ NoLostWakeup

\* Sets of threads are finite, so their sizes are numbers.
LEMMA Finite ==
    ASSUME NEW S, S \subseteq Thread
    PROVE  IsFiniteSet(S) /\ Cardinality(S) \in Nat
  BY SemaphoreAssumption, FS_Subset, FS_CardinalityType

LEMMA InitInv == SemaphoreInit => SemaphoreInv
  BY SemaphoreAssumption, FS_EmptySet
     DEF SemaphoreInit, SemaphoreInv, Accounted, NoLostWakeup, suspended, Owed

-----------------------------------------------------------------------------
\* Calls that sleep nowhere: the suspended threads stay as they are.
LEMMA PassInv ==
    ASSUME SemaphoreInv, NEW t \in Thread, WaitPasses(t) \/ WaitBarges(t)
    PROVE  SemaphoreInv'
  <1>1. /\ count \in Int /\ wakeups \in Nat
        /\ Cardinality(suspended) = Owed + wakeups
        /\ wakeups <= Cardinality(awake) /\ Cardinality(awake) \in Nat
    BY Finite DEF SemaphoreInv, Accounted, NoLostWakeup
  <1>2. UNCHANGED <<asleep, awake, suspended>>
    BY DEF WaitPasses, WaitBarges, suspended
  <1>3. Owed' + wakeups' = Owed + wakeups /\ wakeups' \in Nat /\ wakeups' <= wakeups
    BY <1>1 DEF WaitPasses, WaitBarges, Owed
  <1>4. Accounted'
    <2>1. Cardinality(suspended)' = Owed' + wakeups'
      BY <1>1, <1>2, <1>3
    <2> QED
      BY <1>2, <1>3, <2>1 DEF SemaphoreInv, Accounted
  <1>5. NoLostWakeup'
    BY <1>1, <1>2, <1>3 DEF NoLostWakeup
  <1>6. count' \in Int
    BY <1>1 DEF WaitPasses, WaitBarges
  <1> QED
    BY <1>2, <1>4, <1>5, <1>6 DEF SemaphoreInv

LEMMA SleepInv ==
    ASSUME SemaphoreInv, NEW t \in Thread, WaitSleeps(t)
    PROVE  SemaphoreInv'
  <1>1. /\ count \in Int /\ wakeups = 0 /\ count <= 0
        /\ Cardinality(suspended) = Owed + wakeups
    BY DEF SemaphoreInv, Accounted, WaitSleeps
  <1>2. /\ t \notin suspended /\ suspended' = suspended \cup {t}
        /\ suspended \subseteq Thread
    BY DEF WaitSleeps, Enter, suspended, SemaphoreInv
  <1>3. Cardinality(suspended') = Cardinality(suspended) + 1
    BY <1>2, Finite, FS_AddElement
  <1>4. Owed' = Owed + 1 /\ wakeups' = 0 /\ count' \in Int
    BY <1>1 DEF WaitSleeps, Owed
  <1>5. asleep' \cap awake' = {} /\ asleep' \subseteq Thread /\ awake' = awake
    BY <1>2 DEF WaitSleeps, SemaphoreInv, Accounted, suspended
  <1>6. Accounted'
    <2>1. Owed \in Int
      BY <1>1 DEF Owed
    <2>2. Cardinality(suspended)' = Owed' + wakeups'
      BY <1>1, <1>3, <1>4, <2>1
    <2> QED
      BY <1>4, <1>5, <2>2 DEF Accounted
  <1>7. NoLostWakeup'
    BY <1>1, <1>4, <1>5 DEF SemaphoreInv, NoLostWakeup
  <1> QED
    BY <1>4, <1>5, <1>6, <1>7 DEF SemaphoreInv

LEMMA WakeInv ==
    ASSUME SemaphoreInv, NEW t \in Thread, Wake(t)
    PROVE  SemaphoreInv'
  <1>1. /\ count' = count /\ Owed' = Owed /\ Owed \in Int /\ wakeups \in Nat
        /\ Cardinality(suspended) = Owed + wakeups
        /\ wakeups <= Cardinality(awake) /\ awake \subseteq Thread
        /\ t \in awake /\ t \notin asleep
    BY DEF SemaphoreInv, Accounted, NoLostWakeup, Wake, Owed
  <1>2. Cardinality(awake') = Cardinality(awake) - 1 /\ Cardinality(awake) \in Nat
    BY <1>1, Finite, FS_RemoveElement DEF Wake
  <1>3. CASE wakeups > 0
    <2>1. wakeups' = wakeups - 1 /\ asleep' = asleep /\ awake' = awake \ {t}
      BY <1>3 DEF Wake
    <2>2. suspended' = suspended \ {t} /\ t \in suspended /\ suspended \subseteq Thread
      BY <1>1, <2>1 DEF suspended, SemaphoreInv
    <2>3. Cardinality(suspended') = Cardinality(suspended) - 1
      BY <2>2, Finite, FS_RemoveElement
    <2>4. Cardinality(suspended)' = Owed' + wakeups'
      BY <1>1, <2>1, <2>3
    <2>5. Accounted'
      BY <1>1, <1>3, <2>1, <2>4 DEF SemaphoreInv, Accounted
    <2>6. NoLostWakeup'
      BY <1>1, <1>2, <2>1 DEF NoLostWakeup
    <2> QED
      BY <1>1, <2>1, <2>5, <2>6 DEF SemaphoreInv
  <1>4. CASE ~(wakeups > 0)
    <2>1. wakeups = 0 /\ wakeups' = wakeups /\ asleep' = asleep \cup {t} /\ awake' = awake \ {t}
      BY <1>1, <1>4 DEF Wake
    <2>2. suspended' = suspended
      BY <1>1, <2>1 DEF suspended
    <2>3. Cardinality(suspended)' = Owed' + wakeups'
      BY <1>1, <2>1, <2>2
    <2>4. Accounted'
      BY <1>1, <2>1, <2>3 DEF SemaphoreInv, Accounted
    <2>5. NoLostWakeup'
      <3>1. Cardinality(awake') \in Nat
        BY <1>1, <2>1, Finite
      <3> QED
        BY <2>1, <3>1 DEF NoLostWakeup
    <2> QED
      BY <1>1, <2>1, <2>4, <2>5 DEF SemaphoreInv
  <1> QED
    BY <1>3, <1>4

\* One more thread on its way to look.
LEMMA RousedInv ==
    ASSUME SemaphoreInv, NEW u \in asleep,
           asleep' = asleep \ {u}, awake' = awake \cup {u}
    PROVE  /\ suspended' = suspended /\ asleep' \cap awake' = {}
           /\ asleep' \subseteq Thread /\ awake' \subseteq Thread
           /\ Cardinality(awake') = Cardinality(awake) + 1
           /\ Cardinality(awake) \in Nat
  <1>1. u \notin awake /\ awake \subseteq Thread /\ asleep \subseteq Thread
    BY DEF SemaphoreInv, Accounted
  <1>2. Cardinality(awake') = Cardinality(awake) + 1 /\ Cardinality(awake) \in Nat
    BY <1>1, Finite, FS_AddElement
  <1> QED
    BY <1>1, <1>2 DEF suspended, SemaphoreInv, Accounted

LEMMA SpuriousInv ==
    ASSUME SemaphoreInv, NEW t \in Thread, SpuriousWake(t)
    PROVE  SemaphoreInv'
  <1>1. /\ suspended' = suspended /\ asleep' \cap awake' = {}
        /\ asleep' \subseteq Thread /\ awake' \subseteq Thread
        /\ Cardinality(awake') = Cardinality(awake) + 1
        /\ Cardinality(awake) \in Nat
    BY RousedInv DEF SpuriousWake
  <1>2. UNCHANGED <<count, wakeups, Owed>>
    BY DEF SpuriousWake, Owed
  <1>3. Accounted'
    BY <1>1, <1>2 DEF SemaphoreInv, Accounted
  <1>4. NoLostWakeup'
    BY <1>1, <1>2 DEF SemaphoreInv, Accounted, NoLostWakeup
  <1> QED
    BY <1>1, <1>2, <1>3, <1>4 DEF SemaphoreInv

\* A signal that finds nobody asleep counts on the threads already awake.
LEMMA SignalInv ==
    ASSUME SemaphoreInv, NEW t \in Thread, Signal(t)
    PROVE  SemaphoreInv'
  <1>1. /\ count \in Int /\ wakeups \in Nat
        /\ Cardinality(suspended) = Owed + wakeups
        /\ wakeups <= Cardinality(awake) /\ Cardinality(awake) \in Nat
        /\ count' = count + 1
    BY Finite DEF SemaphoreInv, Accounted, NoLostWakeup, Signal
  <1>2. CASE count < 0
    <2>1. wakeups' = wakeups + 1 /\ NotifyOne
      BY <1>2 DEF Signal
    <2>2. Owed' + wakeups' = Owed + wakeups /\ Owed \in Nat \ {0} /\ wakeups' \in Nat
      BY <1>1, <1>2, <2>1 DEF Owed
    <2>3. /\ suspended' = suspended /\ asleep' \cap awake' = {}
          /\ asleep' \subseteq Thread /\ awake' \subseteq Thread
          /\ wakeups' <= Cardinality(awake')
      <3>1. CASE asleep = {}
        <4>1. suspended = awake /\ UNCHANGED <<asleep, awake>>
          BY <2>1, <3>1 DEF NotifyOne, suspended
        <4>2. wakeups' <= Cardinality(awake')
          BY <1>1, <2>1, <2>2, <4>1
        <4> QED
          BY <4>1, <4>2 DEF suspended, SemaphoreInv, Accounted
      <3>2. CASE asleep # {}
        <4>1. PICK u \in asleep : asleep' = asleep \ {u} /\ awake' = awake \cup {u}
          BY <2>1, <3>2 DEF NotifyOne
        <4>2. /\ suspended' = suspended /\ asleep' \cap awake' = {}
              /\ asleep' \subseteq Thread /\ awake' \subseteq Thread
              /\ Cardinality(awake') = Cardinality(awake) + 1
          BY <4>1, RousedInv
        <4> QED
          BY <1>1, <2>1, <4>2
      <3> QED
        BY <3>1, <3>2
    <2>4. Cardinality(suspended)' = Owed' + wakeups'
      BY <1>1, <2>2, <2>3
    <2> QED
      BY <1>1, <2>2, <2>3, <2>4 DEF SemaphoreInv, Accounted, NoLostWakeup
  <1>3. CASE ~(count < 0)
    <2>1. UNCHANGED <<wakeups, asleep, awake, suspended>> /\ Owed' = Owed
      BY <1>1, <1>3 DEF Signal, suspended, Owed
    <2> QED
      BY <1>1, <2>1 DEF SemaphoreInv, Accounted, NoLostWakeup
  <1> QED
    BY <1>2, <1>3

LEMMA StepInv == SemaphoreInv /\ [SemaphoreNext]_semvars => SemaphoreInv'
  <1>1. ASSUME SemaphoreInv, UNCHANGED semvars
        PROVE  SemaphoreInv'
    BY <1>1 DEF semvars, SemaphoreInv, Accounted, NoLostWakeup, suspended, Owed
  <1> QED
    BY <1>1, PassInv, SleepInv, WakeInv, SpuriousInv, SignalInv
       DEF SemaphoreNext, SemaphoreStep

-----------------------------------------------------------------------------
LEMMA InvHolds == SemaphoreSpec => []SemaphoreInv
  BY InitInv, StepInv, PTL DEF SemaphoreSpec

\* The threads inside wait() are those a permit is missing for and those a
\* wakeup waits for.
THEOREM AccountedHolds == SemaphoreSpec => []Accounted
  <1>1. SemaphoreInv => Accounted
    BY DEF SemaphoreInv
  <1> QED
    BY <1>1, InvHolds, PTL

\* Every wakeup has a thread on its way to take it.
THEOREM NoLostWakeupHolds == SemaphoreSpec => []NoLostWakeup
  <1>1. SemaphoreInv => NoLostWakeup
    BY DEF SemaphoreInv
  <1> QED
    BY <1>1, InvHolds, PTL

-----------------------------------------------------------------------------
\* What each step does to a counting semaphore whose permits are the positive
\* count and the wakeups.
LEMMA CountingStep ==
    ASSUME SemaphoreInv, [SemaphoreNext]_semvars
    PROVE  [Counting!Next]_<<wakeups + (IF count > 0 THEN count ELSE 0), suspended>>
  <1> DEFINE permits == wakeups + (IF count > 0 THEN count ELSE 0)
  <1>1. count \in Int /\ wakeups \in Nat /\ asleep \cap awake = {}
    BY DEF SemaphoreInv, Accounted
  <1>2. ASSUME NEW t \in Thread, WaitPasses(t) \/ WaitBarges(t)
        PROVE  Counting!Pass
    BY <1>1, <1>2 DEF WaitPasses, WaitBarges, Counting!Pass, suspended
  <1>3. ASSUME NEW t \in Thread, WaitSleeps(t)
        PROVE  Counting!Join(t)
    <2>1. permits' = permits
      BY <1>1, <1>3 DEF WaitSleeps
    <2>2. t \notin suspended /\ suspended' = suspended \cup {t}
      BY <1>3 DEF WaitSleeps, Enter, suspended
    <2> QED
      BY <2>1, <2>2 DEF Counting!Join
  <1>4. ASSUME NEW t \in Thread, Wake(t)
        PROVE  Counting!Take(t) \/ UNCHANGED <<permits, suspended>>
    <2>1. CASE wakeups > 0
      <3>1. permits > 0 /\ permits' = permits - 1
        BY <1>1, <1>4, <2>1 DEF Wake
      <3>2. t \in suspended /\ suspended' = suspended \ {t}
        BY <1>1, <1>4, <2>1 DEF Wake, suspended
      <3> QED
        BY <3>1, <3>2 DEF Counting!Take
    <2>2. CASE ~(wakeups > 0)
      BY <1>1, <1>4, <2>2 DEF Wake, suspended
    <2> QED
      BY <2>1, <2>2
  <1>5. ASSUME NEW t \in Thread, SpuriousWake(t)
        PROVE  UNCHANGED <<permits, suspended>>
    BY <1>5 DEF SpuriousWake, suspended
  <1>6. ASSUME NEW t \in Thread, Signal(t)
        PROVE  Counting!Signal
    <2>1. permits' = permits + 1
      BY <1>1, <1>6 DEF Signal
    <2>2. suspended' = suspended
      BY <1>6 DEF Signal, NotifyOne, suspended
    <2> QED
      BY <2>1, <2>2 DEF Counting!Signal
  <1>7. CASE UNCHANGED semvars
    BY <1>7 DEF semvars, suspended
  <1> QED
    BY <1>2, <1>3, <1>4, <1>5, <1>6, <1>7
       DEF SemaphoreNext, SemaphoreStep, Counting!Next

\* Nobody passes without a permit, and no permit is made or lost: the class
\* behaves as a counting semaphore (that a permit is taken while a thread waits
\* is checked, not proved).
THEOREM SemaphoreCounts == SemaphoreSpec => Counting!Safety
  <1>1. SemaphoreInit => Counting!Init
    BY SemaphoreAssumption DEF SemaphoreInit, Counting!Init, suspended
  <1> QED
    BY <1>1, InvHolds, CountingStep, PTL DEF SemaphoreSpec, Counting!Safety
==============================================================================
