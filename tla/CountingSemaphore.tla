-------------------------- MODULE CountingSemaphore --------------------------
(***************************************************************************)
(* What a semaphore promises: a call of wait() takes one permit, and waits *)
(* for one if there is none; signal() adds one.  Permits are not tied to   *)
(* threads: any waiting thread may take one.                               *)
(***************************************************************************)
EXTENDS Integers

CONSTANTS Thread, Value

VARIABLES permits, waiting

Init == permits = Value /\ waiting = {}

Pass == permits > 0 /\ permits' = permits - 1 /\ UNCHANGED waiting

Join(t) ==
    /\ t \notin waiting
    /\ waiting' = waiting \cup {t}
    /\ UNCHANGED permits

Take(t) ==
    /\ t \in waiting /\ permits > 0
    /\ permits' = permits - 1
    /\ waiting' = waiting \ {t}

Signal == permits' = permits + 1 /\ UNCHANGED waiting

Next == Pass \/ Signal \/ \E t \in Thread : Join(t) \/ Take(t)

Safety == Init /\ [][Next]_<<permits, waiting>>

\* A permit does not lie unused for ever while a thread waits.
Spec == Safety /\ WF_<<permits, waiting>>(\E t \in Thread : Take(t))
==============================================================================
