----------------------------- MODULE SessionInv -----------------------------
(***************************************************************************)
(* The inductive invariant of module Session, part by part.                *)
(***************************************************************************)
EXTENDS Session

\* Callbacks are chosen in the wait and held until they are called; a session
\* that works for a request is not available, and one that is blocked is.
Control ==
    \A s \in Session :
        /\ successCallback[s] # None \/ failCallback[s] # None =>
             waiter[s] \in {"clear", "free", "call"}
        /\ successCallback[s] = None \/ failCallback[s] = None
        /\ waiter[s] \in {"try", "wait", "clear", "free"} => ~m_available[s]
        /\ waiter[s] = "parked" => m_available[s]
        /\ ~m_available[s] => current[s] \in registered

\* An undecided request still has the callbacks it was registered with.
Callbacks ==
    \A s \in Session : Waiting(s) =>
        /\ m_replyFunc[s] = (IF current[s] \in WantsAck THEN current[s] ELSE None)
        /\ m_timeoutCallback[s] =
             (IF current[s] \in WantsFail THEN current[s] ELSE None)

\* A request is owed by one session, in one way, and was not answered yet.
Ownership ==
    /\ \A s, t \in Session, r \in Req : Owes(s, r) /\ Owes(t, r) => s = t
    /\ \A s \in Session : Waiting(s) =>
         current[s] \notin {successCallback[s], failCallback[s]}
    /\ \A s \in Session, r \in Req : Owes(s, r) =>
         r \in registered /\ acks[r] = 0 /\ fails[r] = 0
    /\ \A r \in Req \ registered :
         acks[r] = 0 /\ fails[r] = 0 /\ expired[r] = 0 /\ r \notin inTime

\* A reply that was stored in time belongs to the request the session works
\* for, until the waiting thread has consumed it.
Replies ==
    \A s \in Session :
        /\ m_replied[s] =>
             /\ m_repliedData[s] \in Reply
             /\ \/ m_repliedData[s].late
                \/ /\ m_repliedData[s].matched = current[s]
                   /\ ~m_available[s]
                   /\ waiter[s] # "free"
        /\ successCallback[s] # None =>
             /\ repliedData[s] \in Reply
             /\ repliedData[s].late \/ repliedData[s].matched = successCallback[s]

\* A reply stored in time is not lost before the request is decided.
InTime ==
    \A s \in Session :
        /\ Waiting(s) /\ current[s] \in inTime => m_replied[s]
        /\ failCallback[s] # None => failCallback[s] \notin inTime

\* The waits that expired and the tries that are left add up.
Accounting ==
    \A s \in Session :
        /\ Waiting(s) /\ waiter[s] \in {"call", "test"} =>
             /\ m_tryTimes[s] = granted[current[s]]
             /\ m_tryTimes[s] > 0
             /\ expired[current[s]] = 0
        /\ waiter[s] = "try" =>
             /\ m_tryTimes[s] > 0
             /\ \/ m_replied[s]
                \/ m_tryTimes[s] + expired[current[s]] = granted[current[s]]
        /\ waiter[s] = "wait" =>
             /\ m_tryTimes[s] >= 0
             /\ \/ m_replied[s]
                \/ m_tryTimes[s] + expired[current[s]] + 1 = granted[current[s]]
        /\ failCallback[s] # None =>
             expired[failCallback[s]] = granted[failCallback[s]]

\* No step of a session, of its callers or of the receive thread leads out of
\* these facts, whatever the number of sessions, requests and tries.
SessionInv ==
    /\ SessionTypeOK
    /\ Control
    /\ Callbacks
    /\ Ownership
    /\ OneCallback
    /\ NoRequestLost
    /\ Replies
    /\ InTime
    /\ Accounting

=============================================================================
