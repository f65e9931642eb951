---------------------------- MODULE SessionService ----------------------------
(***************************************************************************)
(* What the sessions of the link layer promise to the callers of send,     *)
(* without the locks, the timeouts and the waiting threads: a session      *)
(* holds one request at a time, lets go of it, and a request it let go of  *)
(* is answered once, by its AckCallback or by its FailCallback.  A request *)
(* that was sent with both callbacks cannot be closed without an answer.   *)
(***************************************************************************)

CONSTANTS Session, Req, WantsAck, WantsFail, None

VARIABLES
    status,   \* where each request stands
    owner,    \* the request each session holds
    stopped   \* the sessions that are being destroyed

vars == <<status, owner, stopped>>

Status == {"new", "held", "owed", "acked", "failed", "closed"}

TypeOK ==
    /\ status \in [Req -> Status]
    /\ owner \in [Session -> Req \cup {None}]
    /\ stopped \in [Session -> BOOLEAN]

Init ==
    /\ status = [r \in Req |-> "new"]
    /\ owner = [s \in Session |-> None]
    /\ stopped = [s \in Session |-> FALSE]

Submit(s, r) ==
    /\ ~stopped[s]
    /\ owner[s] = None
    /\ status[r] = "new"
    /\ owner' = [owner EXCEPT ![s] = r]
    /\ status' = [status EXCEPT ![r] = "held"]
    /\ UNCHANGED stopped

\* The request leaves the session before its callback runs.
Release(s) ==
    /\ owner[s] # None
    /\ \/ status' = [status EXCEPT ![owner[s]] = "owed"]
       \/ /\ owner[s] \notin WantsAck \cap WantsFail
          /\ status' = [status EXCEPT ![owner[s]] = "closed"]
    /\ owner' = [owner EXCEPT ![s] = None]
    /\ UNCHANGED stopped

Answer(r) ==
    /\ status[r] = "owed"
    /\ \/ r \in WantsAck /\ status' = [status EXCEPT ![r] = "acked"]
       \/ r \in WantsFail /\ status' = [status EXCEPT ![r] = "failed"]
    /\ UNCHANGED <<owner, stopped>>

Stop(s) ==
    /\ ~stopped[s]
    /\ stopped' = [stopped EXCEPT ![s] = TRUE]
    /\ UNCHANGED <<status, owner>>

Next ==
    \/ \E s \in Session, r \in Req : Submit(s, r)
    \/ \E s \in Session : Release(s) \/ Stop(s)
    \/ \E r \in Req : Answer(r)

Spec == Init /\ [][Next]_vars

\* A session that is not destroyed lets go of its request, and a request it
\* let go of is answered.
Fairness ==
    /\ \A s \in Session : WF_vars(~stopped[s] /\ Release(s))
    /\ \A r \in Req : WF_vars(Answer(r))

FairSpec == Spec /\ Fairness

=============================================================================
