------------------------------- MODULE Session -------------------------------
(***************************************************************************)
(* The session of the link layer (class Session and the two LinkLayer      *)
(* members that touch it, register_session and dispatch_to_session).       *)
(*                                                                         *)
(* A session carries one request at a time.  Three kinds of thread meet in *)
(* it: an application thread registers a request, the receive thread       *)
(* stores a reply, and the session's own waiting thread waits for the      *)
(* reply, gives up after the granted tries, frees the session and only     *)
(* then invokes the callback.  A step below is a critical section of       *)
(* m_availableLock or m_repliedLock, or what a thread does between two.    *)
(*                                                                         *)
(* Unnotified, UncheckedDispatch, ParkStopped, HastyStart, ClearingStart,  *)
(* EarlyEnd, KeepReply and KeepLocals are wrong variants of the definition *)
(* that follows each of them.  No specification uses them: they are there  *)
(* to show that the properties reject such mistakes.                       *)
(***************************************************************************)
EXTENDS Integers

CONSTANTS
    Session,     \* the sessions (the keys of LinkLayer::m_sessions)
    Req,         \* requests: one element per call of LinkLayer::send
    SeqNum,      \* sequence numbers
    Data,        \* what a reply carries
    Tries,       \* the values of the argument tryTimes
    WantsAck,    \* the requests sent with a non-null AckCallback
    WantsFail,   \* the requests sent with a non-null FailCallback
    None         \* a null std::function; no request, no session

ASSUME SessionAssumption ==
    /\ None \notin Req
    /\ None \notin Session
    /\ Tries \subseteq Nat \ {0}
    /\ WantsAck \subseteq Req
    /\ WantsFail \subseteq Req

VARIABLES
    m_available,        \* the session carries no request
    m_seqNum,           \* sequence number of the carried request
    m_tryTimes,         \* waits left
    m_replied,          \* m_repliedData holds a reply nobody consumed
    m_repliedData,      \* the stored reply
    m_replyFunc,        \* AckCallback, named by the request it belongs to
    m_timeoutCallback,  \* FailCallback, likewise
    m_stopped,          \* set by ~Session
    waiter,             \* where the waiting thread stands
    successCallback,    \* local of the waiting thread
    failCallback,       \* local of the waiting thread
    repliedData,        \* local of the waiting thread
    recv                \* the receive thread, between its two locks

(***************************************************************************)
(* History of the calls, read by the properties and by no guard.           *)
(***************************************************************************)
VARIABLES
    current,     \* the last request each session accepted
    registered,  \* every request accepted so far
    granted,     \* tries a request was registered with
    expired,     \* waits of a request that ran into their timeout
    inTime,      \* requests whose reply was stored while they waited
    acks,        \* AckCallback invocations of a request
    fails        \* FailCallback invocations of a request

fields  == <<m_available, m_seqNum, m_tryTimes, m_replied, m_repliedData,
             m_replyFunc, m_timeoutCallback, m_stopped>>
locals  == <<waiter, successCallback, failCallback, repliedData, recv>>
history == <<current, registered, granted, expired, inTime, acks, fails>>
SessionVars == <<fields, locals, history>>

(***************************************************************************)
(* test: at the predicate of line 40    parked: blocked on m_threadCond    *)
(* try:  before m_tryTimes--            wait:   inside wait_for            *)
(* clear, free: before the two resets   call:   before the callback        *)
(***************************************************************************)
WaiterStates ==
    {"test", "parked", "try", "wait", "clear", "free", "call", "exited"}

\* `matched` and `late` are history: the request whose sequence number the
\* reply was compared with, and whether that request had stopped waiting
\* when the reply was stored.
Reply == [data : Data, matched : Req, late : BOOLEAN]

NoDispatch == [session |-> None, data |-> None, matched |-> None]

SessionTypeOK ==
    /\ m_available \in [Session -> BOOLEAN]
    /\ m_seqNum \in [Session -> SeqNum \cup {0}]
    /\ m_tryTimes \in [Session -> Int]
    /\ m_replied \in [Session -> BOOLEAN]
    /\ m_repliedData \in [Session -> Reply \cup {None}]
    /\ m_replyFunc \in [Session -> Req \cup {None}]
    /\ m_timeoutCallback \in [Session -> Req \cup {None}]
    /\ m_stopped \in [Session -> BOOLEAN]
    /\ waiter \in [Session -> WaiterStates]
    /\ successCallback \in [Session -> Req \cup {None}]
    /\ failCallback \in [Session -> Req \cup {None}]
    /\ repliedData \in [Session -> Reply \cup {None}]
    /\ recv \in [session : Session, data : Data, matched : Req] \cup {NoDispatch}
    /\ current \in [Session -> Req \cup {None}]
    /\ registered \subseteq Req
    /\ granted \in [Req -> Nat]
    /\ expired \in [Req -> Nat]
    /\ inTime \subseteq Req
    /\ acks \in [Req -> Nat]
    /\ fails \in [Req -> Nat]

SessionInit ==
    /\ m_available = [s \in Session |-> TRUE]
    /\ m_seqNum = [s \in Session |-> 0]
    /\ m_tryTimes = [s \in Session |-> 0]
    /\ m_replied = [s \in Session |-> FALSE]
    /\ m_repliedData = [s \in Session |-> None]
    /\ m_replyFunc = [s \in Session |-> None]
    /\ m_timeoutCallback = [s \in Session |-> None]
    /\ m_stopped = [s \in Session |-> FALSE]
    /\ waiter = [s \in Session |-> "test"]
    /\ successCallback = [s \in Session |-> None]
    /\ failCallback = [s \in Session |-> None]
    /\ repliedData = [s \in Session |-> None]
    /\ recv = NoDispatch
    /\ current = [s \in Session |-> None]
    /\ registered = {}
    /\ granted = [r \in Req |-> 0]
    /\ expired = [r \in Req |-> 0]
    /\ inTime = {}
    /\ acks = [r \in Req |-> 0]
    /\ fails = [r \in Req |-> 0]

-----------------------------------------------------------------------------
(***************************************************************************)
(* The application thread.  A refusal of register_session (the lock is     *)
(* held, or ~m_available) changes no state and is a step of the caller.    *)
(***************************************************************************)
\* m_threadCond.notify_one: a blocked waiting thread tests its predicate again.
Unnotified(s) == waiter
Notify(s) == [waiter EXCEPT ![s] = IF @ = "parked" THEN "test" ELSE @]

Register(s, r, q, n) ==
    /\ ~m_stopped[s]
    /\ m_available[s]
    /\ r \notin registered
    /\ m_available' = [m_available EXCEPT ![s] = FALSE]
    /\ m_seqNum' = [m_seqNum EXCEPT ![s] = q]
    /\ m_tryTimes' = [m_tryTimes EXCEPT ![s] = n]
    /\ m_replyFunc' =
         [m_replyFunc EXCEPT ![s] = IF r \in WantsAck THEN r ELSE None]
    /\ m_timeoutCallback' =
         [m_timeoutCallback EXCEPT ![s] = IF r \in WantsFail THEN r ELSE None]
    /\ waiter' = Notify(s)
    /\ current' = [current EXCEPT ![s] = r]
    /\ registered' = registered \cup {r}
    /\ granted' = [granted EXCEPT ![r] = n]
    /\ UNCHANGED <<m_replied, m_repliedData, m_stopped, successCallback,
                   failCallback, repliedData, recv, expired, inTime, acks,
                   fails>>

(***************************************************************************)
(* The receive thread: the check under m_availableLock, then the store     *)
(* under m_repliedLock.  Nothing is held between the two.                  *)
(***************************************************************************)
UncheckedDispatch(s, q, d) ==
    /\ recv = NoDispatch
    /\ ~m_stopped[s]
    /\ recv' = [session |-> s, data |-> d, matched |-> current[s]]
    /\ UNCHANGED <<fields, waiter, successCallback, failCallback,
                   repliedData, history>>

DispatchCheck(s, q, d) ==
    /\ recv = NoDispatch
    /\ ~m_stopped[s]
    /\ ~m_available[s]
    /\ m_seqNum[s] = q
    /\ recv' = [session |-> s, data |-> d, matched |-> current[s]]
    /\ UNCHANGED <<fields, waiter, successCallback, failCallback,
                   repliedData, history>>

\* r is the request the session works for, and its reply can still be used.
StillWaits(s, r) ==
    /\ current[s] = r
    /\ ~m_available[s]
    /\ waiter[s] \in {"call", "test", "try", "wait"}

DispatchStore ==
    LET s == recv.session
        r == recv.matched
    IN  /\ recv # NoDispatch
        /\ m_repliedData' =
             [m_repliedData EXCEPT ![s] = [data |-> recv.data, matched |-> r,
                                           late |-> ~StillWaits(s, r)]]
        /\ m_replied' = [m_replied EXCEPT ![s] = TRUE]
        /\ recv' = NoDispatch
        /\ inTime' = IF StillWaits(s, r) THEN inTime \cup {r} ELSE inTime
        /\ UNCHANGED <<m_available, m_seqNum, m_tryTimes, m_replyFunc,
                       m_timeoutCallback, m_stopped, waiter, successCallback,
                       failCallback, repliedData, current, registered,
                       granted, expired, acks, fails>>

-----------------------------------------------------------------------------
(***************************************************************************)
(* The waiting thread.                                                     *)
(***************************************************************************)
Goto(s, from, to) ==
    /\ waiter[s] = from
    /\ waiter' = [waiter EXCEPT ![s] = to]

\* Lines 39-42: the wait on m_threadCond and the way out.
ParkStopped(s) ==
    /\ m_available[s]
    /\ Goto(s, "test", "parked")
    /\ UNCHANGED <<fields, successCallback, failCallback, repliedData, recv,
                   history>>

Park(s) ==
    /\ ~m_stopped[s]
    /\ m_available[s]
    /\ Goto(s, "test", "parked")
    /\ UNCHANGED <<fields, successCallback, failCallback, repliedData, recv,
                   history>>

SpuriousWake(s) ==
    /\ Goto(s, "parked", "test")
    /\ UNCHANGED <<fields, successCallback, failCallback, repliedData, recv,
                   history>>

Exit(s) ==
    /\ m_stopped[s]
    /\ Goto(s, "test", "exited")
    /\ UNCHANGED <<fields, successCallback, failCallback, repliedData, recv,
                   history>>

HastyStart(s) ==
    /\ ~m_stopped[s]
    /\ Goto(s, "test", "try")
    /\ UNCHANGED <<fields, successCallback, failCallback, repliedData, recv,
                   history>>

ClearingStart(s) ==
    /\ ~m_stopped[s]
    /\ ~m_available[s]
    /\ Goto(s, "test", "try")
    /\ m_replied' = [m_replied EXCEPT ![s] = FALSE]
    /\ UNCHANGED <<m_available, m_seqNum, m_tryTimes, m_repliedData,
                   m_replyFunc, m_timeoutCallback, m_stopped, successCallback,
                   failCallback, repliedData, recv, history>>

Start(s) ==
    /\ ~m_stopped[s]
    /\ ~m_available[s]
    /\ Goto(s, "test", "try")
    /\ UNCHANGED <<fields, successCallback, failCallback, repliedData, recv,
                   history>>

Try(s) ==
    /\ Goto(s, "try", "wait")
    /\ m_tryTimes' = [m_tryTimes EXCEPT ![s] = @ - 1]
    /\ UNCHANGED <<m_available, m_seqNum, m_replied, m_repliedData,
                   m_replyFunc, m_timeoutCallback, m_stopped, successCallback,
                   failCallback, repliedData, recv, history>>

\* while (m_tryTimes > 0)
EarlyEnd(s) == Goto(s, "wait", IF m_tryTimes[s] > 1 THEN "try" ELSE "clear")
NextTry(s) == Goto(s, "wait", IF m_tryTimes[s] > 0 THEN "try" ELSE "clear")

\* wait_for returned true.
WaitReplied(s) ==
    /\ ~m_stopped[s]
    /\ m_replied[s]
    /\ \/ /\ m_replyFunc[s] # None
          /\ Goto(s, "wait", "clear")
          /\ repliedData' = [repliedData EXCEPT ![s] = m_repliedData[s]]
          /\ successCallback' = [successCallback EXCEPT ![s] = m_replyFunc[s]]
          /\ m_replyFunc' = [m_replyFunc EXCEPT ![s] = None]
       \/ /\ m_replyFunc[s] = None
          /\ NextTry(s)
          /\ UNCHANGED <<repliedData, successCallback, m_replyFunc>>
    /\ UNCHANGED <<m_available, m_seqNum, m_tryTimes, m_replied,
                   m_repliedData, m_timeoutCallback, m_stopped, failCallback,
                   recv, history>>

\* wait_for returned false: the timeout passed and there is no reply.
WaitExpired(s) ==
    /\ ~m_stopped[s]
    /\ ~m_replied[s]
    /\ \/ /\ m_timeoutCallback[s] # None
          /\ m_tryTimes[s] = 0
          /\ Goto(s, "wait", "clear")
          /\ failCallback' = [failCallback EXCEPT ![s] = m_timeoutCallback[s]]
          /\ m_timeoutCallback' = [m_timeoutCallback EXCEPT ![s] = None]
       \/ /\ m_timeoutCallback[s] = None \/ m_tryTimes[s] # 0
          /\ NextTry(s)
          /\ UNCHANGED <<failCallback, m_timeoutCallback>>
    /\ expired' = [expired EXCEPT ![current[s]] = @ + 1]
    /\ UNCHANGED <<m_available, m_seqNum, m_tryTimes, m_replied,
                   m_repliedData, m_replyFunc, m_stopped, successCallback,
                   repliedData, recv, current, registered, granted, inTime,
                   acks, fails>>

WaitStopped(s) ==
    /\ m_stopped[s]
    /\ Goto(s, "wait", "exited")
    /\ UNCHANGED <<fields, successCallback, failCallback, repliedData, recv,
                   history>>

KeepReply(s) ==
    /\ Goto(s, "clear", "free")
    /\ UNCHANGED <<fields, successCallback, failCallback, repliedData, recv,
                   history>>

Clear(s) ==
    /\ Goto(s, "clear", "free")
    /\ m_replied' = [m_replied EXCEPT ![s] = FALSE]
    /\ UNCHANGED <<m_available, m_seqNum, m_tryTimes, m_repliedData,
                   m_replyFunc, m_timeoutCallback, m_stopped, successCallback,
                   failCallback, repliedData, recv, history>>

Free(s) ==
    /\ Goto(s, "free", "call")
    /\ m_available' = [m_available EXCEPT ![s] = TRUE]
    /\ UNCHANGED <<m_seqNum, m_tryTimes, m_replied, m_repliedData,
                   m_replyFunc, m_timeoutCallback, m_stopped, successCallback,
                   failCallback, repliedData, recv, history>>

\* The scope of the locals is one turn of the outer loop.
KeepLocals(s) == UNCHANGED <<successCallback, failCallback, repliedData>>
EndScope(s) ==
    /\ successCallback' = [successCallback EXCEPT ![s] = None]
    /\ failCallback' = [failCallback EXCEPT ![s] = None]
    /\ repliedData' = [repliedData EXCEPT ![s] = None]

Call(s) ==
    /\ Goto(s, "call", "test")
    /\ \/ /\ successCallback[s] # None
          /\ acks' = [acks EXCEPT ![successCallback[s]] = @ + 1]
          /\ UNCHANGED fails
       \/ /\ successCallback[s] = None
          /\ failCallback[s] # None
          /\ fails' = [fails EXCEPT ![failCallback[s]] = @ + 1]
          /\ UNCHANGED acks
       \/ /\ successCallback[s] = None
          /\ failCallback[s] = None
          /\ UNCHANGED <<acks, fails>>
    /\ EndScope(s)
    /\ UNCHANGED <<fields, recv, current, registered, granted, expired,
                   inTime>>

\* ~Session.  It runs when the receive thread is joined; it does not notify.
Stop(s) ==
    /\ ~m_stopped[s]
    /\ recv.session # s
    /\ m_stopped' = [m_stopped EXCEPT ![s] = TRUE]
    /\ UNCHANGED <<m_available, m_seqNum, m_tryTimes, m_replied,
                   m_repliedData, m_replyFunc, m_timeoutCallback, locals,
                   history>>

-----------------------------------------------------------------------------
WaiterStep(s) ==
    \/ Park(s) \/ Exit(s) \/ Start(s) \/ Try(s)
    \/ WaitReplied(s) \/ WaitExpired(s) \/ WaitStopped(s)
    \/ Clear(s) \/ Free(s) \/ Call(s)

SessionNext ==
    \/ \E s \in Session, r \in Req, q \in SeqNum, n \in Tries : Register(s, r, q, n)
    \/ \E s \in Session, q \in SeqNum, d \in Data : DispatchCheck(s, q, d)
    \/ DispatchStore
    \/ \E s \in Session : WaiterStep(s) \/ SpuriousWake(s) \/ Stop(s)

SessionSpec == SessionInit /\ [][SessionNext]_SessionVars

\* The operating system runs every waiting thread and a timeout passes; a
\* spurious wakeup, a reply, a new request or ~Session need never come.
SessionFairness == \A s \in Session : WF_SessionVars(WaiterStep(s))

FairSessionSpec == SessionSpec /\ SessionFairness

-----------------------------------------------------------------------------
(***************************************************************************)
(* Properties.                                                             *)
(***************************************************************************)

\* The session's request is undecided: no callback has been chosen for it.
Waiting(s) ==
    /\ ~m_available[s]
    /\ waiter[s] \in {"call", "test", "try", "wait", "exited"}

\* Session s still owes request r a callback.
Owes(s, r) ==
    \/ Waiting(s) /\ current[s] = r
    \/ successCallback[s] = r
    \/ failCallback[s] = r

\* A request is answered at most once: never by both callbacks, never by one
\* of them twice, although replies may be duplicated or race the timeout and
\* the session may be registered again while the callback is still running.
OneCallback == \A r \in Req : acks[r] + fails[r] <= 1

\* An accepted request with both callbacks is never forgotten: it has been
\* answered, or some session still owes it an answer.
NoRequestLost ==
    \A r \in registered \cap WantsAck \cap WantsFail :
        \/ acks[r] + fails[r] = 1
        \/ \E s \in Session : Owes(s, r)

\* The reply a request is answered with is the one whose sequence number was
\* compared with this very request (lines 531-544), except when the reply
\* was stored after the request it was compared with had stopped waiting.
AckMatchedUnlessLate ==
    \A s \in Session :
        waiter[s] = "call" /\ successCallback[s] # None =>
            \/ repliedData[s].matched = successCallback[s]
            \/ repliedData[s].late

\* The FailCallback comes only after every granted wait ran into its timeout:
\* no try is skipped and none is added.
FailAfterAllTries ==
    \A s \in Session : failCallback[s] # None =>
        expired[failCallback[s]] = granted[failCallback[s]]

\* A request whose reply was stored while it waited never gets the
\* FailCallback, however close the reply and the timeout are.
NoAnsweredRequestFails ==
    \A s \in Session : failCallback[s] # None => failCallback[s] \notin inTime

\* What line 541 announces ("Sequence does not match."): a reply that does not
\* belong to the request is not given to it.  Lines 544-546 break this.
AckMatches ==
    \A s \in Session :
        waiter[s] = "call" /\ successCallback[s] # None =>
            repliedData[s].matched = successCallback[s]

\* Every accepted request with both callbacks is answered in the end, unless
\* its session is destroyed.
EveryRequestAnswered ==
    \A r \in WantsAck \cap WantsFail :
        r \in registered ~>
            \/ acks[r] + fails[r] = 1
            \/ \E s \in Session : current[s] = r /\ m_stopped[s]

\* A session is freed for the next request, whichever callbacks the present
\* one has and whatever replies arrive.
SessionFreed ==
    \A s \in Session : ~m_available[s] ~> m_available[s] \/ m_stopped[s]

\* A waiting thread that is not blocked on m_threadCond when ~Session sets
\* m_stopped ends, so the join of line 101 returns.
BusyDestroyReturns ==
    \A s \in Session :
        m_stopped[s] /\ waiter[s] # "parked" ~> waiter[s] = "exited"

\* The join of line 101 returns: the predicate of line 40 names m_stopped so
\* that a blocked thread sees it.  Nobody notifies that thread.
DestroyReturns == \A s \in Session : m_stopped[s] ~> waiter[s] = "exited"

-----------------------------------------------------------------------------
(***************************************************************************)
(* The session implements the service of module SessionService.            *)
(***************************************************************************)
statusBar == [r \in Req |->
    CASE acks[r] > 0 -> "acked"
      [] acks[r] = 0 /\ fails[r] > 0 -> "failed"
      [] acks[r] + fails[r] = 0 /\ r \notin registered -> "new"
      [] acks[r] + fails[r] = 0 /\ r \in registered ->
           IF \E s \in Session : ~m_available[s] /\ current[s] = r
           THEN "held"
           ELSE IF \E s \in Session : r \in {successCallback[s], failCallback[s]}
                THEN "owed" ELSE "closed"]

ownerBar == [s \in Session |-> IF m_available[s] THEN None ELSE current[s]]

Service == INSTANCE SessionService
    WITH status <- statusBar, owner <- ownerBar, stopped <- m_stopped

\* Every step of a session is a step of the service or changes nothing the
\* service shows, and the service's fairness holds.
ImplementsService == Service!FairSpec

=============================================================================
