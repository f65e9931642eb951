---------------------------- MODULE SessionProofs ----------------------------
(***************************************************************************)
(* Proofs that the safety properties of module Session hold for every set  *)
(* of sessions, requests, sequence numbers and tries, and that every step  *)
(* of the sessions is one of module SessionService.                        *)
(*                                                                         *)
(* There is one lemma per action (the steps that only move the waiting     *)
(* thread share one), with one step per part of SessionInv.                *)
(***************************************************************************)
EXTENDS SessionInv, TLAPS

USE SessionAssumption

-----------------------------------------------------------------------------
LEMMA InitType == SessionInit => SessionTypeOK
BY DEF SessionInit, SessionTypeOK, WaiterStates, NoDispatch

LEMMA NextType ==
    SessionTypeOK /\ Control /\ [SessionNext]_SessionVars => SessionTypeOK'
<1> SUFFICES ASSUME SessionTypeOK, Control, [SessionNext]_SessionVars
             PROVE  SessionTypeOK'
  OBVIOUS
<1>1. ASSUME NEW s \in Session, NEW r \in Req, NEW q \in SeqNum, NEW n \in Tries,
             Register(s, r, q, n)
      PROVE  SessionTypeOK'
  BY <1>1 DEF Register, Notify, SessionTypeOK, WaiterStates
<1>2. ASSUME NEW s \in Session, NEW q \in SeqNum, NEW d \in Data,
             DispatchCheck(s, q, d)
      PROVE  SessionTypeOK'
  BY <1>2 DEF DispatchCheck, Control, SessionTypeOK, NoDispatch, fields, history
<1>3. CASE DispatchStore
  BY <1>3 DEF DispatchStore, SessionTypeOK, NoDispatch, Reply
<1>4. ASSUME NEW s \in Session, Park(s) \/ SpuriousWake(s) \/ Exit(s) \/ Start(s) \/ WaitStopped(s)
      PROVE  SessionTypeOK'
  BY <1>4 DEF Park, SpuriousWake, Exit, Start, WaitStopped, Goto, SessionTypeOK,
              WaiterStates, fields, history
<1>5. ASSUME NEW s \in Session, Try(s)
      PROVE  SessionTypeOK'
  BY <1>5 DEF Try, Goto, SessionTypeOK, WaiterStates, history
<1>6. ASSUME NEW s \in Session, WaitReplied(s)
      PROVE  SessionTypeOK'
  BY <1>6 DEF WaitReplied, NextTry, Goto, SessionTypeOK, WaiterStates, history
<1>7. ASSUME NEW s \in Session, WaitExpired(s)
      PROVE  SessionTypeOK'
  BY <1>7 DEF WaitExpired, Control, NextTry, Goto, SessionTypeOK, WaiterStates
<1>8. ASSUME NEW s \in Session, Clear(s) \/ Free(s)
      PROVE  SessionTypeOK'
  BY <1>8 DEF Clear, Free, Goto, SessionTypeOK, WaiterStates, history
<1>9. ASSUME NEW s \in Session, Call(s)
      PROVE  SessionTypeOK'
  BY <1>9 DEF Call, EndScope, Goto, SessionTypeOK, WaiterStates, fields
<1>10. ASSUME NEW s \in Session, Stop(s)
      PROVE  SessionTypeOK'
  BY <1>10 DEF Stop, SessionTypeOK, locals, history
<1>11. CASE UNCHANGED SessionVars
  BY <1>11 DEF SessionTypeOK, SessionVars, fields, locals, history
<1> QED
  BY <1>1, <1>2, <1>3, <1>4, <1>5, <1>6, <1>7, <1>8, <1>9, <1>10, <1>11
     DEF SessionNext, WaiterStep

\* An accepted registration.
LEMMA RegisterKeeps ==
    ASSUME SessionInv, SessionTypeOK', NEW s \in Session, NEW r \in Req, NEW q \in SeqNum, NEW n \in Tries,
           Register(s, r, q, n)
    PROVE  SessionInv'
<1>1. Control'
  BY DEF SessionInv, SessionTypeOK, Control, Register, Notify
<1>2. Callbacks'
  BY DEF SessionInv, SessionTypeOK, Control, Callbacks, Waiting, Register,
         Notify
<1>3. Ownership'
  BY DEF SessionInv, SessionTypeOK, Control, Ownership, Owes, Waiting,
         Register, Notify
<1>4. OneCallback'
  BY DEF SessionInv, SessionTypeOK, Ownership, OneCallback, Owes, Register,
         Notify
<1>5. NoRequestLost'
  BY DEF SessionInv, SessionTypeOK, Control, Ownership, NoRequestLost, Owes,
         Waiting, WaiterStates, Register, Notify
<1>6. Replies'
  BY DEF SessionInv, SessionTypeOK, Control, Replies, Register, Notify
<1>7. InTime'
  BY DEF SessionInv, SessionTypeOK, Control, Ownership, InTime, Owes,
         Waiting, Register, Notify
<1>8. Accounting'
  BY DEF SessionInv, SessionTypeOK, Control, Ownership, Accounting, Owes,
         Waiting, Register, Notify
<1> QED
  BY <1>1, <1>2, <1>3, <1>4, <1>5, <1>6, <1>7, <1>8 DEF SessionInv

\* The receive thread has compared the sequence numbers.
LEMMA DispatchCheckKeeps ==
    ASSUME SessionInv, SessionTypeOK', NEW s \in Session, NEW q \in SeqNum, NEW d \in Data,
           DispatchCheck(s, q, d)
    PROVE  SessionInv'
<1>1. Control'
  BY DEF SessionInv, SessionTypeOK, Control, DispatchCheck, fields, history
<1>2. Callbacks'
  BY DEF SessionInv, SessionTypeOK, Control, Callbacks, Waiting,
         DispatchCheck, fields, history
<1>3. Ownership'
  BY DEF SessionInv, SessionTypeOK, Control, Ownership, Owes, Waiting,
         DispatchCheck, fields, history
<1>4. OneCallback'
  BY DEF SessionInv, SessionTypeOK, Ownership, OneCallback, Owes,
         DispatchCheck, fields, history
<1>5. NoRequestLost'
  BY DEF SessionInv, SessionTypeOK, Control, Ownership, NoRequestLost, Owes,
         Waiting, DispatchCheck, fields, history
<1>6. Replies'
  BY DEF SessionInv, SessionTypeOK, Control, Replies, DispatchCheck, fields,
         history
<1>7. InTime'
  BY DEF SessionInv, SessionTypeOK, Control, Ownership, InTime, Owes,
         Waiting, DispatchCheck, fields, history
<1>8. Accounting'
  BY DEF SessionInv, SessionTypeOK, Control, Ownership, Accounting, Owes,
         Waiting, DispatchCheck, fields, history
<1> QED
  BY <1>1, <1>2, <1>3, <1>4, <1>5, <1>6, <1>7, <1>8 DEF SessionInv

\* The reply is marked late exactly when the request it matched no longer waits.
LEMMA DispatchStoreReplies ==
    ASSUME SessionInv, DispatchStore
    PROVE  Replies'
<1> DEFINE s == recv.session
           r == recv.matched
           stored == [data |-> recv.data, matched |-> r, late |-> ~StillWaits(s, r)]
<1>1. s \in Session /\ r \in Req /\ stored \in Reply
  BY DEF SessionInv, SessionTypeOK, DispatchStore, NoDispatch, Reply, StillWaits
<1>2. /\ m_repliedData' = [m_repliedData EXCEPT ![s] = stored]
      /\ m_replied' = [m_replied EXCEPT ![s] = TRUE]
      /\ UNCHANGED <<m_available, current, waiter, successCallback, repliedData>>
  BY DEF DispatchStore
<1>3. StillWaits(s, r) => r = current[s] /\ ~m_available[s] /\ waiter[s] # "free"
  BY DEF StillWaits
<1>4. stored.late = ~StillWaits(s, r) /\ stored.matched = r
  OBVIOUS
<1> HIDE DEF s, r, stored
<1> QED
  BY <1>1, <1>2, <1>3, <1>4 DEF SessionInv, SessionTypeOK, Replies

\* The receive thread stores the reply.
LEMMA DispatchStoreKeeps ==
    ASSUME SessionInv, SessionTypeOK', DispatchStore
    PROVE  SessionInv'
<1>1. Control'
  BY DEF SessionInv, SessionTypeOK, Control, DispatchStore
<1>2. Callbacks'
  BY DEF SessionInv, SessionTypeOK, Control, Callbacks, Waiting,
         DispatchStore
<1>3. Ownership'
  BY DEF SessionInv, SessionTypeOK, Control, Ownership, Owes, Waiting,
         StillWaits, NoDispatch, DispatchStore
<1>4. OneCallback'
  BY DEF SessionInv, SessionTypeOK, Ownership, OneCallback, Owes,
         DispatchStore
<1>5. NoRequestLost'
  BY DEF SessionInv, SessionTypeOK, Control, Ownership, NoRequestLost, Owes,
         Waiting, DispatchStore
<1>6. Replies'
  BY DispatchStoreReplies
<1>7. InTime'
  BY DEF SessionInv, SessionTypeOK, Control, Ownership, InTime, Owes,
         Waiting, StillWaits, NoDispatch, DispatchStore
<1>8. Accounting'
  BY DEF SessionInv, SessionTypeOK, Control, Ownership, Accounting, Owes,
         Waiting, DispatchStore
<1> QED
  BY <1>1, <1>2, <1>3, <1>4, <1>5, <1>6, <1>7, <1>8 DEF SessionInv

\* A step that only moves the waiting thread changes no session's duties.
LEMMA MoveOwes ==
    ASSUME SessionInv, NEW s \in Session,
           Park(s) \/ SpuriousWake(s) \/ Exit(s) \/ Start(s) \/ WaitStopped(s)
    PROVE  Ownership' /\ NoRequestLost'
<1>1. UNCHANGED <<fields, successCallback, failCallback, history>>
  BY DEF Park, SpuriousWake, Exit, Start, WaitStopped
<1>2. \A t \in Session : Waiting(t)' = Waiting(t)
  BY DEF SessionInv, SessionTypeOK, Control, Waiting, Park, SpuriousWake,
         Exit, Start, WaitStopped, Goto, fields
<1>3. \A t \in Session, r \in Req : Owes(t, r)' = Owes(t, r)
  BY <1>1, <1>2 DEF Owes, history
<1> QED
  BY <1>1, <1>2, <1>3 DEF SessionInv, Ownership, NoRequestLost, history

\* The steps that only move the waiting thread.
LEMMA MoveKeeps ==
    ASSUME SessionInv, SessionTypeOK', NEW s \in Session,
           Park(s) \/ SpuriousWake(s) \/ Exit(s) \/ Start(s) \/ WaitStopped(s)
    PROVE  SessionInv'
<1>1. Control'
  BY DEF SessionInv, SessionTypeOK, Control, Park, SpuriousWake, Exit,
         Start, WaitStopped, Goto, fields, history
<1>2. Callbacks'
  BY DEF SessionInv, SessionTypeOK, Control, Callbacks, Waiting, Park,
         SpuriousWake, Exit, Start, WaitStopped, Goto, fields, history
<1>3. Ownership'
  BY MoveOwes
<1>4. OneCallback'
  BY DEF SessionInv, SessionTypeOK, Ownership, OneCallback, Owes, Park,
         SpuriousWake, Exit, Start, WaitStopped, Goto, fields, history
<1>5. NoRequestLost'
  BY MoveOwes
<1>6. Replies'
  BY DEF SessionInv, SessionTypeOK, Control, Replies, Park, SpuriousWake,
         Exit, Start, WaitStopped, Goto, fields, history
<1>7. InTime'
  BY DEF SessionInv, SessionTypeOK, Control, Ownership, InTime, Owes,
         Waiting, Park, SpuriousWake, Exit, Start, WaitStopped, Goto,
         fields, history
<1>8. Accounting'
  BY DEF SessionInv, SessionTypeOK, Control, Ownership, Accounting, Owes,
         Waiting, Park, SpuriousWake, Exit, Start, WaitStopped, Goto,
         fields, history
<1> QED
  BY <1>1, <1>2, <1>3, <1>4, <1>5, <1>6, <1>7, <1>8 DEF SessionInv

\* One wait begins, one try is used up.
LEMMA TryAccounting ==
    ASSUME SessionInv, NEW s \in Session, Try(s)
    PROVE  Accounting'
<1>1. /\ waiter[s] = "try" /\ waiter'[s] = "wait"
      /\ m_tryTimes[s] \in Int /\ m_tryTimes'[s] = m_tryTimes[s] - 1
  BY DEF Try, Goto, SessionInv, SessionTypeOK
<1>2. \A t \in Session \ {s} : m_tryTimes'[t] = m_tryTimes[t] /\ waiter'[t] = waiter[t]
  BY DEF Try, Goto, SessionInv, SessionTypeOK
<1>3. UNCHANGED <<m_available, m_replied, failCallback, history>>
  BY DEF Try
<1>4. current[s] \in Req
  BY <1>1 DEF SessionInv, Control, SessionTypeOK
<1>5. granted[current[s]] \in Int /\ expired[current[s]] \in Int
  BY <1>4 DEF SessionInv, SessionTypeOK
<1> QED
  BY <1>1, <1>2, <1>3, <1>4, <1>5 DEF SessionInv, Accounting, Waiting, history

\* m_tryTimes--.
LEMMA TryKeeps ==
    ASSUME SessionInv, SessionTypeOK', NEW s \in Session, Try(s)
    PROVE  SessionInv'
<1>1. Control'
  BY DEF SessionInv, SessionTypeOK, Control, Try, Goto, history
<1>2. Callbacks'
  BY DEF SessionInv, SessionTypeOK, Control, Callbacks, Waiting, Try, Goto,
         history
<1>3. Ownership'
  BY DEF SessionInv, SessionTypeOK, Control, Ownership, Owes, Waiting, Try,
         Goto, history
<1>4. OneCallback'
  BY DEF SessionInv, SessionTypeOK, Ownership, OneCallback, Owes, Try, Goto,
         history
<1>5. NoRequestLost'
  BY DEF SessionInv, SessionTypeOK, Control, Ownership, NoRequestLost, Owes,
         Waiting, Try, Goto, history
<1>6. Replies'
  BY DEF SessionInv, SessionTypeOK, Control, Replies, Try, Goto, history
<1>7. InTime'
  BY DEF SessionInv, SessionTypeOK, Control, Ownership, InTime, Owes,
         Waiting, Try, Goto, history
<1>8. Accounting'
  BY TryAccounting
<1> QED
  BY <1>1, <1>2, <1>3, <1>4, <1>5, <1>6, <1>7, <1>8 DEF SessionInv

\* The duty towards the request moves from the session into successCallback;
\* a request without AckCallback may only lose it when it has no FailCallback
\* either or was never promised an answer.
LEMMA WaitRepliedOwes ==
    ASSUME SessionInv, NEW s \in Session, WaitReplied(s)
    PROVE  Ownership' /\ NoRequestLost' /\ Replies'
<1>1. /\ waiter[s] = "wait" /\ Waiting(s)
      /\ current[s] \in registered /\ current[s] \in Req
  BY DEF WaitReplied, NextTry, Goto, SessionInv, SessionTypeOK, Control, Waiting
<1>2. CASE m_replyFunc[s] # None
  <2>1. current[s] \in WantsAck /\ m_replyFunc[s] = current[s]
    BY <1>1, <1>2 DEF SessionInv, Callbacks
  <2>2. /\ successCallback' = [successCallback EXCEPT ![s] = current[s]]
        /\ repliedData' = [repliedData EXCEPT ![s] = m_repliedData[s]]
        /\ waiter' = [waiter EXCEPT ![s] = "clear"]
    BY <1>2, <2>1 DEF WaitReplied, Goto
  <2>3. UNCHANGED <<m_available, m_replied, m_repliedData, failCallback, history>>
    BY DEF WaitReplied
  <2>4. successCallback[s] = None /\ failCallback[s] = None
    BY <1>1 DEF SessionInv, Control
  <2>5. \A t \in Session, r \in Req : Owes(t, r)' = Owes(t, r)
    BY <1>1, <2>2, <2>3, <2>4 DEF Owes, Waiting, SessionInv, SessionTypeOK, history
  <2>6. \A t \in Session : Waiting(t)' => t # s /\ Waiting(t)
    BY <2>2, <2>3 DEF Waiting, SessionInv, SessionTypeOK, history
  <2>7. Ownership'
    BY <1>1, <2>2, <2>3, <2>4, <2>5, <2>6
       DEF SessionInv, SessionTypeOK, Ownership, history
  <2>8. NoRequestLost'
    BY <2>3, <2>5 DEF SessionInv, NoRequestLost, history
  <2>9. Replies'
    <3>1. /\ m_repliedData[s] \in Reply
          /\ m_repliedData[s].late \/ m_repliedData[s].matched = current[s]
      BY DEF WaitReplied, SessionInv, Replies
    <3> QED
      BY <1>1, <2>2, <2>3, <3>1 DEF SessionInv, SessionTypeOK, Replies, history
  <2> QED
    BY <2>7, <2>8, <2>9
<1>3. CASE m_replyFunc[s] = None
  <2>1. current[s] \notin WantsAck
    BY <1>1, <1>3 DEF SessionInv, Callbacks
  <2>2. waiter' = [waiter EXCEPT ![s] = IF m_tryTimes[s] > 0 THEN "try" ELSE "clear"]
    BY <1>3 DEF WaitReplied, NextTry, Goto
  <2>3. UNCHANGED <<m_available, m_replied, m_repliedData, repliedData,
                    successCallback, failCallback, history>>
    BY <1>3 DEF WaitReplied
  <2>4. \A t \in Session, r \in Req : Owes(t, r)' => Owes(t, r)
    BY <1>1, <2>2, <2>3 DEF Owes, Waiting, SessionInv, SessionTypeOK, history
  <2>5. \A t \in Session : Waiting(t)' => Waiting(t)
    BY <1>1, <2>2, <2>3 DEF Waiting, SessionInv, SessionTypeOK, history
  <2>6. Ownership'
    BY <1>1, <2>3, <2>4, <2>5 DEF SessionInv, SessionTypeOK, Ownership, history
  <2>7. \A t \in Session, r \in Req : Owes(t, r) /\ r \in WantsAck => Owes(t, r)'
    BY <1>1, <2>1, <2>2, <2>3 DEF Owes, Waiting, SessionInv, SessionTypeOK, history
  <2>8. NoRequestLost'
    BY <2>3, <2>7 DEF SessionInv, SessionTypeOK, NoRequestLost, history
  <2>9. Replies'
    BY <1>1, <2>2, <2>3 DEF SessionInv, SessionTypeOK, Replies, history
  <2> QED
    BY <2>6, <2>8, <2>9
<1> QED
  BY <1>2, <1>3

\* The wait ends with a reply.
LEMMA WaitRepliedKeeps ==
    ASSUME SessionInv, SessionTypeOK', NEW s \in Session, WaitReplied(s)
    PROVE  SessionInv'
<1>1. Control'
  BY DEF SessionInv, SessionTypeOK, Control, WaitReplied, NextTry, Goto,
         history
<1>2. Callbacks'
  BY DEF SessionInv, SessionTypeOK, Control, Callbacks, Waiting,
         WaitReplied, NextTry, Goto, history
<1>3. Ownership'
  BY WaitRepliedOwes
<1>4. OneCallback'
  BY DEF SessionInv, SessionTypeOK, Ownership, OneCallback, Owes,
         WaitReplied, NextTry, Goto, history
<1>5. NoRequestLost'
  BY WaitRepliedOwes
<1>6. Replies'
  BY WaitRepliedOwes
<1>7. InTime'
  BY DEF SessionInv, SessionTypeOK, Control, Ownership, InTime, Owes,
         Waiting, Replies, WaitReplied, NextTry, Goto, history
<1>8. Accounting'
  BY DEF SessionInv, SessionTypeOK, Control, Ownership, Accounting, Owes,
         Waiting, WaitReplied, NextTry, Goto, history
<1> QED
  BY <1>1, <1>2, <1>3, <1>4, <1>5, <1>6, <1>7, <1>8 DEF SessionInv

\* What the accounts of the other sessions and of the pending callbacks rest
\* on: nobody else is concerned with the request whose wait expired.
LEMMA OthersKeepAccounts ==
    ASSUME SessionInv, NEW s \in Session, WaitExpired(s)
    PROVE  /\ waiter[s] = "wait" /\ Waiting(s)
           /\ current[s] \in registered /\ current[s] \in Req
           /\ m_tryTimes[s] \in Nat
           /\ m_tryTimes[s] + expired[current[s]] + 1 = granted[current[s]]
           /\ expired'[current[s]] \in Nat
           /\ m_tryTimes[s] + expired'[current[s]] = granted[current[s]]
           /\ \A r \in Req \ {current[s]} : expired'[r] = expired[r]
           /\ \A t \in Session : failCallback[t] # current[s]
           /\ \A t \in Session \ {s} :
                /\ Waiting(t) => current[t] \in Req \ {current[s]}
                /\ waiter'[t] = waiter[t]
                /\ waiter[t] \in {"try", "wait"} => Waiting(t)
<1>1. /\ waiter[s] = "wait" /\ Waiting(s)
      /\ current[s] \in registered /\ current[s] \in Req
  BY DEF WaitExpired, NextTry, Goto, SessionInv, SessionTypeOK, Control, Waiting
<1>2. /\ m_tryTimes[s] \in Nat
      /\ m_tryTimes[s] + expired[current[s]] + 1 = granted[current[s]]
  BY <1>1 DEF WaitExpired, SessionInv, SessionTypeOK, Accounting
<1>3. /\ expired'[current[s]] \in Nat
      /\ m_tryTimes[s] + expired'[current[s]] = granted[current[s]]
      /\ \A r \in Req \ {current[s]} : expired'[r] = expired[r]
  BY <1>1, <1>2 DEF WaitExpired, SessionInv, SessionTypeOK
<1>4. \A t \in Session : failCallback[t] # current[s]
  BY <1>1 DEF SessionInv, Ownership, Owes
<1>5. \A t \in Session \ {s} : Waiting(t) => current[t] \in Req \ {current[s]}
  BY <1>1 DEF SessionInv, SessionTypeOK, Control, Ownership, Owes, Waiting
<1>6. \A t \in Session \ {s} :
        waiter'[t] = waiter[t] /\ (waiter[t] \in {"try", "wait"} => Waiting(t))
  BY DEF WaitExpired, NextTry, Goto, SessionInv, SessionTypeOK, Control, Waiting
<1> QED
  BY <1>1, <1>2, <1>3, <1>4, <1>5, <1>6

\* After the last wait the duty moves into failCallback; before, the session
\* keeps it, or drops it when there is no FailCallback.
LEMMA WaitExpiredOwes ==
    ASSUME SessionInv, NEW s \in Session, WaitExpired(s)
    PROVE  Ownership' /\ NoRequestLost' /\ Accounting'
<1>1. /\ waiter[s] = "wait" /\ Waiting(s)
      /\ current[s] \in registered /\ current[s] \in Req
  BY OthersKeepAccounts
<1>2. UNCHANGED <<m_available, m_tryTimes, m_replied, successCallback, current,
                  registered, granted, inTime, acks, fails>>
  BY DEF WaitExpired
<1>3. CASE m_timeoutCallback[s] # None /\ m_tryTimes[s] = 0
  <2>1. current[s] \in WantsFail /\ m_timeoutCallback[s] = current[s]
    BY <1>1, <1>3 DEF SessionInv, Callbacks
  <2>2. /\ failCallback' = [failCallback EXCEPT ![s] = current[s]]
        /\ waiter' = [waiter EXCEPT ![s] = "clear"]
    BY <1>3, <2>1 DEF WaitExpired, Goto
  <2>3. successCallback[s] = None /\ failCallback[s] = None
    BY <1>1 DEF SessionInv, Control
  <2>4. \A t \in Session, r \in Req : Owes(t, r)' = Owes(t, r)
    BY <1>1, <1>2, <2>2, <2>3 DEF Owes, Waiting, SessionInv, SessionTypeOK
  <2>5. \A t \in Session : Waiting(t)' => t # s /\ Waiting(t)
    BY <1>2, <2>2 DEF Waiting, SessionInv, SessionTypeOK
  <2>6. Ownership'
    BY <1>1, <1>2, <2>2, <2>3, <2>4, <2>5, OthersKeepAccounts
       DEF SessionInv, SessionTypeOK, Ownership
  <2>7. NoRequestLost'
    BY <1>2, <2>4 DEF SessionInv, NoRequestLost
  <2>8. Accounting'
    <3>1. /\ \A t \in Session \ {s} : failCallback'[t] = failCallback[t]
          /\ failCallback'[s] = current[s] /\ waiter'[s] = "clear"
          /\ \A t \in Session : failCallback[t] # None => failCallback[t] \in Req
      BY <2>2 DEF SessionInv, SessionTypeOK
    <3>2. \A t \in Session : failCallback'[t] # None =>
            expired'[failCallback'[t]] = granted[failCallback'[t]]
      BY <1>3, <3>1, OthersKeepAccounts DEF SessionInv, SessionTypeOK, Accounting
    <3> QED
      BY <1>2, <2>5, <3>1, <3>2, OthersKeepAccounts DEF SessionInv, Accounting
  <2> QED
    BY <2>6, <2>7, <2>8
<1>4. CASE m_timeoutCallback[s] = None \/ m_tryTimes[s] # 0
  <2>1. m_tryTimes[s] > 0 \/ current[s] \notin WantsFail
    BY <1>1, <1>4, OthersKeepAccounts DEF SessionInv, Callbacks
  <2>2. /\ waiter' = [waiter EXCEPT ![s] = IF m_tryTimes[s] > 0 THEN "try" ELSE "clear"]
        /\ UNCHANGED failCallback
    BY <1>4, OthersKeepAccounts DEF WaitExpired, NextTry, Goto
  <2>3. \A t \in Session, r \in Req : Owes(t, r)' => Owes(t, r)
    BY <1>1, <1>2, <2>2 DEF Owes, Waiting, SessionInv, SessionTypeOK
  <2>4. \A t \in Session : Waiting(t)' => Waiting(t)
    BY <1>1, <1>2, <2>2 DEF Waiting, SessionInv, SessionTypeOK
  <2>5. Ownership'
    BY <1>1, <1>2, <2>2, <2>3, <2>4, OthersKeepAccounts
       DEF SessionInv, SessionTypeOK, Ownership
  <2>6. \A t \in Session, r \in Req : Owes(t, r) /\ r \in WantsFail => Owes(t, r)'
    BY <1>1, <1>2, <2>1, <2>2 DEF Owes, Waiting, SessionInv, SessionTypeOK
  <2>7. NoRequestLost'
    BY <1>2, <2>6 DEF SessionInv, SessionTypeOK, NoRequestLost
  <2>8. Accounting'
    <3>1. /\ \/ waiter'[s] = "try" /\ m_tryTimes[s] > 0
             \/ waiter'[s] = "clear"
          /\ \A t \in Session : failCallback[t] # None => failCallback[t] \in Req
      BY <2>2 DEF SessionInv, SessionTypeOK
    <3>2. Waiting(s)' => waiter'[s] = "try"
      BY <3>1 DEF Waiting
    <3> QED
      BY <1>2, <2>2, <2>4, <3>1, <3>2, OthersKeepAccounts DEF SessionInv, Accounting
  <2> QED
    BY <2>5, <2>7, <2>8
<1> QED
  BY <1>3, <1>4

\* The wait ends without a reply.
LEMMA WaitExpiredKeeps ==
    ASSUME SessionInv, SessionTypeOK', NEW s \in Session, WaitExpired(s)
    PROVE  SessionInv'
<1>1. Control'
  BY DEF SessionInv, SessionTypeOK, Control, WaitExpired, NextTry, Goto
<1>2. Callbacks'
  BY DEF SessionInv, SessionTypeOK, Control, Callbacks, Waiting,
         WaitExpired, NextTry, Goto
<1>3. Ownership'
  BY WaitExpiredOwes
<1>4. OneCallback'
  BY DEF SessionInv, SessionTypeOK, Ownership, OneCallback, Owes,
         WaitExpired, NextTry, Goto
<1>5. NoRequestLost'
  BY WaitExpiredOwes
<1>6. Replies'
  BY DEF SessionInv, SessionTypeOK, Control, Replies, WaitExpired, NextTry,
         Goto
<1>7. InTime'
  BY DEF SessionInv, SessionTypeOK, Control, Ownership, InTime, Owes,
         Waiting, Callbacks, WaitExpired, NextTry, Goto
<1>8. Accounting'
  BY WaitExpiredOwes
<1> QED
  BY <1>1, <1>2, <1>3, <1>4, <1>5, <1>6, <1>7, <1>8 DEF SessionInv

\* The resets of m_replied and m_available leave the chosen callback alone.
LEMMA ClearFreeOwes ==
    ASSUME SessionInv, NEW s \in Session, Clear(s) \/ Free(s)
    PROVE  Ownership' /\ NoRequestLost' /\ InTime'
<1>1. UNCHANGED <<successCallback, failCallback, history>>
  BY DEF Clear, Free
<1>2. \A t \in Session : Waiting(t)' = Waiting(t)
  BY DEF Clear, Free, Goto, Waiting, SessionInv, SessionTypeOK
<1>3. \A t \in Session, r \in Req : Owes(t, r)' = Owes(t, r)
  BY <1>1, <1>2 DEF Owes, history
<1>4. \A t \in Session : Waiting(t) => m_replied'[t] = m_replied[t]
  BY DEF Clear, Free, Goto, Waiting, SessionInv, SessionTypeOK
<1> QED
  BY <1>1, <1>2, <1>3, <1>4
     DEF SessionInv, Ownership, NoRequestLost, InTime, history

\* The two resets.
LEMMA ClearFreeKeeps ==
    ASSUME SessionInv, SessionTypeOK', NEW s \in Session, Clear(s) \/ Free(s)
    PROVE  SessionInv'
<1>1. Control'
  BY DEF SessionInv, SessionTypeOK, Control, Clear, Free, Goto, history
<1>2. Callbacks'
  BY DEF SessionInv, SessionTypeOK, Control, Callbacks, Waiting, Clear,
         Free, Goto, history
<1>3. Ownership'
  BY ClearFreeOwes
<1>4. OneCallback'
  BY DEF SessionInv, SessionTypeOK, Ownership, OneCallback, Owes, Clear,
         Free, Goto, history
<1>5. NoRequestLost'
  BY ClearFreeOwes
<1>6. Replies'
  BY DEF SessionInv, SessionTypeOK, Control, Replies, Clear, Free, Goto,
         history
<1>7. InTime'
  BY ClearFreeOwes
<1>8. Accounting'
  BY DEF SessionInv, SessionTypeOK, Control, Ownership, Accounting, Owes,
         Waiting, Clear, Free, Goto, history
<1> QED
  BY <1>1, <1>2, <1>3, <1>4, <1>5, <1>6, <1>7, <1>8 DEF SessionInv

\* The request whose callback runs is answered; the others are still owed.
LEMMA CallAnswers ==
    ASSUME SessionInv, NEW s \in Session, Call(s)
    PROVE  NoRequestLost'
<1> SUFFICES ASSUME NEW r \in registered \cap WantsAck \cap WantsFail
             PROVE  acks'[r] + fails'[r] = 1 \/ \E t \in Session : Owes(t, r)'
  BY DEF NoRequestLost, Call
<1>1. CASE r \in {successCallback[s], failCallback[s]}
  <2>1. acks[r] = 0 /\ fails[r] = 0
    BY <1>1 DEF SessionInv, Ownership, Owes
  <2>2. \/ successCallback[s] = r /\ failCallback[s] = None
        \/ failCallback[s] = r /\ successCallback[s] = None
    BY <1>1 DEF SessionInv, Control
  <2> QED
    BY <2>1, <2>2 DEF Call, SessionInv, SessionTypeOK
<1>2. CASE r \notin {successCallback[s], failCallback[s]}
  <2>1. acks'[r] = acks[r] /\ fails'[r] = fails[r]
    BY <1>2 DEF Call, EndScope, SessionInv, SessionTypeOK
  <2>2. \A t \in Session : Owes(t, r) => Owes(t, r)'
    BY <1>2 DEF Owes, Waiting, Call, EndScope, Goto, SessionInv, SessionTypeOK, fields
  <2> QED
    BY <2>1, <2>2 DEF SessionInv, NoRequestLost
<1> QED
  BY <1>1, <1>2

\* The callback.
LEMMA CallKeeps ==
    ASSUME SessionInv, SessionTypeOK', NEW s \in Session, Call(s)
    PROVE  SessionInv'
<1>1. Control'
  BY DEF SessionInv, SessionTypeOK, Control, Call, EndScope, Goto, fields
<1>2. Callbacks'
  BY DEF SessionInv, SessionTypeOK, Control, Callbacks, Waiting, Call,
         EndScope, Goto, fields
<1>3. Ownership'
  BY DEF SessionInv, SessionTypeOK, Control, Ownership, Owes, Waiting, Call,
         EndScope, Goto, fields
<1>4. OneCallback'
  BY DEF SessionInv, SessionTypeOK, Ownership, OneCallback, Owes, Call,
         EndScope, Goto, fields
<1>5. NoRequestLost'
  BY CallAnswers
<1>6. Replies'
  BY DEF SessionInv, SessionTypeOK, Control, Replies, Call, EndScope, Goto,
         fields
<1>7. InTime'
  BY DEF SessionInv, SessionTypeOK, Control, Ownership, InTime, Owes,
         Waiting, Call, EndScope, Goto, fields
<1>8. Accounting'
  BY DEF SessionInv, SessionTypeOK, Control, Ownership, Accounting, Owes,
         Waiting, Call, EndScope, Goto, fields
<1> QED
  BY <1>1, <1>2, <1>3, <1>4, <1>5, <1>6, <1>7, <1>8 DEF SessionInv

\* ~Session.
LEMMA StopKeeps ==
    ASSUME SessionInv, SessionTypeOK', NEW s \in Session, Stop(s)
    PROVE  SessionInv'
<1>1. Control'
  BY DEF SessionInv, SessionTypeOK, Control, Stop, locals, history
<1>2. Callbacks'
  BY DEF SessionInv, SessionTypeOK, Control, Callbacks, Waiting, Stop,
         locals, history
<1>3. Ownership'
  BY DEF SessionInv, SessionTypeOK, Control, Ownership, Owes, Waiting, Stop,
         locals, history
<1>4. OneCallback'
  BY DEF SessionInv, SessionTypeOK, Ownership, OneCallback, Owes, Stop,
         locals, history
<1>5. NoRequestLost'
  BY DEF SessionInv, SessionTypeOK, Control, Ownership, NoRequestLost, Owes,
         Waiting, Stop, locals, history
<1>6. Replies'
  BY DEF SessionInv, SessionTypeOK, Control, Replies, Stop, locals, history
<1>7. InTime'
  BY DEF SessionInv, SessionTypeOK, Control, Ownership, InTime, Owes,
         Waiting, Stop, locals, history
<1>8. Accounting'
  BY DEF SessionInv, SessionTypeOK, Control, Ownership, Accounting, Owes,
         Waiting, Stop, locals, history
<1> QED
  BY <1>1, <1>2, <1>3, <1>4, <1>5, <1>6, <1>7, <1>8 DEF SessionInv

-----------------------------------------------------------------------------
LEMMA InitInv == SessionInit => SessionInv
<1> SUFFICES ASSUME SessionInit
             PROVE  SessionInv
  OBVIOUS
<1>1. SessionTypeOK
  BY InitType
<1>2. Control /\ Callbacks /\ Replies /\ InTime
  BY DEF SessionInit, Control, Callbacks, Replies, InTime, Waiting
<1>3. Ownership /\ OneCallback /\ NoRequestLost
  BY DEF SessionInit, Ownership, OneCallback, NoRequestLost, Owes, Waiting
<1>4. Accounting
  BY DEF SessionInit, Accounting, Waiting
<1> QED
  BY <1>1, <1>2, <1>3, <1>4 DEF SessionInv

LEMMA NextInv == SessionInv /\ [SessionNext]_SessionVars => SessionInv'
<1> SUFFICES ASSUME SessionInv, [SessionNext]_SessionVars
             PROVE  SessionInv'
  OBVIOUS
<1>1. SessionTypeOK'
  BY NextType DEF SessionInv
<1>2. ASSUME NEW s \in Session, NEW r \in Req, NEW q \in SeqNum, NEW n \in Tries,
             Register(s, r, q, n)
      PROVE  SessionInv'
  BY <1>1, <1>2, RegisterKeeps
<1>3. ASSUME NEW s \in Session, NEW q \in SeqNum, NEW d \in Data,
             DispatchCheck(s, q, d)
      PROVE  SessionInv'
  BY <1>1, <1>3, DispatchCheckKeeps
<1>4. CASE DispatchStore
  BY <1>1, <1>4, DispatchStoreKeeps
<1>5. ASSUME NEW s \in Session, WaiterStep(s) \/ SpuriousWake(s) \/ Stop(s)
      PROVE  SessionInv'
  BY <1>1, <1>5, MoveKeeps, TryKeeps, WaitRepliedKeeps, WaitExpiredKeeps,
     ClearFreeKeeps, CallKeeps, StopKeeps DEF WaiterStep
<1>6. CASE UNCHANGED SessionVars
  BY <1>6 DEF SessionInv, SessionTypeOK, Control, Callbacks, Ownership,
              OneCallback, NoRequestLost, Replies, InTime, Accounting, Owes,
              Waiting, SessionVars, fields, locals, history
<1> QED
  BY <1>2, <1>3, <1>4, <1>5, <1>6 DEF SessionNext

\* The invariant holds in every reachable state of every instance.
THEOREM InvariantHolds == SessionSpec => []SessionInv
BY InitInv, NextInv, PTL DEF SessionSpec

\* No step of any thread stores a value of another kind in a session.
THEOREM TypeCorrect == SessionSpec => []SessionTypeOK
<1>1. SessionInv => SessionTypeOK
  BY DEF SessionInv
<1> QED
  BY <1>1, InvariantHolds, PTL

\* A request gets at most one callback, whatever the order of replies,
\* timeouts, registrations and the end of its session.
THEOREM OneCallbackHolds == SessionSpec => []OneCallback
<1>1. SessionInv => OneCallback
  BY DEF SessionInv
<1> QED
  BY <1>1, InvariantHolds, PTL

\* An accepted request with both callbacks is answered or still owed.
THEOREM NoRequestLostHolds == SessionSpec => []NoRequestLost
<1>1. SessionInv => NoRequestLost
  BY DEF SessionInv
<1> QED
  BY <1>1, InvariantHolds, PTL

\* Only a reply stored after its own request stopped waiting can reach
\* another request.
THEOREM AckMatchedUnlessLateHolds == SessionSpec => []AckMatchedUnlessLate
<1>1. SessionInv => AckMatchedUnlessLate
  BY DEF SessionInv, Replies, AckMatchedUnlessLate
<1> QED
  BY <1>1, InvariantHolds, PTL

\* The FailCallback follows exactly the granted number of expired waits.
THEOREM FailAfterAllTriesHolds == SessionSpec => []FailAfterAllTries
<1>1. SessionInv => FailAfterAllTries
  BY DEF SessionInv, Accounting, FailAfterAllTries
<1> QED
  BY <1>1, InvariantHolds, PTL

\* A request whose reply was stored while it waited never fails.
THEOREM NoAnsweredRequestFailsHolds == SessionSpec => []NoAnsweredRequestFails
<1>1. SessionInv => NoAnsweredRequestFails
  BY DEF SessionInv, InTime, NoAnsweredRequestFails
<1> QED
  BY <1>1, InvariantHolds, PTL

-----------------------------------------------------------------------------
(***************************************************************************)
(* The session implements the service.  The mapping needs one invariant    *)
(* more: which session a request, and a callback, came to.                 *)
(***************************************************************************)
Callback(s, r) == r \in {successCallback[s], failCallback[s]}

Belongs ==
    \A s \in Session : current[s] # None =>
        /\ current[s] \in registered
        /\ \A t \in Session \ {s} : current[t] # current[s] /\ ~Callback(t, current[s])

\* A session that works for a request is the only one to hold its callbacks,
\* and the request is not answered.
Unanswered ==
    \A s \in Session :
        /\ ~m_available[s] => acks[current[s]] = 0 /\ fails[current[s]] = 0
        /\ waiter[s] \in {"clear", "free"} =>
             /\ successCallback[s] \in {None, current[s]}
             /\ failCallback[s] \in {None, current[s]}

Wanted ==
    \A s \in Session :
        /\ successCallback[s] \in WantsAck \cup {None}
        /\ failCallback[s] \in WantsFail \cup {None}

ServiceInv == SessionInv /\ Belongs /\ Unanswered /\ Wanted

LEMMA InitService == SessionInit => ServiceInv
<1> SUFFICES ASSUME SessionInit PROVE ServiceInv
  OBVIOUS
<1>1. SessionInv
  BY InitInv
<1>2. Belongs /\ Unanswered /\ Wanted
  BY DEF SessionInit, Belongs, Unanswered, Wanted
<1> QED
  BY <1>1, <1>2 DEF ServiceInv

LEMMA NextService == ServiceInv /\ [SessionNext]_SessionVars => ServiceInv'
<1> SUFFICES ASSUME ServiceInv, [SessionNext]_SessionVars
             PROVE  ServiceInv'
  OBVIOUS
<1>0. SessionInv /\ SessionTypeOK /\ SessionTypeOK' /\ SessionInv'
  BY NextInv DEF ServiceInv, SessionInv
<1> DEFINE P == Belongs' /\ Unanswered' /\ Wanted'
<1> SUFFICES P
  BY <1>0 DEF ServiceInv
<1>1. ASSUME NEW s \in Session, NEW r \in Req, NEW q \in SeqNum, NEW n \in Tries,
             Register(s, r, q, n)
      PROVE  P
  <2>1. \A t \in Session : ~Callback(t, r) /\ current[t] # r
    BY <1>0, <1>1 DEF Register, SessionInv, Ownership, Owes, Callback, ServiceInv, Belongs
  <2>2. Belongs'
    BY <1>0, <1>1, <2>1 DEF Register, SessionTypeOK, ServiceInv, Belongs, Callback
  <2>3. acks[r] = 0 /\ fails[r] = 0
    BY <1>0, <1>1 DEF Register, SessionInv, Ownership
  <2>4. waiter[s] \notin {"clear", "free"} /\ waiter'[s] \notin {"clear", "free"}
    BY <1>0, <1>1 DEF Register, Notify, SessionInv, Control, SessionTypeOK
  <2>5. Unanswered'
    BY <1>0, <1>1, <2>3, <2>4 DEF Register, Notify, SessionTypeOK, ServiceInv, Unanswered
  <2>6. Wanted'
    BY <1>1 DEF Register, ServiceInv, Wanted
  <2> QED
    BY <2>2, <2>5, <2>6
<1>2. ASSUME UNCHANGED <<m_available, current, registered, acks, fails, successCallback, failCallback>>,
             \A s \in Session : waiter'[s] \in {"clear", "free"} =>
                 waiter[s] \in {"wait", "clear", "free"}
      PROVE  P
  <2>1. \A s \in Session : waiter[s] = "wait" => successCallback[s] = None /\ failCallback[s] = None
    BY <1>0 DEF SessionInv, Control
  <2> QED
    BY <1>2, <2>1 DEF ServiceInv, Belongs, Unanswered, Wanted, Callback
<1>3. ASSUME NEW s \in Session, NEW q \in SeqNum, NEW d \in Data, DispatchCheck(s, q, d)
      PROVE  P
  BY <1>2, <1>3 DEF DispatchCheck, fields, history
<1>4. CASE DispatchStore
  BY <1>2, <1>4 DEF DispatchStore
<1>5. ASSUME NEW s \in Session,
             \/ Park(s) \/ SpuriousWake(s) \/ Exit(s) \/ Start(s) \/ Try(s)
             \/ WaitStopped(s) \/ Clear(s)
      PROVE  P
  <2>1. UNCHANGED <<m_available, current, registered, acks, fails, successCallback, failCallback>>
    BY <1>5 DEF Park, SpuriousWake, Exit, Start, Try, WaitStopped, Clear, fields, history
  <2>2. \A t \in Session : waiter'[t] \in {"clear", "free"} => waiter[t] \in {"wait", "clear", "free"}
    BY <1>0, <1>5 DEF Park, SpuriousWake, Exit, Start, Try, WaitStopped, Clear, Goto, SessionTypeOK
  <2> QED
    BY <1>2, <2>1, <2>2
<1>6. ASSUME NEW s \in Session, WaitReplied(s) \/ WaitExpired(s)
      PROVE  P
  <2>1. /\ waiter[s] = "wait" /\ Waiting(s) /\ successCallback[s] = None /\ failCallback[s] = None
    BY <1>0, <1>6 DEF WaitReplied, WaitExpired, NextTry, Goto, SessionInv, Control, Waiting
  <2>2. /\ m_replyFunc[s] = (IF current[s] \in WantsAck THEN current[s] ELSE None)
        /\ m_timeoutCallback[s] = (IF current[s] \in WantsFail THEN current[s] ELSE None)
    BY <1>0, <2>1 DEF SessionInv, Callbacks
  <2>3. /\ UNCHANGED <<m_available, current, registered, acks, fails>>
        /\ \A t \in Session \ {s} : /\ waiter'[t] = waiter[t]
                                   /\ successCallback'[t] = successCallback[t]
                                   /\ failCallback'[t] = failCallback[t]
        /\ successCallback'[s] \in {None, m_replyFunc[s]}
        /\ failCallback'[s] \in {None, m_timeoutCallback[s]}
    <3>1. CASE WaitReplied(s)
      BY <1>0, <2>1, <3>1 DEF WaitReplied, NextTry, Goto, history, SessionTypeOK
    <3>2. CASE WaitExpired(s)
      BY <1>0, <2>1, <3>2 DEF WaitExpired, NextTry, Goto, SessionTypeOK
    <3> QED
      BY <1>6, <3>1, <3>2
  <2>4. Belongs'
    <3>1. \A t \in Session : \A c \in Req : ((t = s /\ c = current[s]) \/ Callback(t, c)) \/ ~Callback(t, c)'
      BY <2>2, <2>3 DEF Callback
    <3> QED
      BY <1>0, <2>3, <3>1 DEF ServiceInv, Belongs, SessionTypeOK
  <2>5. Unanswered'
    BY <2>2, <2>3 DEF ServiceInv, Unanswered
  <2>6. Wanted'
    BY <2>2, <2>3 DEF ServiceInv, Wanted
  <2> QED
    BY <2>4, <2>5, <2>6
<1>7. ASSUME NEW s \in Session, Free(s)
      PROVE  P
  BY <1>0, <1>7 DEF Free, Goto, history, SessionTypeOK, ServiceInv, Belongs, Unanswered, Wanted,
                    Callback
<1>8. ASSUME NEW s \in Session, Call(s)
      PROVE  P
  <2>1. /\ UNCHANGED <<m_available, current, registered>>
        /\ \A t \in Session \ {s} : /\ waiter'[t] = waiter[t]
                                   /\ successCallback'[t] = successCallback[t]
                                   /\ failCallback'[t] = failCallback[t]
        /\ waiter'[s] = "test" /\ successCallback'[s] = None /\ failCallback'[s] = None
    BY <1>0, <1>8 DEF Call, EndScope, Goto, fields, SessionTypeOK
  <2>2. \A c \in Req : ~Callback(s, c) => acks'[c] = acks[c] /\ fails'[c] = fails[c]
    BY <1>0, <1>8 DEF Call, Callback, SessionTypeOK
  <2>3. \A t \in Session : ~m_available[t] => current[t] \in Req /\ ~Callback(s, current[t])
    <3>1. ASSUME NEW t \in Session, ~m_available[t]
          PROVE  current[t] \in registered /\ registered \subseteq Req
      BY <1>0, <3>1 DEF SessionInv, Control, SessionTypeOK
    <3>2. ~m_available[s] => ~Callback(s, current[s])
      <4>1. ~m_available[s] => Waiting(s)
        BY <1>8 DEF Call, Goto, Waiting
      <4> QED
        BY <1>0, <4>1 DEF SessionInv, Ownership, Callback
    <3> QED
      BY <3>1, <3>2 DEF ServiceInv, Belongs
  <2>4. Belongs'
    BY <2>1 DEF ServiceInv, Belongs, Callback
  <2>5. Unanswered'
    BY <2>1, <2>2, <2>3 DEF ServiceInv, Unanswered
  <2>6. Wanted'
    BY <2>1 DEF ServiceInv, Wanted
  <2> QED
    BY <2>4, <2>5, <2>6
<1>9. ASSUME NEW s \in Session, Stop(s)
      PROVE  P
  BY <1>2, <1>9 DEF Stop, locals, history
<1>10. CASE UNCHANGED SessionVars
  BY <1>2, <1>10 DEF SessionVars, fields, locals, history
<1> QED
  BY <1>1, <1>3, <1>4, <1>5, <1>6, <1>7, <1>8, <1>9, <1>10 DEF SessionNext, WaiterStep

\* What decides the status of a request.
Carried(r) == \E s \in Session : ~m_available[s] /\ current[s] = r
Promised(r) == \E s \in Session : Callback(s, r)

StatusIs(r, x) ==
    \/ acks[r] > 0 /\ x = "acked"
    \/ acks[r] = 0 /\ fails[r] > 0 /\ x = "failed"
    \/ /\ acks[r] = 0 /\ fails[r] = 0
       /\ \/ r \notin registered /\ x = "new"
          \/ r \in registered /\ Carried(r) /\ x = "held"
          \/ r \in registered /\ ~Carried(r) /\ Promised(r) /\ x = "owed"
          \/ r \in registered /\ ~Carried(r) /\ ~Promised(r) /\ x = "closed"

LEMMA StatusNow ==
    ASSUME SessionTypeOK, NEW r \in Req
    PROVE  StatusIs(r, statusBar[r])
<1>1. acks[r] \in Nat /\ fails[r] \in Nat
  BY DEF SessionTypeOK
<1>2. CASE acks[r] > 0
  <2>1. acks[r] # 0 /\ acks[r] + fails[r] # 0
    BY <1>1, <1>2
  <2>2. statusBar[r] = "acked"
    BY <1>2, <2>1, Zenon DEF statusBar
  <2> QED
    BY <1>2, <2>2 DEF StatusIs
<1>3. CASE acks[r] = 0 /\ fails[r] > 0
  <2>1. ~(acks[r] > 0) /\ acks[r] + fails[r] # 0
    BY <1>1, <1>3
  <2>2. statusBar[r] = "failed"
    BY <1>3, <2>1, Zenon DEF statusBar
  <2> QED
    BY <1>3, <2>2 DEF StatusIs
<1>4. CASE acks[r] = 0 /\ fails[r] = 0
  <2>1. ~(acks[r] > 0) /\ ~(fails[r] > 0) /\ acks[r] + fails[r] = 0
    BY <1>4
  <2>2. CASE r \notin registered
    <3>1. statusBar[r] = "new"
      BY <2>1, <2>2, Zenon DEF statusBar
    <3> QED
      BY <1>4, <2>2, <3>1 DEF StatusIs
  <2>3. CASE r \in registered
    <3>1. statusBar[r] = IF Carried(r) THEN "held" ELSE IF Promised(r) THEN "owed" ELSE "closed"
      BY <2>1, <2>3, Zenon DEF statusBar, Carried, Promised, Callback
    <3> QED
      BY <1>4, <2>3, <3>1 DEF StatusIs
  <2> QED
    BY <2>2, <2>3
<1> QED
  BY <1>1, <1>2, <1>3, <1>4

LEMMA StatusNext ==
    ASSUME SessionTypeOK', NEW r \in Req
    PROVE  StatusIs(r, statusBar[r])'
<1>1. acks'[r] \in Nat /\ fails'[r] \in Nat
  BY DEF SessionTypeOK
<1>2. CASE acks'[r] > 0
  <2>1. acks'[r] # 0 /\ acks'[r] + fails'[r] # 0
    BY <1>1, <1>2
  <2>2. statusBar'[r] = "acked"
    BY <1>2, <2>1, Zenon DEF statusBar
  <2> QED
    BY <1>2, <2>2 DEF StatusIs
<1>3. CASE acks'[r] = 0 /\ fails'[r] > 0
  <2>1. ~(acks'[r] > 0) /\ acks'[r] + fails'[r] # 0
    BY <1>1, <1>3
  <2>2. statusBar'[r] = "failed"
    BY <1>3, <2>1, Zenon DEF statusBar
  <2> QED
    BY <1>3, <2>2 DEF StatusIs
<1>4. CASE acks'[r] = 0 /\ fails'[r] = 0
  <2>1. ~(acks'[r] > 0) /\ ~(fails'[r] > 0) /\ acks'[r] + fails'[r] = 0
    BY <1>4
  <2>2. CASE r \notin registered'
    <3>1. statusBar'[r] = "new"
      BY <2>1, <2>2, Zenon DEF statusBar
    <3> QED
      BY <1>4, <2>2, <3>1 DEF StatusIs
  <2>3. CASE r \in registered'
    <3>1. statusBar'[r] = IF Carried(r)' THEN "held" ELSE IF Promised(r)' THEN "owed" ELSE "closed"
      BY <2>1, <2>3, Zenon DEF statusBar, Carried, Promised, Callback
    <3> QED
      BY <1>4, <2>3, <3>1 DEF StatusIs
  <2> QED
    BY <2>2, <2>3
<1> QED
  BY <1>1, <1>2, <1>3, <1>4

\* A request whose callbacks, registration and session stay keeps its status.
LEMMA StatusStays ==
    ASSUME SessionTypeOK, SessionTypeOK', NEW r \in Req,
           acks'[r] = acks[r], fails'[r] = fails[r],
           r \in registered' <=> r \in registered,
           Carried(r)' <=> Carried(r),
           Carried(r) \/ (Promised(r)' <=> Promised(r))
    PROVE  statusBar'[r] = statusBar[r]
  BY StatusNow, StatusNext DEF StatusIs

LEMMA BarsAreFunctions ==
    /\ statusBar = [r \in Req |-> statusBar[r]] /\ ownerBar = [s \in Session |-> ownerBar[s]]
    /\ statusBar' = [r \in Req |-> statusBar'[r]] /\ ownerBar' = [s \in Session |-> ownerBar'[s]]
<1>1. statusBar = [r \in Req |-> statusBar[r]]
  <2> DEFINE F(r) == CASE acks[r] > 0 -> "acked"
                       [] acks[r] = 0 /\ fails[r] > 0 -> "failed"
                       [] acks[r] + fails[r] = 0 /\ r \notin registered -> "new"
                       [] acks[r] + fails[r] = 0 /\ r \in registered ->
                            IF \E s \in Session : ~m_available[s] /\ current[s] = r
                            THEN "held"
                            ELSE IF \E s \in Session : r \in {successCallback[s], failCallback[s]}
                                 THEN "owed" ELSE "closed"
  <2>1. statusBar = [r \in Req |-> F(r)]
    BY Zenon DEF statusBar
  <2> HIDE DEF F
  <2> QED
    BY <2>1
<1>2. ownerBar = [s \in Session |-> ownerBar[s]]
  BY DEF ownerBar
<1> DEFINE A == statusBar = [r \in Req |-> statusBar[r]]
           B == ownerBar = [s \in Session |-> ownerBar[s]]
<1>3. A /\ B
  BY <1>1, <1>2
<1> HIDE DEF A, B
<1>4. A' /\ B'
  BY <1>3, PTL
<1> USE DEF A, B
<1> QED
  BY <1>3, <1>4

\* A step that changes neither the sessions' requests nor the answers.
LEMMA ServiceStutters ==
    ASSUME SessionTypeOK, SessionTypeOK',
           UNCHANGED <<m_available, current, registered, acks, fails>>,
           \A r \in Req : Carried(r) \/ (Promised(r)' <=> Promised(r))
    PROVE  UNCHANGED <<statusBar, ownerBar>>
<1>1. \A r \in Req : statusBar'[r] = statusBar[r]
  BY StatusStays DEF Carried
<1>2. statusBar' = statusBar
  BY <1>1, BarsAreFunctions, Zenon
<1> QED
  BY <1>2 DEF ownerBar

LEMMA RegisterSubmits ==
    ASSUME ServiceInv, ServiceInv', NEW s \in Session, NEW r \in Req, NEW q \in SeqNum,
           NEW n \in Tries, Register(s, r, q, n)
    PROVE  Service!Submit(s, r)
<1>0. SessionTypeOK /\ SessionTypeOK' /\ SessionInv
  BY DEF ServiceInv, SessionInv
<1>1. /\ m_available[s] /\ ~m_stopped[s] /\ r \notin registered
      /\ registered' = registered \cup {r} /\ current' = [current EXCEPT ![s] = r]
      /\ m_available' = [m_available EXCEPT ![s] = FALSE]
      /\ UNCHANGED <<acks, fails, successCallback, failCallback, m_stopped>>
  BY DEF Register
<1>2. ~m_available'[s] /\ \A t \in Session \ {s} : m_available'[t] <=> m_available[t]
  BY <1>0, <1>1 DEF SessionTypeOK
<1>3. acks[r] = 0 /\ fails[r] = 0
  BY <1>0, <1>1 DEF SessionInv, Ownership
<1>4. statusBar[r] = "new" /\ statusBar'[r] = "held"
  <2>1. Carried(r)'
    BY <1>0, <1>1, <1>2 DEF Carried, SessionTypeOK
  <2> QED
    BY <1>0, <1>1, <1>3, <2>1, StatusNow, StatusNext DEF StatusIs
<1>5. \A x \in Req \ {r} : statusBar'[x] = statusBar[x]
  <2>1. ASSUME NEW x \in Req \ {r}
        PROVE  statusBar'[x] = statusBar[x]
    <3>1. Carried(x)' <=> Carried(x)
      BY <1>0, <1>1, <1>2 DEF Carried, SessionTypeOK
    <3>2. Promised(x)' <=> Promised(x)
      BY <1>1 DEF Promised, Callback
    <3> QED
      BY <1>0, <1>1, <3>1, <3>2, StatusStays
  <2> QED
    BY <2>1
<1>6. statusBar' = [statusBar EXCEPT ![r] = "held"]
  BY <1>4, <1>5, BarsAreFunctions
<1>7. ownerBar[s] = None /\ ownerBar' = [ownerBar EXCEPT ![s] = r]
  BY <1>0, <1>1, <1>2 DEF ownerBar, SessionTypeOK
<1> QED
  BY <1>1, <1>4, <1>6, <1>7 DEF Service!Submit

LEMMA FreeReleases ==
    ASSUME ServiceInv, ServiceInv', NEW s \in Session, NEW r \in Req, r = current[s], Free(s)
    PROVE  Service!Release(s)
<1>0. SessionTypeOK /\ SessionTypeOK' /\ SessionInv /\ SessionInv'
  BY DEF ServiceInv, SessionInv
<1>1. /\ waiter[s] = "free" /\ ~m_available[s]
      /\ m_available' = [m_available EXCEPT ![s] = TRUE]
      /\ UNCHANGED <<current, registered, acks, fails, successCallback, failCallback, m_stopped>>
  BY <1>0 DEF Free, Goto, SessionInv, Control, history
<1>2. m_available'[s] /\ \A t \in Session \ {s} : m_available'[t] <=> m_available[t]
  BY <1>0, <1>1 DEF SessionTypeOK
<1>3. r \in registered /\ r \in Req /\ acks[r] = 0 /\ fails[r] = 0 /\ r # None
  BY <1>0, <1>1 DEF SessionInv, Control, SessionTypeOK, ServiceInv, Unanswered
<1>4. ~Carried(r)'
  <2>1. \A t \in Session \ {s} : current[t] # r
    BY <1>3 DEF ServiceInv, Belongs
  <2> QED
    BY <1>1, <1>2, <2>1 DEF Carried
<1>5. \/ statusBar'[r] = "owed"
      \/ statusBar'[r] = "closed" /\ ~Promised(r)'
  BY <1>0, <1>1, <1>3, <1>4, StatusNext DEF StatusIs
<1>6. ~Promised(r)' => r \notin WantsAck \cap WantsFail
  <2> SUFFICES ASSUME ~Promised(r)', r \in WantsAck \cap WantsFail
               PROVE  FALSE
    OBVIOUS
  <2>1. PICK t \in Session : Owes(t, r)'
    BY <1>0, <1>1, <1>3 DEF SessionInv, NoRequestLost
  <2>2. ~Callback(t, r)'
    BY DEF Promised
  <2>3. ~m_available'[t] /\ current'[t] = r
    BY <2>1, <2>2 DEF Owes, Waiting, Callback
  <2> QED
    BY <1>4, <2>3 DEF Carried
<1>7. \A x \in Req \ {r} : statusBar'[x] = statusBar[x]
  <2>1. ASSUME NEW x \in Req \ {r}
        PROVE  statusBar'[x] = statusBar[x]
    <3>1. Carried(x)' <=> Carried(x)
      BY <1>0, <1>1, <1>2 DEF Carried
    <3>2. Promised(x)' <=> Promised(x)
      BY <1>1 DEF Promised, Callback
    <3> QED
      BY <1>0, <1>1, <3>1, <3>2, StatusStays
  <2> QED
    BY <2>1
<1>8. ownerBar[s] = r /\ ownerBar' = [ownerBar EXCEPT ![s] = None]
  BY <1>0, <1>1, <1>2 DEF ownerBar, SessionTypeOK
<1>9. \A x : statusBar'[r] = x => statusBar' = [statusBar EXCEPT ![r] = x]
  BY <1>3, <1>7, BarsAreFunctions
<1> QED
  BY <1>1, <1>3, <1>5, <1>6, <1>8, <1>9 DEF Service!Release

LEMMA CallAnswersRequest ==
    ASSUME ServiceInv, ServiceInv', NEW s \in Session, Call(s)
    PROVE  (\E c \in Req : Service!Answer(c)) \/ UNCHANGED <<statusBar, ownerBar, m_stopped>>
<1>0. SessionTypeOK /\ SessionTypeOK' /\ SessionInv
  BY DEF ServiceInv, SessionInv
<1>1. /\ waiter[s] = "call" /\ UNCHANGED <<m_available, current, registered, m_stopped>>
      /\ \A t \in Session \ {s} : /\ successCallback'[t] = successCallback[t]
                                 /\ failCallback'[t] = failCallback[t]
      /\ successCallback'[s] = None /\ failCallback'[s] = None
  BY <1>0 DEF Call, EndScope, Goto, fields, SessionTypeOK
<1>2. ownerBar' = ownerBar /\ \A x \in Req : Carried(x)' <=> Carried(x)
  BY <1>1 DEF ownerBar, Carried
<1>3. ASSUME NEW x \in Req, ~Callback(s, x)
      PROVE  statusBar'[x] = statusBar[x]
  <2>1. acks'[x] = acks[x] /\ fails'[x] = fails[x]
    BY <1>0, <1>3 DEF Call, Callback, SessionTypeOK
  <2>2. Promised(x)' <=> Promised(x)
    BY <1>1, <1>3 DEF Promised, Callback
  <2> QED
    BY <1>0, <1>1, <1>2, <2>1, <2>2, StatusStays
<1>4. ASSUME NEW c \in Req, Callback(s, c)
      PROVE  /\ statusBar[c] = "owed"
             /\ \A x \in Req \ {c} : ~Callback(s, x)
  <2>1. c \in registered /\ acks[c] = 0 /\ fails[c] = 0
    BY <1>0, <1>4 DEF SessionInv, Ownership, Owes, Callback
  <2>2. ~Carried(c)
    <3> SUFFICES ASSUME NEW t \in Session, ~m_available[t], current[t] = c
                 PROVE  FALSE
      BY DEF Carried
    <3>1. CASE t = s
      BY <1>0, <1>1, <1>4, <3>1 DEF SessionInv, Ownership, Waiting, Callback
    <3>2. CASE t # s
      BY <1>4, <3>2 DEF ServiceInv, Belongs
    <3> QED
      BY <3>1, <3>2
  <2>3. Promised(c)
    BY <1>4 DEF Promised
  <2>4. statusBar[c] = "owed"
    BY <1>0, <2>1, <2>2, <2>3, StatusNow DEF StatusIs
  <2> QED
    BY <1>0, <1>4, <2>4 DEF Callback, SessionInv, Control
<1>5. ASSUME NEW c \in Req, Callback(s, c)
      PROVE  \/ c \in WantsAck /\ statusBar'[c] = "acked"
             \/ c \in WantsFail /\ statusBar'[c] = "failed"
  <2>1. acks[c] = 0 /\ fails[c] = 0
    BY <1>0, <1>5 DEF SessionInv, Ownership, Owes, Callback
  <2>2. \/ c \in WantsAck /\ acks'[c] = 1
        \/ c \in WantsFail /\ acks'[c] = 0 /\ fails'[c] = 1
    <3>1. CASE successCallback[s] = c
      BY <1>0, <2>1, <3>1 DEF Call, ServiceInv, Wanted, SessionTypeOK
    <3>2. CASE successCallback[s] # c
      <4>1. failCallback[s] = c /\ successCallback[s] = None
        BY <1>0, <1>5, <3>2 DEF Callback, SessionInv, Control
      <4> QED
        BY <1>0, <2>1, <4>1 DEF Call, ServiceInv, Wanted, SessionTypeOK
    <3> QED
      BY <3>1, <3>2
  <2> QED
    BY <1>0, <2>2, StatusNext DEF StatusIs
<1>6. CASE \E c \in Req : Callback(s, c)
  <2>1. PICK c \in Req : Callback(s, c)
    BY <1>6
  <2>2. \A x \in Req \ {c} : statusBar'[x] = statusBar[x]
    BY <1>3, <1>4, <2>1
  <2>3. \A y : statusBar'[c] = y => statusBar' = [statusBar EXCEPT ![c] = y]
    BY <2>2, BarsAreFunctions
  <2>4. Service!Answer(c)
    BY <1>1, <1>2, <1>4, <1>5, <2>1, <2>3 DEF Service!Answer
  <2> QED
    BY <2>4
<1>7. CASE ~\E c \in Req : Callback(s, c)
  <2>1. statusBar' = statusBar
    BY <1>3, <1>7, BarsAreFunctions, Zenon
  <2> QED
    BY <1>1, <1>2, <2>1
<1> QED
  BY <1>6, <1>7

LEMMA ServiceStep ==
    ServiceInv /\ ServiceInv' /\ [SessionNext]_SessionVars => [Service!Next]_(Service!vars)
<1> SUFFICES ASSUME ServiceInv, ServiceInv', [SessionNext]_SessionVars
             PROVE  Service!Next \/ UNCHANGED <<statusBar, ownerBar, m_stopped>>
  BY DEF Service!vars
<1> DEFINE G == Service!Next \/ UNCHANGED <<statusBar, ownerBar, m_stopped>>
<1>0. SessionTypeOK /\ SessionTypeOK' /\ SessionInv
  BY DEF ServiceInv, SessionInv
<1>1. ASSUME NEW s \in Session, NEW r \in Req, NEW q \in SeqNum, NEW n \in Tries,
             Register(s, r, q, n)
      PROVE  G
  BY <1>1, RegisterSubmits DEF Service!Next
<1>2. ASSUME UNCHANGED <<m_available, current, registered, acks, fails, successCallback, failCallback>>
      PROVE  UNCHANGED <<statusBar, ownerBar>>
  BY <1>0, <1>2, ServiceStutters DEF Promised, Callback
<1>3. ASSUME NEW s \in Session, NEW q \in SeqNum, NEW d \in Data, DispatchCheck(s, q, d)
      PROVE  G
  BY <1>2, <1>3 DEF DispatchCheck, fields, history
<1>4. CASE DispatchStore
  BY <1>2, <1>4 DEF DispatchStore
<1>5. ASSUME NEW s \in Session,
             \/ Park(s) \/ SpuriousWake(s) \/ Exit(s) \/ Start(s) \/ Try(s)
             \/ WaitStopped(s) \/ Clear(s)
      PROVE  G
  BY <1>2, <1>5 DEF Park, SpuriousWake, Exit, Start, Try, WaitStopped, Clear, fields, history
<1>6. ASSUME NEW s \in Session, WaitReplied(s) \/ WaitExpired(s)
      PROVE  G
  <2>1. /\ waiter[s] = "wait" /\ Waiting(s) /\ successCallback[s] = None /\ failCallback[s] = None
    BY <1>0, <1>6 DEF WaitReplied, WaitExpired, NextTry, Goto, SessionInv, Control, Waiting
  <2>2. /\ m_replyFunc[s] \in {current[s], None} /\ m_timeoutCallback[s] \in {current[s], None}
    BY <1>0, <2>1 DEF SessionInv, Callbacks
  <2>3. /\ UNCHANGED <<m_available, current, registered, acks, fails, m_stopped>>
        /\ \A t \in Session \ {s} : /\ successCallback'[t] = successCallback[t]
                                   /\ failCallback'[t] = failCallback[t]
        /\ successCallback'[s] \in {None, m_replyFunc[s]}
        /\ failCallback'[s] \in {None, m_timeoutCallback[s]}
    <3>1. CASE WaitReplied(s)
      BY <1>0, <2>1, <3>1 DEF WaitReplied, history, SessionTypeOK
    <3>2. CASE WaitExpired(s)
      BY <1>0, <2>1, <3>2 DEF WaitExpired, SessionTypeOK
    <3> QED
      BY <1>6, <3>1, <3>2
  <2>4. ASSUME NEW r \in Req
        PROVE  Carried(r) \/ (Promised(r)' <=> Promised(r))
    <3>1. CASE r = current[s]
      BY <2>1, <3>1 DEF Carried, Waiting
    <3>2. CASE r # current[s]
      BY <2>1, <2>2, <2>3, <3>2 DEF Promised, Callback
    <3> QED
      BY <3>1, <3>2
  <2> QED
    BY <1>0, <2>3, <2>4, ServiceStutters
<1>7. ASSUME NEW s \in Session, Free(s)
      PROVE  G
  <2>1. current[s] \in Req
    BY <1>0, <1>7 DEF Free, Goto, SessionInv, Control, SessionTypeOK
  <2> QED
    BY <1>7, <2>1, FreeReleases DEF Service!Next
<1>8. ASSUME NEW s \in Session, Call(s)
      PROVE  G
  BY <1>8, CallAnswersRequest DEF Service!Next
<1>9. ASSUME NEW s \in Session, Stop(s)
      PROVE  G
  <2>1. UNCHANGED <<statusBar, ownerBar>>
    BY <1>2, <1>9 DEF Stop, locals, history
  <2>2. ~m_stopped[s] /\ m_stopped' = [m_stopped EXCEPT ![s] = TRUE]
    BY <1>9 DEF Stop
  <2>3. Service!Stop(s)
    BY <2>1, <2>2, Zenon DEF Service!Stop
  <2> QED
    BY <2>3 DEF Service!Next
<1>10. CASE UNCHANGED SessionVars
  BY <1>2, <1>10 DEF SessionVars, fields, locals, history
<1> QED
  BY <1>1, <1>3, <1>4, <1>5, <1>6, <1>7, <1>8, <1>9, <1>10 DEF SessionNext, WaiterStep

\* Every step of any number of sessions is a step of the service, or changes
\* nothing that it shows.
THEOREM SessionImplementsService == SessionSpec => Service!Spec
<1>1. SessionInit => Service!Init
  <2> SUFFICES ASSUME SessionInit PROVE Service!Init
    OBVIOUS
  <2>1. SessionTypeOK /\ \A r \in Req : acks[r] = 0 /\ fails[r] = 0 /\ r \notin registered
    BY InitType DEF SessionInit
  <2>2. \A r \in Req : statusBar[r] = "new"
    BY <2>1, StatusNow DEF StatusIs
  <2>3. statusBar = [r \in Req |-> "new"]
    BY <2>2, BarsAreFunctions
  <2>4. ownerBar = [s \in Session |-> None] /\ m_stopped = [s \in Session |-> FALSE]
    BY DEF SessionInit, ownerBar
  <2> QED
    BY <2>3, <2>4, Zenon DEF Service!Init
<1> QED
  BY <1>1, InitService, NextService, ServiceStep, PTL DEF SessionSpec, Service!Spec

=============================================================================
