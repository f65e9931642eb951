----------------------------- MODULE SendProofs -----------------------------
(***************************************************************************)
(* What becomes of a call of send, for any number of callers, sessions,    *)
(* requests and sequence numbers: a request refused a session is not sent, *)
(* an accepted one is transmitted once, and with retries the frame leaves  *)
(* only after its session was prepared for the acknowledgement.  For one   *)
(* caller that does not wrap the sequence numbers: they differ, and        *)
(* acknowledgements reach their own requests.                              *)
(***************************************************************************)
EXTENDS LinkLayerProofs, FiniteSetTheorems

Pending(c) == pc[c] # "idle"

\* A request belongs to one call of send, and the call is still to return.
OneCall ==
    /\ \A c \in Caller : Pending(c) => req[c] \in Req /\ result[req[c]] = "called"
    /\ \A c, d \in Caller : Pending(c) /\ Pending(d) /\ req[c] = req[d] => c = d

\* Session 1 is for one try, the others for retries.
Overload ==
    \A c \in Caller : Pending(c) =>
        IF kind[c] = "once" THEN i[c] = 1 ELSE kind[c] = "retry" /\ i[c] >= 2

\* A frame is that of a call that returned, or of one with a single try that
\* is about to register.
Fresh ==
    \A f \in Sent :
        /\ result[f.origin] # "none"
        /\ \A c \in Caller : Pending(c) /\ req[c] = f.origin =>
             pc[c] = "register" /\ kind[c] = "once" /\ f.session = 1

SendInv == OneCall /\ Overload /\ Fresh /\ RefusedNeverSent

-----------------------------------------------------------------------------
(***************************************************************************)
(* The frames on their way.                                                *)
(***************************************************************************)
LEMMA QueueElement ==
    ASSUME NEW S, NEW q \in Seq(S), NEW n \in 1..Len(q)
    PROVE  q[n] \in S
OBVIOUS

LEMMA SentTyped == CallerInv => Sent \subseteq Frame /\ NoFrame \notin Frame
<1> SUFFICES ASSUME CallerInv
             PROVE  Sent \subseteq Frame /\ NoFrame \notin Frame
  OBVIOUS
<1>1. m_sendQueue \in Seq(Frame) /\ rawData \in Frame \cup {NoFrame} /\ wire \subseteq Frame
  BY DEF CallerInv, LinkLayerTypeOK
<1>2. InQueue \subseteq Frame
  BY <1>1, QueueElement DEF InQueue
<1>3. NoFrame \notin Frame
  BY SessionAssumption DEF Frame, NoFrame
<1> QED
  BY <1>1, <1>2, <1>3 DEF Sent

\* Only a push adds a frame.
LEMMA SentPush ==
    ASSUME CallerInv, NEW f \in Frame, m_sendQueue' = Append(m_sendQueue, f),
           UNCHANGED <<rawData, wire>>
    PROVE  Sent' = Sent \cup {f}
<1>1. m_sendQueue \in Seq(Frame)
  BY DEF CallerInv, LinkLayerTypeOK
<1>2. /\ Len(m_sendQueue') = Len(m_sendQueue) + 1 /\ Len(m_sendQueue) \in Nat
      /\ \A n \in 1..Len(m_sendQueue) : m_sendQueue'[n] = m_sendQueue[n]
      /\ m_sendQueue'[Len(m_sendQueue) + 1] = f
  BY <1>1
<1>3. 1..Len(m_sendQueue') = 1..Len(m_sendQueue) \cup {Len(m_sendQueue) + 1}
  BY <1>2
<1>4. InQueue' = InQueue \cup {f}
  BY <1>2, <1>3 DEF InQueue
<1> QED
  BY <1>4 DEF Sent

\* The send thread moves a frame from the queue to its hand and to the wire.
LEMMA QueuePop ==
    ASSUME CallerInv, SendPop
    PROVE  /\ Len(m_sendQueue) \in Nat \ {0} /\ Len(m_sendQueue') = Len(m_sendQueue) - 1
           /\ \A n \in 1..Len(m_sendQueue') : m_sendQueue'[n] = m_sendQueue[n + 1]
           /\ rawData' = m_sendQueue[1] /\ m_sendQueue[1] \in Frame
           /\ InQueue = InQueue' \cup {rawData'}
<1>1. m_sendQueue \in Seq(Frame) /\ m_sendQueue # <<>> /\ m_sendQueue' = Tail(m_sendQueue)
  BY DEF CallerInv, LinkLayerTypeOK, SendPop
<1>2. /\ Len(m_sendQueue) \in Nat \ {0} /\ Len(m_sendQueue') = Len(m_sendQueue) - 1
      /\ \A n \in 1..Len(m_sendQueue') : m_sendQueue'[n] = m_sendQueue[n + 1]
  BY <1>1
<1>3. rawData' = m_sendQueue[1] /\ m_sendQueue[1] \in Frame
  BY <1>1, <1>2, QueueElement DEF SendPop
<1>5. ASSUME NEW n \in 1..Len(m_sendQueue)
      PROVE  m_sendQueue[n] \in InQueue' \cup {rawData'}
  <2>1. CASE n = 1
    BY <1>3, <2>1
  <2>2. CASE n # 1
    <3>1. n - 1 \in 1..Len(m_sendQueue') /\ (n - 1) + 1 = n
      BY <1>2, <2>2
    <3>2. m_sendQueue[n] = m_sendQueue'[n - 1]
      BY <1>2, <3>1
    <3> QED
      BY <3>1, <3>2 DEF InQueue
  <2> QED
    BY <2>1, <2>2
<1>6. \A n \in 1..Len(m_sendQueue') : n + 1 \in 1..Len(m_sendQueue)
  BY <1>2
<1>7. 1 \in 1..Len(m_sendQueue)
  BY <1>2
<1>8. InQueue' \cup {rawData'} \subseteq InQueue
  BY <1>2, <1>3, <1>6, <1>7 DEF InQueue
<1>9. InQueue \subseteq InQueue' \cup {rawData'}
  BY <1>5 DEF InQueue
<1> QED
  BY <1>2, <1>3, <1>8, <1>9

LEMMA SentKept ==
    ASSUME CallerInv, SendPop \/ SendWrite
    PROVE  Sent' = Sent
<1>1. CASE SendPop
  <2>1. rawData = NoFrame /\ rawData' # NoFrame /\ InQueue = InQueue' \cup {rawData'} /\ wire' = wire
    BY <1>1, QueuePop, SentTyped DEF SendPop
  <2> QED
    BY <2>1 DEF Sent
<1>2. CASE SendWrite
  BY <1>2 DEF SendWrite, Sent, InQueue
<1> QED
  BY <1>1, <1>2

-----------------------------------------------------------------------------
(***************************************************************************)
(* The calls of send.                                                      *)
(***************************************************************************)
LEMMA InitSend == LinkLayerInit => SendInv
<1> SUFFICES ASSUME LinkLayerInit PROVE SendInv
  OBVIOUS
<1>1. Sent = {}
  BY DEF LinkLayerInit, Sent, InQueue
<1> QED
  BY <1>1 DEF LinkLayerInit, SendInv, OneCall, Overload, Fresh, Pending, RefusedNeverSent

LEMMA SendNoReplyKeeps ==
    ASSUME CallerInv, SendInv, NEW c \in Caller, NEW r \in Req, SendNoReply(c, r)
    PROVE  SendInv'
<1> DEFINE f == [session |-> 0, seq |-> 0, origin |-> r]
<1>1. f \in Frame /\ f.origin = r
  BY LinkLayerAssumption DEF Frame
<1>2. Sent' = Sent \cup {f} /\ Sent \subseteq Frame
  BY <1>1, SentPush, SentTyped DEF SendNoReply, PushFrame
<1>3. result \in [Req -> {"none", "called", "ok", "refused"}]
  BY DEF CallerInv, LinkLayerTypeOK
<1>4. result[r] = "none" /\ result' = [result EXCEPT ![r] = "ok"]
  BY DEF SendNoReply
<1>5. \A d \in Caller : Pending(d) => req[d] # r
  BY <1>4 DEF SendInv, OneCall
<1>6. UNCHANGED <<pc, req, kind, i>>
  BY DEF SendNoReply
<1>7. OneCall' /\ Overload'
  BY <1>3, <1>4, <1>5, <1>6 DEF SendInv, OneCall, Overload, Pending
<1>8. Fresh'
  BY <1>1, <1>2, <1>3, <1>4, <1>5, <1>6 DEF SendInv, Fresh, Pending, Frame
<1>9. RefusedNeverSent'
  BY <1>1, <1>2, <1>3, <1>4 DEF SendInv, RefusedNeverSent, Frame
<1> QED
  BY <1>7, <1>8, <1>9 DEF SendInv

LEMMA SendKeeps ==
    ASSUME CallerInv, SendInv, NEW c \in Caller, NEW r \in Req, NEW k \in Kinds, Send(c, r, k)
    PROVE  SendInv'
<1>1. Sent' = Sent /\ Sent \subseteq Frame
  BY SentTyped DEF Send, linkVars, Sent, InQueue
<1>2. /\ pc \in [Caller -> {"idle", "load", "store", "read", "register", "push"}]
      /\ kind \in [Caller -> Kinds] /\ req \in [Caller -> Req \cup {None}]
      /\ i \in [Caller -> Session]
      /\ result \in [Req -> {"none", "called", "ok", "refused"}]
  BY DEF CallerInv, LinkLayerTypeOK
<1>3. /\ result[r] = "none" /\ result' = [result EXCEPT ![r] = "called"]
      /\ pc' = [pc EXCEPT ![c] = "load"] /\ kind' = [kind EXCEPT ![c] = k]
      /\ req' = [req EXCEPT ![c] = r] /\ i' = [i EXCEPT ![c] = IF k = "once" THEN 1 ELSE 2]
  BY DEF Send
<1>4. \A d \in Caller : Pending(d) => req[d] # r
  BY <1>3 DEF SendInv, OneCall
<1>5. \A f \in Sent : f.origin # r /\ f.origin \in Req
  BY <1>1, <1>3 DEF SendInv, Fresh, Frame
<1>6. OneCall'
  BY <1>2, <1>3, <1>4 DEF SendInv, OneCall, Pending
<1>7. Overload'
  BY <1>2, <1>3 DEF SendInv, Overload, Pending, Kinds
<1>8. Fresh' /\ RefusedNeverSent'
  BY <1>1, <1>2, <1>3, <1>5 DEF SendInv, Fresh, RefusedNeverSent, Pending
<1> QED
  BY <1>6, <1>7, <1>8 DEF SendInv

\* get_next_sequence.
LEMMA SeqKeeps ==
    ASSUME CallerInv, SendInv, NEW c \in Caller, LoadSeq(c) \/ StoreSeq(c) \/ ReadSeq(c)
    PROVE  SendInv'
<1>1. Sent' = Sent
  BY DEF LoadSeq, StoreSeq, ReadSeq, linkVars, Sent, InQueue
<1>2. /\ pc[c] \in {"load", "store", "read"} /\ UNCHANGED <<kind, req, i, result>>
      /\ pc \in [Caller -> {"idle", "load", "store", "read", "register", "push"}]
      /\ \E p \in {"store", "read", "register", "push"} : pc' = [pc EXCEPT ![c] = p]
  BY DEF LoadSeq, StoreSeq, ReadSeq, Order, CallerInv, LinkLayerTypeOK
<1>3. \A d \in Caller : (Pending(d))' <=> Pending(d)
  BY <1>2 DEF Pending
<1>4. OneCall' /\ Overload' /\ RefusedNeverSent'
  BY <1>1, <1>2, <1>3 DEF SendInv, OneCall, Overload, RefusedNeverSent
<1>5. Fresh'
  BY <1>1, <1>2, <1>3 DEF SendInv, Fresh, Pending
<1> QED
  BY <1>4, <1>5 DEF SendInv

\* The call goes on to its other half, or returns.
LEMMA ReturnKeeps ==
    ASSUME CallerInv, SendInv, NEW c \in Caller, Pending(c), NEW value \in {"ok", "refused"},
           Return(c, value), UNCHANGED <<kind>>,
           \A d \in Caller \ {c} : i'[d] = i[d]
    PROVE  /\ OneCall' /\ Overload'
           /\ \A r \in Req : result'[r] = IF r = req[c] THEN value ELSE result[r]
           /\ \A d \in Caller : (Pending(d))' => d # c /\ Pending(d) /\ req'[d] = req[d]
                                                 /\ req[d] # req[c] /\ pc'[d] = pc[d]
<1>1. /\ pc \in [Caller -> {"idle", "load", "store", "read", "register", "push"}]
      /\ req \in [Caller -> Req \cup {None}]
      /\ result \in [Req -> {"none", "called", "ok", "refused"}]
  BY DEF CallerInv, LinkLayerTypeOK
<1>2. /\ pc' = [pc EXCEPT ![c] = "idle"] /\ req' = [req EXCEPT ![c] = None]
      /\ result' = [result EXCEPT ![req[c]] = value]
  BY DEF Return
<1>3. \A r \in Req : result'[r] = IF r = req[c] THEN value ELSE result[r]
  BY <1>1, <1>2
<1>4. \A d \in Caller : (Pending(d))' => d # c /\ Pending(d) /\ req'[d] = req[d]
                                           /\ req[d] # req[c] /\ pc'[d] = pc[d]
  BY <1>1, <1>2 DEF SendInv, OneCall, Pending
<1>5. OneCall'
  BY <1>3, <1>4 DEF SendInv, OneCall
<1>6. Overload'
  BY <1>4 DEF SendInv, Overload
<1> QED
  BY <1>3, <1>4, <1>5, <1>6

LEMMA PushKeeps ==
    ASSUME CallerInv, SendInv, NEW c \in Caller, Push(c)
    PROVE  SendInv'
<1> DEFINE f == [session |-> i[c], seq |-> seqNum[c], origin |-> req[c]]
<1>1. /\ pc \in [Caller -> {"idle", "load", "store", "read", "register", "push"}]
      /\ pc[c] = "push" /\ Pending(c) /\ UNCHANGED <<kind, i>>
      /\ i[c] \in Session /\ seqNum[c] \in SeqNum /\ kind[c] \in Kinds
      /\ result \in [Req -> {"none", "called", "ok", "refused"}]
  BY DEF Push, Pending, CallerInv, LinkLayerTypeOK
<1>2. req[c] \in Req /\ result[req[c]] = "called"
  BY <1>1 DEF SendInv, OneCall
<1>3. f \in Frame /\ f.origin = req[c] /\ f.session = i[c]
  BY <1>1, <1>2, LinkLayerAssumption DEF Frame
<1>4. Sent' = Sent \cup {f} /\ Sent \subseteq Frame
  BY <1>3, SentPush, SentTyped DEF Push, PushFrame
<1>5. \A g \in Sent : g.origin # req[c] /\ g.origin \in Req
  BY <1>1, <1>4 DEF SendInv, Fresh, Frame
<1>6. CASE kind[c] = "once"
  <2>1. pc' = [pc EXCEPT ![c] = "register"] /\ UNCHANGED <<req, result>>
    BY <1>6 DEF Push, Proceed, Order
  <2>2. \A d \in Caller : (Pending(d))' <=> Pending(d)
    BY <1>1, <2>1 DEF Pending
  <2>3. OneCall' /\ Overload'
    BY <1>1, <2>1, <2>2 DEF SendInv, OneCall, Overload
  <2>4. i[c] = 1
    BY <1>1, <1>6 DEF SendInv, Overload
  <2>5. Fresh'
    <3>1. ASSUME NEW g \in Sent
          PROVE  /\ result'[g.origin] # "none"
                 /\ \A d \in Caller : (Pending(d))' /\ req'[d] = g.origin =>
                      pc'[d] = "register" /\ kind'[d] = "once" /\ g.session = 1
      BY <1>1, <1>5, <2>1, <2>2 DEF SendInv, Fresh
    <3>2. \A d \in Caller : (Pending(d))' /\ req'[d] = f.origin => d = c
      BY <1>1, <1>3, <2>1, <2>2 DEF SendInv, OneCall
    <3> QED
      BY <1>1, <1>2, <1>3, <1>4, <1>6, <2>1, <2>4, <3>1, <3>2 DEF Fresh
  <2>6. RefusedNeverSent'
    BY <1>2, <1>3, <1>4, <2>1 DEF SendInv, RefusedNeverSent
  <2> QED
    BY <2>3, <2>5, <2>6 DEF SendInv
<1>7. CASE kind[c] = "retry"
  <2>1. Return(c, "ok")
    BY <1>7 DEF Push, Proceed, Order
  <2>2. /\ OneCall' /\ Overload'
        /\ \A r \in Req : result'[r] = IF r = req[c] THEN "ok" ELSE result[r]
        /\ \A d \in Caller : (Pending(d))' => d # c /\ Pending(d) /\ req'[d] = req[d]
                                              /\ req[d] # req[c] /\ pc'[d] = pc[d]
    BY <1>1, <2>1, ReturnKeeps
  <2>3. Fresh'
    <3>1. ASSUME NEW g \in Sent
          PROVE  /\ result'[g.origin] # "none"
                 /\ \A d \in Caller : (Pending(d))' /\ req'[d] = g.origin =>
                      pc'[d] = "register" /\ kind'[d] = "once" /\ g.session = 1
      BY <1>1, <1>5, <2>2 DEF SendInv, Fresh
    <3> QED
      BY <1>2, <1>3, <1>4, <2>2, <3>1 DEF Fresh
  <2>4. RefusedNeverSent'
    BY <1>2, <1>3, <1>4, <1>5, <2>2 DEF SendInv, RefusedNeverSent
  <2> QED
    BY <2>2, <2>3, <2>4 DEF SendInv
<1> QED
  BY <1>1, <1>6, <1>7 DEF Kinds

\* register_session accepts: the single try returns, the other goes on to push.
LEMMA AcceptedKeeps ==
    ASSUME CallerInv, SendInv, NEW c \in Caller, RegisterAccepted(c)
    PROVE  SendInv'
<1>1. /\ pc \in [Caller -> {"idle", "load", "store", "read", "register", "push"}]
      /\ pc[c] = "register" /\ Pending(c) /\ UNCHANGED <<kind, i>> /\ kind[c] \in Kinds
  BY DEF RegisterAccepted, Pending, CallerInv, LinkLayerTypeOK
<1>2. Sent' = Sent /\ Sent \subseteq Frame
  BY SentTyped DEF RegisterAccepted, linkVars, Sent, InQueue
<1>3. \A g \in Sent : g.origin \in Req
  BY <1>2 DEF Frame
<1>4. CASE kind[c] = "retry"
  <2>1. pc' = [pc EXCEPT ![c] = "push"] /\ UNCHANGED <<req, result>>
    BY <1>4 DEF RegisterAccepted, Proceed, Order
  <2>2. \A d \in Caller : (Pending(d))' <=> Pending(d)
    BY <1>1, <2>1 DEF Pending
  <2>3. OneCall' /\ Overload' /\ RefusedNeverSent'
    BY <1>1, <1>2, <2>1, <2>2 DEF SendInv, OneCall, Overload, RefusedNeverSent
  <2>4. Fresh'
    BY <1>1, <1>2, <1>4, <2>1, <2>2 DEF SendInv, Fresh
  <2> QED
    BY <2>3, <2>4 DEF SendInv
<1>5. CASE kind[c] = "once"
  <2>1. Return(c, "ok")
    BY <1>5 DEF RegisterAccepted, Proceed, Order
  <2>2. /\ OneCall' /\ Overload'
        /\ \A r \in Req : result'[r] = IF r = req[c] THEN "ok" ELSE result[r]
        /\ \A d \in Caller : (Pending(d))' => d # c /\ Pending(d) /\ req'[d] = req[d]
                                              /\ req[d] # req[c] /\ pc'[d] = pc[d]
    BY <1>1, <2>1, ReturnKeeps
  <2>3. Fresh'
    BY <1>1, <1>2, <1>3, <2>2 DEF SendInv, Fresh
  <2>4. RefusedNeverSent'
    BY <1>2, <1>3, <2>2 DEF SendInv, RefusedNeverSent
  <2> QED
    BY <2>2, <2>3, <2>4 DEF SendInv
<1> QED
  BY <1>1, <1>4, <1>5 DEF Kinds

\* It refuses: the next session is tried, or the call returns -1.
LEMMA RefusedKeeps ==
    ASSUME CallerInv, SendInv, NEW c \in Caller, RegisterRefused(c)
    PROVE  SendInv'
<1>1. /\ pc[c] = "register" /\ Pending(c) /\ UNCHANGED <<kind>> /\ kind[c] \in Kinds
      /\ i \in [Caller -> Session]
  BY DEF RegisterRefused, Pending, CallerInv, LinkLayerTypeOK
<1>2. Sent' = Sent /\ Sent \subseteq Frame
  BY SentTyped DEF RegisterRefused, linkVars, Sent, InQueue
<1>3. \A g \in Sent : g.origin \in Req
  BY <1>2 DEF Frame
<1>4. CASE i' = [i EXCEPT ![c] = @ + 1] /\ kind[c] = "retry" /\ UNCHANGED <<pc, req, result>>
  <2>1. i[c] \in Int /\ i[c] >= 2 /\ i'[c] = i[c] + 1 /\ \A d \in Caller \ {c} : i'[d] = i[d]
    BY <1>1, <1>4, LinkLayerAssumption DEF SendInv, Overload
  <2>2. Overload'
    BY <1>1, <1>4, <2>1 DEF SendInv, Overload, Pending
  <2> QED
    BY <1>1, <1>2, <1>4, <2>2
       DEF SendInv, OneCall, Fresh, RefusedNeverSent, Pending
<1>5. CASE Return(c, "refused") /\ UNCHANGED i
  <2>1. /\ OneCall' /\ Overload'
        /\ \A r \in Req : result'[r] = IF r = req[c] THEN "refused" ELSE result[r]
        /\ \A d \in Caller : (Pending(d))' => d # c /\ Pending(d) /\ req'[d] = req[d]
                                              /\ req[d] # req[c] /\ pc'[d] = pc[d]
    BY <1>1, <1>5, ReturnKeeps
  <2>2. Fresh'
    BY <1>1, <1>2, <1>3, <2>1 DEF SendInv, Fresh
  <2>3. \A g \in Sent : g.origin = req[c] => g.session = 1
    BY <1>1 DEF SendInv, Fresh
  <2>4. RefusedNeverSent'
    BY <1>2, <1>3, <2>1, <2>3 DEF SendInv, RefusedNeverSent
  <2> QED
    BY <2>1, <2>2, <2>4 DEF SendInv
<1> QED
  BY <1>4, <1>5 DEF RegisterRefused

\* Steps of others leave the calls alone.
LEMMA OthersKeep ==
    ASSUME CallerInv, SendInv, UNCHANGED callerVars, Sent' = Sent
    PROVE  SendInv'
BY DEF callerVars, SendInv, OneCall, Overload, Fresh, RefusedNeverSent, Pending

LEMMA NextSend == CallerInv /\ SendInv /\ [LinkLayerNext]_llVars => SendInv'
<1> SUFFICES ASSUME CallerInv, SendInv, [LinkLayerNext]_llVars
             PROVE  SendInv'
  OBVIOUS
<1>1. ASSUME NEW c \in Caller, NEW r \in Req,
             SendNoReply(c, r) \/ \E k \in Kinds : Send(c, r, k)
      PROVE  SendInv'
  BY <1>1, SendNoReplyKeeps, SendKeeps
<1>2. ASSUME NEW c \in Caller, CallerStep(c)
      PROVE  SendInv'
  BY <1>2, SeqKeeps, PushKeeps, AcceptedKeeps, RefusedKeeps DEF CallerStep
<1>3. CASE SendPop \/ SendWrite
  BY <1>3, SentKept, OthersKeep DEF SendPop, SendWrite
<1>4. ASSUME NEW f \in wire, RecvAck(f)
      PROVE  SendInv'
  <2>1. UNCHANGED callerVars /\ Sent' = Sent
    BY <1>4 DEF RecvAck, Sent, InQueue
  <2> QED
    BY <2>1, OthersKeep
<1>5. CASE SessionThreads
  <2>1. UNCHANGED callerVars /\ Sent' = Sent
    BY <1>5 DEF SessionThreads, linkVars, Sent, InQueue
  <2> QED
    BY <2>1, OthersKeep
<1>6. CASE UNCHANGED llVars
  <2>1. UNCHANGED callerVars /\ Sent' = Sent
    BY <1>6 DEF llVars, linkVars, Sent, InQueue
  <2> QED
    BY <2>1, OthersKeep
<1> QED
  BY <1>1, <1>2, <1>3, <1>4, <1>5, <1>6 DEF LinkLayerNext

LEMMA SendInvHolds == LinkLayerSpec => [](CallerInv /\ SendInv)
BY InitCaller, NextCaller, InitSend, NextSend, PTL DEF LinkLayerSpec

\* Of a call of send with retries that returned -1 no frame was queued.
THEOREM RefusedNeverSentHolds == LinkLayerSpec => []RefusedNeverSent
<1>1. SendInv => RefusedNeverSent
  BY DEF SendInv
<1> QED
  BY <1>1, SendInvHolds, PTL

-----------------------------------------------------------------------------
(***************************************************************************)
(* Transmission: the queue holds one frame of a request, the send thread   *)
(* takes it out, and the wire has it once.                                 *)
(***************************************************************************)
AtMostOnce ==
    /\ \A r \in Req : written[r] <= 1
    /\ \A f \in OnWay : written[f.origin] = 0

OnceInv ==
    /\ \A m, n \in 1..Len(m_sendQueue) :
         m_sendQueue[m].origin = m_sendQueue[n].origin => m = n
    /\ rawData # NoFrame => \A g \in InQueue : g.origin # rawData.origin
    /\ \A r \in Req : written[r] # 0 => \E g \in wire : g.origin = r
    /\ AtMostOnce

LEMMA InitOnce == LinkLayerInit => OnceInv
BY DEF LinkLayerInit, OnceInv, AtMostOnce, OnWay, InQueue

\* A pushed frame is the first of its request.
LEMMA PushOnce ==
    ASSUME CallerInv, OnceInv, NEW f \in Frame, m_sendQueue' = Append(m_sendQueue, f),
           UNCHANGED <<rawData, wire, written>>,
           \A g \in Sent : g.origin # f.origin
    PROVE  OnceInv'
<1>1. m_sendQueue \in Seq(Frame) /\ f.origin \in Req /\ written \in [Req -> Nat]
  BY DEF CallerInv, LinkLayerTypeOK, Frame
<1>2. /\ Len(m_sendQueue') = Len(m_sendQueue) + 1 /\ Len(m_sendQueue) \in Nat
      /\ \A n \in 1..Len(m_sendQueue) : m_sendQueue'[n] = m_sendQueue[n]
      /\ m_sendQueue'[Len(m_sendQueue) + 1] = f
  BY <1>1
<1>3. 1..Len(m_sendQueue') = 1..Len(m_sendQueue) \cup {Len(m_sendQueue) + 1}
  BY <1>2
<1>4. InQueue' = InQueue \cup {f}
  BY <1>2, <1>3 DEF InQueue
<1>5. \A n \in 1..Len(m_sendQueue) : m_sendQueue[n].origin # f.origin
  BY DEF Sent, InQueue
<1>6. \A m, n \in 1..Len(m_sendQueue') :
        m_sendQueue'[m].origin = m_sendQueue'[n].origin => m = n
  BY <1>2, <1>3, <1>5 DEF OnceInv
<1>7. rawData' # NoFrame => \A g \in InQueue' : g.origin # rawData'.origin
  BY <1>4 DEF OnceInv, Sent
<1>8. written[f.origin] = 0
  BY <1>1 DEF OnceInv, Sent
<1>9. AtMostOnce'
  BY <1>4, <1>8 DEF OnceInv, AtMostOnce, OnWay
<1> QED
  BY <1>6, <1>7, <1>9 DEF OnceInv

LEMMA PopOnce ==
    ASSUME CallerInv, OnceInv, SendPop
    PROVE  OnceInv'
<1>1. /\ Len(m_sendQueue) \in Nat \ {0} /\ Len(m_sendQueue') = Len(m_sendQueue) - 1
      /\ \A n \in 1..Len(m_sendQueue') : m_sendQueue'[n] = m_sendQueue[n + 1]
      /\ rawData' = m_sendQueue[1]
      /\ InQueue = InQueue' \cup {rawData'}
  BY QueuePop
<1>2. \A n \in 1..Len(m_sendQueue') : n + 1 \in 1..Len(m_sendQueue) /\ n + 1 # 1
  BY <1>1
<1>3. \A m, n \in 1..Len(m_sendQueue') :
        m_sendQueue'[m].origin = m_sendQueue'[n].origin => m = n
  <2>1. ASSUME NEW m \in 1..Len(m_sendQueue'), NEW n \in 1..Len(m_sendQueue'),
               m_sendQueue'[m].origin = m_sendQueue'[n].origin
        PROVE  m = n
    <3>1. m + 1 = n + 1
      BY <1>1, <1>2, <2>1 DEF OnceInv
    <3> QED
      BY <1>1, <3>1
  <2> QED
    BY <2>1
<1>4. 1 \in 1..Len(m_sendQueue)
  BY <1>1
<1>5. \A g \in InQueue' : g.origin # rawData'.origin
  BY <1>1, <1>2, <1>4 DEF InQueue, OnceInv
<1>6. AtMostOnce' /\ UNCHANGED <<wire, written>>
  BY <1>1 DEF OnceInv, AtMostOnce, OnWay, SendPop
<1> QED
  BY <1>3, <1>5, <1>6 DEF OnceInv

LEMMA WriteOnce ==
    ASSUME CallerInv, OnceInv, SendWrite
    PROVE  OnceInv'
<1>1. /\ rawData \in Frame /\ written \in [Req -> Nat] /\ rawData # NoFrame
      /\ UNCHANGED <<m_sendQueue, InQueue>>
  BY DEF CallerInv, LinkLayerTypeOK, SendWrite, InQueue
<1>2. /\ rawData.origin \in Req /\ written[rawData.origin] = 0
      /\ written' = [written EXCEPT ![rawData.origin] = @ + 1]
      /\ rawData' = NoFrame /\ wire' = wire \cup {rawData}
  BY <1>1 DEF Frame, SendWrite, OnceInv, AtMostOnce, OnWay
<1>3. \A g \in InQueue : g.origin # rawData.origin /\ g.origin \in Req
  BY <1>1, SentTyped DEF OnceInv, Sent, Frame
<1>4. AtMostOnce'
  BY <1>1, <1>2, <1>3 DEF OnceInv, AtMostOnce, OnWay
<1>5. \A r \in Req : written'[r] # 0 => \E g \in wire' : g.origin = r
  BY <1>1, <1>2 DEF OnceInv
<1> QED
  BY <1>1, <1>2, <1>4, <1>5 DEF OnceInv

LEMMA NextOnce ==
    CallerInv /\ SendInv /\ OnceInv /\ [LinkLayerNext]_llVars => OnceInv'
<1> SUFFICES ASSUME CallerInv, SendInv, OnceInv, [LinkLayerNext]_llVars
             PROVE  OnceInv'
  OBVIOUS
<1>1. ASSUME UNCHANGED <<m_sendQueue, rawData, wire, written>>
      PROVE  OnceInv'
  BY <1>1 DEF OnceInv, AtMostOnce, OnWay, InQueue
<1>2. ASSUME NEW c \in Caller, NEW r \in Req, SendNoReply(c, r)
      PROVE  OnceInv'
  <2> DEFINE f == [session |-> 0, seq |-> 0, origin |-> r]
  <2>1. f \in Frame /\ f.origin = r
    BY LinkLayerAssumption DEF Frame
  <2>2. \A g \in Sent : g.origin # r
    BY <1>2 DEF SendNoReply, SendInv, Fresh
  <2> QED
    BY <1>2, <2>1, <2>2, PushOnce DEF SendNoReply, PushFrame
<1>3. ASSUME NEW c \in Caller, Push(c)
      PROVE  OnceInv'
  <2> DEFINE f == [session |-> i[c], seq |-> seqNum[c], origin |-> req[c]]
  <2>1. i[c] \in Session /\ seqNum[c] \in SeqNum /\ pc[c] = "push" /\ req[c] \in Req
    BY <1>3 DEF Push, CallerInv, LinkLayerTypeOK
  <2>2. f \in Frame /\ f.origin = req[c]
    BY <2>1, LinkLayerAssumption DEF Frame
  <2>3. \A g \in Sent : g.origin # req[c]
    BY <2>1 DEF SendInv, Fresh, Pending
  <2> QED
    BY <1>3, <2>2, <2>3, PushOnce DEF Push, PushFrame
<1>4. ASSUME NEW c \in Caller, CallerStep(c), ~Push(c)
      PROVE  OnceInv'
  BY <1>1, <1>4
     DEF CallerStep, LoadSeq, StoreSeq, ReadSeq, RegisterAccepted, RegisterRefused, linkVars
<1>5. ASSUME NEW c \in Caller, NEW r \in Req, NEW k \in Kinds, Send(c, r, k)
      PROVE  OnceInv'
  BY <1>1, <1>5 DEF Send, linkVars
<1>6. ASSUME NEW f \in wire, RecvAck(f)
      PROVE  OnceInv'
  BY <1>1, <1>6 DEF RecvAck
<1>7. CASE SessionThreads \/ UNCHANGED llVars
  BY <1>1, <1>7 DEF SessionThreads, llVars, linkVars
<1> QED
  BY <1>2, <1>3, <1>4, <1>5, <1>6, <1>7, PopOnce, WriteOnce DEF LinkLayerNext

\* The frame of a request that was accepted, or is about to be registered after
\* its frame was pushed, is in the queue, in the hands of the send thread or
\* written; what is on the wire was counted.
Leaves ==
    /\ \A r \in Req : result[r] = "ok" => \E f \in Sent : f.origin = r
    /\ \A c \in Caller : pc[c] = "register" /\ kind[c] = "once" =>
         \E f \in Sent : f.origin = req[c]
    /\ \A f \in wire : written[f.origin] # 0

LEMMA InitLeaves == LinkLayerInit => Leaves
BY DEF LinkLayerInit, Leaves

\* What is in Sent stays there, so that only a step of a caller matters.
LEMMA SentGrows == CallerInv /\ [LinkLayerNext]_llVars => Sent \subseteq Sent'
<1> SUFFICES ASSUME CallerInv, [LinkLayerNext]_llVars PROVE Sent \subseteq Sent'
  OBVIOUS
<1>1. ASSUME NEW c \in Caller, NEW r \in Req, SendNoReply(c, r)
      PROVE  Sent \subseteq Sent'
  <2>1. [session |-> 0, seq |-> 0, origin |-> r] \in Frame
    BY LinkLayerAssumption DEF Frame
  <2> QED
    BY <1>1, <2>1, SentPush DEF SendNoReply, PushFrame
<1>2. ASSUME NEW c \in Caller, Push(c)
      PROVE  Sent \subseteq Sent'
  <2>1. [session |-> i[c], seq |-> seqNum[c], origin |-> req[c]] \in Frame
    BY <1>2, LinkLayerAssumption DEF Push, CallerInv, LinkLayerTypeOK, Frame
  <2> QED
    BY <1>2, <2>1, SentPush DEF Push, PushFrame
<1>3. CASE SendPop \/ SendWrite
  BY <1>3, SentKept
<1>4. ASSUME UNCHANGED <<m_sendQueue, rawData, wire>>
      PROVE  Sent \subseteq Sent'
  BY <1>4 DEF Sent, InQueue
<1> QED
  BY <1>1, <1>2, <1>3, <1>4
     DEF LinkLayerNext, CallerStep, LoadSeq, StoreSeq, ReadSeq, RegisterAccepted, RegisterRefused,
         Send, RecvAck, SessionThreads, llVars, linkVars

\* The pushed frame is that of the call, which goes on or returns.
LEMMA PushLeaves ==
    ASSUME CallerInv, SendInv, Leaves, Sent \subseteq Sent', NEW c \in Caller, Push(c)
    PROVE  Leaves'
<1> DEFINE f == [session |-> i[c], seq |-> seqNum[c], origin |-> req[c]]
<1>1. /\ result \in [Req -> {"none", "called", "ok", "refused"}]
      /\ pc \in [Caller -> {"idle", "load", "store", "read", "register", "push"}]
      /\ req[c] \in Req
  BY DEF CallerInv, LinkLayerTypeOK, Push
<1>2. f \in Frame /\ f.origin = req[c]
  BY <1>1, LinkLayerAssumption DEF CallerInv, LinkLayerTypeOK, Frame
<1>3. f \in Sent'
  BY <1>2, SentPush DEF Push, PushFrame
<1>4. UNCHANGED <<kind, wire, written>>
  BY DEF Push
<1>5. \/ pc' = [pc EXCEPT ![c] = "register"] /\ UNCHANGED <<req, result>>
      \/ /\ pc' = [pc EXCEPT ![c] = "idle"] /\ req' = [req EXCEPT ![c] = None]
         /\ result' = [result EXCEPT ![req[c]] = "ok"]
  BY DEF Push, Proceed, Order, Return
<1>6. \A r \in Req : result'[r] = "ok" => result[r] = "ok" \/ r = req[c]
  BY <1>1, <1>5
<1>7. \A d \in Caller : d # c => pc'[d] = pc[d] /\ req'[d] = req[d]
  BY <1>5 DEF CallerInv, LinkLayerTypeOK
<1>8. pc'[c] = "register" => req'[c] = req[c]
  BY <1>1, <1>5
<1> QED
  BY <1>2, <1>3, <1>4, <1>6, <1>7, <1>8 DEF Leaves

\* A call with one try returns after its push; the other overload has still to
\* push when its session accepts it.
LEMMA AcceptedLeaves ==
    ASSUME CallerInv, SendInv, Leaves, Sent \subseteq Sent', NEW c \in Caller, RegisterAccepted(c)
    PROVE  Leaves'
<1>1. /\ result \in [Req -> {"none", "called", "ok", "refused"}]
      /\ pc \in [Caller -> {"idle", "load", "store", "read", "register", "push"}]
      /\ req[c] \in Req /\ pc[c] = "register" /\ kind[c] \in Kinds
  BY DEF CallerInv, LinkLayerTypeOK, RegisterAccepted
<1>2. UNCHANGED <<kind, wire, written>>
  BY DEF RegisterAccepted, linkVars
<1>3. \/ pc' = [pc EXCEPT ![c] = "push"] /\ UNCHANGED <<req, result>>
      \/ /\ kind[c] = "once" /\ pc' = [pc EXCEPT ![c] = "idle"]
         /\ req' = [req EXCEPT ![c] = None] /\ result' = [result EXCEPT ![req[c]] = "ok"]
  BY <1>1 DEF RegisterAccepted, Proceed, Order, Return, Kinds
<1>4. \A r \in Req : result'[r] = "ok" => result[r] = "ok" \/ (r = req[c] /\ kind[c] = "once")
  BY <1>1, <1>3
<1>5. \A d \in Caller : pc'[d] = "register" => pc[d] = "register" /\ req'[d] = req[d]
  BY <1>1, <1>3 DEF CallerInv, LinkLayerTypeOK
<1> QED
  BY <1>1, <1>2, <1>4, <1>5 DEF Leaves

LEMMA RefusedLeaves ==
    ASSUME CallerInv, SendInv, Leaves, Sent \subseteq Sent', NEW c \in Caller, RegisterRefused(c)
    PROVE  Leaves'
<1>1. /\ result \in [Req -> {"none", "called", "ok", "refused"}]
      /\ pc \in [Caller -> {"idle", "load", "store", "read", "register", "push"}]
  BY DEF CallerInv, LinkLayerTypeOK
<1>2. UNCHANGED <<kind, wire, written>>
  BY DEF RegisterRefused, linkVars
<1>3. \/ UNCHANGED <<pc, req, result>>
      \/ /\ pc' = [pc EXCEPT ![c] = "idle"] /\ req' = [req EXCEPT ![c] = None]
         /\ result' = [result EXCEPT ![req[c]] = "refused"]
  BY DEF RegisterRefused, Return
<1>4. \A r \in Req : result'[r] = "ok" => result[r] = "ok"
  BY <1>1, <1>3
<1>5. \A d \in Caller : pc'[d] = "register" => pc[d] = "register" /\ req'[d] = req[d]
  BY <1>1, <1>3 DEF CallerInv, LinkLayerTypeOK
<1> QED
  BY <1>2, <1>4, <1>5 DEF Leaves

LEMMA NextLeaves ==
    CallerInv /\ SendInv /\ OnceInv /\ Leaves /\ [LinkLayerNext]_llVars => Leaves'
<1> SUFFICES ASSUME CallerInv, SendInv, OnceInv, Leaves, [LinkLayerNext]_llVars
             PROVE  Leaves'
  OBVIOUS
<1>1. Sent \subseteq Sent'
  BY SentGrows
<1>2. ASSUME NEW c \in Caller, NEW r \in Req, SendNoReply(c, r)
      PROVE  Leaves'
  <2> DEFINE f == [session |-> 0, seq |-> 0, origin |-> r]
  <2>1. f \in Frame /\ f.origin = r
    BY LinkLayerAssumption DEF Frame
  <2>2. f \in Sent'
    BY <1>2, <2>1, SentPush DEF SendNoReply, PushFrame
  <2>3. /\ result' = [result EXCEPT ![r] = "ok"] /\ UNCHANGED <<pc, kind, req, wire, written>>
        /\ result \in [Req -> {"none", "called", "ok", "refused"}]
    BY <1>2 DEF SendNoReply, CallerInv, LinkLayerTypeOK
  <2> QED
    BY <1>1, <2>1, <2>2, <2>3 DEF Leaves
<1>3. ASSUME NEW c \in Caller, NEW r \in Req, NEW k \in Kinds, Send(c, r, k)
      PROVE  Leaves'
  <2>1. /\ result \in [Req -> {"none", "called", "ok", "refused"}]
        /\ pc \in [Caller -> {"idle", "load", "store", "read", "register", "push"}]
        /\ kind \in [Caller -> Kinds] /\ req \in [Caller -> Req \cup {None}]
    BY DEF CallerInv, LinkLayerTypeOK
  <2>2. /\ pc' = [pc EXCEPT ![c] = "load"] /\ kind' = [kind EXCEPT ![c] = k]
        /\ req' = [req EXCEPT ![c] = r] /\ result' = [result EXCEPT ![r] = "called"]
        /\ UNCHANGED <<wire, written>>
    BY <1>3 DEF Send, linkVars
  <2>3. \A q \in Req : result'[q] = "ok" => result[q] = "ok"
    BY <2>1, <2>2
  <2>4. \A d \in Caller : pc'[d] = "register" =>
           pc[d] = "register" /\ kind'[d] = kind[d] /\ req'[d] = req[d]
    BY <2>1, <2>2
  <2> QED
    BY <1>1, <2>2, <2>3, <2>4 DEF Leaves
<1>4. ASSUME NEW c \in Caller, CallerStep(c)
      PROVE  Leaves'
  <2>1. CASE Push(c)
    BY <1>1, <2>1, PushLeaves
  <2>2. CASE RegisterAccepted(c)
    BY <1>1, <2>2, AcceptedLeaves
  <2>3. CASE RegisterRefused(c)
    BY <1>1, <2>3, RefusedLeaves
  <2>4. CASE LoadSeq(c) \/ StoreSeq(c)
    <3>1. /\ UNCHANGED <<kind, req, result, wire, written>>
          /\ \A d \in Caller : pc'[d] = "register" => pc[d] = "register"
      BY <2>4 DEF LoadSeq, StoreSeq, linkVars, CallerInv, LinkLayerTypeOK
    <3> QED
      BY <1>1, <3>1 DEF Leaves
  <2>5. CASE ReadSeq(c)
    <3>1. /\ UNCHANGED <<kind, req, result, wire, written>> /\ kind[c] \in Kinds
          /\ pc' = [pc EXCEPT ![c] = Order(kind[c])[1]]
      BY <2>5 DEF ReadSeq, linkVars, CallerInv, LinkLayerTypeOK
    <3>2. kind[c] = "once" => Order(kind[c])[1] = "push"
      BY DEF Order
    <3>3. \A d \in Caller : pc'[d] = "register" /\ kind[d] = "once" => pc[d] = "register"
      BY <3>1, <3>2 DEF CallerInv, LinkLayerTypeOK
    <3> QED
      BY <1>1, <3>1, <3>3 DEF Leaves
  <2> QED
    BY <1>4, <2>1, <2>2, <2>3, <2>4, <2>5 DEF CallerStep
<1>5. ASSUME UNCHANGED <<pc, kind, req, result, wire, written>>
      PROVE  Leaves'
  BY <1>1, <1>5 DEF Leaves
<1>6. CASE SendWrite
  <2>1. /\ rawData \in Frame /\ rawData.origin \in Req /\ wire \subseteq Frame
        /\ written \in [Req -> Nat] /\ wire' = wire \cup {rawData}
        /\ written' = [written EXCEPT ![rawData.origin] = @ + 1]
        /\ UNCHANGED <<pc, kind, req, result>>
    BY <1>6 DEF SendWrite, CallerInv, LinkLayerTypeOK, Frame, callerVars
  <2>2. \A f \in wire' : f.origin \in Req /\ (f = rawData \/ f \in wire)
    BY <2>1 DEF Frame
  <2>3. \A f \in wire' : written'[f.origin] # 0
    BY <2>1, <2>2 DEF Leaves
  <2> QED
    BY <1>1, <2>1, <2>3 DEF Leaves
<1> QED
  BY <1>2, <1>3, <1>4, <1>5, <1>6
     DEF LinkLayerNext, SendPop, RecvAck, SessionThreads, callerVars, linkVars, llVars

\* However many tries a request has and in whatever order the threads run, the
\* frame of an accepted one is on its way or written, and never twice.
THEOREM TransmittedOnceHolds == LinkLayerSpec => []TransmittedOnce
<1>1. CallerInv /\ OnceInv /\ Leaves => TransmittedOnce
  <2> SUFFICES ASSUME CallerInv, OnceInv, Leaves PROVE TransmittedOnce
    OBVIOUS
  <2>1. ASSUME NEW r \in Req, result[r] = "ok", ~\E f \in OnWay : f.origin = r
        PROVE  written[r] = 1
    <3>1. PICK f \in wire : f.origin = r
      BY <2>1 DEF Leaves, Sent, OnWay
    <3>2. written[r] # 0 /\ written[r] <= 1 /\ written[r] \in Nat
      BY <3>1 DEF Leaves, OnceInv, AtMostOnce, CallerInv, LinkLayerTypeOK
    <3> QED
      BY <3>2
  <2> QED
    BY <2>1 DEF OnceInv, AtMostOnce, TransmittedOnce
<1> QED
  BY <1>1, InitOnce, NextOnce, InitLeaves, NextLeaves, SendInvHolds, InitCaller, NextCaller, PTL
     DEF LinkLayerSpec

-----------------------------------------------------------------------------
(***************************************************************************)
(* Registration: the overload with retries has its session ready before    *)
(* its frame is queued.                                                    *)
(***************************************************************************)
\* Session s carries request r only if it is the one the frame will name.
Carries(r, session, seq) ==
    \A s \in Session : Waiting(s) /\ current[s] = r => s = session /\ m_seqNum[s] = seq

RegInv ==
    /\ \A r \in Req : result[r] = "none" => r \notin registered
    /\ \A c \in Caller : Pending(c) /\ kind[c] = "retry" =>
         IF pc[c] = "push" THEN req[c] \in registered /\ Carries(req[c], i[c], seqNum[c])
                           ELSE req[c] \notin registered
    /\ \A f \in Sent : f.session >= 2 =>
         f.origin \in registered /\ Carries(f.origin, f.session, f.seq)

LEMMA InitReg == LinkLayerInit => RegInv
<1> SUFFICES ASSUME LinkLayerInit PROVE RegInv
  OBVIOUS
<1>1. Sent = {}
  BY DEF LinkLayerInit, Sent, InQueue
<1> QED
  BY <1>1 DEF LinkLayerInit, SessionInit, RegInv, Pending

\* Only register_session makes a session work for a request.
LEMMA WaitingKept ==
    ASSUME SessionInv, NEW s \in Session, WaiterStep(s) \/ SpuriousWake(s)
    PROVE  /\ UNCHANGED <<current, registered, m_seqNum>>
           /\ \A t \in Session : (Waiting(t))' => Waiting(t)
<1>1. /\ waiter \in [Session -> WaiterStates] /\ m_available \in [Session -> BOOLEAN]
      /\ waiter[s] = "parked" => m_available[s]
      /\ waiter[s] \in {"try", "wait", "clear", "free"} => ~m_available[s]
  BY DEF SessionInv, SessionTypeOK, Control
<1>2. UNCHANGED <<current, registered, m_seqNum>>
  BY DEF WaiterStep, Park, Exit, Start, Try, WaitReplied, WaitExpired, WaitStopped,
         Clear, Free, Call, SpuriousWake, fields, history
<1>3. ASSUME NEW t \in Session \ {s}
      PROVE  waiter'[t] = waiter[t] /\ m_available'[t] = m_available[t]
  BY <1>1 DEF WaiterStep, Park, Exit, Start, Try, WaitReplied, WaitExpired, WaitStopped,
              Clear, Free, Call, SpuriousWake, fields, Goto, NextTry
<1>4. (Waiting(s))' => Waiting(s)
  BY <1>1 DEF WaiterStep, Park, Exit, Start, Try, WaitReplied, WaitExpired, WaitStopped,
              Clear, Free, Call, SpuriousWake, fields, Goto, NextTry, Waiting
<1> QED
  BY <1>2, <1>3, <1>4 DEF Waiting

LEMMA CarriesKept ==
    ASSUME UNCHANGED <<current, m_seqNum>>,
           \A t \in Session : (Waiting(t))' => Waiting(t),
           NEW r, NEW session, NEW seq, Carries(r, session, seq)
    PROVE  Carries(r, session, seq)'
BY DEF Carries

\* A registration concerns one session and one request, which nobody had.
LEMMA CarriesOthers ==
    ASSUME SessionInv, NEW s \in Session, NEW r \in Req, NEW q, NEW n, Register(s, r, q, n)
    PROVE  /\ registered' = registered \cup {r} /\ r \notin registered
           /\ Carries(r, s, q)'
           /\ \A o, session, seq : o # r /\ Carries(o, session, seq) => Carries(o, session, seq)'
<1>1. /\ waiter \in [Session -> WaiterStates] /\ m_available \in [Session -> BOOLEAN]
      /\ current \in [Session -> Req \cup {None}] /\ m_seqNum \in [Session -> SeqNum \cup {0}]
      /\ \A t \in Session : Waiting(t) => current[t] \in registered
  BY DEF SessionInv, SessionTypeOK, Control, Waiting
<1>2. /\ registered' = registered \cup {r} /\ r \notin registered
      /\ current' = [current EXCEPT ![s] = r] /\ m_seqNum' = [m_seqNum EXCEPT ![s] = q]
      /\ \A t \in Session \ {s} : (Waiting(t))' <=> Waiting(t)
  BY <1>1 DEF Register, Notify, Waiting
<1>3. Carries(r, s, q)'
  BY <1>1, <1>2 DEF Carries
<1>4. ASSUME NEW o, NEW session, NEW seq, o # r, Carries(o, session, seq)
      PROVE  Carries(o, session, seq)'
  BY <1>1, <1>2, <1>4 DEF Carries
<1> QED
  BY <1>2, <1>3, <1>4

LEMMA AcceptedReg ==
    ASSUME CallerInv, SessionInv, SendInv, RegInv, NEW c \in Caller, RegisterAccepted(c)
    PROVE  RegInv'
<1>1. /\ pc \in [Caller -> {"idle", "load", "store", "read", "register", "push"}]
      /\ pc[c] = "register" /\ Pending(c) /\ UNCHANGED <<kind, i, seqNum>>
      /\ kind[c] \in Kinds /\ i[c] \in Session
  BY DEF RegisterAccepted, Pending, CallerInv, LinkLayerTypeOK
<1>2. PICK r \in Req, s \in Session, q \in SeqNum, n \in TryTimes(kind[c]) :
        r = req[c] /\ s = i[c] /\ q = seqNum[c] /\ Register(s, r, q, n)
  <2>1. req[c] \in Req /\ seqNum[c] \in SeqNum
    BY <1>1 DEF SendInv, OneCall, CallerInv, LinkLayerTypeOK
  <2>2. \E n \in TryTimes(kind[c]) : Register(i[c], req[c], seqNum[c], n)
    BY DEF RegisterAccepted
  <2> QED
    BY <1>1, <2>1, <2>2
<1>3. /\ registered' = registered \cup {r}
      /\ Carries(r, s, q)'
      /\ \A o, session, seq : o # r /\ Carries(o, session, seq) => Carries(o, session, seq)'
  BY <1>2, CarriesOthers
<1>4. Sent' = Sent /\ result[r] = "called"
  BY <1>1, <1>2 DEF RegisterAccepted, linkVars, Sent, InQueue, SendInv, OneCall
<1>5. \A f \in Sent : f.session >= 2 => f.origin # r
  BY <1>1, <1>2 DEF SendInv, Fresh
<1>6. ASSUME NEW f \in Sent, f.session >= 2
      PROVE  f.origin \in registered' /\ Carries(f.origin, f.session, f.seq)'
  BY <1>3, <1>5, <1>6 DEF RegInv
<1>7. \A d \in Caller \ {c} : Pending(d) => req[d] # r
  BY <1>1, <1>2 DEF SendInv, OneCall
<1>8. /\ \A x \in Req : result'[x] = "none" => result[x] = "none" /\ x # r
      /\ \A d \in Caller \ {c} : pc'[d] = pc[d] /\ req'[d] = req[d]
      /\ (Pending(c))' /\ kind[c] = "retry" => pc'[c] = "push" /\ req'[c] = r
  <2>1. CASE pc' = [pc EXCEPT ![c] = "push"] /\ UNCHANGED <<req, result>>
    BY <1>1, <1>2, <1>4, <2>1 DEF Pending
  <2>2. CASE Return(c, "ok")
    BY <1>1, <1>2, <1>4, <2>2 DEF Return, Pending, CallerInv, LinkLayerTypeOK
  <2>3. CASE kind[c] = "once"
    BY <2>2, <2>3 DEF RegisterAccepted, Proceed, Order
  <2>4. CASE kind[c] = "retry"
    BY <2>1, <2>4 DEF RegisterAccepted, Proceed, Order
  <2> QED
    BY <1>1, <2>3, <2>4 DEF Kinds
<1>9. ASSUME NEW d \in Caller, (Pending(d))', kind'[d] = "retry"
      PROVE  IF pc'[d] = "push" THEN req'[d] \in registered' /\ Carries(req[d], i[d], seqNum[d])'
                                ELSE req'[d] \notin registered'
  <2>1. CASE d = c
    <3>1. pc'[c] = "push" /\ req'[c] = r /\ i'[c] = s /\ seqNum'[c] = q
      BY <1>1, <1>2, <1>8, <1>9, <2>1
    <3>2. Carries(req[d], i[d], seqNum[d])'
      BY <1>3, <2>1, <3>1 DEF Carries
    <3> QED
      BY <1>3, <2>1, <3>1, <3>2
  <2>2. CASE d # c
    <3>1. /\ Pending(d) /\ kind[d] = "retry" /\ pc'[d] = pc[d] /\ req'[d] = req[d]
          /\ i'[d] = i[d] /\ seqNum'[d] = seqNum[d] /\ req[d] # r
      BY <1>1, <1>7, <1>8, <1>9, <2>2 DEF Pending
    <3>2. Carries(req[d], i[d], seqNum[d]) => Carries(req[d], i[d], seqNum[d])'
      BY <1>3, <3>1 DEF Carries
    <3> QED
      BY <1>3, <3>1, <3>2 DEF RegInv
  <2> QED
    BY <2>1, <2>2
<1>10. \A x \in Req : result'[x] = "none" => x \notin registered'
  BY <1>3, <1>8 DEF RegInv
<1>11. \A f \in Sent' : f.session >= 2 =>
         f.origin \in registered' /\ Carries(f.origin, f.session, f.seq)'
  BY <1>4, <1>6
<1> QED
  BY <1>9, <1>10, <1>11 DEF RegInv

\* The other steps of a call leave the sessions alone.
LEMMA CallReg ==
    ASSUME CallerInv, SendInv, RegInv, NEW c \in Caller,
           UNCHANGED SessionVars,
           \A d \in Caller \ {c} : /\ pc'[d] = pc[d] /\ req'[d] = req[d] /\ kind'[d] = kind[d]
                                   /\ i'[d] = i[d] /\ seqNum'[d] = seqNum[d],
           (Pending(c))' /\ kind'[c] = "retry" =>
               pc'[c] # "push" /\ req'[c] \in Req /\ req'[c] \notin registered,
           \A r \in Req : result'[r] = "none" => result[r] = "none",
           \A f \in Sent' : f.session >= 2 =>
               f.origin \in registered /\ Carries(f.origin, f.session, f.seq)
    PROVE  RegInv'
<1>1. /\ registered' = registered
      /\ \A o, session, seq : Carries(o, session, seq) => Carries(o, session, seq)'
  BY DEF SessionVars, fields, locals, history, Carries, Waiting
<1>2. ASSUME NEW d \in Caller, (Pending(d))', kind'[d] = "retry"
      PROVE  IF pc'[d] = "push" THEN req'[d] \in registered' /\ Carries(req[d], i[d], seqNum[d])'
                                ELSE req'[d] \notin registered'
  <2>1. CASE d = c
    BY <1>1, <1>2, <2>1
  <2>2. CASE d # c
    <3>1. /\ Pending(d) /\ kind[d] = "retry" /\ pc'[d] = pc[d] /\ req'[d] = req[d]
          /\ i'[d] = i[d] /\ seqNum'[d] = seqNum[d]
      BY <1>2, <2>2 DEF Pending
    <3>2. Carries(req[d], i[d], seqNum[d]) => Carries(req[d], i[d], seqNum[d])'
      BY <1>1, <3>1 DEF Carries
    <3> QED
      BY <1>1, <3>1, <3>2 DEF RegInv
  <2> QED
    BY <2>1, <2>2
<1>3. \A f \in Sent' : f.session >= 2 =>
        f.origin \in registered' /\ Carries(f.origin, f.session, f.seq)'
  BY <1>1
<1> QED
  BY <1>1, <1>2, <1>3 DEF RegInv

LEMMA BeginReg ==
    ASSUME CallerInv, SendInv, RegInv, NEW c \in Caller, NEW r \in Req,
           SendNoReply(c, r) \/ \E k \in Kinds : Send(c, r, k)
    PROVE  RegInv'
<1>1. /\ pc \in [Caller -> {"idle", "load", "store", "read", "register", "push"}]
      /\ kind \in [Caller -> Kinds] /\ req \in [Caller -> Req \cup {None}]
      /\ i \in [Caller -> Session]
      /\ result \in [Req -> {"none", "called", "ok", "refused"}]
      /\ pc[c] = "idle" /\ result[r] = "none" /\ r \notin registered
      /\ UNCHANGED SessionVars
  BY DEF CallerInv, LinkLayerTypeOK, SendNoReply, Send, RegInv
<1>2. CASE SendNoReply(c, r)
  <2> DEFINE f == [session |-> 0, seq |-> 0, origin |-> r]
  <2>1. f \in Frame /\ f.session = 0
    BY LinkLayerAssumption DEF Frame
  <2>2. Sent' = Sent \cup {f}
    BY <1>2, <2>1, SentPush DEF SendNoReply, PushFrame
  <2>3. /\ UNCHANGED <<pc, req, kind, i, seqNum>> /\ ~(Pending(c))'
        /\ \A x \in Req : result'[x] = "none" => result[x] = "none"
    BY <1>1, <1>2 DEF SendNoReply, Pending
  <2>4. \A g \in Sent' : g.session >= 2 =>
          g.origin \in registered /\ Carries(g.origin, g.session, g.seq)
    BY <2>1, <2>2 DEF RegInv
  <2> QED
    BY <1>1, <2>3, <2>4, CallReg
<1>3. ASSUME NEW k \in Kinds, Send(c, r, k)
      PROVE  RegInv'
  <2>1. Sent' = Sent
    BY <1>3 DEF Send, linkVars, Sent, InQueue
  <2>2. /\ pc'[c] = "load" /\ req'[c] = r /\ UNCHANGED seqNum
        /\ \A d \in Caller \ {c} : /\ pc'[d] = pc[d] /\ req'[d] = req[d] /\ kind'[d] = kind[d]
                                    /\ i'[d] = i[d]
        /\ \A x \in Req : result'[x] = "none" => result[x] = "none"
    BY <1>1, <1>3 DEF Send
  <2>3. \A g \in Sent' : g.session >= 2 =>
          g.origin \in registered /\ Carries(g.origin, g.session, g.seq)
    BY <2>1 DEF RegInv
  <2> QED
    BY <1>1, <2>2, <2>3, CallReg
<1> QED
  BY <1>2, <1>3

LEMMA SeqReg ==
    ASSUME CallerInv, SendInv, RegInv, NEW c \in Caller,
           LoadSeq(c) \/ StoreSeq(c) \/ ReadSeq(c) \/ RegisterRefused(c)
    PROVE  RegInv'
<1>1. /\ pc \in [Caller -> {"idle", "load", "store", "read", "register", "push"}]
      /\ req \in [Caller -> Req \cup {None}] /\ i \in [Caller -> Session]
      /\ seqNum \in [Caller -> SeqNum]
      /\ result \in [Req -> {"none", "called", "ok", "refused"}]
      /\ pc[c] \in {"load", "store", "read", "register"} /\ Pending(c)
      /\ UNCHANGED SessionVars /\ UNCHANGED kind
  BY DEF CallerInv, LinkLayerTypeOK, LoadSeq, StoreSeq, ReadSeq, RegisterRefused, Pending
<1>2. Sent' = Sent
  BY DEF LoadSeq, StoreSeq, ReadSeq, RegisterRefused, linkVars, Sent, InQueue
<1>3. req[c] \in Req /\ (kind[c] = "retry" => req[c] \notin registered)
  BY <1>1 DEF SendInv, OneCall, RegInv
<1>4. /\ \A d \in Caller \ {c} : /\ pc'[d] = pc[d] /\ req'[d] = req[d]
                                  /\ i'[d] = i[d] /\ seqNum'[d] = seqNum[d]
      /\ \A x \in Req : result'[x] = "none" => result[x] = "none"
      /\ (Pending(c))' /\ kind[c] = "retry" => pc'[c] # "push" /\ req'[c] = req[c]
  <2>1. CASE LoadSeq(c) \/ StoreSeq(c) \/ ReadSeq(c)
    BY <1>1, <2>1 DEF LoadSeq, StoreSeq, ReadSeq, Order
  <2>2. CASE RegisterRefused(c)
    BY <1>1, <1>3, <2>2 DEF RegisterRefused, Return, Pending
  <2> QED
    BY <2>1, <2>2
<1>5. \A g \in Sent' : g.session >= 2 =>
        g.origin \in registered /\ Carries(g.origin, g.session, g.seq)
  BY <1>2 DEF RegInv
<1> QED
  BY <1>1, <1>3, <1>4, <1>5, CallReg

LEMMA PushReg ==
    ASSUME CallerInv, SendInv, RegInv, NEW c \in Caller, Push(c)
    PROVE  RegInv'
<1> DEFINE f == [session |-> i[c], seq |-> seqNum[c], origin |-> req[c]]
<1>1. /\ pc \in [Caller -> {"idle", "load", "store", "read", "register", "push"}]
      /\ req \in [Caller -> Req \cup {None}]
      /\ result \in [Req -> {"none", "called", "ok", "refused"}]
      /\ pc[c] = "push" /\ Pending(c) /\ UNCHANGED <<kind, i, seqNum, SessionVars>>
      /\ i[c] \in Session /\ seqNum[c] \in SeqNum /\ kind[c] \in Kinds /\ req[c] \in Req
  BY DEF Push, Pending, CallerInv, LinkLayerTypeOK
<1>2. f \in Frame /\ f.origin = req[c] /\ f.session = i[c] /\ f.seq = seqNum[c]
  BY <1>1, LinkLayerAssumption DEF Frame
<1>3. Sent' = Sent \cup {f}
  BY <1>2, SentPush DEF Push, PushFrame
<1>4. i[c] >= 2 => req[c] \in registered /\ Carries(req[c], i[c], seqNum[c])
  BY <1>1, LinkLayerAssumption DEF SendInv, Overload, RegInv, Kinds
<1>5. \A g \in Sent' : g.session >= 2 =>
        g.origin \in registered /\ Carries(g.origin, g.session, g.seq)
  BY <1>2, <1>3, <1>4 DEF RegInv
<1>6. /\ \A d \in Caller \ {c} : pc'[d] = pc[d] /\ req'[d] = req[d]
      /\ \A x \in Req : result'[x] = "none" => result[x] = "none"
      /\ (Pending(c))' => kind[c] # "retry"
  <2>1. CASE kind[c] = "once"
    BY <1>1, <2>1 DEF Push, Proceed, Order, Pending
  <2>2. CASE kind[c] = "retry"
    BY <1>1, <2>2 DEF Push, Proceed, Order, Return, Pending
  <2> QED
    BY <1>1, <2>1, <2>2 DEF Kinds
<1> QED
  BY <1>1, <1>5, <1>6, CallReg

\* Steps of the sessions, the send thread and the receive thread.
LEMMA OthersReg ==
    ASSUME RegInv, UNCHANGED callerVars, Sent' = Sent,
           UNCHANGED <<current, registered, m_seqNum>>,
           \A t \in Session : (Waiting(t))' => Waiting(t)
    PROVE  RegInv'
<1>1. \A o, session, seq : Carries(o, session, seq) => Carries(o, session, seq)'
  BY DEF Carries
<1>2. ASSUME NEW d \in Caller, (Pending(d))', kind'[d] = "retry"
      PROVE  IF pc'[d] = "push" THEN req'[d] \in registered' /\ Carries(req[d], i[d], seqNum[d])'
                                ELSE req'[d] \notin registered'
  <2>1. Carries(req[d], i[d], seqNum[d]) => Carries(req[d], i[d], seqNum[d])'
    BY <1>1 DEF Carries, callerVars
  <2> QED
    BY <1>2, <2>1 DEF RegInv, callerVars, Pending
<1> QED
  BY <1>1, <1>2 DEF RegInv, callerVars

LEMMA NextReg ==
    CallerInv /\ SessionInv /\ SendInv /\ RegInv /\ [LinkLayerNext]_llVars => RegInv'
<1> SUFFICES ASSUME CallerInv, SessionInv, SendInv, RegInv, [LinkLayerNext]_llVars
             PROVE  RegInv'
  OBVIOUS
<1>1. ASSUME NEW c \in Caller, CallerStep(c)
      PROVE  RegInv'
  BY <1>1, SeqReg, PushReg, AcceptedReg DEF CallerStep
<1>2. ASSUME UNCHANGED callerVars, Sent' = Sent, UNCHANGED SessionVars
      PROVE  RegInv'
  <2>1. UNCHANGED <<current, registered, m_seqNum, m_available, waiter>>
    BY <1>2 DEF SessionVars, fields, locals, history
  <2> QED
    BY <1>2, <2>1, OthersReg DEF Waiting
<1>3. CASE SendPop \/ SendWrite
  BY <1>2, <1>3, SentKept DEF SendPop, SendWrite
<1>4. ASSUME NEW f \in wire, RecvAck(f)
      PROVE  RegInv'
  <2>1. UNCHANGED callerVars /\ Sent' = Sent
    BY <1>4 DEF RecvAck, Sent, InQueue
  <2>2. UNCHANGED <<current, registered, m_seqNum, m_available, waiter>>
    BY <1>4 DEF RecvAck, DispatchCheck, SessionVars, fields, locals, history
  <2> QED
    BY <2>1, <2>2, OthersReg DEF Waiting
<1>5. CASE SessionThreads
  <2>1. UNCHANGED callerVars /\ Sent' = Sent
    BY <1>5 DEF SessionThreads, linkVars, Sent, InQueue
  <2>2. CASE DispatchStore
    <3>1. UNCHANGED <<current, registered, m_seqNum, m_available, waiter>>
      BY <2>2 DEF DispatchStore
    <3> QED
      BY <2>1, <3>1, OthersReg DEF Waiting
  <2>3. ASSUME NEW s \in Session, WaiterStep(s) \/ SpuriousWake(s)
        PROVE  RegInv'
    BY <2>1, <2>3, WaitingKept, OthersReg
  <2> QED
    BY <1>5, <2>2, <2>3 DEF SessionThreads
<1>6. CASE UNCHANGED llVars
  <2>1. UNCHANGED callerVars /\ Sent' = Sent /\ UNCHANGED SessionVars
    BY <1>6 DEF llVars, linkVars, Sent, InQueue
  <2> QED
    BY <1>2, <2>1
<1> QED
  BY <1>1, <1>3, <1>4, <1>5, <1>6, BeginReg DEF LinkLayerNext

\* With retries, what is queued or transmitted is registered, with the session
\* and the sequence number in the frame: its acknowledgement is expected.
THEOREM SentOnlyRegisteredHolds == LinkLayerSpec => []SentOnlyRegistered
<1>1. RegInv => SentOnlyRegistered
  BY DEF RegInv, SentOnlyRegistered, Carries
<1>2. LinkLayerSpec => []SessionInv
  BY LinkLayerImplementsSession, InvariantHolds, PTL DEF ImplementsSession
<1> QED
  BY <1>1, <1>2, InitReg, NextReg, SendInvHolds, PTL DEF LinkLayerSpec

-----------------------------------------------------------------------------
(***************************************************************************)
(* Sequence numbers.  get_next_sequence is not atomic, so the calls of     *)
(* send must not overlap, and 16 bits number at most SeqMod calls.         *)
(***************************************************************************)
OneCaller == \A c, d \in Caller : c = d
FewCalls == IsFiniteSet(Req) /\ Cardinality(Req) <= SeqMod

\* The requests send was called for, the frames that want an answer, the
\* sessions at work, and the sequence numbers these two use.
Tried == {r \in Req : result[r] # "none"}
Numbered == {f \in Sent : f.session > 0}
Held == {s \in Session : ~m_available[s]}
Taken == {f.seq : f \in Numbered} \cup {m_seqNum[s] : s \in Held}

\* n numbers were handed out, 0 to n - 1, no more than there were calls; the
\* call that just stored the counter has a number nobody uses.
Issued(n) ==
    /\ m_currentSeqNum = IF n = 0 THEN SeqMod - 1 ELSE n - 1
    /\ n <= Cardinality(Tried)
    /\ \A q \in Taken : q < n
    /\ \A c \in Caller :
         /\ pc[c] \in {"load", "store"} => n + 1 <= Cardinality(Tried)
         /\ pc[c] = "store" => seqNum[c] = m_currentSeqNum
         /\ pc[c] \in {"read", "push", "register"} => n > 0
         /\ pc[c] = "read" => m_currentSeqNum \notin Taken
         /\ pc[c] \in {"push", "register"} => seqNum[c] = m_currentSeqNum

\* The number of a call is used by the half of the call that is done.
Owned ==
    \A c \in Caller : pc[c] \in {"push", "register"} =>
        /\ \A f \in Numbered : f.seq = seqNum[c] =>
             pc[c] = "register" /\ kind[c] = "once" /\ f.origin = req[c]
        /\ \A s \in Held : m_seqNum[s] = seqNum[c] =>
             pc[c] = "push" /\ kind[c] = "retry" /\ current[s] = req[c]

\* An acknowledgement whose number fits a session at work is one of the frame
\* of that session's request.
Answering ==
    \A s \in Held, f \in Numbered : m_seqNum[s] = f.seq => current[s] = f.origin

SeqInv == (\E n \in Nat : Issued(n)) /\ Owned /\ Answering /\ SeqDistinct

LEMMA InitSeq == FewCalls /\ LinkLayerInit => SeqInv
<1> SUFFICES ASSUME FewCalls, LinkLayerInit PROVE SeqInv
  OBVIOUS
<1>1. Sent = {} /\ Numbered = {} /\ Held = {} /\ Taken = {}
  BY DEF LinkLayerInit, SessionInit, Sent, InQueue, Numbered, Held, Taken
<1>2. Tried = {}
  BY DEF LinkLayerInit, Tried
<1>3. Cardinality(Tried) = 0
  BY <1>2, FS_EmptySet
<1>4. Issued(0)
  BY <1>1, <1>3 DEF Issued, LinkLayerInit
<1> QED
  BY <1>1, <1>4 DEF LinkLayerInit, SeqInv, Owned, Answering, SeqDistinct

\* There are at most SeqMod calls, and one more call is one more number.
LEMMA TriedCount ==
    ASSUME FewCalls
    PROVE  /\ IsFiniteSet(Tried) /\ Cardinality(Tried) \in Nat /\ Cardinality(Tried) <= SeqMod
           /\ IsFiniteSet(Tried') /\ Cardinality(Tried') \in Nat /\ Cardinality(Tried') <= SeqMod
           /\ Tried \subseteq Tried' => Cardinality(Tried) <= Cardinality(Tried')
           /\ \A r \in Tried' \ Tried : Tried \subseteq Tried' =>
                Cardinality(Tried) + 1 <= Cardinality(Tried')
<1>1. Tried \subseteq Req /\ Tried' \subseteq Req
  BY DEF Tried
<1>2. IsFiniteSet(Tried) /\ Cardinality(Tried) <= Cardinality(Req)
  BY <1>1, FS_Subset DEF FewCalls
<1>3. IsFiniteSet(Tried') /\ Cardinality(Tried') <= Cardinality(Req)
  <2>1. ASSUME NEW T, T \subseteq Req
        PROVE  IsFiniteSet(T) /\ Cardinality(T) <= Cardinality(Req)
    BY <2>1, FS_Subset DEF FewCalls
  <2> QED
    BY <1>1, <2>1
<1>4. Cardinality(Req) \in Nat /\ Cardinality(Tried) \in Nat /\ Cardinality(Tried') \in Nat
  BY <1>2, <1>3, FS_CardinalityType DEF FewCalls
<1>5. /\ Cardinality(Req) <= SeqMod /\ SeqMod \in Nat
      /\ Cardinality(Tried) <= SeqMod /\ Cardinality(Tried') <= SeqMod
  BY <1>2, <1>3, <1>4, LinkLayerAssumption DEF FewCalls
<1>6. Tried \subseteq Tried' => Cardinality(Tried) <= Cardinality(Tried')
  BY <1>3, FS_Subset
<1>7. ASSUME NEW r \in Tried' \ Tried, Tried \subseteq Tried'
      PROVE  Cardinality(Tried) + 1 <= Cardinality(Tried')
  <2>1. Cardinality(Tried \cup {r}) = Cardinality(Tried) + 1
    BY <1>2, <1>7, FS_AddElement
  <2>2. Tried \cup {r} \subseteq Tried'
    BY <1>7
  <2>3. Cardinality(Tried \cup {r}) <= Cardinality(Tried')
    BY <1>3, <2>2, FS_Subset
  <2> QED
    BY <2>1, <2>3
<1> QED
  BY <1>2, <1>3, <1>4, <1>5, <1>6, <1>7

\* Steps of other threads: a session may be freed, a frame may travel.
LEMMA OthersSeq ==
    ASSUME CallerInv, FewCalls, SeqInv,
           UNCHANGED <<pc, kind, req, seqNum, m_currentSeqNum, current, m_seqNum>>,
           Numbered' = Numbered, Held' \subseteq Held, Tried \subseteq Tried'
    PROVE  SeqInv'
<1>1. PICK n \in Nat : Issued(n)
  BY DEF SeqInv
<1>2. /\ Cardinality(Tried) <= Cardinality(Tried')
      /\ Cardinality(Tried) \in Nat /\ Cardinality(Tried') \in Nat
  BY TriedCount
<1>3. Taken' \subseteq Taken
  BY DEF Taken
<1>4. n <= Cardinality(Tried') /\ (n + 1 <= Cardinality(Tried) => n + 1 <= Cardinality(Tried'))
  BY <1>1, <1>2 DEF Issued
<1>5. Issued(n)'
  BY <1>1, <1>3, <1>4 DEF Issued
<1>6. Owned' /\ Answering'
  BY DEF SeqInv, Owned, Answering
<1>7. SeqDistinct'
  BY DEF SeqInv, SeqDistinct, Numbered
<1> QED
  BY <1>5, <1>6, <1>7 DEF SeqInv

\* A call of send begins.
LEMMA SendSeq ==
    ASSUME CallerInv, SendInv, OneCaller, FewCalls, SeqInv,
           NEW c \in Caller, NEW r \in Req, NEW k \in Kinds, Send(c, r, k)
    PROVE  SeqInv'
<1>1. /\ pc \in [Caller -> {"idle", "load", "store", "read", "register", "push"}]
      /\ result \in [Req -> {"none", "called", "ok", "refused"}]
  BY DEF CallerInv, LinkLayerTypeOK
<1>2. /\ result[r] = "none" /\ result' = [result EXCEPT ![r] = "called"] /\ pc'[c] = "load"
      /\ UNCHANGED <<seqNum, m_currentSeqNum, current, m_seqNum, m_available>>
      /\ Sent' = Sent
  BY <1>1 DEF Send, linkVars, SessionVars, fields, history, Sent, InQueue
<1>3. Numbered' = Numbered /\ Held' = Held /\ Taken' = Taken
  BY <1>2 DEF Numbered, Held, Taken
<1>4. Tried \subseteq Tried' /\ r \in Tried' \ Tried
  BY <1>1, <1>2 DEF Tried
<1>5. PICK n \in Nat : Issued(n)
  BY DEF SeqInv
<1>6. n + 1 <= Cardinality(Tried') /\ n <= Cardinality(Tried')
  <2>1. /\ Cardinality(Tried) + 1 <= Cardinality(Tried')
        /\ Cardinality(Tried) \in Nat /\ Cardinality(Tried') \in Nat
    BY <1>4, TriedCount
  <2>2. n <= Cardinality(Tried)
    BY <1>5 DEF Issued
  <2> QED
    BY <2>1, <2>2
<1>7. \A d \in Caller : pc'[d] = "load"
  BY <1>2 DEF OneCaller
<1>8. Issued(n)'
  BY <1>2, <1>3, <1>5, <1>6, <1>7 DEF Issued
<1>9. Owned' /\ Answering'
  BY <1>2, <1>3, <1>7 DEF SeqInv, Owned, Answering
<1>10. SeqDistinct'
  BY <1>2 DEF SeqInv, SeqDistinct
<1> QED
  BY <1>8, <1>9, <1>10 DEF SeqInv

\* get_next_sequence, three steps.
LEMMA NumberSeq ==
    ASSUME CallerInv, SessionInv, OneCaller, FewCalls, SeqInv, NEW c \in Caller,
           LoadSeq(c) \/ StoreSeq(c) \/ ReadSeq(c)
    PROVE  SeqInv'
<1>1. /\ pc \in [Caller -> {"idle", "load", "store", "read", "register", "push"}]
      /\ seqNum \in [Caller -> SeqNum] /\ m_currentSeqNum \in SeqNum
      /\ \A d \in Caller : d = c
  BY DEF CallerInv, LinkLayerTypeOK, OneCaller
<1>2. UNCHANGED <<current, m_seqNum, m_available, result, kind, req>> /\ Sent' = Sent
  BY DEF LoadSeq, StoreSeq, ReadSeq, linkVars, SessionVars, fields, history, Sent, InQueue
<1>3. Numbered' = Numbered /\ Held' = Held /\ Taken' = Taken /\ Tried' = Tried
  BY <1>2 DEF Numbered, Held, Taken, Tried
<1>4. PICK n \in Nat : Issued(n)
  BY DEF SeqInv
<1>5. Answering'
  BY <1>2, <1>3 DEF SeqInv, Answering
<1>6. SeqDistinct'
  BY <1>2 DEF SeqInv, SeqDistinct
<1>7. CASE LoadSeq(c)
  <2>1. pc[c] = "load" /\ pc'[c] = "store" /\ seqNum'[c] = m_currentSeqNum /\ UNCHANGED m_currentSeqNum
    BY <1>1, <1>7 DEF LoadSeq
  <2>2. Issued(n)'
    BY <1>1, <1>3, <1>4, <2>1 DEF Issued
  <2>3. Owned'
    BY <1>1, <2>1 DEF Owned
  <2> QED
    BY <1>5, <1>6, <2>2, <2>3 DEF SeqInv
<1>8. CASE StoreSeq(c)
  <2>1. pc[c] = "store" /\ pc'[c] = "read" /\ m_currentSeqNum' = NextSeq(seqNum[c])
    BY <1>1, <1>8 DEF StoreSeq
  <2>2. /\ seqNum[c] = m_currentSeqNum /\ n + 1 <= Cardinality(Tried)
        /\ m_currentSeqNum = IF n = 0 THEN SeqMod - 1 ELSE n - 1
        /\ \A q \in Taken : q < n
    BY <1>4, <2>1 DEF Issued
  <2>3. n + 1 <= SeqMod /\ SeqMod \in Nat \ {0}
    <3>1. Cardinality(Tried) \in Nat /\ Cardinality(Tried) <= SeqMod
      BY TriedCount
    <3> QED
      BY <2>2, <3>1, LinkLayerAssumption
  <2>4. m_currentSeqNum' = n
    <3>1. CASE n = 0
      <4>1. m_currentSeqNum' = (SeqMod - 1 + 1) % SeqMod
        BY <2>1, <2>2, <3>1 DEF NextSeq
      <4> QED
        BY <2>3, <3>1, <4>1
    <3>2. CASE n # 0
      <4>1. m_currentSeqNum' = (n - 1 + 1) % SeqMod
        BY <2>1, <2>2, <3>2 DEF NextSeq
      <4> QED
        BY <2>3, <4>1
    <3> QED
      BY <3>1, <3>2
  <2>5. /\ n + 1 \in Nat /\ n + 1 # 0 /\ n + 1 > 0 /\ n + 1 - 1 = n
        /\ \A q \in SeqNum : q < n => q < n + 1
        /\ ~(n < n)
    BY LinkLayerAssumption
  <2>6. Taken \subseteq SeqNum
    <3>1. m_seqNum \in [Session -> SeqNum] /\ Sent \subseteq Frame
      BY LinkLayerAssumption, SentTyped DEF SessionInv, SessionTypeOK
    <3> QED
      BY <3>1 DEF Taken, Numbered, Held, Frame
  <2>7. Issued(n + 1)'
    BY <1>1, <1>3, <2>1, <2>2, <2>4, <2>5, <2>6 DEF Issued
  <2>8. Owned'
    BY <1>1, <2>1 DEF Owned
  <2> QED
    BY <1>5, <1>6, <2>5, <2>7, <2>8 DEF SeqInv
<1>9. CASE ReadSeq(c)
  <2>1. /\ pc[c] = "read" /\ pc'[c] \in {"push", "register"} /\ seqNum'[c] = m_currentSeqNum
        /\ UNCHANGED m_currentSeqNum
    BY <1>1, <1>9 DEF ReadSeq, Order
  <2>2. m_currentSeqNum \notin Taken
    BY <1>4, <2>1 DEF Issued
  <2>3. Issued(n)'
    BY <1>1, <1>3, <1>4, <2>1 DEF Issued
  <2>4. Owned'
    BY <1>1, <1>2, <1>3, <2>1, <2>2 DEF Owned, Taken
  <2> QED
    BY <1>5, <1>6, <2>3, <2>4 DEF SeqInv
<1> QED
  BY <1>7, <1>8, <1>9

\* No session for the call: the next is tried, or the call returns.
LEMMA RefusedSeq ==
    ASSUME CallerInv, OneCaller, FewCalls, SendInv, SeqInv, NEW c \in Caller, RegisterRefused(c)
    PROVE  SeqInv'
<1>1. /\ pc \in [Caller -> {"idle", "load", "store", "read", "register", "push"}]
      /\ result \in [Req -> {"none", "called", "ok", "refused"}]
      /\ \A d \in Caller : d = c
      /\ pc[c] = "register" /\ req[c] \in Req /\ result[req[c]] = "called"
  BY DEF CallerInv, LinkLayerTypeOK, OneCaller, RegisterRefused, SendInv, OneCall, Pending
<1>2. /\ UNCHANGED <<current, m_seqNum, m_available, kind, seqNum, m_currentSeqNum>>
      /\ Sent' = Sent
      /\ \/ UNCHANGED <<pc, req, result>>
         \/ pc'[c] = "idle" /\ result' = [result EXCEPT ![req[c]] = "refused"]
  BY <1>1 DEF RegisterRefused, Return, linkVars, SessionVars, fields, history, Sent, InQueue
<1>3. Numbered' = Numbered /\ Held' = Held /\ Taken' = Taken /\ Tried' = Tried
  BY <1>1, <1>2 DEF Numbered, Held, Taken, Tried
<1>4. PICK n \in Nat : Issued(n)
  BY DEF SeqInv
<1>5. Issued(n)'
  BY <1>1, <1>2, <1>3, <1>4 DEF Issued
<1>6. Owned' /\ Answering'
  BY <1>1, <1>2, <1>3 DEF SeqInv, Owned, Answering
<1>7. SeqDistinct'
  BY <1>2 DEF SeqInv, SeqDistinct
<1> QED
  BY <1>5, <1>6, <1>7 DEF SeqInv

\* The frame of a call gets the call's number, which no other frame has; a
\* session that has it works for the call.
LEMMA PushSeq ==
    ASSUME CallerInv, OneCaller, FewCalls, SendInv, SeqInv, NEW c \in Caller, Push(c)
    PROVE  SeqInv'
<1> DEFINE f == [session |-> i[c], seq |-> seqNum[c], origin |-> req[c]]
<1>1. /\ pc \in [Caller -> {"idle", "load", "store", "read", "register", "push"}]
      /\ result \in [Req -> {"none", "called", "ok", "refused"}]
      /\ \A d \in Caller : d = c
      /\ pc[c] = "push" /\ req[c] \in Req /\ result[req[c]] = "called"
      /\ i[c] \in Session /\ seqNum[c] \in SeqNum /\ kind[c] \in Kinds
  BY DEF CallerInv, LinkLayerTypeOK, OneCaller, Push, SendInv, OneCall, Pending
<1>2. f \in Frame /\ f.origin = req[c] /\ f.session = i[c] /\ f.seq = seqNum[c] /\ f.session > 0
  BY <1>1, LinkLayerAssumption DEF Frame
<1>3. Sent' = Sent \cup {f}
  BY <1>2, SentPush DEF Push, PushFrame
<1>4. UNCHANGED <<current, m_seqNum, m_available, kind, seqNum, m_currentSeqNum>>
  BY DEF Push, SessionVars, fields, history
<1>5. \/ kind[c] = "once" /\ pc'[c] = "register" /\ UNCHANGED <<req, result>>
      \/ kind[c] = "retry" /\ pc'[c] = "idle" /\ result' = [result EXCEPT ![req[c]] = "ok"]
  BY <1>1 DEF Push, Proceed, Order, Return, Kinds
<1>6. Numbered' = Numbered \cup {f} /\ Held' = Held /\ Tried' = Tried
  BY <1>1, <1>2, <1>3, <1>4, <1>5 DEF Numbered, Held, Tried
<1>7. Taken' = Taken \cup {seqNum[c]}
  BY <1>2, <1>4, <1>6 DEF Taken
<1>8. PICK n \in Nat : Issued(n)
  BY DEF SeqInv
<1>9. seqNum[c] = m_currentSeqNum /\ n > 0 /\ m_currentSeqNum = n - 1
  BY <1>1, <1>8 DEF Issued
<1>10. seqNum[c] < n
  BY <1>9
<1>11. Issued(n)'
  BY <1>1, <1>4, <1>5, <1>6, <1>7, <1>8, <1>9, <1>10 DEF Issued
<1>12. /\ \A g \in Numbered : g.seq # seqNum[c]
       /\ \A s \in Held : m_seqNum[s] = seqNum[c] => kind[c] = "retry" /\ current[s] = req[c]
  BY <1>1 DEF SeqInv, Owned
<1>13. Owned'
  BY <1>1, <1>2, <1>4, <1>5, <1>6, <1>12 DEF Owned
<1>14. Answering'
  BY <1>2, <1>4, <1>6, <1>12 DEF SeqInv, Answering
<1>15. SeqDistinct'
  BY <1>2, <1>3, <1>12 DEF SeqInv, SeqDistinct, Numbered
<1> QED
  BY <1>11, <1>13, <1>14, <1>15 DEF SeqInv

\* The session of a call gets the call's number, which no other session has;
\* a frame that has it is that of the call.
LEMMA AcceptedSeq ==
    ASSUME CallerInv, SessionInv, OneCaller, FewCalls, SendInv, SeqInv,
           NEW c \in Caller, RegisterAccepted(c)
    PROVE  SeqInv'
<1>1. /\ pc \in [Caller -> {"idle", "load", "store", "read", "register", "push"}]
      /\ result \in [Req -> {"none", "called", "ok", "refused"}]
      /\ \A d \in Caller : d = c
      /\ pc[c] = "register" /\ req[c] \in Req /\ result[req[c]] = "called"
      /\ i[c] \in Session /\ seqNum[c] \in SeqNum /\ kind[c] \in Kinds
  BY DEF CallerInv, LinkLayerTypeOK, OneCaller, RegisterAccepted, SendInv, OneCall, Pending
<1>2. /\ m_available \in [Session -> BOOLEAN] /\ current \in [Session -> Req \cup {None}]
      /\ m_seqNum \in [Session -> SeqNum \cup {0}]
  BY DEF SessionInv, SessionTypeOK
<1>3. /\ m_available' = [m_available EXCEPT ![i[c]] = FALSE]
      /\ m_seqNum' = [m_seqNum EXCEPT ![i[c]] = seqNum[c]]
      /\ current' = [current EXCEPT ![i[c]] = req[c]]
      /\ UNCHANGED <<kind, seqNum, m_currentSeqNum>> /\ Sent' = Sent
  BY DEF RegisterAccepted, Register, linkVars, Sent, InQueue
<1>4. \/ kind[c] = "retry" /\ pc'[c] = "push" /\ UNCHANGED <<req, result>>
      \/ kind[c] = "once" /\ pc'[c] = "idle" /\ result' = [result EXCEPT ![req[c]] = "ok"]
  BY <1>1 DEF RegisterAccepted, Proceed, Order, Return, Kinds
<1>5. Numbered' = Numbered /\ Held' = Held \cup {i[c]} /\ Tried' = Tried
  BY <1>1, <1>2, <1>3, <1>4 DEF Numbered, Held, Tried
<1>6. /\ m_seqNum'[i[c]] = seqNum[c] /\ current'[i[c]] = req[c]
      /\ \A s \in Held' : s # i[c] =>
           s \in Held /\ m_seqNum'[s] = m_seqNum[s] /\ current'[s] = current[s]
  BY <1>1, <1>2, <1>3, <1>5 DEF Held
<1>7. Taken' \subseteq Taken \cup {seqNum[c]}
  BY <1>5, <1>6 DEF Taken
<1>8. PICK n \in Nat : Issued(n)
  BY DEF SeqInv
<1>9. seqNum[c] = m_currentSeqNum /\ n > 0 /\ m_currentSeqNum = n - 1
  BY <1>1, <1>8 DEF Issued
<1>10. seqNum[c] < n
  BY <1>9
<1>11. Issued(n)'
  BY <1>1, <1>3, <1>4, <1>5, <1>7, <1>8, <1>9, <1>10 DEF Issued
<1>12. /\ \A g \in Numbered : g.seq = seqNum[c] => kind[c] = "once" /\ g.origin = req[c]
       /\ \A s \in Held : m_seqNum[s] # seqNum[c]
  BY <1>1 DEF SeqInv, Owned
<1>13. Owned'
  BY <1>1, <1>3, <1>4, <1>5, <1>6, <1>12 DEF Owned
<1>14. Answering'
  BY <1>5, <1>6, <1>12 DEF SeqInv, Answering
<1>15. SeqDistinct'
  BY <1>3 DEF SeqInv, SeqDistinct
<1> QED
  BY <1>11, <1>13, <1>14, <1>15 DEF SeqInv

\* A session at work got there by a registration.
LEMMA HeldKept ==
    ASSUME SessionInv, NEW s \in Session, WaiterStep(s) \/ SpuriousWake(s)
    PROVE  Held' \subseteq Held
<1>1. m_available \in [Session -> BOOLEAN]
  BY DEF SessionInv, SessionTypeOK
<1>2. m_available' = m_available \/ m_available' = [m_available EXCEPT ![s] = TRUE]
  BY DEF WaiterStep, Park, Exit, Start, Try, WaitReplied, WaitExpired, WaitStopped,
         Clear, Free, Call, SpuriousWake, fields
<1> QED
  BY <1>1, <1>2 DEF Held

LEMMA NextNumbers ==
    ASSUME OneCaller, FewCalls
    PROVE  CallerInv /\ SessionInv /\ SendInv /\ SeqInv /\ [LinkLayerNext]_llVars => SeqInv'
<1> SUFFICES ASSUME CallerInv, SessionInv, SendInv, SeqInv, [LinkLayerNext]_llVars
             PROVE  SeqInv'
  OBVIOUS
<1>1. ASSUME NEW c \in Caller, NEW r \in Req, SendNoReply(c, r)
      PROVE  SeqInv'
  <2> DEFINE f == [session |-> 0, seq |-> 0, origin |-> r]
  <2>1. f \in Frame /\ ~(f.session > 0)
    BY LinkLayerAssumption DEF Frame
  <2>2. Sent' = Sent \cup {f}
    BY <1>1, <2>1, SentPush DEF SendNoReply, PushFrame
  <2>3. Numbered' = Numbered
    BY <2>1, <2>2 DEF Numbered
  <2>4. /\ UNCHANGED <<pc, kind, req, seqNum, m_currentSeqNum, current, m_seqNum, m_available>>
        /\ result \in [Req -> {"none", "called", "ok", "refused"}]
        /\ result' = [result EXCEPT ![r] = "ok"]
    BY <1>1 DEF SendNoReply, SessionVars, fields, history, CallerInv, LinkLayerTypeOK
  <2>5. Held' = Held /\ Tried \subseteq Tried'
    BY <2>4 DEF Held, Tried
  <2> QED
    BY <2>3, <2>4, <2>5, OthersSeq
<1>2. ASSUME NEW c \in Caller, CallerStep(c)
      PROVE  SeqInv'
  BY <1>2, NumberSeq, PushSeq, AcceptedSeq, RefusedSeq DEF CallerStep
<1>3. ASSUME UNCHANGED <<callerVars, m_currentSeqNum, current, m_seqNum>>,
             Sent' = Sent, Held' \subseteq Held
      PROVE  SeqInv'
  BY <1>3, OthersSeq DEF callerVars, Numbered, Tried
<1>4. ASSUME UNCHANGED <<callerVars, m_currentSeqNum, SessionVars>>, Sent' = Sent
      PROVE  SeqInv'
  BY <1>3, <1>4 DEF SessionVars, fields, history, Held
<1>5. CASE SendPop \/ SendWrite
  BY <1>4, <1>5, SentKept DEF SendPop, SendWrite
<1>6. ASSUME NEW f \in wire, RecvAck(f)
      PROVE  SeqInv'
  <2>1. UNCHANGED <<callerVars, m_currentSeqNum>> /\ Sent' = Sent
    BY <1>6 DEF RecvAck, Sent, InQueue
  <2>2. UNCHANGED <<current, m_seqNum, m_available>>
    BY <1>6 DEF RecvAck, DispatchCheck, SessionVars, fields, history
  <2> QED
    BY <1>3, <2>1, <2>2 DEF Held
<1>7. CASE SessionThreads
  <2>1. UNCHANGED <<callerVars, m_currentSeqNum>> /\ Sent' = Sent
    BY <1>7 DEF SessionThreads, linkVars, Sent, InQueue
  <2>2. CASE DispatchStore
    BY <1>3, <2>1, <2>2 DEF DispatchStore, Held
  <2>3. ASSUME NEW s \in Session, WaiterStep(s) \/ SpuriousWake(s)
        PROVE  SeqInv'
    BY <1>3, <2>1, <2>3, WaitingKept, HeldKept
  <2> QED
    BY <1>7, <2>2, <2>3 DEF SessionThreads
<1>8. CASE UNCHANGED llVars
  BY <1>4, <1>8 DEF llVars, linkVars, Sent, InQueue
<1> QED
  BY <1>1, <1>2, <1>5, <1>6, <1>7, <1>8, SendSeq DEF LinkLayerNext

LEMMA SeqInvHolds ==
    ASSUME OneCaller, FewCalls
    PROVE  LinkLayerSpec => []SeqInv
<1>1. LinkLayerSpec => []SessionInv
  BY LinkLayerImplementsSession, InvariantHolds, PTL DEF ImplementsSession
<1>2. LinkLayerInit => SeqInv
  BY InitSeq
<1>3. CallerInv /\ SessionInv /\ SendInv /\ SeqInv /\ [LinkLayerNext]_llVars => SeqInv'
  BY NextNumbers
<1> QED
  BY <1>1, <1>2, <1>3, InitCaller, NextCaller, SendInvHolds, PTL DEF LinkLayerSpec

\* As long as the calls of send do not overlap and are no more than the
\* sequence numbers, no two frames on their way or on the wire have the same.
THEOREM SeqDistinctHolds ==
    ASSUME OneCaller, FewCalls
    PROVE  LinkLayerSpec => []SeqDistinct
<1>1. SeqInv => SeqDistinct
  BY DEF SeqInv
<1> QED
  BY <1>1, SeqInvHolds, PTL

-----------------------------------------------------------------------------
(***************************************************************************)
(* What the receive thread stores is the acknowledgement of the request it *)
(* was compared with.                                                      *)
(***************************************************************************)
DataMatches ==
    /\ recv # NoDispatch => recv.data = recv.matched
    /\ \A s \in Session :
         /\ m_replied[s] => m_repliedData[s].data = m_repliedData[s].matched
         /\ successCallback[s] # None => repliedData[s].data = repliedData[s].matched

\* The waiting thread takes the stored reply over and forgets it again.
LEMMA WaiterData ==
    ASSUME SessionInv, DataMatches, NEW s \in Session, WaiterStep(s) \/ SpuriousWake(s)
    PROVE  DataMatches'
<1>1. /\ m_replied \in [Session -> BOOLEAN] /\ m_repliedData \in [Session -> Reply \cup {None}]
      /\ successCallback \in [Session -> Req \cup {None}]
      /\ repliedData \in [Session -> Reply \cup {None}]
      /\ waiter \in [Session -> WaiterStates]
  BY DEF SessionInv, SessionTypeOK
<1>2. UNCHANGED <<recv, m_repliedData>>
  BY DEF WaiterStep, Park, Exit, Start, Try, WaitReplied, WaitExpired, WaitStopped,
         Clear, Free, Call, SpuriousWake, fields
<1>3. m_replied' = m_replied \/ m_replied' = [m_replied EXCEPT ![s] = FALSE]
  BY DEF WaiterStep, Park, Exit, Start, Try, WaitReplied, WaitExpired, WaitStopped,
         Clear, Free, Call, SpuriousWake, fields
<1>4. \/ UNCHANGED <<successCallback, repliedData>>
      \/ m_replied[s] /\ \E r : successCallback' = [successCallback EXCEPT ![s] = r]
           /\ repliedData' = [repliedData EXCEPT ![s] = m_repliedData[s]]
      \/ EndScope(s)
  BY DEF WaiterStep, Park, Exit, Start, Try, WaitReplied, WaitExpired, WaitStopped,
         Clear, Free, Call, SpuriousWake, fields
<1>5. \A t \in Session : m_replied'[t] => m_repliedData'[t].data = m_repliedData'[t].matched
  BY <1>1, <1>2, <1>3 DEF DataMatches
<1>6. \A t \in Session : successCallback'[t] # None => repliedData'[t].data = repliedData'[t].matched
  <2>1. CASE UNCHANGED <<successCallback, repliedData>>
    BY <2>1 DEF DataMatches
  <2>2. CASE m_replied[s] /\ \E r : successCallback' = [successCallback EXCEPT ![s] = r]
               /\ repliedData' = [repliedData EXCEPT ![s] = m_repliedData[s]]
    BY <1>1, <2>2 DEF DataMatches
  <2>3. CASE EndScope(s)
    BY <1>1, <2>3 DEF DataMatches, EndScope
  <2> QED
    BY <1>4, <2>1, <2>2, <2>3
<1> QED
  BY <1>2, <1>5, <1>6 DEF DataMatches

LEMMA NextData ==
    CallerInv /\ SessionInv /\ SeqInv /\ DataMatches /\ [LinkLayerNext]_llVars => DataMatches'
<1> SUFFICES ASSUME CallerInv, SessionInv, SeqInv, DataMatches, [LinkLayerNext]_llVars
             PROVE  DataMatches'
  OBVIOUS
<1>1. ASSUME UNCHANGED <<recv, m_replied, m_repliedData, successCallback, repliedData>>
      PROVE  DataMatches'
  BY <1>1 DEF DataMatches
<1>2. ASSUME UNCHANGED SessionVars
      PROVE  DataMatches'
  BY <1>1, <1>2 DEF SessionVars, fields, locals
<1>3. ASSUME NEW c \in Caller, RegisterAccepted(c)
      PROVE  DataMatches'
  BY <1>1, <1>3 DEF RegisterAccepted, Register
<1>4. ASSUME NEW f \in wire, RecvAck(f)
      PROVE  DataMatches'
  <2>1. CASE DispatchCheck(f.session, f.seq, f.origin)
    <3>1. f \in Numbered /\ f.session \in Session
      BY <1>4, LinkLayerAssumption DEF RecvAck, Numbered, Sent, CallerInv, LinkLayerTypeOK, Frame
    <3>2. f.session \in Held /\ m_seqNum[f.session] = f.seq
      BY <2>1, <3>1 DEF DispatchCheck, Held
    <3>3. f.origin = current[f.session]
      BY <3>1, <3>2 DEF SeqInv, Answering
    <3>4. recv'.data = recv'.matched
      BY <2>1, <3>3 DEF DispatchCheck
    <3>5. UNCHANGED <<m_replied, m_repliedData, successCallback, repliedData>>
      BY <2>1 DEF DispatchCheck, fields
    <3> QED
      BY <3>4, <3>5 DEF DataMatches
  <2>2. CASE UNCHANGED SessionVars
    BY <1>2, <2>2
  <2> QED
    BY <1>4, <2>1, <2>2 DEF RecvAck
<1>5. CASE DispatchStore
  <2>1. /\ recv.session \in Session /\ recv.data = recv.matched /\ recv' = NoDispatch
        /\ m_replied \in [Session -> BOOLEAN]
        /\ m_repliedData \in [Session -> Reply \cup {None}]
    BY <1>5 DEF DispatchStore, DataMatches, SessionInv, SessionTypeOK
  <2>2. /\ \E l : m_repliedData' = [m_repliedData EXCEPT ![recv.session] =
               [data |-> recv.data, matched |-> recv.matched, late |-> l]]
        /\ m_replied' = [m_replied EXCEPT ![recv.session] = TRUE]
        /\ UNCHANGED <<successCallback, repliedData>>
    BY <1>5 DEF DispatchStore
  <2> QED
    BY <2>1, <2>2 DEF DataMatches
<1>6. CASE SessionThreads
  BY <1>5, <1>6, WaiterData DEF SessionThreads
<1>7. ASSUME NEW c \in Caller, CallerStep(c)
      PROVE  DataMatches'
  BY <1>2, <1>3, <1>7 DEF CallerStep, LoadSeq, StoreSeq, ReadSeq, Push, RegisterRefused
<1> QED
  BY <1>2, <1>4, <1>6, <1>7 DEF LinkLayerNext, Send, SendNoReply, SendPop, SendWrite, llVars

\* Under the same conditions a request is answered with the acknowledgement of
\* its own frame, except for a reply that was stored when the request it was
\* compared with had stopped waiting.
THEOREM AckAnswersUnlessLateHolds ==
    ASSUME OneCaller, FewCalls
    PROVE  LinkLayerSpec => []AckAnswersUnlessLate
<1>1. LinkLayerInit => DataMatches
  BY DEF LinkLayerInit, SessionInit, DataMatches
<1>2. LinkLayerSpec => []SessionInv
  BY LinkLayerImplementsSession, InvariantHolds, PTL DEF ImplementsSession
<1>3. SessionInv /\ DataMatches => AckAnswersUnlessLate
  BY DEF SessionInv, Replies, DataMatches, AckAnswersUnlessLate
<1> QED
  BY <1>1, <1>2, <1>3, InitCaller, NextCaller, NextData, SeqInvHolds, PTL DEF LinkLayerSpec

=============================================================================
