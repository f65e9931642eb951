--------------------------- MODULE LinkLayerProofs ---------------------------
(***************************************************************************)
(* The link layer uses its sessions as module Session describes them, so   *)
(* that everything proved of the sessions holds of the link layer, for any *)
(* number of callers, sessions, requests and sequence numbers.             *)
(***************************************************************************)
EXTENDS LinkLayer, SessionProofs

USE LinkLayerAssumption

\* A caller inside send has a request.
CallerInv ==
    /\ LinkLayerTypeOK
    /\ \A c \in Caller : pc[c] # "idle" => req[c] \in Req

-----------------------------------------------------------------------------
LEMMA InitCaller == LinkLayerInit => CallerInv
BY DEF LinkLayerInit, CallerInv, LinkLayerTypeOK, Kinds

\* Going on within send, or returning from it.
LEMMA ProceedKeeps ==
    ASSUME CallerInv, NEW c \in Caller, pc[c] # "idle",
           \/ Proceed(c, "push") \/ Proceed(c, "register")
           \/ Return(c, "refused")
    PROVE  /\ pc' \in [Caller -> {"idle", "load", "store", "read", "register", "push"}]
           /\ req' \in [Caller -> Req \cup {None}]
           /\ result' \in [Req -> {"none", "called", "ok", "refused"}]
           /\ \A d \in Caller : pc'[d] # "idle" => req'[d] \in Req
<1> USE DEF CallerInv, LinkLayerTypeOK
<1>1. ASSUME NEW value \in {"ok", "refused"}, Return(c, value)
      PROVE  /\ pc' \in [Caller -> {"idle", "load", "store", "read", "register", "push"}]
             /\ req' \in [Caller -> Req \cup {None}]
             /\ result' \in [Req -> {"none", "called", "ok", "refused"}]
             /\ \A d \in Caller : pc'[d] # "idle" => req'[d] \in Req
  BY <1>1 DEF Return
<1>2. Order(kind[c])[2] \in {"register", "push"}
  BY DEF Order
<1>3. CASE pc' = [pc EXCEPT ![c] = Order(kind[c])[2]] /\ UNCHANGED <<req, result>>
  BY <1>2, <1>3
<1> QED
  BY <1>1, <1>3 DEF Proceed

LEMMA CallerKeeps ==
    ASSUME CallerInv, NEW c \in Caller,
           \/ \E r \in Req : SendNoReply(c, r) \/ \E k \in Kinds : Send(c, r, k)
           \/ CallerStep(c)
    PROVE  CallerInv'
<1> USE DEF CallerInv, LinkLayerTypeOK, Frame
<1>1. ASSUME NEW r \in Req, SendNoReply(c, r)
      PROVE  CallerInv'
  BY <1>1 DEF SendNoReply, PushFrame
<1>2. ASSUME NEW r \in Req, NEW k \in Kinds, Send(c, r, k)
      PROVE  CallerInv'
  BY <1>2 DEF Send, linkVars
<1>3. CASE LoadSeq(c)
  BY <1>3 DEF LoadSeq, linkVars
<1>4. CASE StoreSeq(c)
  <2>1. seqNum[c] \in Int
    BY <1>4 DEF StoreSeq
  <2>2. NextSeq(seqNum[c]) \in SeqNum
    BY <2>1 DEF NextSeq
  <2> QED
    BY <1>4, <2>2 DEF StoreSeq, linkVars
<1>5. CASE ReadSeq(c)
  BY <1>5 DEF ReadSeq, Order, linkVars
<1>6. CASE Push(c)
  <2>1. [session |-> i[c], seq |-> seqNum[c], origin |-> req[c]] \in Frame
    BY <1>6 DEF Push
  <2>2. m_sendQueue' \in Seq(Frame)
    BY <1>6, <2>1 DEF Push, PushFrame
  <2> QED
    BY <1>6, <2>2, ProceedKeeps DEF Push
<1>7. CASE RegisterAccepted(c)
  BY <1>7, ProceedKeeps DEF RegisterAccepted, linkVars
<1>8. CASE RegisterRefused(c)
  <2>1. i' \in [Caller -> Session]
    <3>1. i[c] \in 1..MaxSession
      OBVIOUS
    <3>2. i[c] < MaxSession => i[c] + 1 \in Session
      BY <3>1
    <3>3. \/ i' = i
          \/ i[c] < MaxSession /\ i' = [i EXCEPT ![c] = i[c] + 1]
      BY <1>8 DEF RegisterRefused
    <3> QED
      BY <3>2, <3>3
  <2>2. /\ pc' \in [Caller -> {"idle", "load", "store", "read", "register", "push"}]
        /\ req' \in [Caller -> Req \cup {None}]
        /\ result' \in [Req -> {"none", "called", "ok", "refused"}]
        /\ \A d \in Caller : pc'[d] # "idle" => req'[d] \in Req
    BY <1>8, ProceedKeeps DEF RegisterRefused
  <2> QED
    BY <1>8, <2>1, <2>2 DEF RegisterRefused, linkVars
<1> QED
  BY <1>1, <1>2, <1>3, <1>4, <1>5, <1>6, <1>7, <1>8 DEF CallerStep

LEMMA LinkKeeps ==
    ASSUME CallerInv,
           SendPop \/ SendWrite \/ (\E f \in wire : RecvAck(f)) \/ SessionThreads
    PROVE  CallerInv'
<1> USE DEF CallerInv, LinkLayerTypeOK, callerVars
<1>1. CASE SendPop
  BY <1>1 DEF SendPop
<1>2. CASE SendWrite
  BY <1>2 DEF SendWrite, Frame
<1>3. ASSUME NEW f \in wire, RecvAck(f)
      PROVE  CallerInv'
  BY <1>3 DEF RecvAck, Frame
<1>4. CASE SessionThreads
  BY <1>4 DEF SessionThreads, linkVars
<1> QED
  BY <1>1, <1>2, <1>3, <1>4

LEMMA NextCaller == CallerInv /\ [LinkLayerNext]_llVars => CallerInv'
<1>1. ASSUME CallerInv, UNCHANGED llVars
      PROVE  CallerInv'
  BY <1>1 DEF CallerInv, LinkLayerTypeOK, llVars, callerVars, linkVars
<1> QED
  BY <1>1, CallerKeeps, LinkKeeps DEF LinkLayerNext

\* A step of the link layer is a step of the sessions, or leaves them alone.
LEMMA SessionSteps ==
    CallerInv /\ [LinkLayerNext]_llVars => [SessionNext]_SessionVars
<1> SUFFICES ASSUME CallerInv, [LinkLayerNext]_llVars
             PROVE  [SessionNext]_SessionVars
  OBVIOUS
<1>1. ASSUME NEW c \in Caller, CallerStep(c)
      PROVE  [SessionNext]_SessionVars
  <2>1. CASE RegisterAccepted(c)
    <3>1. i[c] \in Session /\ req[c] \in Req /\ seqNum[c] \in SeqNum
      BY <2>1 DEF CallerInv, LinkLayerTypeOK, RegisterAccepted
    <3>2. \E n \in Tries : Register(i[c], req[c], seqNum[c], n)
      BY <2>1 DEF RegisterAccepted, TryTimes
    <3> QED
      BY <3>1, <3>2 DEF SessionNext
  <2>2. CASE ~RegisterAccepted(c)
    BY <1>1, <2>2 DEF CallerStep, LoadSeq, StoreSeq, ReadSeq, Push, RegisterRefused
  <2> QED
    BY <2>1, <2>2
<1>2. ASSUME NEW f \in wire, RecvAck(f)
      PROVE  [SessionNext]_SessionVars
  <2>1. f.session \in Session /\ f.seq \in SeqNum /\ f.origin \in Data
    BY <1>2 DEF RecvAck, CallerInv, LinkLayerTypeOK, Frame
  <2>2. DispatchCheck(f.session, f.seq, f.origin) \/ UNCHANGED SessionVars
    BY <1>2 DEF RecvAck
  <2> QED
    BY <2>1, <2>2 DEF SessionNext
<1>3. CASE SessionThreads
  BY <1>3 DEF SessionThreads, SessionNext
<1> QED
  BY <1>1, <1>2, <1>3
     DEF LinkLayerNext, Send, SendNoReply, SendPop, SendWrite, llVars

\* Type correctness of callers, queue, wire and device.
THEOREM LinkLayerTypeCorrect == LinkLayerSpec => []LinkLayerTypeOK
<1>1. CallerInv => LinkLayerTypeOK
  BY DEF CallerInv
<1> QED
  BY <1>1, InitCaller, NextCaller, PTL DEF LinkLayerSpec

\* The link layer respects the protocol of its sessions.
THEOREM LinkLayerImplementsSession == LinkLayerSpec => ImplementsSession
<1>1. LinkLayerInit => SessionInit
  BY DEF LinkLayerInit
<1> QED
  BY <1>1, InitCaller, NextCaller, SessionSteps, PTL
     DEF LinkLayerSpec, SessionSpec, ImplementsSession

\* No call of send is answered twice and none is forgotten, whatever the
\* callers, the threads and the device do.
THEOREM LinkLayerAnswersOnce == LinkLayerSpec => [](OneCallback /\ NoRequestLost)
BY LinkLayerImplementsSession, OneCallbackHolds, NoRequestLostHolds, PTL
   DEF ImplementsSession

\* What the sessions promise the link layer promises to its callers.
THEOREM LinkLayerImplementsService == LinkLayerSpec => Service!Spec
BY LinkLayerImplementsSession, SessionImplementsService, PTL DEF ImplementsSession

=============================================================================
