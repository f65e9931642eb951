------------------------------ MODULE LinkLayer ------------------------------
(***************************************************************************)
(* The link layer between its callers and the wire: the three overloads of *)
(* LinkLayer::send, the choice of a session, the sequence numbers, the     *)
(* send queue with its thread, and the receive thread's dispatch of        *)
(* acknowledgements.  The sessions are those of module Session; the bytes  *)
(* of a frame are those of module Framing.                                 *)
(*                                                                         *)
(* The device at the other end acknowledges a frame any number of times    *)
(* up to MaxAcks, at any time after it was written, or never: this covers  *)
(* lost, late, repeated and reordered acknowledgements.                    *)
(*                                                                         *)
(* SameSeq, WideSeq, PushFirst, RetryTimes, SendOverwrite and              *)
(* ResendOnRetry are wrong variants of the definition after each; no       *)
(* specification uses them.                                                *)
(***************************************************************************)
EXTENDS Session, Sequences

CONSTANTS
    Caller,      \* application threads
    MaxSession,  \* the last session number (31 in the code)
    SeqMod,      \* number of sequence numbers (2^16 in the code)
    MaxAcks      \* bound: acknowledgements the device sends for one frame

ASSUME LinkLayerAssumption ==
    /\ MaxSession \in Nat /\ MaxSession >= 2
    /\ SeqMod \in Nat \ {0}
    /\ Session = 1..MaxSession
    /\ SeqNum = 0..(SeqMod - 1)
    /\ Data = Req              \* an acknowledgement is named by its request
    /\ 1 \in Tries
    /\ MaxAcks \in Nat

VARIABLES
    pc,               \* where each caller stands in send
    kind,             \* the overload it is in
    req,              \* its request
    seqNum,           \* local seqNum of send
    i,                \* local i of send
    m_currentSeqNum,
    m_sendQueue,
    rawData,          \* the frame the send thread popped
    wire,             \* frames written to the serial port
    acked             \* acknowledgements the device sent for each request

\* History: what send returned for each request, and how often its frame
\* was written.
VARIABLES result, written

callerVars == <<pc, kind, req, seqNum, i, result>>
linkVars   == <<m_sendQueue, rawData, wire, acked, written>>
llVars     == <<SessionVars, callerVars, m_currentSeqNum, linkVars>>

Kinds == {"once", "retry"}   \* lines 157-171 and 173-195

Frame == [session : 0..MaxSession, seq : SeqNum, origin : Req]
NoFrame == [session |-> 0, seq |-> 0, origin |-> None]

LinkLayerTypeOK ==
    /\ pc \in [Caller -> {"idle", "load", "store", "read", "register", "push"}]
    /\ kind \in [Caller -> Kinds]
    /\ req \in [Caller -> Req \cup {None}]
    /\ seqNum \in [Caller -> SeqNum]
    /\ i \in [Caller -> Session]
    /\ m_currentSeqNum \in SeqNum
    /\ m_sendQueue \in Seq(Frame)
    /\ rawData \in Frame \cup {NoFrame}
    /\ wire \subseteq Frame
    /\ acked \in [Req -> 0..MaxAcks]
    /\ result \in [Req -> {"none", "called", "ok", "refused"}]
    /\ written \in [Req -> Nat]

LinkLayerInit ==
    /\ SessionInit
    /\ pc = [c \in Caller |-> "idle"]
    /\ kind = [c \in Caller |-> "once"]
    /\ req = [c \in Caller |-> None]
    /\ seqNum = [c \in Caller |-> 0]
    /\ i = [c \in Caller |-> 1]
    /\ m_currentSeqNum = SeqMod - 1
    /\ m_sendQueue = <<>>
    /\ rawData = NoFrame
    /\ wire = {}
    /\ acked = [r \in Req |-> 0]
    /\ result = [r \in Req |-> "none"]
    /\ written = [r \in Req |-> 0]

-----------------------------------------------------------------------------
(***************************************************************************)
(* The callers.                                                            *)
(***************************************************************************)
PushFrame(session, seq, r) ==
    m_sendQueue' = Append(m_sendQueue,
                          [session |-> session, seq |-> seq, origin |-> r])

\* send without a reply: session 0, sequence number 0, nothing registered.
SendNoReply(c, r) ==
    /\ pc[c] = "idle"
    /\ result[r] = "none"
    /\ PushFrame(0, 0, r)
    /\ result' = [result EXCEPT ![r] = "ok"]
    /\ UNCHANGED <<SessionVars, pc, kind, req, seqNum, i, m_currentSeqNum,
                   rawData, wire, acked, written>>

Send(c, r, k) ==
    /\ pc[c] = "idle"
    /\ result[r] = "none"
    /\ pc' = [pc EXCEPT ![c] = "load"]
    /\ kind' = [kind EXCEPT ![c] = k]
    /\ req' = [req EXCEPT ![c] = r]
    /\ i' = [i EXCEPT ![c] = IF k = "once" THEN 1 ELSE 2]
    /\ result' = [result EXCEPT ![r] = "called"]
    /\ UNCHANGED <<SessionVars, seqNum, m_currentSeqNum, linkVars>>

\* get_next_sequence reads m_currentSeqNum, writes the successor and reads
\* again for its return value; no lock is held (line 582).
LoadSeq(c) ==
    /\ pc[c] = "load"
    /\ pc' = [pc EXCEPT ![c] = "store"]
    /\ seqNum' = [seqNum EXCEPT ![c] = m_currentSeqNum]
    /\ UNCHANGED <<SessionVars, kind, req, i, result, m_currentSeqNum, linkVars>>

\* ++ on a 16-bit integer.
SameSeq(q) == q
WideSeq(q) == q + 1
NextSeq(q) == (q + 1) % SeqMod

StoreSeq(c) ==
    /\ pc[c] = "store"
    /\ pc' = [pc EXCEPT ![c] = "read"]
    /\ m_currentSeqNum' = NextSeq(seqNum[c])
    /\ UNCHANGED <<SessionVars, kind, req, seqNum, i, result, linkVars>>

\* The overload with one try pushes before it registers (lines 165-167), the
\* one with retries after (lines 182-193).
PushFirst(k) == <<"push", "register">>
Order(k) ==
    IF k = "once" THEN <<"push", "register">> ELSE <<"register", "push">>

ReadSeq(c) ==
    /\ pc[c] = "read"
    /\ pc' = [pc EXCEPT ![c] = Order(kind[c])[1]]
    /\ seqNum' = [seqNum EXCEPT ![c] = m_currentSeqNum]
    /\ UNCHANGED <<SessionVars, kind, req, i, result, m_currentSeqNum, linkVars>>

\* send goes on with its second step, or returns `value` after it.
Return(c, value) ==
    /\ pc' = [pc EXCEPT ![c] = "idle"]
    /\ req' = [req EXCEPT ![c] = None]
    /\ result' = [result EXCEPT ![req[c]] = value]

Proceed(c, step) ==
    \/ /\ step = Order(kind[c])[1]
       /\ pc' = [pc EXCEPT ![c] = Order(kind[c])[2]]
       /\ UNCHANGED <<req, result>>
    \/ /\ step = Order(kind[c])[2]
       /\ Return(c, "ok")

Push(c) ==
    /\ pc[c] = "push"
    /\ PushFrame(i[c], seqNum[c], req[c])
    /\ Proceed(c, "push")
    /\ UNCHANGED <<SessionVars, kind, seqNum, i, m_currentSeqNum, rawData, wire,
                   acked, written>>

\* The argument tryTimes: 1, or retryTimes + 1.
RetryTimes(k) == {n - 1 : n \in Tries}
TryTimes(k) == IF k = "once" THEN {1} ELSE Tries

RegisterAccepted(c) ==
    /\ pc[c] = "register"
    /\ \E n \in TryTimes(kind[c]) : Register(i[c], req[c], seqNum[c], n)
    /\ Proceed(c, "register")
    /\ UNCHANGED <<kind, seqNum, i, m_currentSeqNum, linkVars>>

\* register_session returns false: the session carries a request, or another
\* thread holds m_availableLock when try_lock looks (which may also fail
\* spuriously), and then the session may well be free.
RegisterRefused(c) ==
    /\ pc[c] = "register"
    /\ \/ /\ kind[c] = "retry"
          /\ i[c] < MaxSession
          /\ i' = [i EXCEPT ![c] = @ + 1]
          /\ UNCHANGED <<pc, req, result>>
       \/ /\ kind[c] = "once" \/ i[c] = MaxSession
          /\ Return(c, "refused")
          /\ UNCHANGED i
    /\ UNCHANGED <<SessionVars, kind, seqNum, m_currentSeqNum, linkVars>>

-----------------------------------------------------------------------------
(***************************************************************************)
(* The send thread and the receive thread.                                 *)
(***************************************************************************)
SendOverwrite ==
    /\ m_sendQueue # <<>>
    /\ rawData' = Head(m_sendQueue)
    /\ m_sendQueue' = Tail(m_sendQueue)
    /\ UNCHANGED <<SessionVars, callerVars, m_currentSeqNum, wire, acked,
                   written>>

SendPop ==
    /\ rawData = NoFrame
    /\ m_sendQueue # <<>>
    /\ rawData' = Head(m_sendQueue)
    /\ m_sendQueue' = Tail(m_sendQueue)
    /\ UNCHANGED <<SessionVars, callerVars, m_currentSeqNum, wire, acked,
                   written>>

SendWrite ==
    /\ rawData # NoFrame
    /\ wire' = wire \cup {rawData}
    /\ written' = [written EXCEPT ![rawData.origin] = @ + 1]
    /\ rawData' = NoFrame
    /\ UNCHANGED <<SessionVars, callerVars, m_currentSeqNum, m_sendQueue,
                   acked>>

\* An acknowledgement of frame f arrives.  dispatch_data ignores session 0;
\* dispatch_to_session drops the reply when the session is available or the
\* sequence number differs, and otherwise goes on to store it.
RecvAck(f) ==
    /\ f \in wire
    /\ f.session > 0
    /\ acked[f.origin] < MaxAcks
    /\ acked' = [acked EXCEPT ![f.origin] = @ + 1]
    /\ recv = NoDispatch
    /\ \/ DispatchCheck(f.session, f.seq, f.origin)
       \/ /\ m_available[f.session] \/ m_seqNum[f.session] # f.seq
          /\ UNCHANGED SessionVars
    /\ UNCHANGED <<callerVars, m_currentSeqNum, m_sendQueue, rawData, wire,
                   written>>

ResendOnRetry ==
    /\ \/ DispatchStore /\ UNCHANGED m_sendQueue
       \/ \E s \in Session :
            /\ WaiterStep(s) \/ SpuriousWake(s)
            /\ IF waiter[s] = "wait" /\ waiter'[s] = "try"
               THEN PushFrame(s, m_seqNum[s], current[s])
               ELSE UNCHANGED m_sendQueue
    /\ UNCHANGED <<callerVars, m_currentSeqNum, rawData, wire, acked, written>>

SessionThreads ==
    /\ \/ DispatchStore
       \/ \E s \in Session : WaiterStep(s) \/ SpuriousWake(s)
    /\ UNCHANGED <<callerVars, m_currentSeqNum, linkVars>>

CallerStep(c) ==
    \/ LoadSeq(c) \/ StoreSeq(c) \/ ReadSeq(c)
    \/ Push(c) \/ RegisterAccepted(c) \/ RegisterRefused(c)

LinkLayerNext ==
    \/ \E c \in Caller, r \in Req :
         SendNoReply(c, r) \/ \E k \in Kinds : Send(c, r, k)
    \/ \E c \in Caller : CallerStep(c)
    \/ SendPop \/ SendWrite
    \/ \E f \in wire : RecvAck(f)
    \/ SessionThreads

LinkLayerSpec == LinkLayerInit /\ [][LinkLayerNext]_llVars

\* The callers inside send run on, and the send thread does.  Nobody has to call
\* send, the device need not acknowledge anything, and that a call ends does not
\* rest on the sessions' threads.
LinkLayerFairness ==
    /\ \A c \in Caller : WF_llVars(CallerStep(c))
    /\ WF_llVars(SendPop \/ SendWrite)

FairLinkLayerSpec == LinkLayerSpec /\ LinkLayerFairness

-----------------------------------------------------------------------------
(***************************************************************************)
(* Properties.                                                             *)
(***************************************************************************)
InQueue == {m_sendQueue[n] : n \in 1..Len(m_sendQueue)}

\* The frames of calls that were not refused a session before they pushed.
Sent == InQueue \cup wire \cup ({rawData} \ {NoFrame})

\* A request with retries is registered before its frame can leave, so its
\* acknowledgement never finds the session unprepared; the frame carries the
\* session and the sequence number the request was registered with.
SentOnlyRegistered ==
    \A f \in Sent : f.session >= 2 =>
        /\ f.origin \in registered
        /\ \A s \in Session : Waiting(s) /\ current[s] = f.origin =>
             s = f.session /\ m_seqNum[s] = f.seq

\* The frame of an accepted request leaves exactly once, however often its
\* session waits again: a retry does not repeat it, and nothing between the
\* call, the queue and the send thread loses it.
OnWay == InQueue \cup ({rawData} \ {NoFrame})

TransmittedOnce ==
    /\ \A r \in Req : written[r] <= 1
    /\ \A f \in OnWay : written[f.origin] = 0
    /\ \A r \in Req : result[r] = "ok" => written[r] = 1 \/ \E f \in OnWay : f.origin = r

\* When send with retries returns -1, no frame of the request was queued.
RefusedNeverSent ==
    \A f \in Sent : result[f.origin] = "refused" => f.session = 1

\* With one caller and no wrap of the sequence numbers, an AckCallback gets
\* the acknowledgement of its own frame, except for a reply stored too late.
AckAnswersUnlessLate ==
    \A s \in Session :
        waiter[s] = "call" /\ successCallback[s] # None =>
            repliedData[s].data = successCallback[s] \/ repliedData[s].late

\* Sequence numbers of requests in flight differ (the purpose of
\* get_next_sequence); this needs the calls of send not to overlap.
SeqDistinct ==
    \A f, g \in Sent : f.session > 0 /\ g.session > 0 /\ f.seq = g.seq => f = g

\* A call of send returns, and unless it was refused the frame is written.
CallEndsWritten ==
    \A r \in Req : result[r] = "called" ~> result[r] = "refused" \/ written[r] > 0

\* What holds of the sessions alone holds of them here.
ImplementsSession == SessionSpec

=============================================================================
