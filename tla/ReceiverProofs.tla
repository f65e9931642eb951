--------------------------- MODULE ReceiverProofs ---------------------------
(***************************************************************************)
(* The life of a link layer for any number of workers, requests and calls: *)
(* its types, what its two threads may meet, what becomes of a request of  *)
(* the device, and when memory may be used that is gone.                   *)
(***************************************************************************)
EXTENDS Receiver, FiniteSetTheorems, TLAPS

-----------------------------------------------------------------------------
(***************************************************************************)
(* The order of the object's life.                                         *)
(***************************************************************************)
DeleteLabels == {"shared", "fsm", "stopPool", "joinPool", "handler", "threads", "sessions"}

LEMMA NextLabel ==
    ASSUME Go
    PROVE  /\ app = "states" => app' = "open"
           /\ app = "open" => app' = "startSend"
           /\ app = "startSend" => app' = "startRecv"
           /\ app = "startRecv" => app' = "running"
           /\ app = "close" => app' = "stop"
           /\ app = "stop" => app' = "poison"
           /\ app = "poison" => app' = "joinSend"
           /\ app = "joinSend" => app' = "joinRecv"
           /\ app = "joinRecv" => app' = "destroyed"
           /\ app = "shared" => app' = "fsm"
           /\ app = "fsm" => app' = "stopPool"
           /\ app = "stopPool" => app' = "joinPool"
           /\ app = "joinPool" => app' = "handler"
           /\ app = "handler" => app' = "threads"
           /\ app = "threads" => app' = "sessions"
<1>1. PICK o \in Orders : \E i \in 2..Len(o) : app = o[i-1] /\ app' = o[i]
  BY DEF Go
<1>2. CASE o = InitOrder
  <2>1. PICK i \in 2..5 : app = InitOrder[i-1] /\ app' = InitOrder[i]
    BY <1>1, <1>2 DEF InitOrder
  <2>2. i = 2 \/ i = 3 \/ i = 4 \/ i = 5
    BY <2>1
  <2> QED
    BY <2>1, <2>2 DEF InitOrder
<1>3. CASE o = DestroyOrder
  <2>1. PICK i \in 2..6 : app = DestroyOrder[i-1] /\ app' = DestroyOrder[i]
    BY <1>1, <1>3 DEF DestroyOrder
  <2>2. i = 2 \/ i = 3 \/ i = 4 \/ i = 5 \/ i = 6
    BY <2>1
  <2> QED
    BY <2>1, <2>2 DEF DestroyOrder
<1>4. CASE o = DeleteOrder
  <2>1. PICK i \in 2..7 : app = DeleteOrder[i-1] /\ app' = DeleteOrder[i]
    BY <1>1, <1>4 DEF DeleteOrder
  <2>2. i = 2 \/ i = 3 \/ i = 4 \/ i = 5 \/ i = 6 \/ i = 7
    BY <2>1
  <2> QED
    BY <2>1, <2>2 DEF DeleteOrder
<1> QED
  BY <1>2, <1>3, <1>4 DEF Orders

LEMMA GoLabelled == Go => app' \in Labels
<1> SUFFICES ASSUME Go PROVE app' \in Labels
  OBVIOUS
<1>1. PICK o \in Orders : \E i \in 2..Len(o) : app' = o[i]
  BY DEF Go
<1>2. Len(o) \in Nat
  BY DEF Orders, InitOrder, DestroyOrder, DeleteOrder
<1>3. PICK i \in 1..Len(o) : app' = o[i]
  BY <1>1, <1>2
<1> QED
  BY <1>3 DEF Labels

LEMMA FirstLabelled ==
    /\ {"constructed", "states", "close", "shared", "running"} \subseteq Labels
    /\ InitOrder[1] = "states" /\ DestroyOrder[1] = "close" /\ DeleteOrder[1] = "shared"
<1>1. /\ InitOrder[1] = "states" /\ DestroyOrder[1] = "close" /\ DeleteOrder[1] = "shared"
      /\ InitOrder[5] = "running"
      /\ 1 \in 1..Len(InitOrder) /\ 1 \in 1..Len(DestroyOrder) /\ 1 \in 1..Len(DeleteOrder)
      /\ 5 \in 1..Len(InitOrder)
  BY DEF InitOrder, DestroyOrder, DeleteOrder
<1> DEFINE R(o) == {o[i] : i \in 1..Len(o)}
<1>2. \A o \in Orders : R(o) \subseteq Labels
  BY DEF Labels
<1>3. "states" \in R(InitOrder) /\ "running" \in R(InitOrder)
  BY <1>1
<1>4. "close" \in R(DestroyOrder) /\ "shared" \in R(DeleteOrder)
  BY <1>1
<1>5. InitOrder \in Orders /\ DestroyOrder \in Orders /\ DeleteOrder \in Orders
  BY DEF Orders
<1>6. "constructed" \in Labels
  BY DEF Labels
<1> HIDE DEF R
<1> QED
  BY <1>1, <1>2, <1>3, <1>4, <1>5, <1>6

-----------------------------------------------------------------------------
(***************************************************************************)
(* What the threads of the link layer meet.                                *)
(***************************************************************************)
\* The port was tried before a thread uses it.
PortTried ==
    /\ port \in {"unopened", "open", "failed", "lost", "closed"}
    /\ port = "unopened" =>
         sendPc = "none" /\ recvPc = "none" /\ app \notin {"startSend", "startRecv"}
    /\ NoThrowInUse

\* A thread that runs is one that destroy would join.
Joinable ==
    /\ sendPc \notin {"none", "done"} => "send" \in joinable
    /\ recvPc \notin {"none", "done"} => "recv" \in joinable

\* The pool is stopped only by the destructor, and its threads have ended before
\* the handler goes.
PoolFirst ==
    /\ app \in {"handler", "threads", "sessions"} => \A w \in Worker : workerPc[w] = "done"
    /\ "handler" \notin alive => app \in {"threads", "sessions"}
    /\ stop => app \in {"joinPool", "handler", "threads", "sessions"}

\* The receive thread begins in the state of the header, and the states follow it.
StateFollows ==
    /\ recvPc \in {"none", "check", "read", "reading", "header", "body", "complete", "reset", "done"}
    /\ recvPc # "none" => app \in DeleteLabels \/ "fsm" \in alive
    /\ Alive /\ app \in {"open", "startSend", "startRecv"} =>
         recvPc = "none" /\ "fsm" \in alive /\ running = <<"header">>
    /\ recvPc \in {"check", "read", "reading", "header", "done"} => running = <<"header">>
    /\ recvPc = "body" => running = <<"body">>
    /\ recvPc \in {"complete", "reset"} => running = <<"complete">>

LifeInv == PortTried /\ Joinable /\ PoolFirst /\ StateFollows

LEMMA InitLife == ReceiverInit => LifeInv
  BY DEF ReceiverInit, LifeInv, PortTried, NoThrowInUse, Joinable, PoolFirst,
         StateFollows, Alive

LEMMA OwnerLife ==
    ASSUME LifeInv, Initialize \/ Destroy \/ Delete \/ Owner
    PROVE  LifeInv'
<1> USE FirstLabelled DEF LifeInv, PortTried, NoThrowInUse, Joinable, PoolFirst,
        StateFollows, DeleteLabels, Alive, At, End, AppStep, sending, recv, pool, setting, hist
<1>1. CASE Initialize
  BY <1>1, NextLabel DEF Initialize
<1>2. CASE Destroy
  BY <1>2, NextLabel DEF Destroy
<1>3. CASE Delete
  BY <1>3, NextLabel DEF Delete
<1>4. CASE InitStates
  BY <1>4, NextLabel DEF InitStates, GoTo
<1>5. CASE StartSerialPort
  BY <1>5, NextLabel DEF StartSerialPort
<1>6. CASE StartSendThread
  BY <1>6, NextLabel DEF StartSendThread
<1>7. CASE StartRecvThread
  BY <1>7, NextLabel DEF StartRecvThread
<1>8. CASE ClosePort
  BY <1>8, NextLabel DEF ClosePort
<1>9. CASE SetStopped
  BY <1>9, NextLabel DEF SetStopped
<1>10. CASE PushPoison
  BY <1>10, NextLabel DEF PushPoison
<1>11. CASE JoinSend
  BY <1>11, NextLabel DEF JoinSend
<1>12. CASE JoinRecv
  BY <1>12, NextLabel DEF JoinRecv
<1>13. CASE DeleteShared
  BY <1>13, NextLabel DEF DeleteShared
<1>14. CASE DeleteFsm
  BY <1>14, NextLabel DEF DeleteFsm
<1>15. CASE StopPool
  BY <1>15, NextLabel DEF StopPool
<1>16. CASE JoinPool
  BY <1>16, NextLabel DEF JoinPool
<1>17. CASE DeleteHandler
  BY <1>17, NextLabel DEF DeleteHandler
<1>18. CASE DeleteThreads
  BY <1>18, NextLabel DEF DeleteThreads
<1> QED
  BY <1>1, <1>2, <1>3, <1>4, <1>5, <1>6, <1>7, <1>8, <1>9, <1>10, <1>11, <1>12, <1>13, <1>14, <1>15, <1>16, <1>17, <1>18
     DEF Owner, InitSteps, DestroySteps, DeleteSteps

LEMMA ThreadLife ==
    ASSUME LifeInv, PushRawData \/ Unplug \/ SendThread \/ RecvThread
    PROVE  LifeInv'
<1> USE DEF LifeInv, PortTried, NoThrowInUse, Joinable, PoolFirst, StateFollows,
        DeleteLabels, Alive, End, life, sending, recv, pool, setting, hist
<1>1. CASE PushRawData
  BY <1>1 DEF PushRawData, MayCall
<1>2. CASE Unplug
  BY <1>2 DEF Unplug
<1>3. CASE SendCheck
  BY <1>3 DEF SendCheck, SendStep
<1>4. CASE SendPop
  BY <1>4 DEF SendPop, SendStep
<1>5. CASE SendWrite
  BY <1>5 DEF SendWrite, SendStep
<1>6. CASE SendDrain
  BY <1>6 DEF SendDrain, SendStep
<1>7. CASE RecvCheck
  BY <1>7 DEF RecvCheck, RecvStep, NoDispatch
<1>8. CASE RecvRead
  BY <1>8 DEF RecvRead, RecvStep, NoDispatch
<1>9. CASE RecvTimeout
  BY <1>9 DEF RecvTimeout, RecvStep, NoDispatch
<1>10. CASE RecvFrame
  BY <1>10 DEF RecvFrame, RecvStep, NoDispatch
<1>11. CASE HeaderByte
  BY <1>11 DEF HeaderByte, RecvStep, NoDispatch, GoTo, Use
<1>12. CASE BodyByte
  BY <1>12 DEF BodyByte, RecvStep, NoDispatch, GoTo, Use
<1>13. CASE Dispatch
  BY <1>13 DEF Dispatch, RecvStep, NoDispatch, DispatchToNoReplyHandler, Enqueue, NotifyOne, Use
<1>14. CASE OnReset
  BY <1>14 DEF OnReset, RecvStep, NoDispatch, GoTo, Use
<1> QED
  BY <1>1, <1>2, <1>3, <1>4, <1>5, <1>6, <1>7, <1>8, <1>9, <1>10, <1>11, <1>12, <1>13, <1>14
     DEF SendThread, RecvThread

LEMMA CallLife ==
    ASSUME LifeInv,
           \/ SetRequestHandler \/ Setter
           \/ \E w \in Worker : WorkerThread(w) \/ SpuriousWake(w)
           \/ UNCHANGED rvars
    PROVE  LifeInv'
<1> USE DEF LifeInv, PortTried, NoThrowInUse, Joinable, PoolFirst, StateFollows,
        DeleteLabels, Alive, End, life, sending, recv, pool, setting, hist
<1>1. CASE SetRequestHandler
  BY <1>1 DEF SetRequestHandler, SetterStep
<1>2. CASE Setter
  BY <1>2 DEF Setter, SwapHandler, DropHandler, SetterStep
<1>3. ASSUME NEW w \in Worker, WorkerThread(w) \/ SpuriousWake(w)
      PROVE  LifeInv'
  BY <1>3 DEF WorkerThread, TakeTask, Park, CallHandler, CallEmpty, HandlerReturns, SpuriousWake,
              WorkerStep
<1>4. CASE UNCHANGED rvars
  BY <1>4 DEF rvars
<1> QED
  BY <1>1, <1>2, <1>3, <1>4

LEMMA NextLife == LifeInv /\ [ReceiverNext]_rvars => LifeInv'
  BY OwnerLife, ThreadLife, CallLife DEF ReceiverNext

\* What the states say of the running one.
LEMMA CurrentFollows == StateFollows => CurrentState
<1> SUFFICES ASSUME StateFollows, recvPc # "none"
             PROVE  running = <<Expected>>
  BY DEF CurrentState
<1>1. recvPc \in {"check", "read", "reading", "header", "done"} => Expected = "header"
  BY Zenon DEF Expected
<1>2. recvPc = "body" => Expected = "body"
  BY Zenon DEF Expected
<1>3. recvPc = "complete" => Expected = "complete"
  BY Zenon DEF Expected
<1>4. recvPc = "reset" => Expected = "complete"
  BY Zenon DEF Expected
<1> QED
  BY <1>1, <1>2, <1>3, <1>4 DEF StateFollows

LEMMA LifeInvHolds == ReceiverSpec => []LifeInv
  BY InitLife, NextLife, PTL DEF ReceiverSpec

\* An exception leaves a thread of the link layer only where the port is not open,
\* or where a delete without destroy stops the pool under the receive thread: for
\* every number of workers, frames and calls, and in any order of their steps.
THEOREM NoThrowInUseHolds == ReceiverSpec => []NoThrowInUse
<1>1. LifeInv => NoThrowInUse
  BY DEF LifeInv, PortTried
<1> QED
  BY <1>1, LifeInvHolds, PTL

\* The state machine stands at the state of the next byte, whatever frames
\* came and in whatever step of initialize or the destructor.
THEOREM CurrentStateHolds == ReceiverSpec => []CurrentState
<1>1. LifeInv => CurrentState
  BY CurrentFollows DEF LifeInv
<1> QED
  BY <1>1, LifeInvHolds, PTL

-----------------------------------------------------------------------------
(***************************************************************************)
(* Types, with what bounds the counters and what a worker has in hand.     *)
(***************************************************************************)
Generations ==
    /\ handler.gen <= calls
    /\ setter = "swap" => handler.gen < calls

InHand ==
    /\ tasks \in Seq(Dispatched)
    /\ recvPc \in {"header", "body", "complete"} => Len(met) < MaxRequests
    /\ \A w \in Worker : job[w] \in Dispatched \cup {0}
    /\ \A w \in Worker : workerPc[w] \in {"call", "calling"} => job[w] \in Dispatched

TypeInv == ReceiverTypeOK /\ Generations /\ InHand

LEMMA InitType == ReceiverInit => TypeInv
<1> SUFFICES ASSUME ReceiverInit PROVE TypeInv
  OBVIOUS
<1>1. /\ m_sendQueue \in Seq({"frame", "poison"})
      /\ running \in Seq({"header", "body", "complete"})
      /\ tasks \in Seq(Requests) /\ met \in Seq(0..MaxCalls) /\ Len(met) = 0
  BY DEF ReceiverInit
<1>2. MaxRequests \in Nat /\ MaxCalls \in Nat
  BY ReceiverAssumption
<1>3. app \in Labels /\ handler \in [gen : 0..MaxCalls, set : BOOLEAN]
  BY <1>2, FirstLabelled DEF ReceiverInit
<1>4. ReceiverTypeOK
  <2>1. /\ handled \subseteq Dispatched /\ dropped \subseteq Dispatched
        /\ joinable \subseteq {"send", "recv"} /\ alive \subseteq {"shared", "fsm", "pool", "handler"}
    BY DEF ReceiverInit
  <2>2. /\ workerPc \in [Worker -> {"check", "parked", "call", "calling", "done"}]
        /\ job \in [Worker -> Requests \cup {0}] /\ called \in [Worker -> 0..MaxCalls]
    BY <1>2 DEF ReceiverInit
  <2>3. /\ calls \in 0..MaxCalls /\ Len(met) <= MaxRequests
    BY <1>1, <1>2 DEF ReceiverInit
  <2> QED
    BY <1>1, <1>3, <2>1, <2>2, <2>3 DEF ReceiverInit, ReceiverTypeOK
<1> QED
  BY <1>4, ReceiverAssumption DEF TypeInv, Generations, InHand, ReceiverInit, Dispatched

LEMMA OwnerType ==
    ASSUME TypeInv, Initialize \/ Destroy \/ Delete \/ Owner
    PROVE  TypeInv'
<1>1. app' \in Labels
  BY FirstLabelled, GoLabelled
     DEF Owner, InitSteps, DestroySteps, DeleteSteps, AppStep,
         Initialize, Destroy, Delete, InitStates, StartSerialPort, StartSendThread,
         StartRecvThread, ClosePort, SetStopped, PushPoison, JoinSend, JoinRecv, DeleteShared,
         DeleteFsm, StopPool, JoinPool, DeleteHandler, DeleteThreads
<1> USE DEF TypeInv, ReceiverTypeOK, Generations, InHand, Dispatched, End, AppStep,
        sending, recv, pool, setting, hist
<1>2. CASE Initialize
  BY <1>1, <1>2 DEF Initialize
<1>3. CASE Destroy
  BY <1>1, <1>3 DEF Destroy
<1>4. CASE Delete
  BY <1>1, <1>4 DEF Delete
<1>5. CASE InitStates
  <2>1. <<"header">> \in Seq({"header", "body", "complete"})
    OBVIOUS
  <2>2. running' \in Seq({"header", "body", "complete"})
    BY <1>5, <2>1 DEF InitStates, GoTo
  <2> QED
    <3>1. InHand' /\ Generations'
      BY <1>5 DEF InitStates
    <3>2. ended' \in {"no", "thrown", "assert", "wild", "terminate"}
      BY <1>5 DEF InitStates
    <3>3. alive' \subseteq {"shared", "fsm", "pool", "handler"}
      BY <1>5 DEF InitStates
    <3> QED
      BY <1>1, <1>5, <2>2, <3>1, <3>2, <3>3 DEF InitStates
<1>6. CASE StartSerialPort
  BY <1>1, <1>6 DEF StartSerialPort
<1>7. CASE StartSendThread
  BY <1>1, <1>7 DEF StartSendThread
<1>8. CASE StartRecvThread
  BY <1>1, <1>8 DEF StartRecvThread
<1>9. CASE ClosePort
  BY <1>1, <1>9 DEF ClosePort
<1>10. CASE SetStopped
  BY <1>1, <1>10 DEF SetStopped
<1>11. CASE PushPoison
  BY <1>1, <1>11 DEF PushPoison
<1>12. CASE JoinSend
  BY <1>1, <1>12 DEF JoinSend
<1>13. CASE JoinRecv
  BY <1>1, <1>13 DEF JoinRecv
<1>14. CASE DeleteShared
  BY <1>1, <1>14 DEF DeleteShared
<1>15. CASE DeleteFsm
  BY <1>1, <1>15 DEF DeleteFsm
<1>16. CASE StopPool
  BY <1>1, <1>16 DEF StopPool
<1>17. CASE JoinPool
  BY <1>1, <1>17 DEF JoinPool
<1>18. CASE DeleteHandler
  BY <1>1, <1>18 DEF DeleteHandler
<1>19. CASE DeleteThreads
  BY <1>1, <1>19 DEF DeleteThreads
<1> QED
  BY <1>2, <1>3, <1>4, <1>5, <1>6, <1>7, <1>8, <1>9, <1>10, <1>11, <1>12, <1>13, <1>14, <1>15, <1>16, <1>17, <1>18, <1>19
     DEF Owner, InitSteps, DestroySteps, DeleteSteps

\* A parked worker is woken, or nothing happens.
LEMMA NotifyKeeps ==
    ASSUME TypeInv, NotifyOne
    PROVE  /\ workerPc' \in [Worker -> {"check", "parked", "call", "calling", "done"}]
           /\ \A w \in Worker : workerPc'[w] \in {"call", "calling"} => workerPc'[w] = workerPc[w]
  BY DEF TypeInv, ReceiverTypeOK, NotifyOne

LEMMA DispatchType ==
    ASSUME TypeInv, Dispatch
    PROVE  TypeInv'
<1>1. CASE UNCHANGED <<tasks, workerPc, met>>
  BY <1>1 DEF TypeInv, ReceiverTypeOK, Generations, InHand, Dispatched, Dispatch, RecvStep,
              NoDispatch, DispatchToNoReplyHandler, Enqueue, Use, End, life, sending
<1>2. CASE /\ tasks' = Append(tasks, Len(met) + 1)
           /\ met' = Append(met, handler.gen)
           /\ NotifyOne /\ Use
  <2>1. /\ met \in Seq(0..MaxCalls) /\ Len(met) \in Nat /\ Len(met) < MaxRequests
        /\ handler.gen \in 0..MaxCalls /\ tasks \in Seq(Dispatched) /\ tasks \in Seq(Requests)
    BY <1>2 DEF Dispatch, RecvStep, TypeInv, ReceiverTypeOK, InHand
  <2>2. met' \in Seq(0..MaxCalls) /\ Len(met') = Len(met) + 1 /\ Dispatched' = 1..Len(met) + 1
    BY <1>2, <2>1 DEF Dispatched
  <2>3. Dispatched \subseteq Dispatched' /\ Len(met) + 1 \in Dispatched' \cap Requests
    BY <2>1, <2>2, ReceiverAssumption DEF Dispatched, Requests
  <2>4. tasks' \in Seq(Dispatched') /\ tasks' \in Seq(Requests)
    <3>1. tasks \in Seq(Dispatched')
      BY <2>1, <2>3
    <3> QED
      BY <1>2, <2>1, <2>3, <3>1
  <2>5. InHand'
    BY <1>2, <2>3, <2>4, NotifyKeeps DEF InHand, TypeInv, Dispatch, RecvStep
  <2>6. Generations'
    BY DEF Generations, TypeInv, Dispatch, RecvStep
  <2>7. handled' \subseteq Dispatched' /\ dropped' \subseteq Dispatched'
    BY <2>3 DEF TypeInv, ReceiverTypeOK, Dispatch, RecvStep
  <2>8. Len(met') <= MaxRequests
    BY <2>1, <2>2, ReceiverAssumption
  <2>9. ended' \in {"no", "thrown", "assert", "wild", "terminate"}
    BY <1>2 DEF Use, TypeInv, ReceiverTypeOK
  <2> QED
    BY <2>2, <2>4, <2>5, <2>6, <2>7, <2>8, <2>9, NotifyKeeps, <1>2
       DEF TypeInv, ReceiverTypeOK, Dispatch, RecvStep, life, sending
<1> QED
  BY <1>1, <1>2 DEF Dispatch, DispatchToNoReplyHandler, Enqueue, NoDispatch

LEMMA ThreadType ==
    ASSUME TypeInv, PushRawData \/ Unplug \/ SendThread \/ RecvThread
    PROVE  TypeInv'
<1> USE ReceiverAssumption DEF TypeInv, ReceiverTypeOK, Generations, InHand, Dispatched, End,
        life, sending, recv, pool, setting, hist
<1>1. CASE PushRawData
  <2>1. m_sendQueue' \in Seq({"frame", "poison"})
    BY <1>1 DEF PushRawData
  <2> QED
    <3>1. InHand' /\ Generations' /\ calls' \in 0..MaxCalls
      BY <1>1 DEF PushRawData, MayCall
    <3> QED
      BY <1>1, <2>1, <3>1 DEF PushRawData
<1>2. CASE Unplug
  BY <1>2 DEF Unplug
<1>3. CASE SendCheck
  BY <1>3 DEF SendCheck, SendStep
<1>4. CASE SendPop
  BY <1>4 DEF SendPop, SendStep
<1>5. CASE SendWrite
  BY <1>5 DEF SendWrite, SendStep
<1>6. CASE SendDrain
  BY <1>6 DEF SendDrain, SendStep
<1>7. CASE RecvCheck
  BY <1>7 DEF RecvCheck, RecvStep, NoDispatch
<1>8. CASE RecvRead
  BY <1>8 DEF RecvRead, RecvStep, NoDispatch
<1>9. CASE RecvTimeout
  BY <1>9 DEF RecvTimeout, RecvStep, NoDispatch
<1>10. CASE RecvFrame
  BY <1>10 DEF RecvFrame, RecvStep, NoDispatch
<1>11. CASE HeaderByte
  BY <1>11 DEF HeaderByte, RecvStep, NoDispatch, GoTo, Use
<1>12. CASE BodyByte
  BY <1>12 DEF BodyByte, RecvStep, NoDispatch, GoTo, Use
<1>13. CASE OnReset
  <2>1. /\ recvPc' = "check" /\ running' \in Seq({"header", "body", "complete"})
        /\ ended' \in {"no", "thrown", "assert", "wild", "terminate"}
    BY <1>13 DEF OnReset, RecvStep, GoTo, Use
  <2>2. UNCHANGED <<life, port, frame, sending, tasks, workerPc, met, handler, setter, stop,
                    job, called, calls, handled, dropped, late>>
    BY <1>13 DEF OnReset, RecvStep, NoDispatch
  <2> QED
    BY <2>1, <2>2
<1> QED
  BY DispatchType, <1>1, <1>2, <1>3, <1>4, <1>5, <1>6, <1>7, <1>8, <1>9, <1>10, <1>11, <1>12, <1>13
     DEF SendThread, RecvThread

LEMMA WorkerKeeps ==
    ASSUME TypeInv, NEW w \in Worker, NEW from, NEW to, WorkerStep(w, from, to),
           to \in {"check", "parked", "call", "calling", "done"},
           tasks' \in Seq(Dispatched),
           job' \in [Worker -> Dispatched \cup {0}],
           \A v \in Worker \ {w} : job'[v] = job[v],
           to \in {"call", "calling"} => job'[w] \in Dispatched,
           called' \in [Worker -> 0..MaxCalls],
           handled' \subseteq Dispatched, dropped' \subseteq Dispatched,
           ended' \in {"no", "thrown", "assert", "wild", "terminate"}
    PROVE  TypeInv'
<1>1. /\ Dispatched' = Dispatched /\ UNCHANGED <<recvPc, met, handler, calls, setter>>
      /\ workerPc' = [workerPc EXCEPT ![w] = to]
  BY DEF WorkerStep, Dispatched, recv, setting
<1>2. /\ workerPc' \in [Worker -> {"check", "parked", "call", "calling", "done"}]
      /\ workerPc'[w] = to /\ \A v \in Worker \ {w} : workerPc'[v] = workerPc[v]
  BY <1>1 DEF TypeInv, ReceiverTypeOK
<1>3. Dispatched \subseteq Requests
  BY ReceiverAssumption DEF TypeInv, ReceiverTypeOK, Dispatched, Requests
<1>4. tasks' \in Seq(Requests) /\ job' \in [Worker -> Requests \cup {0}]
  BY <1>3
<1>5. InHand'
  <2>1. tasks' \in Seq(Dispatched')
    BY <1>1
  <2>2. \A v \in Worker : job'[v] \in Dispatched' \cup {0}
    BY <1>1
  <2>3. \A v \in Worker : workerPc'[v] \in {"call", "calling"} => job'[v] \in Dispatched'
    BY <1>1, <1>2 DEF TypeInv, InHand
  <2>4. recvPc' \in {"header", "body", "complete"} => Len(met') < MaxRequests
    BY <1>1 DEF TypeInv, InHand
  <2> QED
    BY <2>1, <2>2, <2>3, <2>4 DEF InHand
<1>6. Generations'
  BY <1>1 DEF TypeInv, Generations
<1>7. ReceiverTypeOK'
  BY <1>1, <1>2, <1>4 DEF TypeInv, ReceiverTypeOK, WorkerStep, life, sending, recv, setting
<1> QED
  BY <1>5, <1>6, <1>7 DEF TypeInv

LEMMA WorkerType ==
    ASSUME TypeInv, NEW w \in Worker, WorkerThread(w) \/ SpuriousWake(w)
    PROVE  TypeInv'
<1>1. /\ tasks \in Seq(Dispatched) /\ job \in [Worker -> Dispatched \cup {0}]
      /\ workerPc[w] \in {"call", "calling"} => job[w] \in Dispatched
      /\ called \in [Worker -> 0..MaxCalls] /\ handler.gen \in 0..MaxCalls
      /\ handled \subseteq Dispatched /\ dropped \subseteq Dispatched
      /\ ended \in {"no", "thrown", "assert", "wild", "terminate"}
  BY DEF TypeInv, ReceiverTypeOK, InHand
<1>2. 0 \in 0..MaxCalls
  BY ReceiverAssumption
<1>3. CASE TakeTask(w)
  <2>1. Head(tasks) \in Dispatched /\ Tail(tasks) \in Seq(Dispatched)
    BY <1>1, <1>3 DEF TakeTask
  <2> QED
    BY <1>1, <1>3, <2>1, WorkerKeeps DEF TakeTask
<1>4. CASE Park(w)
  BY <1>1, <1>4, WorkerKeeps DEF Park
<1>5. CASE SpuriousWake(w)
  BY <1>1, <1>5, WorkerKeeps DEF SpuriousWake
<1>6. CASE CallHandler(w)
  BY <1>1, <1>6, WorkerKeeps DEF CallHandler, End, WorkerStep
<1>7. CASE CallEmpty(w)
  BY <1>1, <1>2, <1>7, WorkerKeeps DEF CallEmpty, Idle, WorkerStep
<1>8. CASE HandlerReturns(w)
  BY <1>1, <1>2, <1>8, WorkerKeeps DEF HandlerReturns, Idle, WorkerStep
<1> QED
  BY <1>3, <1>4, <1>5, <1>6, <1>7, <1>8 DEF WorkerThread

LEMMA CallType ==
    ASSUME TypeInv, SetRequestHandler \/ Setter \/ UNCHANGED rvars
    PROVE  TypeInv'
<1>1. Dispatched' = Dispatched /\ InHand'
  BY DEF SetRequestHandler, Setter, SwapHandler, DropHandler, SetterStep, rvars, recv, pool, hist,
         TypeInv, InHand, Dispatched
<1>2. MaxCalls \in Nat /\ calls \in 0..MaxCalls /\ handler \in [gen : 0..MaxCalls, set : BOOLEAN]
  BY ReceiverAssumption DEF TypeInv, ReceiverTypeOK
<1>3. CASE SetRequestHandler
  BY <1>1, <1>2, <1>3 DEF SetRequestHandler, SetterStep, MayCall, TypeInv, ReceiverTypeOK, Generations,
                    life, sending, recv, pool
<1>4. CASE SwapHandler
  <2>1. handler' \in [gen : 0..MaxCalls, set : BOOLEAN] /\ Generations'
    BY <1>2, <1>4 DEF SwapHandler, SetterStep, TypeInv, Generations
  <2> QED
    BY <1>1, <1>4, <2>1 DEF SwapHandler, SetterStep, TypeInv, ReceiverTypeOK, life, sending, recv, pool
<1>5. CASE DropHandler
  BY <1>1, <1>5 DEF DropHandler, SetterStep, End, TypeInv, ReceiverTypeOK, Generations,
                    life, sending, recv, pool
<1>6. CASE UNCHANGED rvars
  BY <1>1, <1>6 DEF rvars, TypeInv, ReceiverTypeOK, Generations, life, sending, recv, pool, setting, hist
<1> QED
  BY <1>3, <1>4, <1>5, <1>6 DEF Setter

LEMMA NextType == TypeInv /\ [ReceiverNext]_rvars => TypeInv'
  BY OwnerType, ThreadType, WorkerType, CallType DEF ReceiverNext

LEMMA TypeInvHolds == ReceiverSpec => []TypeInv
  BY InitType, NextType, PTL DEF ReceiverSpec

\* Types, for every number of workers, requests and calls.
THEOREM ReceiverTypeCorrect == ReceiverSpec => []ReceiverTypeOK
<1>1. TypeInv => ReceiverTypeOK
  BY DEF TypeInv
<1> QED
  BY <1>1, TypeInvHolds, PTL

-----------------------------------------------------------------------------
(***************************************************************************)
(* Where a request is: each in one place, and each somewhere.              *)
(***************************************************************************)
InTasks == {tasks[n] : n \in 1..Len(tasks)}
Done    == handled \cup dropped

OnePlace ==
    /\ \A m, n \in 1..Len(tasks) : tasks[m] = tasks[n] => m = n
    /\ \A v, w \in Worker : job[v] = job[w] /\ job[v] # 0 => v = w
    /\ \A w \in Worker : job[w] \notin InTasks \cup Done
    /\ InTasks \cap Done = {} /\ handled \cap dropped = {}

Somewhere == \A r \in Dispatched : r \in InTasks \cup Done \/ \E w \in Worker : job[w] = r

EmptyHands == \A w \in Worker : workerPc[w] \notin {"call", "calling"} => job[w] = 0

KeptInv == OnePlace /\ Somewhere /\ EmptyHands

LEMMA InitKept == ReceiverInit => KeptInv
  BY DEF ReceiverInit, KeptInv, OnePlace, Somewhere, EmptyHands, InTasks, Done, Dispatched

\* Only four steps move a request.
LEMMA MovesOnly ==
    ASSUME TypeInv, [ReceiverNext]_rvars,
           ~\E w \in Worker : TakeTask(w) \/ CallEmpty(w) \/ HandlerReturns(w)
    PROVE  \/ UNCHANGED <<tasks, job, handled, dropped, met>>
           \/ /\ Dispatch
              /\ tasks' = Append(tasks, Len(met) + 1) /\ met' = Append(met, handler.gen)
              /\ UNCHANGED <<job, handled, dropped>>
<1>1. CASE Initialize \/ Destroy \/ Delete \/ Owner
  BY <1>1 DEF Initialize, Destroy, Delete, Owner, InitSteps, DestroySteps, DeleteSteps, AppStep,
       InitStates, StartSerialPort, StartSendThread, StartRecvThread, ClosePort, SetStopped,
       PushPoison, JoinSend, JoinRecv, DeleteShared, DeleteFsm, StopPool, JoinPool,
       DeleteHandler, DeleteThreads, pool, hist
<1>2. CASE PushRawData \/ Unplug \/ SendThread
  BY <1>2 DEF PushRawData, Unplug, SendThread, SendCheck, SendPop, SendWrite, SendDrain, SendStep,
       pool, hist
<1>3. CASE RecvThread
  BY <1>3 DEF RecvThread, RecvCheck, RecvRead, RecvTimeout, RecvFrame, HeaderByte, BodyByte,
       Dispatch, OnReset, DispatchToNoReplyHandler, Enqueue, RecvStep, NoDispatch
<1>4. CASE SetRequestHandler \/ Setter
  BY <1>4 DEF SetRequestHandler, Setter, SwapHandler, DropHandler, SetterStep, pool, hist
<1>5. ASSUME NEW w \in Worker, WorkerThread(w) \/ SpuriousWake(w)
      PROVE  UNCHANGED <<tasks, job, handled, dropped, met>>
  BY <1>5 DEF WorkerThread, Park, CallHandler, SpuriousWake, WorkerStep
<1>6. CASE UNCHANGED rvars
  BY <1>6 DEF rvars, pool, hist
<1> QED
  BY <1>1, <1>2, <1>3, <1>4, <1>5, <1>6 DEF ReceiverNext

\* A worker's hands are full only between its call and the handler's return.
LEMMA HandsKept ==
    ASSUME TypeInv, EmptyHands, [ReceiverNext]_rvars
    PROVE  EmptyHands'
<1> USE DEF EmptyHands, TypeInv, ReceiverTypeOK
<1>1. CASE Initialize \/ Destroy \/ Delete \/ Owner
  BY <1>1 DEF Initialize, Destroy, Delete, Owner, InitSteps, DestroySteps, DeleteSteps, AppStep,
       InitStates, StartSerialPort, StartSendThread, StartRecvThread, ClosePort, SetStopped,
       PushPoison, JoinSend, JoinRecv, DeleteShared, DeleteFsm, StopPool, JoinPool,
       DeleteHandler, DeleteThreads, pool, hist
<1>2. CASE PushRawData \/ Unplug \/ SendThread
  BY <1>2 DEF PushRawData, Unplug, SendThread, SendCheck, SendPop, SendWrite, SendDrain, SendStep,
       pool, hist
<1>3. CASE RecvThread
  BY <1>3 DEF RecvThread, RecvCheck, RecvRead, RecvTimeout, RecvFrame, HeaderByte, BodyByte,
       Dispatch, OnReset, DispatchToNoReplyHandler, Enqueue, NotifyOne, RecvStep, NoDispatch
<1>4. CASE SetRequestHandler \/ Setter
  BY <1>4 DEF SetRequestHandler, Setter, SwapHandler, DropHandler, SetterStep, pool, hist
<1>5. ASSUME NEW w \in Worker, WorkerThread(w) \/ SpuriousWake(w)
      PROVE  EmptyHands'
  BY <1>5 DEF WorkerThread, TakeTask, Park, CallHandler, CallEmpty, HandlerReturns, SpuriousWake,
              WorkerStep, Idle
<1>6. CASE UNCHANGED rvars
  BY <1>6 DEF rvars, pool, hist
<1> QED
  BY <1>1, <1>2, <1>3, <1>4, <1>5, <1>6 DEF ReceiverNext

LEMMA KeptByDispatch ==
    ASSUME TypeInv, KeptInv, Dispatch,
           tasks' = Append(tasks, Len(met) + 1), met' = Append(met, handler.gen),
           UNCHANGED <<job, handled, dropped>>
    PROVE  OnePlace' /\ Somewhere'
<1>1. /\ tasks \in Seq(Dispatched) /\ met \in Seq(0..MaxCalls) /\ Len(met) \in Nat
      /\ handled \subseteq Dispatched /\ dropped \subseteq Dispatched
      /\ \A w \in Worker : job[w] \in Dispatched \cup {0}
      /\ handler.gen \in 0..MaxCalls
  BY DEF TypeInv, ReceiverTypeOK, InHand
<1> DEFINE r == Len(met) + 1
<1>2. r \notin Dispatched \cup {0} /\ Dispatched' = Dispatched \cup {r}
  BY <1>1 DEF Dispatched
<1>3. /\ Len(tasks) \in Nat /\ Len(tasks') = Len(tasks) + 1
      /\ \A n \in 1..Len(tasks) : tasks'[n] = tasks[n] /\ tasks[n] \in Dispatched
      /\ tasks'[Len(tasks) + 1] = r
  <2>1. \A n \in 1..Len(tasks) : tasks[n] \in Dispatched
    BY <1>1
  <2> QED
    BY <1>1, <2>1
<1> HIDE DEF r
<1>4. InTasks' = InTasks \cup {r} /\ InTasks \subseteq Dispatched
  <2>1. 1..Len(tasks') = 1..Len(tasks) \cup {Len(tasks) + 1}
    BY <1>3
  <2> QED
    BY <1>3, <2>1 DEF InTasks
<1>5. Done' = Done /\ Done \subseteq Dispatched
  BY <1>1 DEF Done
<1>6. \A m, n \in 1..Len(tasks') : tasks'[m] = tasks'[n] => m = n
  BY <1>2, <1>3 DEF KeptInv, OnePlace
<1>7. OnePlace'
  BY <1>1, <1>2, <1>4, <1>5, <1>6 DEF KeptInv, OnePlace
<1>8. Somewhere'
  BY <1>2, <1>4, <1>5 DEF KeptInv, Somewhere
<1> QED
  BY <1>7, <1>8

LEMMA KeptByTake ==
    ASSUME TypeInv, KeptInv, NEW w \in Worker, TakeTask(w)
    PROVE  OnePlace' /\ Somewhere'
<1>1. /\ tasks \in Seq(Dispatched) /\ tasks # <<>> /\ tasks' = Tail(tasks)
      /\ job \in [Worker -> Requests \cup {0}] /\ job' = [job EXCEPT ![w] = Head(tasks)]
      /\ job[w] = 0 /\ UNCHANGED <<handled, dropped, met>>
  BY DEF TakeTask, WorkerStep, TypeInv, ReceiverTypeOK, InHand, KeptInv, EmptyHands
<1>2. /\ Len(tasks) \in Nat \ {0} /\ Len(tasks') = Len(tasks) - 1 /\ Head(tasks) = tasks[1]
      /\ \A n \in 1..Len(tasks') : tasks'[n] = tasks[n + 1]
  BY <1>1
<1>3. tasks[1] \in Dispatched /\ 0 \notin Dispatched
  <2>1. 1 \in 1..Len(tasks)
    BY <1>2
  <2> QED
    BY <1>1, <2>1 DEF Dispatched
<1>4. \A m, n \in 1..Len(tasks') : tasks'[m] = tasks'[n] => m = n
  BY <1>2 DEF KeptInv, OnePlace
<1>5. InTasks = InTasks' \cup {tasks[1]} /\ tasks[1] \notin InTasks'
  <2>1. \A n \in 1..Len(tasks') : n + 1 \in 1..Len(tasks) /\ n + 1 # 1
    BY <1>2
  <2>2. \A n \in 1..Len(tasks) : n = 1 \/ (n - 1 \in 1..Len(tasks') /\ tasks[n] = tasks'[n - 1])
    BY <1>2
  <2>3. 1 \in 1..Len(tasks)
    BY <1>2
  <2>4. InTasks' \cup {tasks[1]} \subseteq InTasks
    BY <1>2, <2>1, <2>3 DEF InTasks
  <2>5. InTasks \subseteq InTasks' \cup {tasks[1]}
    BY <2>2 DEF InTasks
  <2>6. tasks[1] \notin InTasks'
    BY <1>2, <2>1, <2>3 DEF InTasks, KeptInv, OnePlace
  <2> QED
    BY <2>4, <2>5, <2>6
<1>6. Done' = Done /\ Dispatched' = Dispatched
  BY <1>1 DEF Done, Dispatched
<1>7. job'[w] = tasks[1] /\ \A v \in Worker \ {w} : job'[v] = job[v]
  BY <1>1, <1>2
<1>8. OnePlace'
  BY <1>1, <1>3, <1>4, <1>5, <1>6, <1>7 DEF KeptInv, OnePlace
<1>9. Somewhere'
  BY <1>1, <1>3, <1>5, <1>6, <1>7 DEF KeptInv, Somewhere
<1> QED
  BY <1>8, <1>9

LEMMA KeptByEnd ==
    ASSUME TypeInv, KeptInv, NEW w \in Worker, CallEmpty(w) \/ HandlerReturns(w)
    PROVE  OnePlace' /\ Somewhere'
<1>1. /\ job \in [Worker -> Requests \cup {0}] /\ job' = [job EXCEPT ![w] = 0]
      /\ UNCHANGED <<tasks, met>> /\ job[w] \in Dispatched
      /\ \/ handled' = handled \cup {job[w]} /\ dropped' = dropped
         \/ handled' = handled /\ dropped' = dropped \cup {job[w]}
  BY DEF CallEmpty, HandlerReturns, WorkerStep, Idle, TypeInv, ReceiverTypeOK, InHand
<1>2. job'[w] = 0 /\ \A v \in Worker \ {w} : job'[v] = job[v]
  BY <1>1
<1>3. InTasks' = InTasks /\ Dispatched' = Dispatched /\ Done' = Done \cup {job[w]}
  BY <1>1 DEF InTasks, Done, Dispatched
<1>4. 0 \notin InTasks \cup Done'
  <2>1. InTasks \subseteq Dispatched
    <3>1. \A n \in 1..Len(tasks) : tasks[n] \in Dispatched
      BY DEF TypeInv, InHand
    <3> QED
      BY <3>1 DEF InTasks
  <2>2. Done \subseteq Dispatched /\ 0 \notin Dispatched
    BY DEF TypeInv, ReceiverTypeOK, Done, Dispatched
  <2> QED
    BY <1>1, <1>3, <2>1, <2>2
<1>5. job[w] # 0
  BY <1>1 DEF Dispatched
<1>6. OnePlace'
  <2>1. \A m, n \in 1..Len(tasks') : tasks'[m] = tasks'[n] => m = n
    BY <1>1 DEF KeptInv, OnePlace
  <2>2. handled' \cap dropped' = {} /\ InTasks' \cap Done' = {}
    BY <1>1, <1>3 DEF KeptInv, OnePlace, Done
  <2>3. \A v \in Worker : job'[v] \notin InTasks' \cup Done'
    BY <1>2, <1>3, <1>4, <1>5 DEF KeptInv, OnePlace
  <2>4. \A u, v \in Worker : job'[u] = job'[v] /\ job'[u] # 0 => u = v
    BY <1>2 DEF KeptInv, OnePlace
  <2> QED
    BY <2>1, <2>2, <2>3, <2>4 DEF OnePlace
<1>7. Somewhere'
  BY <1>2, <1>3 DEF KeptInv, Somewhere
<1> QED
  BY <1>6, <1>7

LEMMA NextKept == TypeInv /\ KeptInv /\ [ReceiverNext]_rvars => KeptInv'
<1> SUFFICES ASSUME TypeInv, KeptInv, [ReceiverNext]_rvars
             PROVE  KeptInv'
  OBVIOUS
<1>1. EmptyHands'
  BY HandsKept DEF KeptInv
<1>2. OnePlace' /\ Somewhere'
  <2>1. CASE UNCHANGED <<tasks, job, handled, dropped, met>>
    BY <2>1 DEF KeptInv, OnePlace, Somewhere, InTasks, Done, Dispatched
  <2> QED
    BY <2>1, MovesOnly, KeptByDispatch, KeptByTake, KeptByEnd
<1> QED
  BY <1>1, <1>2 DEF KeptInv

-----------------------------------------------------------------------------
(***************************************************************************)
(* The handler a request meets.                                            *)
(***************************************************************************)
\* No call of set_request_handler since the first dispatch: none is under way,
\* and the handler is the one of every dispatch.
SameHandler ==
    met # <<>> /\ ~late => /\ setter = "idle" /\ handler.set
                           /\ \A r \in Dispatched : met[r] = handler.gen

CalledSame == ~late => \A w \in Worker : workerPc[w] = "calling" => called[w] = handler.gen

MetInv == SameHandler /\ CalledSame /\ (dropped # {} => late)

LEMMA InitMet == ReceiverInit => MetInv
  BY DEF ReceiverInit, MetInv, SameHandler, CalledSame

\* A worker that has a request was given it by a dispatch.
LEMMA GivenByDispatch ==
    ASSUME TypeInv, NEW w \in Worker, workerPc[w] \in {"call", "calling"}
    PROVE  met # <<>> /\ job[w] \in Dispatched
<1>1. job[w] \in 1..Len(met) /\ met \in Seq(0..MaxCalls)
  BY DEF TypeInv, InHand, ReceiverTypeOK, Dispatched
<1> QED
  BY <1>1 DEF Dispatched

LEMMA QuietMet ==
    ASSUME TypeInv, MetInv,
           \/ Initialize \/ Destroy \/ Delete \/ Owner
           \/ PushRawData \/ Unplug \/ SendThread \/ UNCHANGED rvars
    PROVE  MetInv'
<1>1. /\ UNCHANGED <<met, late, setter, handler, dropped, called>>
      /\ \A w \in Worker : workerPc'[w] = "calling" => workerPc[w] = "calling"
  <2>1. CASE Initialize \/ Destroy \/ Delete \/ Owner
    BY <2>1 DEF Initialize, Destroy, Delete, Owner, InitSteps, DestroySteps, DeleteSteps,
         AppStep, InitStates, StartSerialPort, StartSendThread, StartRecvThread, ClosePort,
         SetStopped, PushPoison, JoinSend, JoinRecv, DeleteShared, DeleteFsm, StopPool, JoinPool,
         DeleteHandler, DeleteThreads, pool, hist, setting
  <2>2. CASE PushRawData \/ Unplug \/ SendThread \/ UNCHANGED rvars
    BY <2>2 DEF PushRawData, Unplug, SendThread, SendCheck, SendPop, SendWrite, SendDrain,
         SendStep, pool, hist, setting, rvars
  <2> QED
    BY <2>1, <2>2
<1> QED
  BY <1>1 DEF MetInv, SameHandler, CalledSame, Dispatched

LEMMA RecvMet ==
    ASSUME TypeInv, MetInv, RecvThread
    PROVE  MetInv'
<1>1. /\ UNCHANGED <<late, setter, handler, dropped, called>>
      /\ \A w \in Worker : workerPc'[w] = "calling" => workerPc[w] = "calling"
  BY DEF RecvThread, RecvCheck, RecvRead, RecvTimeout, RecvFrame, HeaderByte, BodyByte,
       Dispatch, OnReset, DispatchToNoReplyHandler, Enqueue, NotifyOne, RecvStep, NoDispatch, TypeInv, ReceiverTypeOK
<1>2. SameHandler'
  <2>1. CASE met' = met
    BY <1>1, <2>1 DEF MetInv, SameHandler, Dispatched
  <2>2. CASE met' # met
    <3>1. /\ frame # "other" /\ handler.set /\ setter = "idle"
          /\ met' = Append(met, handler.gen)
      BY <2>2 DEF RecvThread, RecvCheck, RecvRead, RecvTimeout, RecvFrame, HeaderByte, BodyByte,
           Dispatch, OnReset, DispatchToNoReplyHandler, Enqueue, RecvStep, NoDispatch
    <3>2. met \in Seq(0..MaxCalls) /\ Len(met) \in Nat /\ handler.gen \in 0..MaxCalls
      BY DEF TypeInv, ReceiverTypeOK
    <3>3. Len(met') = Len(met) + 1 /\ met'[Len(met) + 1] = handler.gen
          /\ \A r \in 1..Len(met) : met'[r] = met[r]
      BY <3>1, <3>2
    <3>4. ~late => \A r \in 1..Len(met) : met[r] = handler.gen
      BY <3>2 DEF MetInv, SameHandler, Dispatched
    <3>5. ~late => \A r \in 1..Len(met') : met'[r] = handler.gen
      BY <3>2, <3>3, <3>4
    <3> QED
      BY <1>1, <3>1, <3>5 DEF SameHandler, Dispatched
  <2> QED
    BY <2>1, <2>2
<1> QED
  BY <1>1, <1>2 DEF MetInv, CalledSame

LEMMA SetterMet ==
    ASSUME TypeInv, MetInv, SetRequestHandler \/ Setter
    PROVE  MetInv'
<1>1. UNCHANGED <<met, dropped, called, workerPc>>
  BY DEF SetRequestHandler, Setter, SwapHandler, DropHandler, SetterStep, pool
<1>2. CASE SetRequestHandler
  <2>1. late' = (late \/ met # <<>>) /\ handler' = handler
    BY <1>2 DEF SetRequestHandler
  <2>2. ~late' => ~late /\ met = <<>>
    BY <2>1, Zenon
  <2>3. SameHandler' /\ CalledSame'
    BY <1>1, <2>1, <2>2 DEF MetInv, SameHandler, CalledSame
  <2>4. dropped' # {} => late'
    <3>1. dropped # {} => late
      BY DEF MetInv
    <3>2. dropped' = dropped
      BY <1>1
    <3> QED
      BY <2>1, <3>1, <3>2, Zenon
  <2> QED
    BY <2>3, <2>4 DEF MetInv
<1>3. CASE SwapHandler
  <2>1. ~late => met = <<>>
    BY <1>3 DEF SwapHandler, SetterStep, MetInv, SameHandler
  <2>2. late' = late
    BY <1>3 DEF SwapHandler
  <2>3. ~late => \A w \in Worker : workerPc[w] # "calling"
    BY <2>1, GivenByDispatch
  <2> QED
    BY <1>1, <2>1, <2>2, <2>3 DEF MetInv, SameHandler, CalledSame, Dispatched
<1>4. CASE DropHandler
  BY <1>1, <1>4 DEF DropHandler, SetterStep, MetInv, SameHandler, CalledSame, Dispatched
<1> QED
  BY <1>2, <1>3, <1>4 DEF Setter

LEMMA WorkerMet ==
    ASSUME TypeInv, MetInv, NEW w \in Worker, WorkerThread(w) \/ SpuriousWake(w)
    PROVE  MetInv'
<1>1. UNCHANGED <<met, late, handler, setter>>
  BY DEF WorkerThread, TakeTask, Park, CallHandler, CallEmpty, HandlerReturns, SpuriousWake,
         WorkerStep, setting
<1>2. SameHandler'
  BY <1>1 DEF MetInv, SameHandler, Dispatched
<1>3. CalledSame'
  BY <1>1 DEF MetInv, CalledSame, WorkerThread, TakeTask, Park, CallHandler, CallEmpty,
         HandlerReturns, SpuriousWake, WorkerStep, Idle, TypeInv, ReceiverTypeOK
<1>4. dropped' # {} => late'
  <2>1. CASE CallEmpty(w)
    <3>1. ~handler.set /\ met # <<>>
      BY <2>1, GivenByDispatch DEF CallEmpty, WorkerStep
    <3> QED
      BY <1>1, <3>1 DEF MetInv, SameHandler
  <2>2. CASE ~CallEmpty(w)
    BY <1>1, <2>2 DEF MetInv, WorkerThread, TakeTask, Park, CallHandler, HandlerReturns,
           SpuriousWake
  <2> QED
    BY <2>1, <2>2
<1> QED
  BY <1>2, <1>3, <1>4 DEF MetInv

LEMMA NextMet == TypeInv /\ MetInv /\ [ReceiverNext]_rvars => MetInv'
  BY QuietMet, RecvMet, SetterMet, WorkerMet DEF ReceiverNext

-----------------------------------------------------------------------------
LEMMA RequestInvHolds == ReceiverSpec => [](TypeInv /\ KeptInv /\ MetInv)
<1>1. ReceiverInit => TypeInv /\ KeptInv /\ MetInv
  BY InitType, InitKept, InitMet
<1>2. TypeInv /\ KeptInv /\ MetInv /\ [ReceiverNext]_rvars => (TypeInv /\ KeptInv /\ MetInv)'
  BY NextType, NextKept, NextMet
<1> QED
  BY <1>1, <1>2, PTL DEF ReceiverSpec

\* One place makes the three counts of RequestsKept add up to one.
LEMMA OneOfThree ==
    ASSUME TypeInv, KeptInv, NEW r \in Dispatched
    PROVE  Cardinality(Queued(r)) + Cardinality(Held(r)) + Cardinality(Closed(r)) = 1
<1>1. r # 0
  BY DEF Dispatched
<1>2. Queued(r) = {} \/ \E n \in 1..Len(tasks) : Queued(r) = {n}
  BY DEF KeptInv, OnePlace, Queued
<1>3. Held(r) = {} \/ \E w \in Worker : Held(r) = {w}
  BY <1>1 DEF KeptInv, OnePlace, Held
<1>4. Closed(r) = {} \/ \E s \in {handled, dropped} : Closed(r) = {s}
  <2>1. ~(r \in handled /\ r \in dropped)
    BY DEF KeptInv, OnePlace
  <2> QED
    BY <2>1 DEF Closed
<1>5. r \in InTasks <=> Queued(r) # {}
  BY DEF InTasks, Queued
<1>6. r \in Done <=> Closed(r) # {}
  BY DEF Done, Closed
<1>7. (\E w \in Worker : job[w] = r) <=> Held(r) # {}
  BY DEF Held
<1>8. \/ Queued(r) # {} /\ Held(r) = {} /\ Closed(r) = {}
      \/ Queued(r) = {} /\ Held(r) # {} /\ Closed(r) = {}
      \/ Queued(r) = {} /\ Held(r) = {} /\ Closed(r) # {}
  BY <1>5, <1>6, <1>7 DEF KeptInv, OnePlace, Somewhere
<1>9. /\ Queued(r) # {} => Cardinality(Queued(r)) = 1
      /\ Held(r) # {} => Cardinality(Held(r)) = 1
      /\ Closed(r) # {} => Cardinality(Closed(r)) = 1
  BY <1>2, <1>3, <1>4, FS_Singleton
<1>10. Cardinality({}) = 0
  BY FS_EmptySet
<1> QED
  BY <1>8, <1>9, <1>10

\* No request is lost or handled twice, whatever the pool, the owner of the
\* object and set_request_handler do, for every number of workers and requests.
THEOREM RequestsKeptHolds == ReceiverSpec => []RequestsKept
<1>1. TypeInv /\ KeptInv /\ MetInv => RequestsKept
  BY OneOfThree DEF RequestsKept, MetInv
<1> QED
  BY <1>1, RequestInvHolds, PTL

\* Without a late call of set_request_handler each request is handled by the
\* function it met at its dispatch.
THEOREM HandlerAsMetHolds == ReceiverSpec => []HandlerAsMet
<1>1. TypeInv /\ MetInv => HandlerAsMet
  BY GivenByDispatch DEF HandlerAsMet, MetInv, SameHandler, CalledSame
<1> QED
  BY <1>1, RequestInvHolds, PTL

-----------------------------------------------------------------------------
(***************************************************************************)
(* What is used is there.                                                  *)
(***************************************************************************)
AfterFsm == {"stopPool", "joinPool", "handler", "threads", "sessions"}

\* The shared data live as long as the state machine, up to the destructor; a
\* link layer whose threads were started had both.
PartsThere ==
    /\ "fsm" \in alive => "shared" \in alive \/ app \in DeleteLabels
    /\ sendPc # "none" => "fsm" \in alive \/ app \in AfterFsm

\* The third part of NothingUsedAfterDelete.
WildOnlyByMisuse == ended = "wild" => Misused

WildInv == PartsThere /\ WildOnlyByMisuse

LEMMA DeletingLabels == Deleting <=> app \in DeleteLabels
<1>1. Len(DeleteOrder) = 7
  BY DEF DeleteOrder
<1>2. \A i \in 1..7 : i = 1 \/ i = 2 \/ i = 3 \/ i = 4 \/ i = 5 \/ i = 6 \/ i = 7
  OBVIOUS
<1>3. \A i \in 1..7 : DeleteOrder[i] \in DeleteLabels
  BY <1>2 DEF DeleteOrder, DeleteLabels
<1>4. \A l \in DeleteLabels : \E i \in 1..7 : l = DeleteOrder[i]
  <2>1. /\ DeleteOrder[1] = "shared" /\ DeleteOrder[2] = "fsm" /\ DeleteOrder[3] = "stopPool"
        /\ DeleteOrder[4] = "joinPool" /\ DeleteOrder[5] = "handler"
        /\ DeleteOrder[6] = "threads" /\ DeleteOrder[7] = "sessions"
    BY DEF DeleteOrder
  <2> QED
    BY <2>1 DEF DeleteLabels
<1> QED
  BY <1>1, <1>3, <1>4 DEF Deleting

LEMMA DeletingLabelsNext == Deleting' <=> app' \in DeleteLabels
<1> DEFINE G == Deleting <=> app \in DeleteLabels
<1>1. G
  BY DeletingLabels
<1> HIDE DEF G
<1>2. G'
  BY <1>1, DeletingLabels, PTL DEF G
<1> QED
  BY <1>2 DEF G, DeleteLabels

\* The thread that owns the object.
LEMMA OwnerWild ==
    ASSUME LifeInv, WildInv, Initialize \/ Destroy \/ Delete \/ Owner
    PROVE  WildInv'
<1> USE FirstLabelled DEF PartsThere, AfterFsm, DeleteLabels, Alive, At, End, AppStep, sending,
        recv, pool, setting, hist
<1>1. PartsThere /\ Alive
  BY DEF WildInv, Initialize, Destroy, Delete, Owner, InitSteps, DestroySteps, DeleteSteps,
       InitStates, StartSerialPort, StartSendThread, StartRecvThread, ClosePort, SetStopped,
       PushPoison, JoinSend, JoinRecv, DeleteShared, DeleteFsm, StopPool, JoinPool,
       DeleteHandler, DeleteThreads
<1>2. PartsThere'
  <2>1. CASE Initialize \/ Destroy \/ Delete
    BY <1>1, <2>1, NextLabel DEF Initialize, Destroy, Delete
  <2>2. CASE InitSteps
    BY <1>1, <2>2, NextLabel DEF InitSteps, InitStates, StartSerialPort, StartSendThread,
         StartRecvThread, LifeInv, StateFollows
  <2>3. CASE DestroySteps
    BY <1>1, <2>3, NextLabel DEF DestroySteps, ClosePort, SetStopped, PushPoison, JoinSend,
         JoinRecv
  <2>4. CASE DeleteSteps
    BY <1>1, <2>4, NextLabel DEF DeleteSteps, DeleteShared, DeleteFsm, StopPool, JoinPool,
         DeleteHandler, DeleteThreads
  <2> QED
    BY <2>1, <2>2, <2>3, <2>4 DEF Owner
<1>3. WildOnlyByMisuse'
  <2>1. CASE DeleteShared
    <3>1. app' = "fsm" /\ UNCHANGED <<sendPc, joinable, late>>
      BY <2>1, NextLabel DEF DeleteShared
    <3>2. ended' = "wild" => sendPc' = "none"
      BY <1>1, <2>1, <3>1 DEF DeleteShared
    <3> QED
      BY <3>1, <3>2, DeletingLabelsNext DEF WildOnlyByMisuse, Misused
  <2>2. CASE ~DeleteShared
    <3>1. ended' # "wild"
      BY <1>1, <2>2 DEF Initialize, Destroy, Delete, Owner, InitSteps, DestroySteps, DeleteSteps,
           InitStates, StartSerialPort, StartSendThread, StartRecvThread, ClosePort, SetStopped,
           PushPoison, JoinSend, JoinRecv, DeleteFsm, StopPool, JoinPool, DeleteHandler,
           DeleteThreads
    <3> QED
      BY <3>1 DEF WildOnlyByMisuse, Misused
  <2> QED
    BY <2>1, <2>2
<1> QED
  BY <1>2, <1>3 DEF WildInv

\* The send and the receive thread: they use what a running thread finds.
LEMMA ThreadWild ==
    ASSUME LifeInv, WildInv, SendThread \/ RecvThread
    PROVE  WildInv'
<1>1. UNCHANGED <<app, alive, joinable, late>> /\ ended = "no"
  BY DEF SendThread, SendCheck, SendPop, SendWrite, SendDrain, SendStep, RecvThread, RecvCheck,
       RecvRead, RecvTimeout, RecvFrame, HeaderByte, BodyByte, Dispatch, OnReset, RecvStep,
       life, hist, Alive
<1>2. sendPc' = sendPc \/ sendPc # "none"
  BY DEF SendThread, SendCheck, SendPop, SendWrite, SendDrain, SendStep, RecvThread, RecvCheck,
       RecvRead, RecvTimeout, RecvFrame, HeaderByte, BodyByte, Dispatch, OnReset, RecvStep,
       sending
<1>3. PartsThere'
  BY <1>1, <1>2 DEF WildInv, PartsThere
<1>4. CASE SendThread
  <2>1. ended' # "wild"
    BY <1>1, <1>4 DEF SendThread, SendCheck, SendPop, SendWrite, SendDrain, End
  <2> QED
    BY <1>3, <2>1 DEF WildInv, WildOnlyByMisuse, Misused
<1>5. CASE RecvThread
  <2>1. ended' = "wild" => /\ recvPc \in {"header", "body", "complete", "reset"}
                           /\ stop \/ ~({"fsm", "shared"} \subseteq alive)
    BY <1>1, <1>5 DEF RecvThread, RecvCheck, RecvRead, RecvTimeout, RecvFrame, HeaderByte,
         BodyByte, Dispatch, DispatchToNoReplyHandler, Enqueue, OnReset, RecvStep, Use, End
  <2>2. ended' = "wild" => app \in DeleteLabels /\ "recv" \in joinable
    BY <2>1 DEF LifeInv, StateFollows, Joinable, PoolFirst, DeleteLabels, WildInv, PartsThere
  <2>3. WildOnlyByMisuse'
    BY <1>1, <2>2, DeletingLabelsNext DEF WildOnlyByMisuse, Misused
  <2> QED
    BY <1>3, <2>3 DEF WildInv
<1> QED
  BY <1>4, <1>5

\* The threads of the pool, and set_request_handler.
LEMMA WorkerWild ==
    ASSUME TypeInv, LifeInv, MetInv, WildInv, NEW w \in Worker, WorkerThread(w) \/ SpuriousWake(w)
    PROVE  WildInv'
<1>1. UNCHANGED <<app, alive, joinable, sendPc, late>> /\ ended = "no"
  BY DEF WorkerThread, TakeTask, Park, CallHandler, CallEmpty, HandlerReturns, SpuriousWake,
         WorkerStep, life, sending, Alive
<1>2. ended' = "wild" => late
  <2>1. CASE CallHandler(w)
    <3>1. workerPc[w] = "call" /\ (ended' = "wild" => setter = "swap" \/ "handler" \notin alive)
      BY <1>1, <2>1 DEF CallHandler, WorkerStep, End
    <3>2. "handler" \in alive
      BY <3>1 DEF LifeInv, PoolFirst
    <3>3. met # <<>>
      BY <3>1, GivenByDispatch
    <3> QED
      BY <3>1, <3>2, <3>3 DEF MetInv, SameHandler
  <2>2. CASE ~CallHandler(w)
    BY <1>1, <2>2 DEF WorkerThread, TakeTask, Park, CallEmpty, HandlerReturns, SpuriousWake
  <2> QED
    BY <2>1, <2>2
<1> QED
  BY <1>1, <1>2 DEF WildInv, PartsThere, WildOnlyByMisuse, Misused

LEMMA CallWild ==
    ASSUME TypeInv, MetInv, WildInv,
           PushRawData \/ Unplug \/ SetRequestHandler \/ Setter \/ UNCHANGED rvars
    PROVE  WildInv'
<1>1. /\ UNCHANGED <<app, alive, joinable, sendPc>> /\ (late => late')
      /\ ~DropHandler => ended' = ended
  <2>1. CASE SetRequestHandler
    <3>1. UNCHANGED <<app, alive, joinable, sendPc, ended>> /\ late' = (late \/ met # <<>>)
      BY <2>1 DEF SetRequestHandler, SetterStep, life, sending
    <3>2. late => late'
      BY <3>1, Zenon
    <3> QED
      BY <3>1, <3>2
  <2>2. CASE PushRawData \/ Unplug \/ Setter \/ UNCHANGED rvars
    BY <2>2 DEF PushRawData, Unplug, Setter, SwapHandler, DropHandler, SetterStep,
         life, sending, hist, rvars
  <2> QED
    BY <2>1, <2>2
<1>2. CASE DropHandler
  <2>1. \A w \in Worker : called[w] \in Int /\ handler.gen \in Int
    BY DEF TypeInv, ReceiverTypeOK
  <2>2. ended = "no" /\ late' = late
    BY <1>2 DEF DropHandler, SetterStep, Alive
  <2>3. ended' = "wild" => \E w \in Worker : workerPc[w] = "calling" /\ called[w] < handler.gen
    BY <1>2, <2>2 DEF DropHandler
  <2>4. ended' = "wild" => late
    BY <2>1, <2>3 DEF MetInv, CalledSame
  <2> QED
    BY <1>1, <2>2, <2>4 DEF WildInv, PartsThere, WildOnlyByMisuse, Misused
<1>3. CASE ~DropHandler
  <2>1. UNCHANGED <<app, alive, joinable, sendPc, ended>> /\ (late => late')
    BY <1>1, <1>3
  <2>2. Deleting' <=> Deleting
    BY <2>1 DEF Deleting
  <2> QED
    BY <2>1, <2>2 DEF WildInv, PartsThere, WildOnlyByMisuse, Misused
<1> QED
  BY <1>2, <1>3

\* After a destroy neither thread of the link layer runs while the object is
\* deleted, and the pool has ended before its handler goes.  As long as destroy
\* comes before the destructor and set_request_handler before the first request,
\* no thread uses what is gone or changes, in any order of their steps, for every
\* number of workers and requests.
THEOREM NothingUsedAfterDeleteHolds == ReceiverSpec => []NothingUsedAfterDelete
<1>1. ReceiverInit => WildInv
  BY DEF ReceiverInit, WildInv, PartsThere, WildOnlyByMisuse, Misused
<1>2. TypeInv /\ MetInv /\ LifeInv /\ WildInv /\ [ReceiverNext]_rvars => WildInv'
  BY OwnerWild, ThreadWild, WorkerWild, CallWild DEF ReceiverNext
<1>3. LifeInv /\ WildInv => NothingUsedAfterDelete
  BY DEF LifeInv, Joinable, PoolFirst, WildInv, WildOnlyByMisuse, NothingUsedAfterDelete
<1> QED
  BY <1>1, <1>2, <1>3, LifeInvHolds, RequestInvHolds, PTL DEF ReceiverSpec
=============================================================================
