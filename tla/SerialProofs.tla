---------------------------- MODULE SerialProofs ----------------------------
(***************************************************************************)
(* The port for any number of threads, calls and bytes, on both platforms: *)
(* the locks exclude and never block each other, the bytes of a write are  *)
(* not mixed with another's, those of a read are consecutive, a wait that  *)
(* is over keeps its promise, every field has its type, and the object     *)
(* holds one descriptor with the settings that were stored.                *)
(***************************************************************************)
EXTENDS Serial, SequenceTheorems, FiniteSetTheorems, TLAPS

-----------------------------------------------------------------------------
(***************************************************************************)
(* The locks a call needs.                                                 *)
(***************************************************************************)
LEMMA LocksOf ==
    ASSUME NEW c
    PROVE  \/ Locks(c) = <<"read">> /\ c \in Reads \cup {"flushInput"}
           \/ Locks(c) = <<"write">> /\ c \in {"write", "flushOutput"}
           \/ Locks(c) = <<"read", "write">> /\ c \in {"setPort", "flush"}
           \/ Locks(c) = <<>> /\ c \notin Reads \cup {"flushInput", "write", "flushOutput",
                                                      "setPort", "flush"}
<1>1. CASE c \in Reads \cup {"flushInput"}
  <2>1. c \notin {"write", "flushOutput"} /\ c \notin {"setPort", "flush"}
    BY <1>1 DEF Reads
  <2> QED
    BY <1>1, <2>1, Zenon DEF Locks
<1>2. CASE c \in {"write", "flushOutput"}
  <2>1. c \notin Reads \cup {"flushInput"}
    BY <1>2 DEF Reads
  <2> QED
    BY <1>2, <2>1, Zenon DEF Locks
<1>3. CASE c \in {"setPort", "flush"}
  <2>1. c \notin Reads \cup {"flushInput"} /\ c \notin {"write", "flushOutput"}
    BY <1>3 DEF Reads
  <2> QED
    BY <1>3, <2>1, Zenon DEF Locks
<1>4. CASE c \notin Reads \cup {"flushInput", "write", "flushOutput", "setPort", "flush"}
  <2>1. /\ c \notin Reads \cup {"flushInput"} /\ c \notin {"write", "flushOutput"}
        /\ c \notin {"setPort", "flush"}
    BY <1>4
  <2> QED
    BY <1>4, <2>1, Zenon DEF Locks
<1> QED
  BY <1>1, <1>2, <1>3, <1>4

Needs(c) ==
    {m \in Mutex : \/ m = "read" /\ c \in Reads \cup {"flushInput", "setPort", "flush"}
                   \/ m = "write" /\ c \in {"write", "flushOutput", "setPort", "flush"}}

\* Where a call is that has its locks.
Working == {"body", "readLoop", "readNow", "writeLoop", "writeNow", "draining", "openFd",
            "configure", "apply", "closeFd", "clearFd", "clearOpen"}

ControlOK ==
    /\ lock \in [Mutex -> Thread \cup {None}]
    /\ pc \in [Thread -> Working \cup {"idle", "lock"}]
    /\ op \in [Thread -> Ops \cup {"none", "construct", "destroy"}]

\* A call at work has exactly the locks it needs; one that waits for a lock has
\* at most the read lock, and that only if it needs both.
LocksHeld ==
    \A t \in Thread : \A m \in Mutex :
        /\ pc[t] \in Working => (lock[m] = t <=> m \in Needs(op[t]))
        /\ pc[t] = "idle" => lock[m] # t
        /\ pc[t] = "lock" => /\ Needs(op[t]) # {}
                             /\ lock[m] = t => m = "read" /\ Needs(op[t]) = Mutex

LockInv == ControlOK /\ LocksHeld

-----------------------------------------------------------------------------
(***************************************************************************)
(* What a step does to the control of its thread.                          *)
(***************************************************************************)
Leaves(t) ==
    /\ pc' = [pc EXCEPT ![t] = "idle"] /\ Unlock(t)
    /\ op' = [op EXCEPT ![t] = "none"]
    /\ got' = [got EXCEPT ![t] = <<>>] /\ count' = [count EXCEPT ![t] = 0]

Stays(t) ==
    /\ UNCHANGED lock
    /\ \E l \in Working : pc' = [pc EXCEPT ![t] = l]
    /\ op' = op \/ (op[t] = "construct" /\ op' = [op EXCEPT ![t] = "set"])

Works(t) ==
    /\ pc[t] \in Working
    /\ Leaves(t) \/ Stays(t) \/ UNCHANGED <<pc, lock, op>>

LEMMA ReturnLeaves ==
    ASSUME NEW t, NEW r, Return(t, r)
    PROVE  Leaves(t)
  BY Zenon DEF Return, Leaves

LEMMA GoStays ==
    ASSUME NEW t, NEW l \in Working, Go(t, l), UNCHANGED op
    PROVE  Stays(t)
  BY DEF Go, Stays

LEMMA GotoStays ==
    ASSUME NEW t, NEW l \in Working, Goto(t, l)
    PROVE  Stays(t)
  BY DEF Goto, Go, locals, Stays

LEMMA ClosedWorks ==
    ASSUME NEW t, Closed(t)
    PROVE  Leaves(t) \/ Stays(t)
  BY ReturnLeaves, GotoStays DEF Closed, Working

LEMMA UnixWorks ==
    ASSUME NEW t \in Thread, UnixStep(t) \/ UnixWaitForChange(t)
    PROVE  Works(t)
<1> USE ReturnLeaves, GotoStays, GoStays, ClosedWorks DEF Works, Working, InUnix, InUnixCall
<1>1. CASE UnixOpen(t)
  BY <1>1 DEF UnixOpen
<1>2. CASE UnixConfigure(t)
  BY <1>2 DEF UnixConfigure, ReadSettings
<1>3. CASE UnixApply(t)
  BY <1>3 DEF UnixApply
<1>4. CASE UnixClose(t)
  BY <1>4 DEF UnixClose
<1>5. CASE UnixClearFd(t)
  BY <1>5 DEF UnixClearFd
<1>6. CASE UnixClearOpen(t)
  BY <1>6 DEF UnixClearOpen
<1>7. CASE UnixSet(t)
  BY <1>7 DEF UnixSet
<1>8. CASE UnixRead(t)
  BY <1>8 DEF UnixRead, TakeBytes
<1>9. CASE UnixReadLoop(t)
  BY <1>9 DEF UnixReadLoop, Abort, locals
<1>10. CASE UnixReadEnd(t)
  BY <1>10 DEF UnixReadEnd, EndRead
<1>11. CASE UnixReadNow(t)
  BY <1>11 DEF UnixReadNow, TakeBytes
<1>12. CASE UnixWrite(t)
  BY <1>12 DEF UnixWrite
<1>13. CASE UnixWriteLoop(t)
  BY <1>13 DEF UnixWriteLoop, Abort, locals
<1>14. CASE UnixWriteNow(t)
  BY <1>14 DEF UnixWriteNow, PutBytes
<1>15. CASE UnixFlush(t)
  BY <1>15 DEF UnixFlush
<1>16. CASE UnixDrained(t)
  BY <1>16 DEF UnixDrained
<1>17. CASE UnixFlushInput(t)
  BY <1>17 DEF UnixFlushInput
<1>18. CASE UnixFlushOutput(t)
  BY <1>18 DEF UnixFlushOutput
<1>19. CASE UnixSendBreak(t)
  BY <1>19 DEF UnixSendBreak
<1>20. CASE UnixSetLine(t)
  BY <1>20 DEF UnixSetLine
<1>21. CASE UnixGetLine(t)
  BY <1>21 DEF UnixGetLine
<1>22. CASE UnixAvailable(t)
  BY <1>22 DEF UnixAvailable
<1>23. CASE UnixWaitReadable(t)
  BY <1>23 DEF UnixWaitReadable, Abort, locals
<1>24. CASE UnixWaitForChange(t)
  BY <1>24 DEF UnixWaitForChange
<1> QED
  BY <1>1, <1>2, <1>3, <1>4, <1>5, <1>6, <1>7, <1>8, <1>9, <1>10, <1>11, <1>12, <1>13, <1>14, <1>15, <1>16, <1>17, <1>18, <1>19, <1>20, <1>21, <1>22, <1>23, <1>24
     DEF UnixStep

LEMMA WinWorks ==
    ASSUME NEW t \in Thread, WinStep(t) \/ WinWaitForChange(t)
    PROVE  Works(t)
<1> USE ReturnLeaves, GotoStays, GoStays, ClosedWorks DEF Works, Working, InWindows, InWinCall
<1>1. CASE WinOpen(t)
  BY <1>1 DEF WinOpen
<1>2. CASE WinConfigure(t)
  BY <1>2 DEF WinConfigure, ReadSettings
<1>3. CASE WinRefused(t)
  BY <1>3 DEF WinRefused
<1>22. CASE WinTimeoutsFail(t)
  BY <1>22 DEF WinTimeoutsFail
<1>4. CASE WinApply(t)
  BY <1>4 DEF WinApply, Go, Stays
<1>5. CASE WinClose(t)
  BY <1>5 DEF WinClose
<1>6. CASE WinClearFd(t)
  BY <1>6 DEF WinClearFd
<1>7. CASE WinClearOpen(t)
  BY <1>7 DEF WinClearOpen
<1>8. CASE WinSet(t)
  BY <1>8 DEF WinSet
<1>9. CASE WinRead(t)
  BY <1>9 DEF WinRead
<1>10. CASE WinReadFile(t)
  BY <1>10 DEF WinReadFile, TakeBytes
<1>11. CASE WinReadEnd(t)
  BY <1>11 DEF WinReadEnd, EndRead
<1>12. CASE WinWrite(t)
  BY <1>12 DEF WinWrite
<1>13. CASE WinWriteFile(t)
  BY <1>13 DEF WinWriteFile, PutBytes
<1>14. CASE WinFlush(t)
  BY <1>14 DEF WinFlush
<1>15. CASE WinDrained(t)
  BY <1>15 DEF WinDrained
<1>16. CASE WinUnsupported(t)
  BY <1>16 DEF WinUnsupported
<1>17. CASE WinWaitReadable(t)
  BY <1>17 DEF WinWaitReadable
<1>18. CASE WinSetLine(t)
  BY <1>18 DEF WinSetLine
<1>19. CASE WinGetLine(t)
  BY <1>19 DEF WinGetLine
<1>20. CASE WinAvailable(t)
  BY <1>20 DEF WinAvailable
<1>21. CASE WinWaitForChange(t)
  BY <1>21 DEF WinWaitForChange
<1> QED
  BY <1>1, <1>2, <1>3, <1>4, <1>5, <1>6, <1>7, <1>8, <1>9, <1>10, <1>11, <1>12, <1>13, <1>14, <1>15, <1>16, <1>17, <1>18, <1>19, <1>20, <1>21, <1>22
     DEF WinStep

LEMMA StepWorks ==
    ASSUME NEW t \in Thread,
           \/ Step(t) /\ ~TakeLock(t)
           \/ UnixWaitForChange(t) \/ WinWaitForChange(t)
    PROVE  Works(t)
<1>1. CASE SetPort(t)
  BY <1>1, ReturnLeaves, GotoStays DEF SetPort, Works, Working
<1> QED
  BY <1>1, UnixWorks, WinWorks DEF Step

-----------------------------------------------------------------------------
(***************************************************************************)
(* The locks through every step.                                           *)
(***************************************************************************)
LEMMA InitLocks == SerialInit => LockInv
<1> SUFFICES ASSUME SerialInit PROVE LockInv
  OBVIOUS
<1>1. \A t \in Thread : \/ pc[t] = "idle" /\ op[t] = "none"
                        \/ pc[t] = "openFd" /\ op[t] = "construct"
  BY DEF SerialInit
<1>2. ControlOK
  BY DEF SerialInit, ControlOK, Working
<1>3. \A m \in Mutex : lock[m] \notin Thread
  BY SerialAssumption DEF SerialInit
<1>4. Needs("construct") = {}
  BY DEF Needs, Reads
<1> QED
  BY <1>1, <1>2, <1>3, <1>4 DEF LockInv, LocksHeld, Working

LEMMA TakeLocks ==
    ASSUME LockInv, NEW t \in Thread, TakeLock(t)
    PROVE  LockInv'
<1> DEFINE next == Locks(op[t])[Held(t) + 1]
<1>1. /\ pc[t] = "lock" /\ lock[next] = None /\ lock' = [lock EXCEPT ![next] = t]
      /\ pc' = [pc EXCEPT ![t] = IF Held(t) + 1 = Len(Locks(op[t])) THEN "body" ELSE "lock"]
      /\ op' = op
  BY DEF TakeLock, locals
<1>2. t # None
  BY SerialAssumption
<1>3. Held(t) = IF lock["read"] = t THEN 1 ELSE 0
  BY <1>1 DEF LockInv, LocksHeld, Held, Mutex
<1>4. \/ Needs(op[t]) = {"read"} /\ Locks(op[t]) = <<"read">>
      \/ Needs(op[t]) = {"write"} /\ Locks(op[t]) = <<"write">>
      \/ Needs(op[t]) = Mutex /\ Locks(op[t]) = <<"read", "write">>
  <2>1. Needs(op[t]) # {}
    BY <1>1 DEF LockInv, LocksHeld, Mutex
  <2>2. op[t] \in Reads \cup {"flushInput"} => Needs(op[t]) = {"read"}
    BY DEF Needs, Reads, Mutex
  <2>3. op[t] \in {"write", "flushOutput"} => Needs(op[t]) = {"write"}
    BY DEF Needs, Reads, Mutex
  <2>4. op[t] \in {"setPort", "flush"} => Needs(op[t]) = Mutex
    BY DEF Needs, Reads, Mutex
  <2>5. op[t] \in Reads \cup {"flushInput", "write", "flushOutput", "setPort", "flush"}
    BY <2>1 DEF Needs
  <2> QED
    BY <2>2, <2>3, <2>4, <2>5, LocksOf
<1>5. \/ /\ next = "read" /\ lock["read"] = None /\ lock["write"] # t
         /\ Needs(op[t]) = {"read"} /\ pc'[t] = "body"
      \/ /\ next = "write" /\ lock["write"] = None /\ lock["read"] # t
         /\ Needs(op[t]) = {"write"} /\ pc'[t] = "body"
      \/ /\ next = "read" /\ lock["read"] = None /\ lock["write"] # t
         /\ Needs(op[t]) = Mutex /\ pc'[t] = "lock"
      \/ /\ next = "write" /\ lock["write"] = None /\ lock["read"] = t
         /\ Needs(op[t]) = Mutex /\ pc'[t] = "body"
  <2>1. CASE Needs(op[t]) = {"read"} /\ Locks(op[t]) = <<"read">>
    <3>1. lock["read"] # t /\ lock["write"] # t
      BY <1>1, <2>1 DEF LockInv, LocksHeld, Mutex
    <3> QED
      BY <1>1, <1>3, <2>1, <3>1 DEF LockInv, ControlOK
  <2>2. CASE Needs(op[t]) = {"write"} /\ Locks(op[t]) = <<"write">>
    <3>1. lock["read"] # t /\ lock["write"] # t
      BY <1>1, <2>2 DEF LockInv, LocksHeld, Mutex
    <3> QED
      BY <1>1, <1>3, <2>2, <3>1 DEF LockInv, ControlOK
  <2>3. CASE Needs(op[t]) = Mutex /\ Locks(op[t]) = <<"read", "write">>
    <3>1. lock["write"] # t
      BY <1>1, <2>3 DEF LockInv, LocksHeld, Mutex
    <3> QED
      BY <1>1, <1>3, <2>3, <3>1 DEF LockInv, ControlOK
  <2> QED
    BY <1>4, <2>1, <2>2, <2>3
<1> HIDE DEF next
<1>6. /\ \A u \in Thread \ {t} : pc'[u] = pc[u]
      /\ \A u \in Thread \ {t} : \A m \in Mutex : lock'[m] = u <=> lock[m] = u
  BY <1>1, <1>2, <1>5, SerialAssumption DEF LockInv, ControlOK, Mutex
<1>7. ControlOK'
  BY <1>1, <1>5 DEF LockInv, ControlOK, Mutex, Working
<1>8. \A m \in Mutex : lock'[m] = IF m = next THEN t ELSE lock[m]
  BY <1>1 DEF LockInv, ControlOK
<1>9. ASSUME NEW u \in Thread, NEW m \in Mutex
      PROVE  /\ pc'[u] \in Working => (lock'[m] = u <=> m \in Needs(op'[u]))
             /\ pc'[u] = "idle" => lock'[m] # u
             /\ pc'[u] = "lock" => /\ Needs(op'[u]) # {}
                                   /\ lock'[m] = u => m = "read" /\ Needs(op'[u]) = Mutex
  <2>1. CASE u = t
    BY <1>1, <1>5, <1>8, <1>9, <2>1 DEF Mutex, Working
  <2>2. CASE u # t
    BY <1>1, <1>6, <1>9, <2>2 DEF LockInv, LocksHeld
  <2> QED
    BY <2>1, <2>2
<1> QED
  BY <1>7, <1>9 DEF LockInv, LocksHeld

LEMMA WorkLocks ==
    ASSUME LockInv, NEW t \in Thread, Works(t)
    PROVE  LockInv'
<1>1. CASE Leaves(t)
  <2>1. /\ pc' = [pc EXCEPT ![t] = "idle"] /\ op' = [op EXCEPT ![t] = "none"]
        /\ lock' = [m \in Mutex |-> IF lock[m] = t THEN None ELSE lock[m]]
    BY <1>1 DEF Leaves, Unlock
  <2> QED
    BY <2>1, SerialAssumption DEF LockInv, ControlOK, LocksHeld, Working
<1>2. CASE Stays(t)
  <2>1. Needs("construct") = {} /\ Needs("set") = {} /\ "set" \in Ops
    BY DEF Needs, Reads, Ops, Lifecycle
  <2>2. /\ lock' = lock /\ pc[t] \in Working /\ pc'[t] \in Working
        /\ \A u \in Thread \ {t} : pc'[u] = pc[u] /\ op'[u] = op[u]
        /\ Needs(op'[t]) = Needs(op[t])
    BY <1>2, <2>1 DEF Works, Stays, LockInv, ControlOK
  <2>3. ControlOK'
    BY <1>2, <2>1 DEF Stays, LockInv, ControlOK
  <2>4. LocksHeld'
    BY <2>2 DEF LockInv, LocksHeld, Working
  <2> QED
    BY <2>3, <2>4 DEF LockInv
<1>3. CASE UNCHANGED <<pc, lock, op>>
  BY <1>3 DEF LockInv, ControlOK, LocksHeld
<1> QED
  BY <1>1, <1>2, <1>3 DEF Works

\* A call begins with a lock to take, or at work that needs none.
LEMMA EntryOf ==
    ASSUME NEW c \in Ops
    PROVE  \/ Entry(c) = "lock" /\ Needs(c) # {}
           \/ Entry(c) \in Working /\ Needs(c) = {}
<1>1. CASE c = "open"
  <2>1. c # "close" /\ Locks(c) = <<>>
    BY <1>1, LocksOf DEF Reads
  <2>2. Entry(c) = "openFd"
    BY <1>1, <2>1, Zenon DEF Entry
  <2> QED
    BY <1>1, <2>2 DEF Working, Needs, Reads
<1>2. CASE c = "close"
  <2>1. c # "open" /\ Locks(c) = <<>>
    BY <1>2, LocksOf DEF Reads
  <2>2. Entry(c) = "closeFd"
    BY <1>2, <2>1, Zenon DEF Entry
  <2> QED
    BY <1>2, <2>2 DEF Working, Needs, Reads
<1>3. CASE c \notin {"open", "close"} /\ Locks(c) # <<>>
  <2>1. Entry(c) = "lock"
    BY <1>3, Zenon DEF Entry
  <2> QED
    BY <1>3, <2>1, LocksOf DEF Needs, Reads, Mutex
<1>4. CASE c \notin {"open", "close"} /\ Locks(c) = <<>>
  <2>1. Entry(c) = "body"
    BY <1>4, Zenon DEF Entry
  <2> QED
    BY <1>4, <2>1, LocksOf DEF Needs, Reads, Mutex, Working
<1> QED
  BY <1>1, <1>2, <1>3, <1>4

\* Where a call begins: open and close are at work at once.
LEMMA EntryPlace ==
    ASSUME NEW c
    PROVE  \/ Entry(c) \in {"lock", "body"}
           \/ Entry(c) = "openFd" /\ c = "open"
           \/ Entry(c) = "closeFd" /\ c = "close"
<1>1. CASE c = "open" /\ c # "close" /\ Locks(c) = <<>>
  BY <1>1, Zenon DEF Entry
<1>2. CASE c = "close" /\ c # "open" /\ Locks(c) = <<>>
  BY <1>2, Zenon DEF Entry
<1>3. CASE c \notin {"open", "close"} /\ Locks(c) # <<>>
  BY <1>3, Zenon DEF Entry
<1>4. CASE c \notin {"open", "close"} /\ Locks(c) = <<>>
  BY <1>4, Zenon DEF Entry
<1>5. Locks("open") = <<>> /\ Locks("close") = <<>>
  BY LocksOf DEF Reads
<1> QED
  BY <1>1, <1>2, <1>3, <1>4, <1>5

LEMMA BeginLocks ==
    ASSUME LockInv, (\E t \in Thread : \E c \in Calls[t] : Call(t, c)) \/ Destroy
    PROVE  LockInv'
<1> DEFINE Begins(t, c, l) ==
      /\ pc[t] = "idle" /\ lock' = lock
      /\ pc' = [pc EXCEPT ![t] = l] /\ op' = [op EXCEPT ![t] = c]
      /\ \/ l = "lock" /\ Needs(c) # {}
         \/ l \in Working /\ Needs(c) = {}
<1>1. \E t \in Thread, c \in Ops \cup {"destroy"}, l \in Working \cup {"lock"} : Begins(t, c, l)
  <2>1. CASE Destroy
    <3>1. Needs("destroy") = {} /\ Main \in Thread
      BY SerialAssumption DEF Needs, Reads
    <3>2. Begins(Main, "destroy", "closeFd")
      BY <2>1, <3>1 DEF Destroy, Invoke, Working
    <3> QED
      BY <3>1, <3>2 DEF Working
  <2>2. ASSUME NEW t \in Thread, NEW c \in Calls[t], Call(t, c)
        PROVE  \E l \in Working \cup {"lock"} : c \in Ops /\ Begins(t, c, l)
    <3>1. c \in Ops
      BY SerialAssumption
    <3>2. Begins(t, c, Entry(c))
      BY <2>2, <3>1, EntryOf DEF Call, Invoke
    <3> QED
      BY <3>1, <3>2, EntryOf
  <2> QED
    BY <2>1, <2>2
<1>2. ControlOK'
  BY <1>1 DEF LockInv, ControlOK
<1>3. LocksHeld'
  BY <1>1 DEF LockInv, ControlOK, LocksHeld, Working
<1> QED
  BY <1>2, <1>3 DEF LockInv

LEMMA NextLocks == LockInv /\ [SerialNext]_svars => LockInv'
<1> SUFFICES ASSUME LockInv, [SerialNext]_svars
             PROVE  LockInv'
  OBVIOUS
<1>1. ASSUME NEW t \in Thread, Step(t) \/ UnixWaitForChange(t) \/ WinWaitForChange(t)
      PROVE  LockInv'
  BY <1>1, StepWorks, WorkLocks, TakeLocks
<1>2. CASE (\E t \in Thread : Expire(t)) \/ Arrive \/ Transmit \/ Unplug \/ UNCHANGED svars
  BY <1>2 DEF Expire, Arrive, Transmit, Unplug, svars, control, locals, LockInv, ControlOK,
              LocksHeld
<1> QED
  BY <1>1, <1>2, BeginLocks DEF SerialNext

LEMMA LockInvHolds == SerialSpec => []LockInv
  BY InitLocks, NextLocks, PTL DEF SerialSpec

\* Whoever waits for a lock waits for a call at work or for one that waits for
\* one at work: calls of any number of threads never wait in a ring.
THEOREM NoDeadlockHolds == SerialSpec => []NoDeadlock
<1>1. LockInv => NoDeadlock
  <2> SUFFICES ASSUME LockInv, NEW t \in Thread, NEW u \in Thread, NEW v \in Thread,
                      WaitsFor(t, u), WaitsFor(u, v)
               PROVE  pc[v] \notin {"idle", "lock"}
    BY DEF NoDeadlock
  <2>1. ASSUME NEW x \in Thread, pc[x] = "lock"
        PROVE  /\ lock["write"] # x
               /\ lock["read"] = x => Locks(op[x])[Held(x) + 1] = "write"
    <3>1. lock["write"] # x /\ Held(x) = IF lock["read"] = x THEN 1 ELSE 0
      BY <2>1 DEF LockInv, LocksHeld, Held, Mutex
    <3>2. lock["read"] = x => op[x] \in {"setPort", "flush"}
      <4>1. lock["read"] = x => Needs(op[x]) = Mutex
        BY <2>1 DEF LockInv, LocksHeld, Mutex
      <4> QED
        BY <4>1 DEF Needs, Reads, Mutex
    <3>3. lock["read"] = x => Locks(op[x]) = <<"read", "write">>
      BY <3>2, LocksOf DEF Reads
    <3> QED
      BY <3>1, <3>3
  <2>2. ASSUME NEW x \in Thread, pc[x] = "lock"
        PROVE  Locks(op[x])[Held(x) + 1] \in Mutex
    <3>1. Held(x) = IF lock["read"] = x THEN 1 ELSE 0
      BY <2>2 DEF LockInv, LocksHeld, Held, Mutex
    <3>2. Locks(op[x]) # <<>>
      <4>1. Needs(op[x]) # {}
        BY <2>2 DEF LockInv, LocksHeld, Mutex
      <4>2. op[x] \in Reads \cup {"flushInput", "write", "flushOutput", "setPort", "flush"}
        BY <4>1 DEF Needs
      <4>3. Locks(op[x]) = <<"read">> \/ Locks(op[x]) = <<"write">>
              \/ Locks(op[x]) = <<"read", "write">>
        BY <4>2, LocksOf, Zenon
      <4> QED
        BY <4>3
    <3>3. CASE lock["read"] = x
      BY <2>1, <2>2, <3>3 DEF Mutex
    <3>4. CASE lock["read"] # x
      BY <3>1, <3>2, <3>4, LocksOf DEF Mutex
    <3> QED
      BY <3>3, <3>4
  <2>3. pc[t] = "lock" /\ pc[u] = "lock"
    BY DEF WaitsFor
  <2>4. lock["read"] = u
    BY <2>1, <2>2, <2>3 DEF WaitsFor, Mutex
  <2>5. Locks(op[u])[Held(u) + 1] = "write"
    BY <2>1, <2>3, <2>4
  <2>6. lock["write"] = v
    BY <2>5 DEF WaitsFor
  <2> QED
    BY <2>1, <2>6 DEF LockInv, LocksHeld, Mutex
<1> QED
  BY <1>1, LockInvHolds, PTL

-----------------------------------------------------------------------------
(***************************************************************************)
(* Where the calls that move bytes stand, and what a step does to the      *)
(* bytes of its thread and to the kernel's.                                *)
(***************************************************************************)
Moving == Reads \cup {"write"}

Places ==
    \A t \in Thread :
        /\ op[t] = "write" => pc[t] \in {"lock", "body", "writeLoop", "writeNow"}
        /\ op[t] \in Reads => pc[t] \in {"lock", "body", "readLoop", "readNow"}
        /\ pc[t] \in {"writeLoop", "writeNow"} => op[t] = "write"
        /\ pc[t] \in {"readLoop", "readNow"} => op[t] \in Reads

Stands(t) == UNCHANGED <<pc, op, got, count>>

WriteMove(t) ==
    /\ op[t] = "write" /\ UNCHANGED <<op, got, count>>
    /\ \E l \in {"writeLoop", "writeNow"} : pc' = [pc EXCEPT ![t] = l]

ReadMove(t) ==
    /\ op[t] \in Reads /\ UNCHANGED <<op, got>>
    /\ \/ /\ op[t] # "read" /\ pc' = [pc EXCEPT ![t] = "body"] /\ UNCHANGED count
          /\ Len(got[t]) # Size
       \/ /\ pc[t] \in {"readLoop", "readNow"} /\ UNCHANGED count
          /\ \E l \in {"readLoop", "readNow"} : pc' = [pc EXCEPT ![t] = l]
       \/ /\ pc[t] = "body" /\ pc' = [pc EXCEPT ![t] = "readNow"]
          /\ count' = [count EXCEPT ![t] = Wanted(t)]

OtherMove(t) ==
    /\ op[t] \notin Moving /\ UNCHANGED <<got, count>>
    /\ op' = op \/ op' = [op EXCEPT ![t] = "set"]
    /\ \E l \in Working \ {"readLoop", "readNow", "writeLoop", "writeNow"} :
         pc' = [pc EXCEPT ![t] = l]

Moves(t) == Leaves(t) \/ Stands(t) \/ WriteMove(t) \/ ReadMove(t) \/ OtherMove(t)

OutKept == accepted' = accepted /\ pending' \in {pending, 0}
InKept(t) ==
    /\ UNCHANGED <<taken, arrived>> /\ descriptors \subseteq descriptors'
    /\ disturbed' = disturbed \/ Disturb(t)

Quiet(t) == Moves(t) /\ OutKept /\ InKept(t)

Puts(t) ==
    /\ pc[t] = "writeNow" /\ PutBytes(t, Size - count[t]) /\ InKept(t)
    /\ \E l \in {"writeLoop", "writeNow"} : pc' = [pc EXCEPT ![t] = l]

Takes(t) ==
    /\ op[t] \in Reads /\ UNCHANGED op /\ pc' = [pc EXCEPT ![t] = "readLoop"]
    /\ \/ /\ pc[t] = "body" /\ TakeBytes(t, Wanted(t) - Len(got[t]))
          /\ count' = [count EXCEPT ![t] = Wanted(t)]
       \/ /\ pc[t] = "readNow" /\ TakeBytes(t, count[t] - Len(got[t]))
          /\ UNCHANGED count
    /\ OutKept /\ UNCHANGED <<descriptors, disturbed>>

Drops(t) ==
    /\ op[t] \notin Moving /\ (Leaves(t) \/ OtherMove(t))
    /\ Drop(t, fd_)

FlushesIn(t) ==
    /\ pc[t] = "body" /\ op[t] = "flushInput" /\ Leaves(t)
    /\ taken' \in {taken, arrived} /\ OutKept
    /\ UNCHANGED <<arrived, descriptors, disturbed>>

StepData(t) == Quiet(t) \/ Puts(t) \/ Takes(t) \/ Drops(t) \/ FlushesIn(t)

LEMMA ClosedMoves ==
    ASSUME NEW t, Closed(t), op[t] \notin Moving
    PROVE  Leaves(t) \/ OtherMove(t)
  BY ReturnLeaves DEF Closed, Goto, Go, locals, OtherMove, Working

LEMMA OtherGoes ==
    ASSUME NEW t, NEW l \in Working \ {"readLoop", "readNow", "writeLoop", "writeNow"},
           Goto(t, l), op[t] \notin Moving
    PROVE  OtherMove(t)
  BY DEF Goto, Go, locals, OtherMove

LEMMA ReadEnds ==
    ASSUME NEW t, EndRead(t), pc[t] = "readLoop", op[t] \in Reads
    PROVE  Quiet(t)
  BY ReturnLeaves DEF EndRead, LineDone, Goto, Go, locals, kernel, input, output, history, Quiet, Moves,
     ReadMove, OutKept, InKept

LEMMA UnixData ==
    ASSUME Places, NEW t \in Thread, UnixStep(t) \/ UnixWaitForChange(t)
    PROVE  StepData(t)
<1>0. /\ pc[t] \in Working \ {"body", "readLoop", "readNow", "writeLoop", "writeNow"} => op[t] \notin Moving
      /\ pc[t] \in {"readLoop", "readNow"} => op[t] \in Reads
      /\ pc[t] \in {"writeLoop", "writeNow"} => op[t] = "write"
  BY DEF Places, Moving, Working, Reads
<1> USE <1>0, ReturnLeaves DEF StepData, InUnix, InUnixCall, kernel, input, output, history
<1>1. CASE UnixOpen(t)
  BY <1>1, OtherGoes
     DEF UnixOpen, Quiet, Moves, OutKept, InKept, Moving, Reads, Working
<1>2. CASE UnixConfigure(t)
  BY <1>2
     DEF UnixConfigure, ReadSettings, Go, Quiet, Moves, OutKept, InKept, OtherMove, Working
<1>3. CASE UnixApply(t)
  BY <1>3
     DEF UnixApply, Quiet, Moves, OutKept, InKept
<1>4. CASE UnixClose(t)
  BY <1>4, ClosedMoves, OtherGoes
     DEF UnixClose, Quiet, Moves, OutKept, InKept, Working, Drops
<1>5. CASE UnixClearFd(t)
  BY <1>5, OtherGoes
     DEF UnixClearFd, Quiet, Moves, OutKept, InKept, Moving, Reads, Working
<1>6. CASE UnixClearOpen(t)
  BY <1>6, ClosedMoves, OtherGoes
     DEF UnixClearOpen, Quiet, Moves, OutKept, InKept, Working, Drops
<1>7. CASE UnixSet(t)
  BY <1>7, OtherGoes
     DEF UnixSet, Quiet, Moves, OutKept, InKept, Moving, Reads, Working
<1>8. CASE UnixRead(t)
  BY <1>8
     DEF UnixRead, Go, Quiet, Moves, OutKept, InKept, Takes
<1>9. CASE UnixReadLoop(t)
  BY <1>9
     DEF UnixReadLoop, Abort, Goto, Go, locals, Quiet, Moves, OutKept, InKept, ReadMove, Stands
<1>10. CASE UnixReadEnd(t)
  BY <1>10, ReadEnds
     DEF UnixReadEnd
<1>11. CASE UnixReadNow(t)
  BY <1>11
     DEF UnixReadNow, Go, Quiet, Moves, OutKept, InKept, Takes
<1>12. CASE UnixWrite(t)
  BY <1>12
     DEF UnixWrite, Abort, Goto, Go, locals, Quiet, Moves, OutKept, InKept, WriteMove, Stands
<1>13. CASE UnixWriteLoop(t)
  BY <1>13
     DEF UnixWriteLoop, Abort, Goto, Go, locals, Quiet, Moves, OutKept, InKept, WriteMove, Stands
<1>14. CASE UnixWriteNow(t)
  BY <1>14
     DEF UnixWriteNow, Go, Quiet, Moves, OutKept, InKept, Puts
<1>15. CASE UnixFlush(t)
  BY <1>15, OtherGoes
     DEF UnixFlush, Quiet, Moves, OutKept, InKept, Moving, Reads, Working
<1>16. CASE UnixDrained(t)
  BY <1>16
     DEF UnixDrained, Quiet, Moves, OutKept, InKept
<1>17. CASE UnixFlushInput(t)
  BY <1>17
     DEF UnixFlushInput, FlushesIn, OutKept
<1>18. CASE UnixFlushOutput(t)
  BY <1>18
     DEF UnixFlushOutput, Quiet, Moves, OutKept, InKept
<1>19. CASE UnixSendBreak(t)
  BY <1>19
     DEF UnixSendBreak, Quiet, Moves, OutKept, InKept
<1>20. CASE UnixSetLine(t)
  BY <1>20
     DEF UnixSetLine, Quiet, Moves, OutKept, InKept
<1>21. CASE UnixGetLine(t)
  BY <1>21
     DEF UnixGetLine, Quiet, Moves, OutKept, InKept
<1>22. CASE UnixAvailable(t)
  BY <1>22
     DEF UnixAvailable, Quiet, Moves, OutKept, InKept
<1>23. CASE UnixWaitReadable(t)
  BY <1>23
     DEF UnixWaitReadable, Abort, locals, Quiet, Moves, OutKept, InKept, Stands
<1>24. CASE UnixWaitForChange(t)
  BY <1>24
     DEF UnixWaitForChange, Quiet, Moves, OutKept, InKept
<1> QED
  BY <1>1, <1>2, <1>3, <1>4, <1>5, <1>6, <1>7, <1>8, <1>9, <1>10, <1>11, <1>12, <1>13, <1>14, <1>15, <1>16, <1>17, <1>18, <1>19, <1>20, <1>21, <1>22, <1>23, <1>24
     DEF UnixStep

LEMMA WinData ==
    ASSUME Places, NEW t \in Thread, WinStep(t) \/ WinWaitForChange(t)
    PROVE  StepData(t)
<1>0. /\ pc[t] \in Working \ {"body", "readLoop", "readNow", "writeLoop", "writeNow"} => op[t] \notin Moving
      /\ pc[t] \in {"readLoop", "readNow"} => op[t] \in Reads
      /\ pc[t] \in {"writeLoop", "writeNow"} => op[t] = "write"
  BY DEF Places, Moving, Working, Reads
<1> USE <1>0, ReturnLeaves DEF StepData, InWindows, InWinCall, kernel, input, output, history
<1>1. CASE WinOpen(t)
  BY <1>1, OtherGoes
     DEF WinOpen, Quiet, Moves, OutKept, InKept, Moving, Reads, Working
<1>2. CASE WinConfigure(t)
  BY <1>2
     DEF WinConfigure, ReadSettings, Go, Quiet, Moves, OutKept, InKept, OtherMove, Working
<1>3. CASE WinRefused(t)
  BY <1>3
     DEF WinRefused, Quiet, Moves, OutKept, InKept, Drops, Working
<1>22. CASE WinTimeoutsFail(t)
  BY <1>22
     DEF WinTimeoutsFail, fields, input, output, outside, Quiet, Moves, OutKept, InKept, Drops, Working
<1>4. CASE WinApply(t)
  BY <1>4
     DEF WinApply, Go, Quiet, Moves, OutKept, InKept, OtherMove, Working
<1>5. CASE WinClose(t)
  BY <1>5, ClosedMoves, OtherGoes
     DEF WinClose, Quiet, Moves, OutKept, InKept, Working, Drops
<1>6. CASE WinClearFd(t)
  BY <1>6, OtherGoes
     DEF WinClearFd, Quiet, Moves, OutKept, InKept, Moving, Reads, Working
<1>7. CASE WinClearOpen(t)
  BY <1>7, ClosedMoves, OtherGoes
     DEF WinClearOpen, Quiet, Moves, OutKept, InKept, Working, Drops
<1>8. CASE WinSet(t)
  BY <1>8, OtherGoes
     DEF WinSet, Quiet, Moves, OutKept, InKept, Moving, Reads, Working
<1>9. CASE WinRead(t)
  BY <1>9
     DEF WinRead, Go, Quiet, Moves, OutKept, InKept, ReadMove
<1>10. CASE WinReadFile(t)
  BY <1>10
     DEF WinReadFile, Go, Quiet, Moves, OutKept, InKept, Takes
<1>11. CASE WinReadEnd(t)
  BY <1>11, ReadEnds
     DEF WinReadEnd
<1>12. CASE WinWrite(t)
  BY <1>12
     DEF WinWrite, Abort, Goto, Go, locals, Quiet, Moves, OutKept, InKept, WriteMove, Stands
<1>13. CASE WinWriteFile(t)
  BY <1>13
     DEF WinWriteFile, Go, Quiet, Moves, OutKept, InKept, Puts
<1>14. CASE WinFlush(t)
  BY <1>14, OtherGoes
     DEF WinFlush, Quiet, Moves, OutKept, InKept, Moving, Reads, Working
<1>15. CASE WinDrained(t)
  BY <1>15
     DEF WinDrained, Quiet, Moves, OutKept, InKept
<1>16. CASE WinUnsupported(t)
  BY <1>16
     DEF WinUnsupported, Quiet, Moves, OutKept, InKept
<1>17. CASE WinWaitReadable(t)
  BY <1>17
     DEF WinWaitReadable, Quiet, Moves, OutKept, InKept
<1>18. CASE WinSetLine(t)
  BY <1>18
     DEF WinSetLine, Quiet, Moves, OutKept, InKept
<1>19. CASE WinGetLine(t)
  BY <1>19
     DEF WinGetLine, Quiet, Moves, OutKept, InKept
<1>20. CASE WinAvailable(t)
  BY <1>20
     DEF WinAvailable, Quiet, Moves, OutKept, InKept
<1>21. CASE WinWaitForChange(t)
  BY <1>21
     DEF WinWaitForChange, Quiet, Moves, OutKept, InKept
<1> QED
  BY <1>1, <1>2, <1>3, <1>4, <1>5, <1>6, <1>7, <1>8, <1>9, <1>10, <1>11, <1>12, <1>13, <1>14, <1>15, <1>16, <1>17, <1>18, <1>19, <1>20, <1>21, <1>22
     DEF WinStep

LEMMA StepsData ==
    ASSUME Places, NEW t \in Thread,
           \/ Step(t) /\ ~TakeLock(t)
           \/ UnixWaitForChange(t) \/ WinWaitForChange(t)
    PROVE  StepData(t)
<1>1. CASE SetPort(t)
  <2>1. op[t] \notin Moving
    BY <1>1 DEF SetPort, Moving, Reads
  <2> QED
    BY <1>1, <2>1, ReturnLeaves, OtherGoes
       DEF SetPort, StepData, Quiet, Moves, OutKept, InKept, kernel, input, output, history, Working
<1> QED
  BY <1>1, UnixData, WinData DEF Step

-----------------------------------------------------------------------------
(***************************************************************************)
(* Types of the data, and what of them is empty at which place.            *)
(***************************************************************************)
DataOK ==
    /\ got \in [Thread -> Seq(Nat)] /\ count \in [Thread -> Nat]
    /\ arrived \in Nat /\ taken \in 0..arrived
    /\ pending \in 0..OutCap
    /\ accepted \in Seq([by : Thread, nth : Nat])

Blank ==
    \A t \in Thread :
        /\ pc[t] \in {"idle", "lock"} => got[t] = <<>> /\ count[t] = 0
        /\ op[t] \notin Reads => got[t] = <<>>
        /\ op[t] = "read" /\ pc[t] = "body" => got[t] = <<>>
        /\ op[t] = "write" /\ pc[t] = "body" => count[t] = 0
        /\ op[t] = "write" => count[t] <= Size
        /\ pc[t] \in {"readLoop", "readNow"} => Len(got[t]) <= count[t]

DataInv == LockInv /\ Places /\ DataOK /\ Blank

LEMMA InitData == SerialInit => DataInv
<1> SUFFICES ASSUME SerialInit PROVE DataInv
  OBVIOUS
<1>1. LockInv
  BY InitLocks
<1>2. \A t \in Thread : /\ \/ pc[t] = "idle" /\ op[t] = "none"
                           \/ pc[t] = "openFd" /\ op[t] = "construct"
                        /\ got[t] = <<>> /\ count[t] = 0
  BY DEF SerialInit
<1>3. DataOK
  <2>1. <<>> \in Seq(Nat) /\ <<>> \in Seq([by : Thread, nth : Nat])
    OBVIOUS
  <2>2. got \in [Thread -> Seq(Nat)] /\ count \in [Thread -> Nat]
    BY <2>1 DEF SerialInit
  <2>3. accepted \in Seq([by : Thread, nth : Nat])
    BY <2>1 DEF SerialInit
  <2>4. arrived \in Nat /\ taken \in 0..arrived /\ pending \in 0..OutCap
    <3>1. OutCap \in Nat
      BY SerialAssumption
    <3>2. arrived = 0 /\ taken = 0 /\ pending = 0
      BY DEF SerialInit
    <3> QED
      BY <3>1, <3>2
  <2> QED
    BY <2>2, <2>3, <2>4 DEF DataOK
<1>4. Places
  BY <1>2 DEF Places, Reads
<1>5. Blank
  BY <1>2, SerialAssumption DEF Blank, Reads
<1> QED
  BY <1>1, <1>3, <1>4, <1>5 DEF DataInv

\* What a step changes of its thread it leaves alone in the others.
LEMMA OthersKeep ==
    ASSUME DataInv, NEW t \in Thread, Works(t), StepData(t), NEW u \in Thread \ {t}
    PROVE  pc'[u] = pc[u] /\ op'[u] = op[u] /\ got'[u] = got[u] /\ count'[u] = count[u]
<1>1. /\ pc \in [Thread -> Working \cup {"idle", "lock"}]
      /\ op \in [Thread -> Ops \cup {"none", "construct", "destroy"}]
      /\ got \in [Thread -> Seq(Nat)] /\ count \in [Thread -> Nat]
  BY DEF DataInv, DataOK, LockInv, ControlOK
<1>2. CASE Moves(t) \/ Drops(t) \/ FlushesIn(t)
  BY <1>1, <1>2 DEF Moves, Drops, FlushesIn, Leaves, Stands, WriteMove, ReadMove, OtherMove
<1>3. CASE Puts(t)
  BY <1>1, <1>3 DEF Puts, PutBytes
<1>4. CASE Takes(t)
  BY <1>1, <1>4 DEF Takes, TakeBytes
<1> QED
  BY <1>2, <1>3, <1>4 DEF StepData, Quiet

LEMMA KeepsPlaces ==
    ASSUME DataInv, NEW t \in Thread, Works(t), StepData(t)
    PROVE  Places'
<1>1. /\ pc \in [Thread -> Working \cup {"idle", "lock"}]
      /\ op \in [Thread -> Ops \cup {"none", "construct", "destroy"}]
  BY DEF DataInv, LockInv, ControlOK
<1>2. ASSUME NEW u \in Thread \ {t}
      PROVE  /\ op'[u] = "write" => pc'[u] \in {"lock", "body", "writeLoop", "writeNow"}
             /\ op'[u] \in Reads => pc'[u] \in {"lock", "body", "readLoop", "readNow"}
             /\ pc'[u] \in {"writeLoop", "writeNow"} => op'[u] = "write"
             /\ pc'[u] \in {"readLoop", "readNow"} => op'[u] \in Reads
  BY OthersKeep DEF DataInv, Places
<1> DEFINE P == /\ op'[t] = "write" => pc'[t] \in {"lock", "body", "writeLoop", "writeNow"}
                /\ op'[t] \in Reads => pc'[t] \in {"lock", "body", "readLoop", "readNow"}
                /\ pc'[t] \in {"writeLoop", "writeNow"} => op'[t] = "write"
                /\ pc'[t] \in {"readLoop", "readNow"} => op'[t] \in Reads
<1> SUFFICES P
  BY <1>2 DEF Places
<1>3. CASE Leaves(t)
  BY <1>1, <1>3 DEF Leaves, Reads
<1>4. CASE Stands(t)
  BY <1>4 DEF Stands, DataInv, Places
<1>5. CASE WriteMove(t)
  BY <1>1, <1>5 DEF WriteMove, Reads
<1>6. CASE ReadMove(t)
  BY <1>1, <1>6 DEF ReadMove, Reads
<1>7. CASE OtherMove(t)
  BY <1>1, <1>7 DEF OtherMove, Reads, Moving, Working
<1>8. CASE Puts(t)
  <2>1. op[t] = "write" /\ op' = op
    BY <1>8 DEF Puts, PutBytes, DataInv, Places
  <2> QED
    BY <1>1, <1>8, <2>1 DEF Puts, Reads
<1>9. CASE Takes(t)
  BY <1>1, <1>9 DEF Takes, Reads
<1> QED
  BY <1>3, <1>4, <1>5, <1>6, <1>7, <1>8, <1>9 DEF StepData, Quiet, Moves, Drops, FlushesIn

\* Bytes put on the output queue: some number of them, and not too many.
LEMMA PutProperties ==
    ASSUME DataInv, NEW t \in Thread, Puts(t)
    PROVE  \E k \in Nat :
             /\ count'[t] = count[t] + k /\ count'[t] <= Size /\ count' \in [Thread -> Nat]
             /\ accepted' \in Seq([by : Thread, nth : Nat])
             /\ Len(accepted') = Len(accepted) + k
             /\ \A j \in 1..Len(accepted) : accepted'[j] = accepted[j]
             /\ \A j \in 1..k : accepted'[Len(accepted) + j] = [by |-> t, nth |-> count[t] + j]
             /\ pending' \in 0..OutCap /\ pending' = pending + k
             /\ UNCHANGED <<op, got>>
<1> DEFINE k == Least(Size - count[t], Room)
           B == [by : Thread, nth : Nat]
           g == [j \in 1..k |-> [by |-> t, nth |-> count[t] + j]]
<1>1. /\ op[t] = "write" /\ count[t] \in 0..Size /\ Size \in Nat /\ OutCap \in Nat
      /\ pending \in 0..OutCap /\ accepted \in Seq(B) /\ count \in [Thread -> Nat]
  BY SerialAssumption DEF DataInv, Places, DataOK, Blank, Puts
<1>2. /\ accepted' = accepted \o g /\ pending' = pending + k
      /\ count' = [count EXCEPT ![t] = @ + k] /\ UNCHANGED <<op, got>>
  BY DEF Puts, PutBytes
<1>3. Room \in Nat /\ Room <= OutCap - pending
  BY <1>1 DEF Room
<1>4. k \in Nat /\ k <= Size - count[t] /\ k <= Room
  BY <1>1, <1>3 DEF Least
<1> HIDE DEF k
<1>5. g \in Seq(B) /\ Len(g) = k
  <2>1. \A j \in 1..k : [by |-> t, nth |-> count[t] + j] \in B
    BY <1>1, <1>4
  <2>2. g \in [1..k -> B]
    BY <2>1
  <2>3. g \in Seq(B)
    BY <1>4, <2>2, SeqDef
  <2>4. Len(g) \in Nat /\ DOMAIN g = 1..Len(g) /\ DOMAIN g = 1..k
    BY <2>3, LenProperties
  <2> QED
    BY <1>4, <2>3, <2>4
<1>6. \A j \in 1..k : g[j] = [by |-> t, nth |-> count[t] + j]
  OBVIOUS
<1> HIDE DEF g
<1>7. Len(accepted) \in Nat
  BY <1>1
<1>8. /\ accepted' \in Seq(B) /\ Len(accepted') = Len(accepted) + k
      /\ \A j \in 1..Len(accepted) + k :
           accepted'[j] = IF j <= Len(accepted) THEN accepted[j] ELSE g[j - Len(accepted)]
  BY <1>1, <1>2, <1>5, ConcatProperties
<1>9. \A j \in 1..Len(accepted) : accepted'[j] = accepted[j]
  BY <1>4, <1>7, <1>8
<1>10. ASSUME NEW j \in 1..k
       PROVE  accepted'[Len(accepted) + j] = [by |-> t, nth |-> count[t] + j]
  <2>1. /\ Len(accepted) + j \in 1..Len(accepted) + k /\ ~(Len(accepted) + j <= Len(accepted))
        /\ (Len(accepted) + j) - Len(accepted) = j
    BY <1>4, <1>7
  <2>2. accepted'[Len(accepted) + j] = g[j]
    BY <1>8, <2>1
  <2> QED
    BY <1>6, <2>2
<1>11. /\ count'[t] = count[t] + k /\ count'[t] <= Size /\ count' \in [Thread -> Nat]
       /\ pending' \in 0..OutCap
  BY <1>1, <1>2, <1>3, <1>4
<1> QED
  BY <1>2, <1>4, <1>8, <1>9, <1>10, <1>11

\* Bytes taken from the input queue: consecutive ones from the first.
LEMMA TakeProperties ==
    ASSUME DataInv, NEW t \in Thread, Takes(t)
    PROVE  \E k \in Nat :
             /\ taken' = taken + k /\ taken' \in 0..arrived /\ arrived' = arrived
             /\ k > 0 => descriptors # {}
             /\ got' \in [Thread -> Seq(Nat)] /\ Len(got'[t]) = Len(got[t]) + k
             /\ \A j \in 1..Len(got[t]) : got'[t][j] = got[t][j]
             /\ \A j \in 1..k : got'[t][Len(got[t]) + j] = taken + j
             /\ count' \in [Thread -> Nat] /\ Len(got'[t]) <= count'[t]
<1>1. /\ got \in [Thread -> Seq(Nat)] /\ count \in [Thread -> Nat] /\ got[t] \in Seq(Nat)
      /\ Len(got[t]) \in Nat /\ arrived \in Nat /\ taken \in 0..arrived /\ Size \in Nat
  BY SerialAssumption DEF DataInv, DataOK
<1>2. PICK n \in Nat : /\ TakeBytes(t, n) /\ count' \in [Thread -> Nat]
                       /\ Len(got[t]) + n = count'[t]
  <2>1. CASE /\ pc[t] = "body" /\ TakeBytes(t, Wanted(t) - Len(got[t]))
             /\ count' = [count EXCEPT ![t] = Wanted(t)]
    <3>1. op[t] = "read" => got[t] = <<>>
      BY <2>1 DEF DataInv, Blank
    <3>2. Wanted(t) \in Nat /\ Wanted(t) - Len(got[t]) \in Nat
      BY <1>1, <3>1 DEF Wanted
    <3> QED
      BY <1>1, <2>1, <3>2
  <2>2. CASE /\ pc[t] = "readNow" /\ TakeBytes(t, count[t] - Len(got[t]))
             /\ UNCHANGED count
    <3>1. Len(got[t]) <= count[t]
      BY <2>2 DEF DataInv, Blank
    <3> QED
      BY <1>1, <2>2, <3>1
  <2> QED
    BY <2>1, <2>2 DEF Takes
<1> DEFINE k == Least(n, Readable)
           g == [j \in 1..k |-> taken + j]
<1>3. /\ taken' = taken + k /\ got' = [got EXCEPT ![t] = @ \o g] /\ arrived' = arrived
  BY <1>2 DEF TakeBytes
<1>4. Readable \in Nat /\ Readable <= arrived - taken /\ (Readable > 0 => descriptors # {})
  BY <1>1 DEF Readable, Usable
<1>5. k \in Nat /\ k <= n /\ k <= Readable
  BY <1>4 DEF Least
<1> HIDE DEF k
<1>6. g \in Seq(Nat) /\ Len(g) = k
  <2>1. g \in [1..k -> Nat]
    BY <1>1, <1>5
  <2>2. g \in Seq(Nat)
    BY <1>5, <2>1, SeqDef
  <2>3. Len(g) \in Nat /\ DOMAIN g = 1..Len(g) /\ DOMAIN g = 1..k
    BY <2>2, LenProperties
  <2> QED
    BY <1>5, <2>2, <2>3
<1>7. \A j \in 1..k : g[j] = taken + j
  OBVIOUS
<1> HIDE DEF g
<1>8. /\ got[t] \o g \in Seq(Nat) /\ Len(got[t] \o g) = Len(got[t]) + k
      /\ \A j \in 1..Len(got[t]) + k :
           (got[t] \o g)[j] = IF j <= Len(got[t]) THEN got[t][j] ELSE g[j - Len(got[t])]
  BY <1>1, <1>6, ConcatProperties
<1>9. got'[t] = got[t] \o g /\ got' \in [Thread -> Seq(Nat)]
  BY <1>1, <1>3, <1>8
<1>10. \A j \in 1..Len(got[t]) : got'[t][j] = got[t][j]
  BY <1>1, <1>5, <1>8, <1>9
<1>11. ASSUME NEW j \in 1..k
       PROVE  got'[t][Len(got[t]) + j] = taken + j
  <2>1. /\ Len(got[t]) + j \in 1..Len(got[t]) + k /\ ~(Len(got[t]) + j <= Len(got[t]))
        /\ (Len(got[t]) + j) - Len(got[t]) = j
    BY <1>1, <1>5
  <2>2. got'[t][Len(got[t]) + j] = g[j]
    BY <1>8, <1>9, <2>1
  <2> QED
    BY <1>7, <2>2
<1>12. taken' \in 0..arrived /\ (k > 0 => descriptors # {})
  BY <1>1, <1>3, <1>4, <1>5
<1>13. Len(got'[t]) <= count'[t]
  BY <1>1, <1>2, <1>5, <1>8, <1>9
<1> QED
  BY <1>2, <1>3, <1>5, <1>8, <1>9, <1>10, <1>11, <1>12, <1>13

LEMMA KeepsData ==
    ASSUME DataInv, NEW t \in Thread, Works(t), StepData(t)
    PROVE  DataOK'
<1>1. /\ got \in [Thread -> Seq(Nat)] /\ count \in [Thread -> Nat] /\ <<>> \in Seq(Nat)
      /\ arrived \in Nat /\ taken \in 0..arrived /\ pending \in 0..OutCap /\ 0 \in 0..OutCap
      /\ accepted \in Seq([by : Thread, nth : Nat]) /\ Wanted(t) \in Nat
  <2>1. Len(got[t]) \in Nat
    BY DEF DataInv, DataOK
  <2> QED
    BY <2>1, SerialAssumption DEF DataInv, DataOK, Wanted
<1>2. Moves(t) => got' \in [Thread -> Seq(Nat)] /\ count' \in [Thread -> Nat]
  <2>1. Leaves(t) => got' \in [Thread -> Seq(Nat)] /\ count' \in [Thread -> Nat]
    BY <1>1 DEF Leaves
  <2>2. ReadMove(t) => got' \in [Thread -> Seq(Nat)] /\ count' \in [Thread -> Nat]
    BY <1>1 DEF ReadMove
  <2>3. Stands(t) \/ WriteMove(t) \/ OtherMove(t) => UNCHANGED <<got, count>>
    BY DEF Stands, WriteMove, OtherMove
  <2> QED
    BY <1>1, <2>1, <2>2, <2>3 DEF Moves
<1>3. OutKept => pending' \in 0..OutCap /\ accepted' \in Seq([by : Thread, nth : Nat])
  BY <1>1 DEF OutKept
<1>4. InKept(t) => arrived' \in Nat /\ taken' \in 0..arrived'
  BY <1>1 DEF InKept
<1>5. CASE Quiet(t)
  BY <1>2, <1>3, <1>4, <1>5 DEF Quiet, DataOK
<1>6. CASE Puts(t)
  <2>1. /\ got' \in [Thread -> Seq(Nat)] /\ count' \in [Thread -> Nat] /\ pending' \in 0..OutCap
        /\ accepted' \in Seq([by : Thread, nth : Nat])
    BY <1>1, <1>6, PutProperties
  <2> QED
    BY <1>4, <1>6, <2>1 DEF Puts, DataOK
<1>7. CASE Takes(t)
  <2>1. /\ got' \in [Thread -> Seq(Nat)] /\ count' \in [Thread -> Nat]
        /\ arrived' \in Nat /\ taken' \in 0..arrived'
    BY <1>1, <1>7, TakeProperties
  <2> QED
    BY <1>3, <1>7, <2>1 DEF Takes, DataOK
<1>8. CASE Drops(t)
  <2>1. got' \in [Thread -> Seq(Nat)] /\ count' \in [Thread -> Nat]
    BY <1>2, <1>8 DEF Drops, Moves
  <2>2. /\ arrived' = arrived /\ taken' \in {taken, arrived} /\ accepted' = accepted
        /\ pending' \in {pending, 0}
    BY <1>8 DEF Drops, Drop
  <2>3. arrived' \in Nat /\ taken' \in 0..arrived' /\ pending' \in 0..OutCap
    BY <1>1, <2>2
  <2> QED
    BY <1>1, <2>1, <2>2, <2>3 DEF DataOK
<1>9. CASE FlushesIn(t)
  <2>1. arrived' \in Nat /\ taken' \in 0..arrived'
    BY <1>1, <1>9 DEF FlushesIn
  <2> QED
    BY <1>2, <1>3, <1>9, <2>1 DEF FlushesIn, Moves, DataOK
<1> QED
  BY <1>5, <1>6, <1>7, <1>8, <1>9 DEF StepData

LEMMA KeepsBlank ==
    ASSUME DataInv, NEW t \in Thread, Works(t), StepData(t)
    PROVE  Blank'
<1>1. /\ pc \in [Thread -> Working \cup {"idle", "lock"}]
      /\ op \in [Thread -> Ops \cup {"none", "construct", "destroy"}]
      /\ got \in [Thread -> Seq(Nat)] /\ count \in [Thread -> Nat]
      /\ Len(got[t]) \in Nat /\ Size \in Nat
  BY SerialAssumption DEF DataInv, DataOK, LockInv, ControlOK
<1>2. pc[t] \in Working
  BY DEF Works
<1> DEFINE P(u) ==
      /\ pc'[u] \in {"idle", "lock"} => got'[u] = <<>> /\ count'[u] = 0
      /\ op'[u] \notin Reads => got'[u] = <<>>
      /\ op'[u] = "read" /\ pc'[u] = "body" => got'[u] = <<>>
      /\ op'[u] = "write" /\ pc'[u] = "body" => count'[u] = 0
      /\ op'[u] = "write" => count'[u] <= Size
      /\ pc'[u] \in {"readLoop", "readNow"} => Len(got'[u]) <= count'[u]
<1>3. \A u \in Thread \ {t} : P(u)
  BY OthersKeep DEF DataInv, Blank
<1> SUFFICES P(t)
  BY <1>3 DEF Blank
<1>4. CASE Leaves(t)
  BY <1>1, <1>4 DEF Leaves, Reads
<1>5. CASE Stands(t)
  BY <1>5 DEF Stands, DataInv, Blank
<1>6. CASE WriteMove(t)
  BY <1>1, <1>6 DEF WriteMove, DataInv, Blank, Reads
<1>7. CASE ReadMove(t)
  <2>1. /\ op'[t] \in Reads /\ pc'[t] \in {"body", "readLoop", "readNow"} /\ got'[t] = got[t]
        /\ op'[t] = "read" => pc'[t] # "body"
    BY <1>1, <1>7 DEF ReadMove
  <2>2. pc'[t] \in {"readLoop", "readNow"} => Len(got'[t]) <= count'[t]
    <3>1. CASE pc[t] \in {"readLoop", "readNow"} /\ UNCHANGED count
      BY <2>1, <3>1 DEF DataInv, Blank
    <3>2. CASE pc[t] = "body" /\ count' = [count EXCEPT ![t] = Wanted(t)]
      <4>1. op[t] = "read" => got[t] = <<>>
        BY <3>2 DEF DataInv, Blank
      <4>2. Len(got[t]) <= Wanted(t)
        BY <1>1, <4>1 DEF Wanted
      <4> QED
        BY <1>1, <2>1, <3>2, <4>2
    <3>3. CASE op[t] # "read" /\ pc' = [pc EXCEPT ![t] = "body"]
      BY <1>1, <3>3
    <3> QED
      BY <1>7, <3>1, <3>2, <3>3 DEF ReadMove
  <2> QED
    BY <2>1, <2>2 DEF Reads
<1>8. CASE OtherMove(t)
  BY <1>1, <1>8 DEF OtherMove, DataInv, Blank, Reads, Moving, Working
<1>9. CASE Puts(t)
  <2>1. op[t] = "write" /\ UNCHANGED <<op, got>> /\ count'[t] <= Size
    BY <1>9, PutProperties DEF Puts, DataInv, Places
  <2> QED
    BY <1>1, <1>9, <2>1 DEF Puts, DataInv, Blank, Reads
<1>10. CASE Takes(t)
  <2>1. pc'[t] = "readLoop" /\ op'[t] \in Reads /\ Len(got'[t]) <= count'[t]
    BY <1>1, <1>10, TakeProperties DEF Takes
  <2> QED
    BY <2>1 DEF Reads
<1> QED
  BY <1>4, <1>5, <1>6, <1>7, <1>8, <1>9, <1>10 DEF StepData, Quiet, Moves, Drops, FlushesIn

-----------------------------------------------------------------------------
(***************************************************************************)
(* The rest of the steps: a call that begins, and what happens around the  *)
(* calls.  Every step is one of the kinds of StepKinds.                    *)
(***************************************************************************)
Starts(t, c, l) ==
    /\ pc[t] = "idle" /\ pc' = [pc EXCEPT ![t] = l] /\ op' = [op EXCEPT ![t] = c]
    /\ l \in {"lock", "body", "openFd", "closeFd"}
    /\ c \in Moving => l \in {"lock", "body"}
    /\ disturbed' = [disturbed EXCEPT ![t] = FALSE]
    /\ UNCHANGED <<got, count, accepted, pending, arrived, taken, descriptors>>

Queues(t) ==
    /\ pc[t] = "lock" /\ \E l \in {"lock", "body"} : pc' = [pc EXCEPT ![t] = l]
    /\ UNCHANGED <<op, got, count, accepted, pending, arrived, taken, descriptors, disturbed>>

Around ==
    /\ UNCHANGED <<pc, op, got, count, accepted, descriptors, disturbed>>
    /\ pending' = pending \/ (pending > 0 /\ pending' = pending - 1)
    /\ \/ UNCHANGED <<arrived, taken>>
       \/ /\ arrived < MaxIn /\ arrived' = arrived + 1
          /\ taken' = IF descriptors = {} THEN arrived + 1 ELSE taken

LEMMA StepKinds ==
    ASSUME Places, [SerialNext]_svars
    PROVE  \/ \E t \in Thread : (Works(t) /\ StepData(t)) \/ Queues(t)
           \/ \E t \in Thread, c \in Ops \cup {"destroy"},
                l \in {"lock", "body", "openFd", "closeFd"} : Starts(t, c, l)
           \/ Around
<1> DEFINE G == \/ \E t \in Thread : (Works(t) /\ StepData(t)) \/ Queues(t)
                \/ \E t \in Thread, c \in Ops \cup {"destroy"},
                     l \in {"lock", "body", "openFd", "closeFd"} : Starts(t, c, l)
                \/ Around
<1> SUFFICES G
  OBVIOUS
<1>1. ASSUME NEW t \in Thread,
             (Step(t) /\ ~TakeLock(t)) \/ UnixWaitForChange(t) \/ WinWaitForChange(t)
      PROVE  Works(t) /\ StepData(t)
  BY <1>1, StepWorks, StepsData
<1>2. ASSUME NEW t \in Thread, TakeLock(t)
      PROVE  Queues(t)
  BY <1>2 DEF TakeLock, Queues, locals, kernel, input, output, history
<1>3. ASSUME NEW t \in Thread, NEW c \in Calls[t], Call(t, c)
      PROVE  c \in Ops /\ Starts(t, c, Entry(c)) /\ Entry(c) \in {"lock", "body", "openFd", "closeFd"}
  <2>1. c \in Ops
    BY SerialAssumption
  <2>2. /\ Entry(c) \in {"lock", "body", "openFd", "closeFd"}
        /\ c \in Moving => Entry(c) \in {"lock", "body"}
    BY EntryPlace DEF Moving, Reads
  <2> QED
    BY <1>3, <2>1, <2>2 DEF Call, Invoke, Starts, kernel, input, output
<1>4. ASSUME Destroy
      PROVE  Main \in Thread /\ Starts(Main, "destroy", "closeFd")
  <2>1. Main \in Thread /\ "destroy" \notin Moving
    BY SerialAssumption DEF Moving, Reads
  <2> QED
    BY <1>4, <2>1 DEF Destroy, Invoke, Starts, kernel, input, output
<1>5. ASSUME (\E t \in Thread : Expire(t)) \/ Arrive \/ Transmit \/ Unplug \/ UNCHANGED svars
      PROVE  Around
  BY <1>5 DEF Expire, Arrive, Transmit, Unplug, svars, Around, control, locals, kernel, input,
              output, history
<1>6. CASE \E t \in Thread : \E c \in Calls[t] : Call(t, c)
  BY <1>3, <1>6
<1>7. CASE Destroy
  BY <1>4, <1>7
<1>8. CASE \E t \in Thread : Step(t) \/ UnixWaitForChange(t) \/ WinWaitForChange(t)
  BY <1>1, <1>2, <1>8
<1>9. CASE (\E t \in Thread : Expire(t)) \/ Arrive \/ Transmit \/ Unplug \/ UNCHANGED svars
  BY <1>5, <1>9
<1> QED
  BY <1>6, <1>7, <1>8, <1>9 DEF SerialNext

LEMMA NextData == DataInv /\ [SerialNext]_svars => DataInv'
<1> SUFFICES ASSUME DataInv, [SerialNext]_svars
             PROVE  DataInv'
  OBVIOUS
<1>1. LockInv' /\ Places
  BY NextLocks DEF DataInv
<1>2. /\ pc \in [Thread -> Working \cup {"idle", "lock"}]
      /\ op \in [Thread -> Ops \cup {"none", "construct", "destroy"}]
      /\ got \in [Thread -> Seq(Nat)] /\ count \in [Thread -> Nat]
      /\ arrived \in Nat /\ taken \in 0..arrived /\ pending \in 0..OutCap
      /\ accepted \in Seq([by : Thread, nth : Nat])
  BY DEF DataInv, DataOK, LockInv, ControlOK
<1>3. ASSUME NEW t \in Thread, Works(t), StepData(t)
      PROVE  Places' /\ DataOK' /\ Blank'
  BY <1>3, KeepsPlaces, KeepsData, KeepsBlank
<1>4. ASSUME NEW t \in Thread, NEW c \in Ops \cup {"destroy"},
             NEW l \in {"lock", "body", "openFd", "closeFd"}, Starts(t, c, l)
      PROVE  Places' /\ DataOK' /\ Blank'
  <2>1. got[t] = <<>> /\ count[t] = 0
    BY <1>4 DEF Starts, DataInv, Blank
  <2>2. /\ pc'[t] = l /\ op'[t] = c
        /\ \A u \in Thread \ {t} : pc'[u] = pc[u] /\ op'[u] = op[u]
        /\ c \in Moving => l \in {"lock", "body"}
        /\ UNCHANGED <<got, count, accepted, pending, arrived, taken>>
    BY <1>2, <1>4 DEF Starts
  <2>3. Places'
    BY <2>2 DEF Places, DataInv, Moving, Reads
  <2>4. DataOK'
    BY <1>2, <2>2 DEF DataOK
  <2>5. Size \in Nat
    BY SerialAssumption
  <2>6. Blank'
    BY <2>1, <2>2, <2>5 DEF Blank, DataInv, Reads
  <2> QED
    BY <2>3, <2>4, <2>6
<1>5. ASSUME NEW t \in Thread, Queues(t)
      PROVE  Places' /\ DataOK' /\ Blank'
  <2>1. got[t] = <<>> /\ count[t] = 0
    BY <1>5 DEF Queues, DataInv, Blank
  <2>2. /\ pc[t] = "lock" /\ pc'[t] \in {"lock", "body"}
        /\ \A u \in Thread \ {t} : pc'[u] = pc[u]
        /\ UNCHANGED <<op, got, count, accepted, pending, arrived, taken>>
    BY <1>2, <1>5 DEF Queues
  <2>3. Places'
    BY <2>2 DEF Places, DataInv, Reads
  <2>4. DataOK'
    BY <1>2, <2>2 DEF DataOK
  <2>5. Blank'
    BY <2>1, <2>2 DEF Blank, DataInv
  <2> QED
    BY <2>3, <2>4, <2>5
<1>6. CASE Around
  <2>1. OutCap \in Nat
    BY SerialAssumption
  <2>2. arrived' \in Nat /\ taken' \in 0..arrived' /\ pending' \in 0..OutCap
    BY <1>2, <1>6, <2>1 DEF Around
  <2>3. DataOK'
    BY <1>2, <1>6, <2>2 DEF Around, DataOK
  <2> QED
    BY <1>1, <1>6, <2>3 DEF Around, DataInv, Places, Blank
<1> QED
  BY <1>1, <1>3, <1>4, <1>5, <1>6, StepKinds DEF DataInv

LEMMA DataInvHolds == SerialSpec => []DataInv
  BY InitData, NextData, PTL DEF SerialSpec

-----------------------------------------------------------------------------
(***************************************************************************)
(* The last byte the kernel has is the last that the one write under way   *)
(* put there, so its next byte joins it.                                   *)
(***************************************************************************)
LastWritten ==
    \A t \in Thread : op[t] = "write" /\ count[t] > 0 =>
        /\ accepted # <<>>
        /\ accepted[Len(accepted)] = [by |-> t, nth |-> count[t]]

WriteInv == DataInv /\ LastWritten /\ WriteContiguous

\* While a call is in the kernel with a lock, the others that need it have done nothing.
LEMMA Alone ==
    ASSUME DataInv, NEW t \in Thread, NEW u \in Thread \ {t}, NEW m \in Mutex,
           pc[t] \in Working, m \in Needs(op[t]), m \in Needs(op[u])
    PROVE  /\ op[u] = "write" => count[u] = 0
           /\ got[u] = <<>>
<1>1. lock[m] = t
  BY DEF DataInv, LockInv, LocksHeld
<1>2. pc[u] \notin Working
  BY <1>1 DEF DataInv, LockInv, LocksHeld
<1>3. pc[u] \in {"idle", "lock"}
  BY <1>2 DEF DataInv, LockInv, ControlOK
<1> QED
  BY <1>3 DEF DataInv, Blank

LEMMA StillLastWritten ==
    ASSUME LastWritten, accepted' = accepted,
           \A u \in Thread : op'[u] = "write" /\ count'[u] > 0 =>
               op[u] = "write" /\ count'[u] = count[u]
    PROVE  LastWritten'
  BY DEF LastWritten

LEMMA PutKeepsWrites ==
    ASSUME WriteInv, NEW t \in Thread, Puts(t)
    PROVE  LastWritten' /\ WriteContiguous'
<1> DEFINE B == [by : Thread, nth : Nat]
<1>1. PICK k \in Nat :
             /\ count'[t] = count[t] + k /\ count' \in [Thread -> Nat]
             /\ accepted' \in Seq([by : Thread, nth : Nat])
             /\ Len(accepted') = Len(accepted) + k
             /\ \A j \in 1..Len(accepted) : accepted'[j] = accepted[j]
             /\ \A j \in 1..k : accepted'[Len(accepted) + j] = [by |-> t, nth |-> count[t] + j]
             /\ op' = op
  BY PutProperties DEF WriteInv
<1>2. /\ op[t] = "write" /\ count \in [Thread -> Nat] /\ accepted \in Seq(B)
      /\ count[t] \in Nat /\ Len(accepted) \in Nat
  BY DEF Puts, WriteInv, DataInv, Places, DataOK
<1>3. \A u \in Thread \ {t} : op[u] = "write" => count[u] = 0
  <2>1. pc[t] \in Working
    BY DEF Puts, Working
  <2>2. \A u \in Thread : op[u] = "write" => "write" \in Needs(op[u])
    BY DEF Needs, Mutex
  <2> QED
    BY <1>2, <2>1, <2>2, Alone DEF WriteInv, Mutex
<1>4. \A u \in Thread \ {t} : count'[u] = count[u]
  BY <1>2 DEF Puts, PutBytes
<1>5. CASE k = 0
  <2>1. accepted' = accepted
    <3>1. accepted \in Seq(B) /\ accepted' \in Seq(B) /\ Len(accepted') = Len(accepted)
      BY <1>1, <1>2, <1>5
    <3>2. \A j \in 1..Len(accepted) : accepted'[j] = accepted[j]
      BY <1>1
    <3> HIDE DEF B
    <3> QED
      BY <3>1, <3>2, SeqEqual
  <2>2. LastWritten'
    BY <1>1, <1>2, <1>4, <1>5, <2>1, StillLastWritten DEF WriteInv
  <2>3. WriteContiguous'
    BY <2>1 DEF WriteInv, WriteContiguous
  <2> QED
    BY <2>2, <2>3
<1>6. CASE k > 0
  <2>1. LastWritten'
    <3>1. /\ Len(accepted') = Len(accepted) + k /\ k \in 1..k
          /\ accepted'[Len(accepted')] = [by |-> t, nth |-> count[t] + k]
      BY <1>1, <1>2, <1>6
    <3>2. accepted' # <<>>
      BY <1>1, <1>2, <1>6
    <3>3. \A u \in Thread : op'[u] = "write" /\ count'[u] > 0 => u = t
      BY <1>1, <1>3, <1>4
    <3> QED
      BY <1>1, <3>1, <3>2, <3>3 DEF LastWritten
  <2>2. ASSUME NEW j \in 1..Len(accepted'), accepted'[j].nth > 1
        PROVE  j > 1 /\ accepted'[j-1] = [accepted'[j] EXCEPT !.nth = @ - 1]
    <3>0. j \in Int /\ 1 <= j /\ j <= Len(accepted) + k
      BY <1>1, <1>2
    <3>1. CASE j \in 1..Len(accepted)
      <4>1. accepted[j].nth > 1 /\ accepted'[j] = accepted[j]
        BY <1>1, <2>2, <3>1
      <4>2. j > 1 /\ accepted[j-1] = [accepted[j] EXCEPT !.nth = @ - 1]
        BY <3>1, <4>1 DEF WriteInv, WriteContiguous
      <4>3. j - 1 \in 1..Len(accepted)
        BY <1>2, <3>0, <3>1, <4>2
      <4>4. accepted'[j-1] = accepted[j-1]
        BY <1>1, <4>3
      <4> QED
        BY <4>1, <4>2, <4>4
    <3>2. CASE j = Len(accepted) + 1
      <4>1. 1 \in 1..k /\ accepted'[j] = [by |-> t, nth |-> count[t] + 1]
        BY <1>1, <1>6, <3>2
      <4>2. count[t] > 0
        BY <1>2, <2>2, <4>1
      <4>3. accepted # <<>> /\ accepted[Len(accepted)] = [by |-> t, nth |-> count[t]]
        BY <1>2, <4>2 DEF WriteInv, LastWritten
      <4>4. Len(accepted) \in 1..Len(accepted) /\ j - 1 = Len(accepted) /\ j > 1
        BY <1>2, <3>2, <4>3
      <4>5. accepted'[j-1] = [by |-> t, nth |-> count[t]]
        BY <1>1, <4>3, <4>4
      <4>6. [accepted'[j] EXCEPT !.nth = @ - 1] = [by |-> t, nth |-> count[t]]
        BY <1>2, <4>1
      <4> QED
        BY <4>4, <4>5, <4>6
    <3>3. CASE j > Len(accepted) + 1
      <4> DEFINE i == j - Len(accepted)
      <4>1. /\ i \in 1..k /\ i - 1 \in 1..k /\ j = Len(accepted) + i
            /\ j - 1 = Len(accepted) + (i - 1) /\ j > 1
        BY <1>2, <3>0, <3>3
      <4> HIDE DEF i
      <4>2. /\ accepted'[j] = [by |-> t, nth |-> count[t] + i]
            /\ accepted'[j-1] = [by |-> t, nth |-> count[t] + (i - 1)]
        BY <1>1, <4>1
      <4>3. [accepted'[j] EXCEPT !.nth = @ - 1] = [by |-> t, nth |-> count[t] + (i - 1)]
        BY <1>2, <4>1, <4>2
      <4> QED
        BY <4>1, <4>2, <4>3
    <3> QED
      BY <1>1, <1>2, <3>1, <3>2, <3>3
  <2> QED
    BY <2>1, <2>2 DEF WriteContiguous
<1> QED
  BY <1>1, <1>5, <1>6

LEMMA NextWrites == WriteInv /\ [SerialNext]_svars => WriteInv'
<1> SUFFICES ASSUME WriteInv, [SerialNext]_svars
             PROVE  WriteInv'
  OBVIOUS
<1>1. DataInv' /\ Places /\ DataInv
  BY NextData DEF WriteInv, DataInv
<1>2. /\ pc \in [Thread -> Working \cup {"idle", "lock"}]
      /\ op \in [Thread -> Ops \cup {"none", "construct", "destroy"}]
      /\ got \in [Thread -> Seq(Nat)] /\ count \in [Thread -> Nat]
  BY <1>1 DEF DataInv, DataOK, LockInv, ControlOK
<1> DEFINE Kept == /\ accepted' = accepted
                   /\ \A u \in Thread : op'[u] = "write" /\ count'[u] > 0 =>
                        op[u] = "write" /\ count'[u] = count[u]
<1>3. ASSUME NEW t \in Thread, Works(t), StepData(t), ~Puts(t)
      PROVE  Kept
  <2>1. \A u \in Thread \ {t} : op'[u] = op[u] /\ count'[u] = count[u]
    BY <1>1, <1>3, OthersKeep
  <2>2. accepted' = accepted
    BY <1>3 DEF StepData, Quiet, Takes, Drops, FlushesIn, OutKept, Drop
  <2> SUFFICES op'[t] = "write" /\ count'[t] > 0 => op[t] = "write" /\ count'[t] = count[t]
    BY <2>1, <2>2
  <2>3. CASE Leaves(t)
    BY <1>2, <2>3 DEF Leaves
  <2>4. CASE Stands(t) \/ WriteMove(t)
    BY <2>4 DEF Stands, WriteMove
  <2>5. CASE ReadMove(t)
    BY <2>5 DEF ReadMove, Reads
  <2>6. CASE OtherMove(t)
    BY <1>2, <2>6 DEF OtherMove, Moving, Reads
  <2>7. CASE Takes(t)
    BY <2>7 DEF Takes, Reads
  <2> QED
    BY <1>3, <2>3, <2>4, <2>5, <2>6, <2>7 DEF StepData, Quiet, Moves, Drops, FlushesIn
<1>4. ASSUME NEW t \in Thread, NEW c \in Ops \cup {"destroy"},
             NEW l \in {"lock", "body", "openFd", "closeFd"}, Starts(t, c, l)
      PROVE  Kept
  <2>1. count[t] = 0
    BY <1>1, <1>4 DEF Starts, DataInv, Blank
  <2> QED
    BY <1>2, <1>4, <2>1 DEF Starts
<1>5. (\E t \in Thread : Queues(t)) \/ Around => Kept
  BY DEF Queues, Around
<1>6. CASE Kept
  <2>1. LastWritten'
    BY <1>6, StillLastWritten DEF WriteInv
  <2> QED
    BY <1>1, <1>6, <2>1 DEF WriteInv, WriteContiguous
<1>7. CASE \E t \in Thread : Puts(t)
  BY <1>1, <1>7, PutKeepsWrites DEF WriteInv
<1> QED
  BY <1>1, <1>3, <1>4, <1>5, <1>6, <1>7, StepKinds

\* The bytes of one write reach the kernel in order and with nothing between
\* them, for any number of threads.
THEOREM WriteContiguousHolds == SerialSpec => []WriteContiguous
<1>1. SerialInit => WriteInv
  <2> SUFFICES ASSUME SerialInit PROVE WriteInv
    OBVIOUS
  <2>1. accepted = <<>> /\ \A t \in Thread : count[t] = 0
    BY DEF SerialInit
  <2> QED
    BY <2>1, InitData DEF WriteInv, LastWritten, WriteContiguous
<1>2. WriteInv => WriteContiguous
  BY DEF WriteInv
<1> QED
  BY <1>1, <1>2, NextWrites, PTL DEF SerialSpec

-----------------------------------------------------------------------------
(***************************************************************************)
(* What a reading call has ends with the last byte taken from the kernel,  *)
(* as long as nobody closed the port under it: its next byte is the next.  *)
(***************************************************************************)
LastRead ==
    \A t \in Thread : got[t] # <<>> /\ ~disturbed[t] =>
        descriptors # {} /\ got[t][Len(got[t])] = taken

ReadInv == DataInv /\ DOMAIN disturbed = Thread /\ LastRead /\ ReadContiguous

\* A step that leaves the input queue alone, and the bytes of every call that
\* has some and was not disturbed.
LEMMA StillRead ==
    ASSUME ReadInv,
           \A u \in Thread : got'[u] # <<>> /\ ~disturbed'[u] =>
               /\ got'[u] = got[u] /\ ~disturbed[u]
               /\ taken' = taken /\ descriptors \subseteq descriptors'
    PROVE  LastRead' /\ ReadContiguous'
<1>1. LastRead'
  <2>1. ASSUME NEW u \in Thread, got'[u] # <<>> /\ ~disturbed'[u]
        PROVE  descriptors' # {} /\ got'[u][Len(got'[u])] = taken'
    <3>1. got[u] # <<>> /\ ~disturbed[u]
      BY <2>1
    <3>2. descriptors # {} /\ got[u][Len(got[u])] = taken
      BY <3>1 DEF ReadInv, LastRead
    <3> QED
      BY <2>1, <3>2
  <2> QED
    BY <2>1 DEF LastRead
<1>2. ReadContiguous'
  <2>1. ASSUME NEW u \in Thread, ~disturbed'[u], NEW j \in 2..Len(got'[u])
        PROVE  got'[u][j] = got'[u][j-1] + 1
    <3>1. got'[u] # <<>>
      BY <2>1
    <3>2. got'[u] = got[u] /\ ~disturbed[u]
      BY <2>1, <3>1
    <3> QED
      BY <3>2 DEF ReadInv, ReadContiguous
  <2> QED
    BY <2>1 DEF ReadContiguous
<1> QED
  BY <1>1, <1>2

\* The calls that need the read lock have read nothing while another has it.
LEMMA ReaderAlone ==
    ASSUME DataInv, NEW t \in Thread, pc[t] \in Working, "read" \in Needs(op[t])
    PROVE  \A u \in Thread \ {t} : got[u] = <<>>
<1> SUFFICES ASSUME NEW u \in Thread \ {t} PROVE got[u] = <<>>
  OBVIOUS
<1>1. CASE op[u] \in Reads
  <2>1. "read" \in Needs(op[u])
    BY <1>1 DEF Needs, Mutex
  <2> QED
    BY <2>1, Alone DEF Mutex
<1>2. CASE op[u] \notin Reads
  BY <1>2 DEF DataInv, Blank
<1> QED
  BY <1>1, <1>2

LEMMA TakeKeepsReads ==
    ASSUME ReadInv, NEW t \in Thread, Takes(t)
    PROVE  LastRead' /\ ReadContiguous'
<1>1. PICK k \in Nat :
             /\ taken' = taken + k
             /\ k > 0 => descriptors # {}
             /\ got' \in [Thread -> Seq(Nat)] /\ Len(got'[t]) = Len(got[t]) + k
             /\ \A j \in 1..Len(got[t]) : got'[t][j] = got[t][j]
             /\ \A j \in 1..k : got'[t][Len(got[t]) + j] = taken + j
  BY TakeProperties DEF ReadInv
<1>2. /\ got \in [Thread -> Seq(Nat)] /\ got[t] \in Seq(Nat) /\ Len(got[t]) \in Nat
      /\ taken \in Nat /\ DataInv
  BY DEF ReadInv, DataInv, DataOK
<1>3. \A u \in Thread \ {t} : got'[u] = <<>>
  <2>1. pc[t] \in Working /\ "read" \in Needs(op[t])
    BY DEF Takes, Working, Needs, Mutex
  <2>2. \A u \in Thread \ {t} : got'[u] = got[u]
    BY <1>2 DEF Takes, TakeBytes
  <2> QED
    BY <1>2, <2>1, <2>2, ReaderAlone
<1>4. disturbed' = disturbed /\ descriptors' = descriptors
  BY DEF Takes
<1>5. ASSUME ~disturbed[t], got'[t] # <<>>
      PROVE  descriptors # {} /\ got'[t][Len(got'[t])] = taken + k
  <2>1. CASE k = 0
    <3>1. got'[t] = got[t]
      <4>1. got'[t] \in Seq(Nat) /\ Len(got'[t]) = Len(got[t])
        BY <1>1, <1>2, <2>1
      <4>2. \A j \in 1..Len(got'[t]) : got'[t][j] = got[t][j]
        BY <1>1, <4>1
      <4> QED
        BY <1>2, <4>1, <4>2, SeqEqual
    <3>2. descriptors # {} /\ got[t][Len(got[t])] = taken
      BY <1>5, <3>1 DEF ReadInv, LastRead
    <3> QED
      BY <1>2, <2>1, <3>1, <3>2
  <2>2. CASE k > 0
    <3>1. k \in 1..k
      BY <2>2
    <3> QED
      BY <1>1, <2>2, <3>1
  <2> QED
    BY <2>1, <2>2
<1>6. ASSUME ~disturbed[t], NEW j \in 2..Len(got'[t])
      PROVE  got'[t][j] = got'[t][j-1] + 1
  <2>1. j \in Int /\ 2 <= j /\ j <= Len(got[t]) + k
    BY <1>1, <1>2
  <2>2. CASE j <= Len(got[t])
    <3>1. j \in 2..Len(got[t]) /\ j \in 1..Len(got[t]) /\ j - 1 \in 1..Len(got[t])
      BY <1>2, <2>1, <2>2
    <3>2. got[t][j] = got[t][j-1] + 1
      BY <1>6, <3>1 DEF ReadInv, ReadContiguous
    <3> QED
      BY <1>1, <3>1, <3>2
  <2>3. CASE j = Len(got[t]) + 1
    <3>1. 1 \in 1..k /\ got[t] # <<>> /\ j - 1 \in 1..Len(got[t]) /\ j - 1 = Len(got[t])
      BY <1>2, <2>1, <2>3
    <3>2. got[t][j-1] = taken
      BY <1>6, <3>1 DEF ReadInv, LastRead
    <3>3. got'[t][j-1] = taken /\ got'[t][j] = taken + 1
      BY <1>1, <2>3, <3>1, <3>2
    <3> QED
      BY <3>3
  <2>4. CASE j > Len(got[t]) + 1
    <3> DEFINE i == j - Len(got[t])
    <3>1. i \in 1..k /\ i - 1 \in 1..k /\ j = Len(got[t]) + i /\ j - 1 = Len(got[t]) + (i - 1)
      BY <1>2, <2>1, <2>4
    <3> HIDE DEF i
    <3>2. got'[t][j] = taken + i /\ got'[t][j-1] = taken + (i - 1)
      BY <1>1, <3>1
    <3> QED
      BY <1>2, <3>1, <3>2
  <2> QED
    BY <1>2, <2>1, <2>2, <2>3, <2>4
<1>7. LastRead'
  <2>1. ASSUME NEW u \in Thread, got'[u] # <<>>, ~disturbed'[u]
        PROVE  descriptors' # {} /\ got'[u][Len(got'[u])] = taken'
    <3>1. u = t
      BY <1>3, <2>1
    <3>2. ~disturbed[t]
      BY <1>4, <2>1, <3>1
    <3> QED
      BY <1>1, <1>4, <1>5, <2>1, <3>1, <3>2
  <2> QED
    BY <2>1 DEF LastRead
<1>8. ReadContiguous'
  <2>1. ASSUME NEW u \in Thread, ~disturbed'[u], NEW j \in 2..Len(got'[u])
        PROVE  got'[u][j] = got'[u][j-1] + 1
    <3>1. u = t
      BY <1>3, <2>1
    <3>2. ~disturbed[t]
      BY <1>4, <2>1, <3>1
    <3> QED
      BY <1>6, <2>1, <3>1, <3>2
  <2> QED
    BY <2>1 DEF ReadContiguous
<1> QED
  BY <1>7, <1>8

LEMMA StaysDisturbed ==
    ASSUME NEW t \in Thread, disturbed' = disturbed \/ Disturb(t), DOMAIN disturbed = Thread
    PROVE  DOMAIN disturbed' = Thread /\ \A u \in Thread : ~disturbed'[u] => ~disturbed[u]
<1>1. CASE disturbed' = disturbed
  BY <1>1
<1>2. CASE Disturb(t) /\ op[t] = "setPort"
  <2>1. disturbed' = disturbed
    BY <1>2, Zenon DEF Disturb
  <2> QED
    BY <2>1
<1>3. CASE Disturb(t) /\ op[t] # "setPort"
  <2>1. disturbed' = [u \in Thread |-> disturbed[u] \/ pc[u] # "idle"]
    BY <1>3, Zenon DEF Disturb
  <2> QED
    BY <2>1, Zenon
<1> QED
  BY <1>1, <1>2, <1>3

LEMMA StepKeepsReads ==
    ASSUME ReadInv, NEW t \in Thread, Works(t), StepData(t)
    PROVE  LastRead' /\ ReadContiguous' /\ DOMAIN disturbed' = Thread
<1>1. /\ DataInv /\ got \in [Thread -> Seq(Nat)]
      /\ op \in [Thread -> Ops \cup {"none", "construct", "destroy"}]
      /\ \A u \in Thread \ {t} : got'[u] = got[u]
  BY OthersKeep DEF ReadInv, DataInv, DataOK, LockInv, ControlOK
<1>2. Moves(t) => got'[t] = <<>> \/ got'[t] = got[t]
  BY <1>1 DEF Moves, Leaves, Stands, WriteMove, ReadMove, OtherMove
<1>3. CASE Quiet(t) \/ Puts(t)
  <2>1. /\ \A u \in Thread : got'[u] = <<>> \/ got'[u] = got[u]
        /\ taken' = taken /\ descriptors \subseteq descriptors'
    BY <1>1, <1>2, <1>3 DEF Quiet, Puts, PutBytes, InKept
  <2>2. disturbed' = disturbed \/ Disturb(t)
    BY <1>3 DEF Quiet, Puts, InKept
  <2>3. DOMAIN disturbed' = Thread /\ \A u \in Thread : ~disturbed'[u] => ~disturbed[u]
    BY <2>2, StaysDisturbed DEF ReadInv
  <2>4. ASSUME NEW u \in Thread, got'[u] # <<>> /\ ~disturbed'[u]
        PROVE  /\ got'[u] = got[u] /\ ~disturbed[u]
               /\ taken' = taken /\ descriptors \subseteq descriptors'
    BY <2>1, <2>3, <2>4
  <2>5. LastRead' /\ ReadContiguous'
    BY <2>4, StillRead
  <2> QED
    BY <2>3, <2>5
<1>4. CASE Takes(t)
  <2>1. disturbed' = disturbed
    BY <1>4 DEF Takes
  <2> QED
    BY <1>4, <2>1, TakeKeepsReads DEF ReadInv
<1>5. CASE FlushesIn(t)
  <2>1. \A u \in Thread : got'[u] = <<>>
    <3>1. pc[t] \in Working /\ "read" \in Needs(op[t])
      BY <1>5 DEF FlushesIn, Working, Needs, Mutex
    <3>2. got'[t] = <<>>
      BY <1>1, <1>5 DEF FlushesIn, Leaves
    <3> QED
      BY <1>1, <3>1, <3>2, ReaderAlone
  <2>2. LastRead' /\ ReadContiguous'
    BY <2>1, StillRead
  <2> QED
    BY <1>5, <2>2 DEF FlushesIn, ReadInv
<1>6. CASE Drops(t)
  <2>1. got'[t] = <<>>
    <3>1. op[t] \notin Reads
      BY <1>6 DEF Drops, Moving
    <3>2. got[t] = <<>>
      BY <1>1, <3>1 DEF DataInv, Blank
    <3> QED
      BY <1>1, <1>6, <3>2 DEF Drops, Leaves, OtherMove
  <2>2. CASE op[t] = "setPort"
    <3>1. pc[t] \in Working /\ "read" \in Needs(op[t])
      BY <2>2 DEF Works, Needs, Mutex
    <3>2. \A u \in Thread : got'[u] = <<>>
      BY <1>1, <2>1, <3>1, ReaderAlone
    <3>3. LastRead' /\ ReadContiguous'
      BY <3>2, StillRead
    <3>4. disturbed' = disturbed
      BY <1>6, <2>2, Zenon DEF Drops, Drop, Disturb
    <3> QED
      BY <3>3, <3>4 DEF ReadInv
  <2>3. CASE op[t] # "setPort"
    <3>1. disturbed' = [u \in Thread |-> disturbed[u] \/ pc[u] # "idle"]
      BY <1>6, <2>3, Zenon DEF Drops, Drop, Disturb
    <3>2. ASSUME NEW u \in Thread, ~disturbed'[u]
          PROVE  pc[u] = "idle"
      BY <3>1, <3>2, Zenon
    <3>3. ASSUME NEW u \in Thread, ~disturbed'[u]
          PROVE  got'[u] = <<>>
      BY <1>1, <2>1, <3>2, <3>3 DEF DataInv, Blank
    <3>4. LastRead' /\ ReadContiguous'
      BY <3>3, StillRead
    <3>5. DOMAIN disturbed' = Thread
      BY <3>1, Zenon
    <3> QED
      BY <3>4, <3>5
  <2> QED
    BY <2>2, <2>3
<1> QED
  BY <1>3, <1>4, <1>5, <1>6 DEF StepData

LEMMA NextReads == ReadInv /\ [SerialNext]_svars => ReadInv'
<1> SUFFICES ASSUME ReadInv, [SerialNext]_svars
             PROVE  ReadInv'
  OBVIOUS
<1> DEFINE P == LastRead' /\ ReadContiguous' /\ DOMAIN disturbed' = Thread
<1>1. DataInv' /\ DataInv /\ Places
  BY NextData DEF ReadInv, DataInv
<1> SUFFICES P
  BY <1>1 DEF ReadInv
<1>2. ASSUME NEW t \in Thread, NEW c \in Ops \cup {"destroy"},
             NEW l \in {"lock", "body", "openFd", "closeFd"}, Starts(t, c, l)
      PROVE  P
  <2>1. /\ disturbed' = [disturbed EXCEPT ![t] = FALSE]
        /\ got' = got /\ taken' = taken /\ descriptors' = descriptors
        /\ pc[t] = "idle"
    BY <1>2 DEF Starts
  <2>2. got[t] = <<>>
    BY <1>1, <2>1 DEF DataInv, Blank
  <2>3. ASSUME NEW u \in Thread, u # t, ~disturbed'[u]
        PROVE  ~disturbed[u]
    <3>1. DOMAIN disturbed = Thread
      BY DEF ReadInv
    <3> QED
      BY <2>1, <2>3, <3>1, Zenon
  <2>4. LastRead' /\ ReadContiguous'
    BY <2>1, <2>2, <2>3, StillRead
  <2>5. DOMAIN disturbed' = Thread
    BY <2>1 DEF ReadInv
  <2> QED
    BY <2>4, <2>5
<1>3. ASSUME NEW t \in Thread, Queues(t)
      PROVE  P
  <2>1. UNCHANGED <<got, disturbed, taken, descriptors>>
    BY <1>3 DEF Queues
  <2> QED
    BY <2>1, StillRead DEF ReadInv
<1>4. CASE Around
  <2>1. /\ UNCHANGED <<got, descriptors, disturbed>>
        /\ taken' = taken \/ descriptors = {}
    BY <1>4 DEF Around
  <2>2. \A u \in Thread : got[u] # <<>> /\ ~disturbed[u] => descriptors # {}
    BY DEF ReadInv, LastRead
  <2> QED
    BY <2>1, <2>2, StillRead DEF ReadInv
<1> QED
  BY <1>1, <1>2, <1>3, <1>4, StepKinds, StepKeepsReads

\* The bytes a reading call returns are consecutive bytes of the line, for any
\* number of threads, unless close() ran, or an open() failed, under the call.
THEOREM ReadContiguousHolds == SerialSpec => []ReadContiguous
<1>1. SerialInit => ReadInv
  <2> SUFFICES ASSUME SerialInit PROVE ReadInv
    OBVIOUS
  <2>1. DOMAIN disturbed = Thread /\ \A t \in Thread : got[t] = <<>>
    BY DEF SerialInit
  <2> QED
    BY <2>1, InitData DEF ReadInv, LastRead, ReadContiguous
<1>2. ReadInv => ReadContiguous
  BY DEF ReadInv
<1> QED
  BY <1>1, <1>2, NextReads, PTL DEF SerialSpec

-----------------------------------------------------------------------------
(***************************************************************************)
(* A wait for the device that is over keeps its promise: there are bytes   *)
(* to read, or room to write, until the call has used it.                  *)
(***************************************************************************)
Promised(t) == (pc[t] = "readNow" => Readable > 0) /\ (pc[t] = "writeNow" => Room > 0)

\* What a step of t does to the descriptor, and where it enters a *Now place.
Selects(t) ==
    /\ platform' = platform /\ plugged' = plugged
    /\ fd_' = fd_ \/ fd_' \in descriptors' \/ Disturb(t)
    /\ platform = "unix" /\ pc'[t] \in {"readNow", "writeNow"} =>
          /\ UNCHANGED <<fd_, descriptors, arrived, taken, pending>>
          /\ pc'[t] = "readNow" => Readable > 0 \/ ~plugged
          /\ pc'[t] = "writeNow" => Room > 0 \/ ~plugged

LEMMA UnixSelects ==
    ASSUME LockInv, NEW t \in Thread, UnixStep(t) \/ UnixWaitForChange(t)
    PROVE  Selects(t)
<1>0. pc \in [Thread -> Working \cup {"idle", "lock"}]
  BY DEF LockInv, ControlOK
<1> USE <1>0, ReturnLeaves DEF Selects, Leaves, InUnix, InUnixCall, Goto, Go, fields, kernel, input, output,
        outside, history
<1>1. CASE UnixOpen(t)
  BY <1>1 DEF UnixOpen
<1>2. CASE UnixConfigure(t)
  BY <1>2 DEF UnixConfigure, ReadSettings
<1>3. CASE UnixApply(t)
  BY <1>3 DEF UnixApply
<1>4. CASE UnixClose(t)
  BY <1>4 DEF UnixClose, Closed, Drop
<1>5. CASE UnixClearFd(t)
  BY <1>5 DEF UnixClearFd
<1>6. CASE UnixClearOpen(t)
  BY <1>6 DEF UnixClearOpen, Closed
<1>7. CASE UnixSet(t)
  BY <1>7 DEF UnixSet
<1>8. CASE UnixRead(t)
  BY <1>8 DEF UnixRead
<1>9. CASE UnixReadLoop(t)
  BY <1>9 DEF UnixReadLoop, Abort
<1>10. CASE UnixReadEnd(t)
  BY <1>10 DEF UnixReadEnd, EndRead
<1>11. CASE UnixReadNow(t)
  BY <1>11 DEF UnixReadNow
<1>12. CASE UnixWrite(t)
  BY <1>12 DEF UnixWrite
<1>13. CASE UnixWriteLoop(t)
  BY <1>13 DEF UnixWriteLoop, Abort
<1>14. CASE UnixWriteNow(t)
  BY <1>14 DEF UnixWriteNow
<1>15. CASE UnixFlush(t)
  BY <1>15 DEF UnixFlush
<1>16. CASE UnixDrained(t)
  BY <1>16 DEF UnixDrained
<1>17. CASE UnixFlushInput(t)
  BY <1>17 DEF UnixFlushInput
<1>18. CASE UnixFlushOutput(t)
  BY <1>18 DEF UnixFlushOutput
<1>19. CASE UnixSendBreak(t)
  BY <1>19 DEF UnixSendBreak
<1>20. CASE UnixSetLine(t)
  BY <1>20 DEF UnixSetLine
<1>21. CASE UnixGetLine(t)
  BY <1>21 DEF UnixGetLine
<1>22. CASE UnixAvailable(t)
  BY <1>22 DEF UnixAvailable
<1>23. CASE UnixWaitReadable(t)
  BY <1>23 DEF UnixWaitReadable, Abort
<1>24. CASE UnixWaitForChange(t)
  BY <1>24 DEF UnixWaitForChange
<1> QED
  BY <1>1, <1>2, <1>3, <1>4, <1>5, <1>6, <1>7, <1>8, <1>9, <1>10, <1>11, <1>12, <1>13, <1>14, <1>15, <1>16, <1>17, <1>18, <1>19, <1>20, <1>21, <1>22, <1>23, <1>24 DEF UnixStep

LEMMA WinSelects ==
    ASSUME NEW t, WinStep(t) \/ WinWaitForChange(t)
    PROVE  platform = "windows" /\ platform' = platform
  BY DEF WinStep, InWindows, InWinCall, outside, EndRead,
     WinOpen, WinConfigure, WinRefused, WinTimeoutsFail, WinApply, WinClose, WinClearFd, 
     WinClearOpen, WinSet, WinRead, WinReadFile, WinReadEnd, WinWrite, 
     WinWriteFile, WinFlush, WinDrained, WinUnsupported, WinWaitReadable, 
     WinSetLine, WinWaitForChange, WinGetLine, WinAvailable

\* The rest of the steps bring no thread to a *Now place, and take nothing from one.
Still ==
    /\ fd_' = fd_ /\ descriptors' = descriptors /\ platform' = platform
    /\ plugged' => plugged
    /\ pending' \in {pending, pending - 1}
    /\ \/ arrived' = arrived /\ taken' = taken
       \/ arrived' = arrived + 1 /\ (taken' = taken \/ descriptors = {})
    /\ taken' \in {taken, arrived + 1}
    /\ DOMAIN disturbed' = Thread
    /\ \A u \in Thread : pc'[u] \in {"readNow", "writeNow"} =>
          pc[u] = pc'[u] /\ disturbed'[u] = disturbed[u]

LEMMA EntryWaits ==
    ASSUME NEW c
    PROVE  Entry(c) \notin {"readNow", "writeNow"}
BY EntryPlace

LEMMA OthersStill ==
    ASSUME LockInv, DOMAIN disturbed = Thread, NEW t \in Thread,
           \/ \E c \in Calls[t] : Call(t, c)
           \/ TakeLock(t) \/ Expire(t) \/ Destroy \/ Arrive \/ Transmit \/ Unplug
           \/ UNCHANGED svars
    PROVE  Still
<1> USE DEF Still, LockInv, ControlOK, fields, kernel, input, output, outside, history
<1>1. ASSUME NEW c \in Calls[t], Call(t, c)
      PROVE  Still
  <2>1. Entry(c) \notin {"readNow", "writeNow"}
    BY EntryWaits
  <2> QED
    BY <1>1, <2>1 DEF Call, Invoke
<1>2. CASE TakeLock(t)
  BY <1>2 DEF TakeLock
<1>3. CASE Destroy
  BY <1>3, SerialAssumption DEF Destroy, Invoke
<1>4. CASE Expire(t) \/ Transmit \/ Unplug
  BY <1>4 DEF Expire, Transmit, Unplug, control
<1>5. CASE Arrive
  BY <1>5 DEF Arrive, control
<1>6. CASE UNCHANGED svars
  BY <1>6 DEF svars, control
<1> QED
  BY <1>1, <1>2, <1>3, <1>4, <1>5, <1>6

\* The descriptor that u waits for keeps its bytes and its room in a step of t.
LEMMA OthersPromised ==
    ASSUME DataInv, DOMAIN disturbed = Thread, NEW t \in Thread, NEW u \in Thread \ {t},
           Works(t), StepData(t), Selects(t), plugged', ~disturbed'[u], Promised(u)
    PROVE  Promised(u)'
<1>1. /\ pc'[u] = pc[u]
      /\ OutCap \in Nat /\ arrived \in Nat /\ taken \in Nat /\ pending \in Nat
      /\ plugged' = plugged
  BY OthersKeep, SerialAssumption DEF DataInv, DataOK, Selects
<1>2. ASSUME pc[u] \in {"readNow", "writeNow"}, Disturb(t)
      PROVE  FALSE
  <2>1. CASE op[t] = "setPort"
    <3>1. \A m \in Mutex : lock[m] = t
      BY <2>1 DEF Works, DataInv, LockInv, LocksHeld, Needs, Mutex
    <3>2. op[u] \in Reads \cup {"write"} /\ pc[u] \in Working
      BY <1>2 DEF DataInv, Places, Working
    <3>3. \E m \in Mutex : m \in Needs(op[u])
      BY <3>2 DEF Needs, Mutex
    <3> QED
      BY <3>1, <3>2, <3>3 DEF DataInv, LockInv, LocksHeld
  <2>2. CASE op[t] # "setPort"
    <3>1. disturbed' = [v \in Thread |-> disturbed[v] \/ pc[v] # "idle"]
      BY <1>2, <2>2, Zenon DEF Disturb
    <3>2. pc[u] = "idle"
      BY <3>1, Zenon
    <3> QED
      BY <1>2, <3>2
  <2> QED
    BY <2>1, <2>2
<1>3. ASSUME NEW m \in Mutex, pc[u] \in Working, m \in Needs(op[u]), m \in Needs(op[t])
      PROVE  FALSE
  BY <1>3 DEF Works, DataInv, LockInv, LocksHeld
<1>4. pc[u] \in {"readNow", "writeNow"} =>
        /\ fd_' = fd_ \/ fd_' \in descriptors'
        /\ descriptors \subseteq descriptors' /\ ~Drops(t)
  BY <1>2 DEF Selects, StepData, Quiet, Puts, PutBytes, Takes, FlushesIn, InKept, Drops, Drop
<1>5. ASSUME pc[u] = "readNow"
      PROVE  Readable' > 0
  <2>1. Usable /\ arrived - taken > 0
    BY <1>5, <1>1 DEF Promised, Readable
  <2>2. "read" \in Needs(op[u]) /\ pc[u] \in Working
    BY <1>5 DEF DataInv, Places, Needs, Mutex, Working
  <2>3. ~Takes(t) /\ ~FlushesIn(t)
    BY <1>3, <2>2 DEF Takes, FlushesIn, Needs, Mutex
  <2>4. arrived' = arrived /\ taken' = taken
    BY <1>4, <1>5, <2>3 DEF StepData, Quiet, Puts, InKept
  <2>5. Usable'
    BY <1>1, <1>4, <1>5, <2>1 DEF Usable
  <2> QED
    BY <2>1, <2>4, <2>5 DEF Readable
<1>6. ASSUME pc[u] = "writeNow"
      PROVE  Room' > 0
  <2>1. Usable /\ OutCap - pending > 0
    BY <1>6, <1>1 DEF Promised, Room
  <2>2. "write" \in Needs(op[u]) /\ pc[u] \in Working
    BY <1>6 DEF DataInv, Places, Needs, Mutex, Working
  <2>3. ~Puts(t)
    <3>1. Puts(t) => "write" \in Needs(op[t])
      BY DEF Puts, DataInv, Places, Needs, Mutex
    <3> QED
      BY <1>3, <2>2, <3>1 DEF Mutex
  <2>4. pending' \in {pending, 0}
    BY <1>4, <1>6, <2>3 DEF StepData, Quiet, Takes, FlushesIn, OutKept
  <2>5. OutCap - pending' > 0
    BY <1>1, <2>1, <2>4
  <2>6. Usable'
    BY <1>1, <1>4, <1>6, <2>1 DEF Usable
  <2> QED
    BY <2>5, <2>6 DEF Room
<1> QED
  BY <1>1, <1>5, <1>6 DEF Promised

PromiseInv ==
    /\ DataInv /\ DOMAIN disturbed = Thread
    /\ NoFalseDisconnect

LEMMA StillPromised ==
    ASSUME PromiseInv, Still
    PROVE  NoFalseDisconnect'
<1> SUFFICES ASSUME NEW u \in Thread, platform' = "unix", plugged', ~disturbed'[u],
                    pc'[u] \in {"readNow", "writeNow"}
             PROVE  Promised(u)'
  BY DEF NoFalseDisconnect, Promised
<1>1. /\ pc[u] = pc'[u] /\ ~disturbed[u] /\ platform = "unix" /\ plugged
      /\ OutCap \in Nat /\ arrived \in Nat /\ taken \in Nat /\ pending \in Nat
  BY SerialAssumption DEF Still, PromiseInv, DataInv, DataOK
<1>2. Promised(u)
  BY <1>1 DEF PromiseInv, NoFalseDisconnect, Promised
<1>3. Usable /\ Usable'
  BY <1>1, <1>2 DEF Promised, Readable, Room, Usable, Still
<1>4. /\ OutCap \in Int /\ arrived \in Int /\ taken \in Int /\ pending \in Int
      /\ arrived' \in Int /\ taken' \in Int /\ pending' \in Int
  BY <1>1 DEF Still
<1>5. /\ taken' = taken /\ (arrived' = arrived \/ arrived' = arrived + 1)
      /\ pending' = pending \/ pending' = pending - 1
  BY <1>3 DEF Usable, Still
<1>6. pc[u] = "readNow" => Readable' > 0
  <2> SUFFICES ASSUME pc[u] = "readNow" PROVE Readable' > 0
    OBVIOUS
  <2>1. arrived - taken > 0
    BY <1>2, <1>3 DEF Promised, Readable
  <2>2. arrived' - taken' > 0
    <3>1. CASE arrived' = arrived
      BY <1>5, <2>1, <3>1
    <3>2. CASE arrived' = arrived + 1
      <4>1. (arrived + 1) - taken > 0
        BY <1>4, <2>1
      <4> QED
        BY <1>5, <3>2, <4>1
    <3> QED
      BY <1>5, <3>1, <3>2
  <2> QED
    BY <1>3, <2>2 DEF Readable
<1>7. pc[u] = "writeNow" => Room' > 0
  <2> SUFFICES ASSUME pc[u] = "writeNow" PROVE Room' > 0
    OBVIOUS
  <2>1. OutCap - pending > 0
    BY <1>2, <1>3 DEF Promised, Room
  <2>2. OutCap - pending' > 0
    <3>1. CASE pending' = pending
      BY <2>1, <3>1
    <3>2. CASE pending' = pending - 1
      <4>1. OutCap - (pending - 1) > 0
        BY <1>4, <2>1
      <4> QED
        BY <3>2, <4>1
    <3> QED
      BY <1>5, <3>1, <3>2
  <2> QED
    BY <1>3, <2>2 DEF Room
<1> QED
  BY <1>1, <1>6, <1>7 DEF Promised

LEMMA StepPromised ==
    ASSUME PromiseInv, NEW t \in Thread, Works(t), StepData(t), Selects(t)
    PROVE  DOMAIN disturbed' = Thread /\ NoFalseDisconnect'
<1>1. DataInv /\ DOMAIN disturbed = Thread
  BY DEF PromiseInv
<1>2. disturbed' = disturbed \/ Disturb(t)
  BY DEF StepData, Quiet, Puts, Takes, Drops, FlushesIn, InKept, Drop
<1>3. DOMAIN disturbed' = Thread /\ \A u \in Thread : ~disturbed'[u] => ~disturbed[u]
  BY <1>1, <1>2, StaysDisturbed
<1> SUFFICES ASSUME NEW u \in Thread, platform' = "unix", plugged', ~disturbed'[u]
             PROVE  Promised(u)'
  BY <1>3 DEF NoFalseDisconnect, Promised
<1>4. platform = "unix" /\ plugged /\ plugged' = plugged /\ ~disturbed[u]
  BY <1>3 DEF Selects
<1>5. CASE u = t
  BY <1>4, <1>5 DEF Selects, Promised, Readable, Room, Usable
<1>6. CASE u # t
  <2>1. Promised(u)
    BY <1>4 DEF PromiseInv, NoFalseDisconnect, Promised
  <2> QED
    BY <1>1, <1>6, <2>1, OthersPromised
<1> QED
  BY <1>5, <1>6

LEMMA NextPromised == PromiseInv /\ [SerialNext]_svars => PromiseInv'
<1> SUFFICES ASSUME PromiseInv, [SerialNext]_svars
             PROVE  PromiseInv'
  OBVIOUS
<1> DEFINE P == DOMAIN disturbed' = Thread /\ NoFalseDisconnect'
<1>1. /\ DataInv' /\ LockInv /\ Places /\ DOMAIN disturbed = Thread
      /\ pc \in [Thread -> Working \cup {"idle", "lock"}]
  BY NextData DEF PromiseInv, DataInv, LockInv, ControlOK
<1> SUFFICES P
  BY <1>1 DEF PromiseInv
<1>2. ASSUME NEW t \in Thread,
             (Step(t) /\ ~TakeLock(t)) \/ UnixWaitForChange(t) \/ WinWaitForChange(t)
      PROVE  P
  <2>1. Works(t) /\ StepData(t)
    BY <1>1, <1>2, StepWorks, StepsData
  <2>2. Selects(t) \/ (platform = "windows" /\ platform' = platform)
    <3>1. CASE SetPort(t)
      BY <1>1, <3>1, ReturnLeaves
         DEF SetPort, Selects, Goto, Go, Leaves, kernel, input, output, outside
    <3> QED
      BY <1>1, <1>2, <3>1, UnixSelects, WinSelects DEF Step
  <2>3. CASE platform = "windows" /\ platform' = platform
    <3>1. DOMAIN disturbed' = Thread
      BY <1>1, <2>1, StaysDisturbed
         DEF StepData, Quiet, Puts, Takes, Drops, FlushesIn, InKept, Drop
    <3> QED
      BY <2>3, <3>1 DEF NoFalseDisconnect
  <2> QED
    BY <2>1, <2>2, <2>3, StepPromised
<1>3. ASSUME NEW t \in Thread,
             \/ \E c \in Calls[t] : Call(t, c)
             \/ TakeLock(t) \/ Expire(t) \/ Destroy \/ Arrive \/ Transmit \/ Unplug
             \/ UNCHANGED svars
      PROVE  P
  <2>1. Still
    BY <1>1, <1>3, OthersStill
  <2> QED
    BY <2>1, StillPromised DEF Still
<1> QED
  BY <1>2, <1>3, SerialAssumption DEF SerialNext

\* No call is told that the device is gone while it is there, for any number of
\* threads, unless close() ran, or an open() failed, under the call.
THEOREM NoFalseDisconnectHolds == SerialSpec => []NoFalseDisconnect
<1>1. SerialInit => PromiseInv
  <2> SUFFICES ASSUME SerialInit PROVE PromiseInv
    OBVIOUS
  <2>1. DOMAIN disturbed = Thread /\ \A t \in Thread : pc[t] \in {"idle", "openFd"}
    BY DEF SerialInit
  <2> QED
    BY <2>1, InitData DEF PromiseInv, NoFalseDisconnect
<1>2. PromiseInv => NoFalseDisconnect
  BY DEF PromiseInv
<1> QED
  BY <1>1, <1>2, NextPromised, PTL DEF SerialSpec

-----------------------------------------------------------------------------
(***************************************************************************)
(* The types of the rest of the state.                                     *)
(***************************************************************************)
Phases == {"constructing", "alive", "destroying", "gone", "aborted"}

ObjectOK ==
    /\ phase \in Phases
    /\ port_ \in Ports /\ fd_ \in Fds \cup {NoFd} /\ is_open_ \in BOOLEAN
    /\ settings \in Settings /\ applied \in Settings
    /\ expired \in [Thread -> BOOLEAN]
    /\ snap \in [Thread -> Settings]
    /\ platform \in Platforms /\ descriptors \subseteq Fds
    /\ {plugged, overlap} \subseteq BOOLEAN
    /\ refused \in {"never", "once", "last"}

\* A set of descriptors has a least element.
LEMMA LeastOf ==
    ASSUME NEW n \in Nat, NEW T, T \subseteq 1..n, T # {}
    PROVE  \E x \in T : \A y \in T : x <= y
<1> DEFINE R == StrictSubsetOrdering(1..n)
           Below(d) == {e \in T : e < d}
           F == {Below(d) : d \in T}
<1>1. IsFiniteSet(1..n)
  BY FS_Interval
<1>2. F \subseteq FiniteSubsetsOf(1..n)
  <2>1. ASSUME NEW d \in T
        PROVE  Below(d) \subseteq 1..n /\ IsFiniteSet(Below(d))
    <3>1. Below(d) \subseteq 1..n
      OBVIOUS
    <3> HIDE DEF Below
    <3> QED
      BY <1>1, <3>1, FS_Subset
  <2> HIDE DEF Below
  <2> QED
    BY <2>1 DEF FiniteSubsetsOf
<1>3. F # {}
  OBVIOUS
<1>4. \E B \in F : \A C \in F : <<C, B>> \notin R
  <2> HIDE DEF F, R
  <2>1. IsWellFoundedOn(R, FiniteSubsetsOf(1..n))
    BY FS_StrictSubsetOrderingWellFounded DEF R
  <2> QED
    BY <1>2, <1>3, <2>1, WFMin
<1>5. PICK d \in T : \A e \in T : <<Below(e), Below(d)>> \notin R
  BY <1>4
<1>6. ASSUME NEW e \in T, e < d
      PROVE  FALSE
  <2>1. e \in Int /\ d \in Int /\ \A x \in T : x \in Int
    OBVIOUS
  <2>2. \A x \in T : x < e => x < d
    BY <1>6, <2>1
  <2>3. ~(e < e)
    BY <2>1
  <2>4. Below(e) \subseteq Below(d) /\ e \in Below(d) /\ e \notin Below(e)
    BY <1>6, <2>2, <2>3
  <2>5. Below(e) \subseteq 1..n /\ Below(d) \subseteq 1..n
    OBVIOUS
  <2> HIDE DEF Below
  <2>6. <<Below(e), Below(d)>> \in R
    BY <2>4, <2>5 DEF StrictSubsetOrdering
  <2> QED
    BY <1>5, <2>6
<1> QED
  BY <1>6

LEMMA FreeFdIsFree ==
    ASSUME descriptors \subseteq Fds, descriptors # Fds
    PROVE  FreeFd \in Fds \ descriptors
<1>1. \E d \in Fds \ descriptors : \A e \in Fds \ descriptors : d <= e
  BY LeastOf, SerialAssumption DEF Fds
<1> QED
  BY <1>1 DEF FreeFd

\* What the end of a call, or its next place, does to the types.
LocalTypes == phase' \in Phases /\ expired' \in [Thread -> BOOLEAN] /\ snap' \in [Thread -> Settings]

LEMMA ReturnTypes ==
    ASSUME ObjectOK, NEW t \in Thread, NEW r, Return(t, r)
    PROVE  LocalTypes
<1>1. phase' \in Phases
  <2>1. CASE phase = "constructing"
    <3>1. phase' = IF r = "ok" THEN "alive" ELSE "gone"
      BY <2>1, Zenon DEF Return
    <3> QED
      BY <3>1 DEF Phases
  <2>2. CASE phase = "destroying"
    <3>1. phase # "constructing"
      BY <2>2
    <3>2. phase' = IF r = "ok" THEN "gone" ELSE "aborted"
      BY <2>2, <3>1, Zenon DEF Return
    <3> QED
      BY <3>2 DEF Phases
  <2>3. CASE phase # "constructing" /\ phase # "destroying"
    <3>1. phase' = phase
      BY <2>3, Zenon DEF Return
    <3> QED
      BY <3>1 DEF ObjectOK
  <2> QED
    BY <2>1, <2>2, <2>3
<1>2. /\ expired' = [expired EXCEPT ![t] = FALSE] /\ snap' = [snap EXCEPT ![t] = Factory]
  BY Zenon DEF Return
<1>3. Factory \in Settings
  BY DEF Factory, Settings, Rates, Frames
<1> QED
  BY <1>1, <1>2, <1>3 DEF ObjectOK, LocalTypes

LEMMA GotoTypes ==
    ASSUME ObjectOK, NEW t \in Thread, NEW l, Goto(t, l)
    PROVE  LocalTypes
BY DEF Goto, Go, locals, ObjectOK, LocalTypes

LEMMA ClosedTypes ==
    ASSUME ObjectOK, NEW t \in Thread, Closed(t)
    PROVE  LocalTypes /\ port_' \in Ports
BY ReturnTypes, GotoTypes DEF Closed, ObjectOK

\* What a step of a call does to the object, the settings and the descriptors.
ObjectTypes ==
    /\ LocalTypes
    /\ port_' \in Ports /\ fd_' \in Fds \cup {NoFd} /\ is_open_' \in BOOLEAN
    /\ settings' \in Settings /\ applied' \in Settings
    /\ descriptors' \subseteq Fds /\ refused' \in {"never", "once", "last"}
    /\ UNCHANGED <<outside, overlap>>

LEMMA UnixTypes ==
    ASSUME ObjectOK, NEW t \in Thread, UnixStep(t) \/ UnixWaitForChange(t)
    PROVE  ObjectTypes
<1> USE ReturnTypes, GotoTypes, ClosedTypes DEF ObjectOK, ObjectTypes, LocalTypes, outside
<1>1. CASE UnixOpen(t)
  BY <1>1, FreeFdIsFree DEF UnixOpen
<1>2. CASE UnixConfigure(t)
  BY <1>2 DEF UnixConfigure, Go, ReadSettings, Refused, fields, Settings, Rates
<1>3. CASE UnixApply(t)
  BY <1>3 DEF UnixApply, Applied
<1>4. CASE UnixClose(t)
  BY <1>4 DEF UnixClose, Drop, history, input, output, kernel
<1>5. CASE UnixClearFd(t)
  BY <1>5 DEF UnixClearFd, kernel
<1>6. CASE UnixClearOpen(t)
  BY <1>6 DEF UnixClearOpen, kernel, history
<1>7. CASE UnixSet(t)
  BY <1>7 DEF UnixSet, kernel, history, Changed, Settings
<1>8. CASE UnixRead(t)
  BY <1>8 DEF UnixRead, kernel, input, output, history, fields, Go, TakeBytes, PutBytes
<1>9. CASE UnixReadLoop(t)
  BY <1>9 DEF UnixReadLoop, kernel, input, output, history, fields, Abort, locals, Phases
<1>10. CASE UnixReadEnd(t)
  BY <1>10 DEF UnixReadEnd, kernel, input, output, history, fields, EndRead
<1>11. CASE UnixReadNow(t)
  BY <1>11 DEF UnixReadNow, kernel, input, output, history, fields, Go, TakeBytes, PutBytes
<1>12. CASE UnixWrite(t)
  BY <1>12 DEF UnixWrite, kernel, input, output, history, fields
<1>13. CASE UnixWriteLoop(t)
  BY <1>13 DEF UnixWriteLoop, kernel, input, output, history, fields, Abort, locals, Phases
<1>14. CASE UnixWriteNow(t)
  BY <1>14 DEF UnixWriteNow, kernel, input, output, history, fields, Go, TakeBytes, PutBytes
<1>15. CASE UnixFlush(t)
  BY <1>15 DEF UnixFlush, kernel, input, output, history, fields
<1>16. CASE UnixDrained(t)
  BY <1>16 DEF UnixDrained, kernel, input, output, history, fields
<1>17. CASE UnixFlushInput(t)
  BY <1>17 DEF UnixFlushInput, kernel, input, output, history, fields
<1>18. CASE UnixFlushOutput(t)
  BY <1>18 DEF UnixFlushOutput, kernel, input, output, history, fields
<1>19. CASE UnixSendBreak(t)
  BY <1>19 DEF UnixSendBreak, kernel, input, output, history, fields
<1>20. CASE UnixSetLine(t)
  BY <1>20 DEF UnixSetLine, kernel, input, output, history, fields
<1>21. CASE UnixGetLine(t)
  BY <1>21 DEF UnixGetLine, kernel, input, output, history, fields
<1>22. CASE UnixAvailable(t)
  BY <1>22 DEF UnixAvailable, kernel, input, output, history, fields
<1>23. CASE UnixWaitReadable(t)
  BY <1>23 DEF UnixWaitReadable, kernel, input, output, history, fields, Abort, locals, Phases
<1>24. CASE UnixWaitForChange(t)
  BY <1>24 DEF UnixWaitForChange, kernel, input, output, history, fields
<1> QED
  BY <1>1, <1>2, <1>3, <1>4, <1>5, <1>6, <1>7, <1>8, <1>9, <1>10, <1>11, <1>12, <1>13, <1>14, <1>15, <1>16, <1>17, <1>18, <1>19, <1>20, <1>21, <1>22, <1>23, <1>24
     DEF UnixStep

LEMMA WinTypes ==
    ASSUME ObjectOK, NEW t \in Thread, WinStep(t) \/ WinWaitForChange(t)
    PROVE  ObjectTypes
<1> USE ReturnTypes, GotoTypes, ClosedTypes DEF ObjectOK, ObjectTypes, LocalTypes, outside
<1>1. CASE WinOpen(t)
  BY <1>1 DEF WinOpen, kernel, input, output, history, fields
<1>2. CASE WinConfigure(t)
  BY <1>2 DEF WinConfigure, Go, ReadSettings, Refused, kernel, input, output, history, fields
<1>3. CASE WinRefused(t)
  BY <1>3 DEF WinRefused, Refused, Drop, kernel, input, output, history, fields
<1>22. CASE WinTimeoutsFail(t)
  BY <1>22 DEF WinTimeoutsFail, Refused, kernel, input, output, history, fields
<1>4. CASE WinApply(t)
  BY <1>4 DEF WinApply, Applied, Go
<1>5. CASE WinClose(t)
  BY <1>5 DEF WinClose, Drop, kernel, input, output, history, fields
<1>6. CASE WinClearFd(t)
  BY <1>6 DEF WinClearFd, kernel, input, output, history, fields
<1>7. CASE WinClearOpen(t)
  BY <1>7 DEF WinClearOpen, kernel, input, output, history, fields
<1>8. CASE WinSet(t)
  BY <1>8 DEF WinSet, Changed, Settings, kernel, input, output, history, fields
<1>9. CASE WinRead(t)
  BY <1>9 DEF WinRead, kernel, input, output, history, fields, Go, TakeBytes, PutBytes
<1>10. CASE WinReadFile(t)
  BY <1>10 DEF WinReadFile, kernel, input, output, history, fields, Go, TakeBytes, PutBytes
<1>11. CASE WinReadEnd(t)
  BY <1>11 DEF WinReadEnd, kernel, input, output, history, fields, EndRead
<1>12. CASE WinWrite(t)
  BY <1>12 DEF WinWrite, kernel, input, output, history, fields
<1>13. CASE WinWriteFile(t)
  BY <1>13 DEF WinWriteFile, kernel, input, output, history, fields, Go, TakeBytes, PutBytes
<1>14. CASE WinFlush(t)
  BY <1>14 DEF WinFlush, kernel, input, output, history, fields
<1>15. CASE WinDrained(t)
  BY <1>15 DEF WinDrained, kernel, input, output, history, fields
<1>16. CASE WinUnsupported(t)
  BY <1>16 DEF WinUnsupported, kernel, input, output, history, fields
<1>17. CASE WinWaitReadable(t)
  BY <1>17 DEF WinWaitReadable, kernel, input, output, history, fields
<1>18. CASE WinSetLine(t)
  BY <1>18 DEF WinSetLine, kernel, input, output, history, fields
<1>19. CASE WinGetLine(t)
  BY <1>19 DEF WinGetLine, kernel, input, output, history, fields
<1>20. CASE WinAvailable(t)
  BY <1>20 DEF WinAvailable, kernel, input, output, history, fields
<1>21. CASE WinWaitForChange(t)
  BY <1>21 DEF WinWaitForChange, kernel, input, output, history, fields
<1> QED
  BY <1>1, <1>2, <1>3, <1>4, <1>5, <1>6, <1>7, <1>8, <1>9, <1>10, <1>11, <1>12, <1>13, <1>14, <1>15, <1>16, <1>17, <1>18, <1>19, <1>20, <1>21, <1>22
     DEF WinStep

\* The bytes of a call fit its buffer and came from the line; the queue holds
\* no more than was accepted; a line goes on only in a buffer with room.
BytesOK ==
    /\ arrived <= MaxIn /\ pending <= Len(accepted)
    /\ \A t \in Thread :
         /\ \A j \in 1..Len(got[t]) : got[t][j] \in 1..MaxIn
         /\ Len(got[t]) <= Size /\ count[t] <= Size
         /\ op[t] \in {"readline", "readlines"} /\ pc[t] = "body" => Len(got[t]) < Size

TypeInv == DataInv /\ ObjectOK /\ BytesOK

LEMMA StepBytes ==
    ASSUME DataInv, BytesOK, NEW t \in Thread, Works(t), StepData(t)
    PROVE  BytesOK'
<1> DEFINE B(u) ==
      /\ \A j \in 1..Len(got'[u]) : got'[u][j] \in 1..MaxIn
      /\ Len(got'[u]) <= Size /\ count'[u] <= Size
      /\ op'[u] \in {"readline", "readlines"} /\ pc'[u] = "body" => Len(got'[u]) < Size
<1>1. /\ pc \in [Thread -> Working \cup {"idle", "lock"}]
      /\ op \in [Thread -> Ops \cup {"none", "construct", "destroy"}]
      /\ got \in [Thread -> Seq(Nat)] /\ count \in [Thread -> Nat]
      /\ Len(got[t]) \in Nat /\ Size \in Nat \ {0} /\ MaxIn \in Nat
      /\ arrived \in Nat /\ taken \in 0..arrived /\ pending \in 0..OutCap /\ OutCap \in Nat
      /\ Len(accepted) \in Nat
  BY SerialAssumption DEF DataInv, DataOK, LockInv, ControlOK
<1>2. \A u \in Thread \ {t} : B(u)
  BY OthersKeep DEF BytesOK
<1>3. OutKept => pending' <= Len(accepted')
  BY <1>1 DEF OutKept, BytesOK
<1>4. arrived' = arrived => arrived' <= MaxIn
  BY DEF BytesOK
<1>5. /\ \A j \in 1..Len(got[t]) : got[t][j] \in 1..MaxIn
      /\ Len(got[t]) <= Size /\ count[t] <= Size
      /\ op[t] \in {"readline", "readlines"} /\ pc[t] = "body" => Len(got[t]) < Size
  BY DEF BytesOK
<1>6. pc[t] = "body" /\ op[t] \in Reads => Wanted(t) \in Nat /\ Wanted(t) <= Size
  BY <1>1, <1>5 DEF Wanted, Reads
<1>7. Moves(t) => B(t)
  <2>1. Leaves(t) => B(t)
    BY <1>1 DEF Leaves
  <2>2. Stands(t) => B(t)
    BY <1>5 DEF Stands
  <2>3. WriteMove(t) => B(t)
    BY <1>1, <1>5 DEF WriteMove
  <2>4. OtherMove(t) => B(t)
    BY <1>1, <1>5 DEF OtherMove, Moving, Reads
  <2>5. ASSUME ReadMove(t)
        PROVE  B(t)
    <3>1. UNCHANGED <<op, got>> /\ op[t] \in Reads
      BY <2>5 DEF ReadMove
    <3>2. CASE pc'[t] = "body" /\ UNCHANGED count /\ Len(got[t]) # Size
      BY <1>1, <1>5, <3>1, <3>2
    <3>3. CASE pc'[t] \in {"readLoop", "readNow"} /\ UNCHANGED count
      BY <1>1, <1>5, <3>1, <3>3
    <3>4. CASE pc'[t] = "readNow" /\ pc[t] = "body" /\ count'[t] = Wanted(t)
      BY <1>1, <1>5, <1>6, <3>1, <3>4
    <3> QED
      BY <1>1, <2>5, <3>2, <3>3, <3>4 DEF ReadMove
  <2> QED
    BY <2>1, <2>2, <2>3, <2>4, <2>5 DEF Moves
<1>8. CASE Quiet(t)
  BY <1>2, <1>3, <1>4, <1>7, <1>8 DEF Quiet, InKept, BytesOK
<1>9. CASE Puts(t)
  <2>1. PICK k \in Nat : /\ count'[t] <= Size /\ Len(accepted') = Len(accepted) + k
                         /\ pending' = pending + k /\ UNCHANGED <<op, got>>
    BY <1>9, PutProperties
  <2>2. pending' <= Len(accepted')
    BY <1>1, <2>1 DEF BytesOK
  <2>3. arrived' = arrived /\ pc'[t] # "body"
    BY <1>1, <1>9 DEF Puts, InKept
  <2>4. B(t)
    BY <1>5, <2>1, <2>3
  <2> QED
    BY <1>2, <1>4, <2>2, <2>3, <2>4 DEF BytesOK
<1>10. CASE Takes(t)
  <2>1. PICK k \in Nat :
          /\ taken' = taken + k /\ taken' \in 0..arrived /\ arrived' = arrived
          /\ got' \in [Thread -> Seq(Nat)] /\ Len(got'[t]) = Len(got[t]) + k
          /\ \A j \in 1..Len(got[t]) : got'[t][j] = got[t][j]
          /\ \A j \in 1..k : got'[t][Len(got[t]) + j] = taken + j
          /\ Len(got'[t]) <= count'[t]
    BY <1>10, TakeProperties
  <2>2. count'[t] <= Size /\ count'[t] \in Nat /\ pc'[t] = "readLoop"
    <3>1. CASE pc[t] = "body" /\ count' = [count EXCEPT ![t] = Wanted(t)]
      BY <1>1, <1>6, <1>10, <3>1 DEF Takes
    <3>2. CASE UNCHANGED count
      BY <1>1, <1>5, <1>10, <3>2 DEF Takes
    <3> QED
      BY <1>10, <3>1, <3>2 DEF Takes
  <2>3. Len(got'[t]) <= Size
    BY <1>1, <2>1, <2>2
  <2>4. ASSUME NEW j \in 1..Len(got'[t])
        PROVE  got'[t][j] \in 1..MaxIn
    <3>1. CASE j <= Len(got[t])
      <4>1. j \in Int /\ j >= 1
        BY <1>1, <2>1
      <4>2. j \in 1..Len(got[t])
        BY <1>1, <3>1, <4>1
      <4>3. got'[t][j] = got[t][j]
        BY <2>1, <4>2
      <4> QED
        BY <1>5, <4>2, <4>3
    <3>2. CASE j > Len(got[t])
      <4> DEFINE m == j - Len(got[t])
      <4>1. m \in 1..k /\ j = Len(got[t]) + m
        BY <1>1, <2>1, <3>2
      <4>2. got'[t][j] = taken + m
        <5> HIDE DEF m
        <5> QED
          BY <2>1, <4>1
      <4>3. arrived <= MaxIn
        BY DEF BytesOK
      <4> HIDE DEF m
      <4>4. taken + m \in 1..MaxIn
        BY <1>1, <2>1, <4>1, <4>3
      <4> QED
        BY <4>2, <4>4
    <3> QED
      BY <1>1, <2>1, <3>1, <3>2
  <2>5. B(t)
    BY <2>2, <2>3, <2>4
  <2>6. arrived' <= MaxIn
    BY <1>4, <2>1
  <2>7. pending' <= Len(accepted')
    BY <1>3, <1>10 DEF Takes
  <2> HIDE DEF B
  <2>8. \A u \in Thread : B(u)
    BY <1>2, <2>5
  <2> USE DEF B
  <2> QED
    BY <2>6, <2>7, <2>8 DEF BytesOK
<1>11. CASE Drops(t)
  <2>1. arrived' = arrived /\ accepted' = accepted /\ pending' \in {pending, 0}
    BY <1>11 DEF Drops, Drop
  <2>2. pending' <= Len(accepted')
    BY <1>3, <2>1 DEF OutKept
  <2> QED
    BY <1>2, <1>4, <1>7, <1>11, <2>1, <2>2 DEF Drops, Moves, BytesOK
<1>12. CASE FlushesIn(t)
  BY <1>2, <1>3, <1>4, <1>7, <1>12 DEF FlushesIn, Moves, BytesOK
<1> QED
  BY <1>8, <1>9, <1>10, <1>11, <1>12 DEF StepData

LEMMA NextBytes == DataInv /\ BytesOK /\ [SerialNext]_svars => BytesOK'
<1> SUFFICES ASSUME DataInv, BytesOK, [SerialNext]_svars
             PROVE  BytesOK'
  OBVIOUS
<1>1. /\ Places /\ Size \in Nat \ {0} /\ MaxIn \in Nat
      /\ pc \in [Thread -> Working \cup {"idle", "lock"}]
      /\ op \in [Thread -> Ops \cup {"none", "construct", "destroy"}]
      /\ arrived \in Nat /\ pending \in Nat /\ Len(accepted) \in Nat
  BY SerialAssumption DEF DataInv, DataOK, LockInv, ControlOK
<1>2. ASSUME NEW t \in Thread, Works(t), StepData(t)
      PROVE  BytesOK'
  BY <1>2, StepBytes
<1>3. ASSUME NEW t \in Thread, pc[t] \in {"idle", "lock"},
             UNCHANGED <<got, count, accepted, pending, arrived>>,
             \A u \in Thread \ {t} : pc'[u] = pc[u] /\ op'[u] = op[u]
      PROVE  BytesOK'
  <2>1. got[t] = <<>> /\ count[t] = 0
    BY <1>3 DEF DataInv, Blank
  <2> QED
    BY <1>1, <1>3, <2>1 DEF BytesOK
<1>4. ASSUME NEW t \in Thread, Queues(t) \/ \E c, l : Starts(t, c, l)
      PROVE  BytesOK'
  <2>1. /\ pc[t] \in {"idle", "lock"} /\ UNCHANGED <<got, count, accepted, pending, arrived>>
        /\ \A u \in Thread \ {t} : pc'[u] = pc[u] /\ op'[u] = op[u]
    BY <1>1, <1>4 DEF Queues, Starts
  <2> QED
    BY <1>3, <2>1
<1>5. CASE Around
  <2>1. UNCHANGED <<pc, op, got, count, accepted>>
    BY <1>5 DEF Around
  <2>2. arrived' <= MaxIn /\ pending' <= Len(accepted)
    BY <1>1, <1>5 DEF Around, BytesOK
  <2> QED
    BY <2>1, <2>2 DEF BytesOK
<1> QED
  BY <1>1, <1>2, <1>4, <1>5, StepKinds

LEMMA NextObject == LockInv /\ ObjectOK /\ [SerialNext]_svars => ObjectOK'
<1> SUFFICES ASSUME LockInv, ObjectOK, [SerialNext]_svars
             PROVE  ObjectOK'
  OBVIOUS
<1>1. ASSUME NEW t \in Thread, UnixStep(t) \/ UnixWaitForChange(t) \/ WinStep(t) \/ WinWaitForChange(t)
      PROVE  ObjectOK'
  BY <1>1, UnixTypes, WinTypes DEF ObjectTypes, LocalTypes, ObjectOK, outside
<1>2. ASSUME NEW t \in Thread, SetPort(t)
      PROVE  ObjectOK'
  BY <1>2, ReturnTypes, GotoTypes
     DEF SetPort, LocalTypes, ObjectOK, kernel, input, output, outside, history
<1>3. ASSUME NEW t \in Thread, TakeLock(t)
      PROVE  ObjectOK'
  BY <1>3 DEF TakeLock, ObjectOK, locals, fields, kernel, outside, history
<1>4. ASSUME NEW t \in Thread, NEW c \in Calls[t], Call(t, c)
      PROVE  ObjectOK'
  BY <1>4 DEF Call, Invoke, ObjectOK, fields, kernel, outside
<1>5. CASE Destroy
  BY <1>5 DEF Destroy, Invoke, ObjectOK, Phases, fields, kernel, outside
<1>6. ASSUME NEW t \in Thread, Expire(t)
      PROVE  ObjectOK'
  BY <1>6 DEF Expire, ObjectOK, control, fields, kernel, outside, history
<1>7. CASE Arrive \/ Transmit \/ Unplug
  BY <1>7 DEF Arrive, Transmit, Unplug, ObjectOK, control, locals, fields, kernel, outside, history
<1>8. CASE UNCHANGED svars
  BY <1>8 DEF svars, ObjectOK, control, locals, fields, kernel, outside, history
<1> QED
  BY <1>1, <1>2, <1>3, <1>4, <1>5, <1>6, <1>7, <1>8 DEF SerialNext, Step

LEMMA InitTypes == SerialInit => TypeInv
<1> SUFFICES ASSUME SerialInit PROVE TypeInv
  OBVIOUS
<1>1. Factory \in Settings /\ [rate |-> "custom", frame |-> "8N1"] \in Settings
  BY DEF Factory, Settings, Rates, Frames
<1>2. ObjectOK
  BY <1>1 DEF SerialInit, ObjectOK, Phases, Ports
<1>3. arrived <= MaxIn /\ pending <= Len(accepted)
  <2>1. arrived = 0 /\ pending = 0 /\ accepted = <<>>
    BY DEF SerialInit
  <2>2. MaxIn \in Nat /\ Len(<<>>) = 0
    BY SerialAssumption
  <2>3. 0 <= MaxIn
    BY <2>2
  <2>4. pending <= Len(accepted)
    BY <2>1, <2>2
  <2> QED
    BY <2>1, <2>3, <2>4
<1>4. \A t \in Thread : got[t] = <<>> /\ count[t] = 0 /\ Len(got[t]) = 0
  BY DEF SerialInit
<1>5. Size \in Nat \ {0}
  BY SerialAssumption
<1>6. BytesOK
  BY <1>3, <1>4, <1>5 DEF BytesOK
<1> QED
  BY <1>2, <1>6, InitData DEF TypeInv

LEMMA NextTypes == TypeInv /\ [SerialNext]_svars => TypeInv'
BY NextData, NextObject, NextBytes DEF TypeInv, DataInv

LEMMA TypeInvHolds == SerialSpec => []TypeInv
BY NextTypes, InitTypes, PTL DEF SerialSpec

\* Type correctness of the object, its threads and the kernel, for any number
\* of threads, calls, bytes and descriptors: no buffer overflows.
THEOREM SerialTypeCorrect == SerialSpec => []SerialTypeOK
<1>1. TypeInv => SerialTypeOK
  <2> SUFFICES ASSUME TypeInv PROVE SerialTypeOK
    OBVIOUS
  <2>1. /\ got \in [Thread -> Seq(Nat)] /\ count \in [Thread -> Nat]
        /\ arrived \in Nat /\ taken \in 0..arrived /\ pending \in 0..OutCap
        /\ Size \in Nat /\ MaxIn \in Nat
    BY SerialAssumption DEF TypeInv, DataInv, DataOK
  <2>2. ASSUME NEW t \in Thread
        PROVE  got[t] \in Seq(1..MaxIn) /\ Len(got[t]) <= Size
    <3>1. \A j \in 1..Len(got[t]) : got[t][j] \in 1..MaxIn
      BY DEF TypeInv, BytesOK
    <3>2. /\ Len(got[t]) \in Nat /\ got[t] = [j \in 1..Len(got[t]) |-> got[t][j]]
          /\ got[t] \in Seq(Nat)
      BY <2>1
    <3>3. got[t] \in [1..Len(got[t]) -> 1..MaxIn]
      BY <3>1, <3>2
    <3>4. got[t] \in Seq(1..MaxIn)
      <4> DEFINE n == Len(got[t])
      <4>1. n \in Nat /\ got[t] \in [1..n -> 1..MaxIn]
        BY <3>2, <3>3
      <4> HIDE DEF n
      <4> QED
        BY <4>1, SeqDef
    <3>5. Len(got[t]) <= Size
      BY DEF TypeInv, BytesOK
    <3> QED
      BY <3>4, <3>5
  <2>3. count \in [Thread -> 0..Size] /\ arrived \in 0..MaxIn /\ pending <= Len(accepted)
    BY <2>1 DEF TypeInv, BytesOK
  <2>4. /\ lock \in [Mutex -> Thread \cup {None}]
        /\ op \in [Thread -> Ops \cup {"none", "construct", "destroy"}]
        /\ pc \in [Thread -> {"idle", "lock", "body", "readLoop", "readNow",
                              "writeLoop", "writeNow", "draining", "openFd", "configure",
                              "apply", "closeFd", "clearFd", "clearOpen"}]
    BY DEF TypeInv, DataInv, LockInv, ControlOK, Working
  <2> QED
    BY <2>1, <2>2, <2>3, <2>4 DEF TypeInv, ObjectOK, Phases, SerialTypeOK
<1> QED
  BY <1>1, TypeInvHolds, PTL

-----------------------------------------------------------------------------
(***************************************************************************)
(* The descriptor and the settings.  While the calls that open, close or   *)
(* set do not overlap, the object is tidy whenever none of them is in the  *)
(* middle, and At says how far each of their steps has taken it.           *)
(***************************************************************************)
SetupAt == {"openFd", "configure", "apply", "closeFd", "clearFd", "clearOpen"}

OpPlace(t) ==
    /\ pc[t] = "idle" => op[t] = "none"
    /\ pc[t] \in SetupAt => Configuring(t)
    /\ pc[t] = "openFd" => op[t] # "set"
    /\ pc[t] = "draining" => ~Configuring(t)

Lone(t) == \A u \in Thread \ {t} : ~Configuring(u)

Tidy  == (is_open_ <=> fd_ # NoFd) /\ descriptors = IF is_open_ THEN {fd_} ELSE {}
Match == is_open_ /\ refused # "last" => applied = settings

\* How far the setup is, in the call of t.
At(t) ==
    /\ pc[t] \notin {"configure", "apply"} => Match
    /\ pc[t] = "apply" => snap[t] = settings /\ fd_ \in descriptors
    /\ refused = "never" =>
         /\ pc[t] \notin {"configure", "apply", "clearFd", "clearOpen"} => Tidy
         /\ pc[t] \in {"configure", "apply"} =>
              fd_ \in Fds /\ descriptors = {fd_} /\ (is_open_ <=> op[t] = "set")
         /\ pc[t] = "clearFd" => is_open_ /\ descriptors = {}
         /\ pc[t] = "clearOpen" => is_open_ /\ descriptors = {} /\ fd_ = NoFd

SetupOK == ~overlap =>
    /\ \A t, u \in Thread : Configuring(t) /\ Configuring(u) => t = u
    /\ plugged => \A t \in Thread : Lone(t) => At(t)

SetupInv == TypeInv /\ (\A t \in Thread : OpPlace(t)) /\ SetupOK

\* What the settings and the descriptor depend on stays as it is.
Untouched == UNCHANGED <<fd_, is_open_, settings, descriptors, applied, refused>>

\* The step of a call that neither opens, closes nor sets.
Elsewhere(t) ==
    /\ ~Configuring(t) /\ (op'[t] = op[t] \/ op'[t] = "none")
    /\ pc'[t] \notin SetupAt /\ (pc'[t] = "idle" => op'[t] = "none")
    /\ Untouched /\ UNCHANGED overlap
    /\ \A u \in Thread \ {t} : snap'[u] = snap[u]

LEMMA ReturnElse ==
    ASSUME LockInv, ObjectOK, NEW t \in Thread, NEW r, Return(t, r)
    PROVE  /\ pc'[t] = "idle" /\ op'[t] = "none"
           /\ \A u \in Thread \ {t} : snap'[u] = snap[u]
<1>1. /\ pc' = [pc EXCEPT ![t] = "idle"] /\ op' = [op EXCEPT ![t] = "none"]
      /\ snap' = [snap EXCEPT ![t] = Factory]
  BY Zenon DEF Return
<1> QED
  BY <1>1 DEF LockInv, ControlOK, ObjectOK

LEMMA GotoElse ==
    ASSUME LockInv, ObjectOK, NEW t \in Thread, NEW l, Goto(t, l)
    PROVE  pc'[t] = l /\ op'[t] = op[t] /\ \A u \in Thread \ {t} : snap'[u] = snap[u]
BY DEF Goto, Go, locals, LockInv, ControlOK

\* The steps that open, close or set.
UnixSetup(t) ==
    \/ UnixOpen(t) \/ UnixConfigure(t) \/ UnixApply(t)
    \/ UnixClose(t) \/ UnixClearFd(t) \/ UnixClearOpen(t) \/ UnixSet(t)
WinSetup(t) ==
    \/ WinOpen(t) \/ WinConfigure(t) \/ WinRefused(t) \/ WinTimeoutsFail(t) \/ WinApply(t)
    \/ WinClose(t) \/ WinClearFd(t) \/ WinClearOpen(t) \/ WinSet(t)

LEMMA UnixElse ==
    ASSUME LockInv, ObjectOK, Places, NEW t \in Thread, OpPlace(t),
           UnixStep(t) \/ UnixWaitForChange(t), ~UnixSetup(t)
    PROVE  Elsewhere(t)
<1>0. /\ pc[t] \in {"readLoop", "readNow", "writeLoop", "writeNow", "draining"} => ~Configuring(t)
      /\ op[t] \in Reads \cup {"write", "flush", "flushInput", "flushOutput", "query", "waitForChange"}
           => ~Configuring(t)
      /\ pc \in [Thread -> Working \cup {"idle", "lock"}]
      /\ op \in [Thread -> Ops \cup {"none", "construct", "destroy"}]
      /\ snap \in [Thread -> Settings]
  BY DEF OpPlace, Places, Configuring, Reads, Lifecycle, LockInv, ControlOK, ObjectOK
<1> USE <1>0, ReturnElse, GotoElse DEF Elsewhere, Untouched, SetupAt, InUnix, InUnixCall
<1>1. CASE UnixRead(t)
  BY <1>1 DEF UnixRead, fields, kernel, input, output, history, Go, TakeBytes, PutBytes
<1>2. CASE UnixReadLoop(t)
  BY <1>2 DEF UnixReadLoop, fields, kernel, input, output, history, Abort, locals
<1>3. CASE UnixReadEnd(t)
  BY <1>3 DEF UnixReadEnd, fields, kernel, input, output, history, EndRead
<1>4. CASE UnixReadNow(t)
  BY <1>4 DEF UnixReadNow, fields, kernel, input, output, history, Go, TakeBytes, PutBytes
<1>5. CASE UnixWrite(t)
  BY <1>5 DEF UnixWrite, fields, kernel, input, output, history
<1>6. CASE UnixWriteLoop(t)
  BY <1>6 DEF UnixWriteLoop, fields, kernel, input, output, history, Abort, locals
<1>7. CASE UnixWriteNow(t)
  BY <1>7 DEF UnixWriteNow, fields, kernel, input, output, history, Go, TakeBytes, PutBytes
<1>8. CASE UnixFlush(t)
  BY <1>8 DEF UnixFlush, fields, kernel, input, output, history
<1>9. CASE UnixDrained(t)
  BY <1>9 DEF UnixDrained, fields, kernel, input, output, history
<1>10. CASE UnixFlushInput(t)
  BY <1>10 DEF UnixFlushInput, fields, kernel, input, output, history
<1>11. CASE UnixFlushOutput(t)
  BY <1>11 DEF UnixFlushOutput, fields, kernel, input, output, history
<1>12. CASE UnixSendBreak(t)
  BY <1>12 DEF UnixSendBreak, fields, kernel, input, output, history
<1>13. CASE UnixSetLine(t)
  BY <1>13 DEF UnixSetLine, fields, kernel, input, output, history
<1>14. CASE UnixGetLine(t)
  BY <1>14 DEF UnixGetLine, fields, kernel, input, output, history
<1>15. CASE UnixAvailable(t)
  BY <1>15 DEF UnixAvailable, fields, kernel, input, output, history
<1>16. CASE UnixWaitReadable(t)
  BY <1>16 DEF UnixWaitReadable, fields, kernel, input, output, history, Abort, locals
<1>17. CASE UnixWaitForChange(t)
  BY <1>17 DEF UnixWaitForChange, fields, kernel, input, output, history
<1> QED
  BY <1>1, <1>2, <1>3, <1>4, <1>5, <1>6, <1>7, <1>8, <1>9, <1>10, <1>11, <1>12, <1>13, <1>14, <1>15, <1>16, <1>17
     DEF UnixStep, UnixSetup

LEMMA WinElse ==
    ASSUME LockInv, ObjectOK, Places, NEW t \in Thread, OpPlace(t),
           WinStep(t) \/ WinWaitForChange(t), ~WinSetup(t)
    PROVE  Elsewhere(t)
<1>0. /\ pc[t] \in {"readLoop", "readNow", "writeLoop", "writeNow", "draining"} => ~Configuring(t)
      /\ op[t] \in Reads \cup {"write", "flush", "flushInput", "flushOutput", "query", "waitForChange"}
           => ~Configuring(t)
      /\ pc \in [Thread -> Working \cup {"idle", "lock"}]
      /\ op \in [Thread -> Ops \cup {"none", "construct", "destroy"}]
      /\ snap \in [Thread -> Settings]
  BY DEF OpPlace, Places, Configuring, Reads, Lifecycle, LockInv, ControlOK, ObjectOK
<1> USE <1>0, ReturnElse, GotoElse DEF Elsewhere, Untouched, SetupAt, InWindows, InWinCall
<1>1. CASE WinRead(t)
  BY <1>1 DEF WinRead, fields, kernel, input, output, history, Go, TakeBytes, PutBytes
<1>2. CASE WinReadFile(t)
  BY <1>2 DEF WinReadFile, fields, kernel, input, output, history, Go, TakeBytes, PutBytes
<1>3. CASE WinReadEnd(t)
  BY <1>3 DEF WinReadEnd, fields, kernel, input, output, history, EndRead
<1>4. CASE WinWrite(t)
  BY <1>4 DEF WinWrite, fields, kernel, input, output, history
<1>5. CASE WinWriteFile(t)
  BY <1>5 DEF WinWriteFile, fields, kernel, input, output, history, Go, TakeBytes, PutBytes
<1>6. CASE WinFlush(t)
  BY <1>6 DEF WinFlush, fields, kernel, input, output, history
<1>7. CASE WinDrained(t)
  BY <1>7 DEF WinDrained, fields, kernel, input, output, history
<1>8. CASE WinUnsupported(t)
  BY <1>8 DEF WinUnsupported, fields, kernel, input, output, history
<1>9. CASE WinWaitReadable(t)
  BY <1>9 DEF WinWaitReadable, fields, kernel, input, output, history
<1>10. CASE WinSetLine(t)
  BY <1>10 DEF WinSetLine, fields, kernel, input, output, history
<1>11. CASE WinGetLine(t)
  BY <1>11 DEF WinGetLine, fields, kernel, input, output, history
<1>12. CASE WinAvailable(t)
  BY <1>12 DEF WinAvailable, fields, kernel, input, output, history
<1>13. CASE WinWaitForChange(t)
  BY <1>13 DEF WinWaitForChange, fields, kernel, input, output, history
<1> QED
  BY <1>1, <1>2, <1>3, <1>4, <1>5, <1>6, <1>7, <1>8, <1>9, <1>10, <1>11, <1>12, <1>13
     DEF WinStep, WinSetup

\* A step of the setup: where it leads, and that it keeps to the way.
Onward(t) ==
    /\ Configuring(t)
    /\ OpPlace(t)' /\ (Configuring(t)' \/ pc'[t] = "idle")
    /\ UNCHANGED <<overlap, plugged>>
    /\ \A u \in Thread \ {t} : snap'[u] = snap[u]

\* At, from what it is about: the place, the operation and the settings read.
LEMMA ReturnAt ==
    ASSUME LockInv, ObjectOK, NEW t \in Thread, NEW r, Return(t, r), Configuring(t),
           UNCHANGED <<overlap, plugged>>
    PROVE  Onward(t) /\ (Match' /\ (refused' = "never" => Tidy') => At(t)')
<1>1. /\ pc'[t] = "idle" /\ op'[t] = "none"
      /\ \A u \in Thread \ {t} : snap'[u] = snap[u]
  BY ReturnElse
<1>2. Onward(t)
  BY <1>1 DEF Onward, OpPlace, SetupAt
<1> QED
  BY <1>1, <1>2 DEF At

LEMMA GotoAt ==
    ASSUME LockInv, ObjectOK, NEW t \in Thread, NEW l, Goto(t, l), Configuring(t),
           l \in SetupAt, l = "openFd" => op[t] # "set", UNCHANGED <<overlap, plugged>>
    PROVE  /\ Onward(t) /\ pc'[t] = l
           /\ l \in {"openFd", "closeFd"} /\ Match' /\ (refused' = "never" => Tidy') => At(t)'
<1>1. /\ pc'[t] = l /\ op'[t] = op[t]
      /\ \A u \in Thread \ {t} : snap'[u] = snap[u]
  BY GotoElse
<1>2. Onward(t)
  BY <1>1 DEF Onward, OpPlace, SetupAt, Configuring
<1> QED
  BY <1>1, <1>2 DEF At

LEMMA ClosedAt ==
    ASSUME LockInv, ObjectOK, NEW t \in Thread, Closed(t), Configuring(t),
           UNCHANGED <<overlap, plugged>>
    PROVE  Onward(t) /\ (Match' /\ (refused' = "never" => Tidy') => At(t)')
BY ReturnAt, GotoAt DEF Closed, SetupAt

\* A step that keeps what the settings and the descriptor depend on.
LEMMA StillTidy == Untouched => (Match => Match') /\ (Tidy => Tidy') /\ refused' = refused
BY DEF Untouched, Match, Tidy

LEMMA UnixSetupAt ==
    ASSUME LockInv, ObjectOK, NEW t \in Thread, OpPlace(t), UnixSetup(t)
    PROVE  Onward(t) /\ (plugged /\ At(t) => At(t)')
<1>0. /\ pc \in [Thread -> Working \cup {"idle", "lock"}]
      /\ op \in [Thread -> Ops \cup {"none", "construct", "destroy"}]
      /\ snap \in [Thread -> Settings]
      /\ fd_ \in Fds \cup {NoFd} /\ NoFd \notin Fds /\ is_open_ \in BOOLEAN
      /\ pc[t] \in SetupAt => Configuring(t)
      /\ op[t] \in {"set", "setPort"} => Configuring(t)
  BY DEF LockInv, ControlOK, ObjectOK, OpPlace, Configuring, Lifecycle, Fds, NoFd
<1>1. CASE UnixOpen(t)
  <2>1. pc[t] = "openFd" /\ op[t] # "set" /\ Configuring(t)
        /\ UNCHANGED <<overlap, plugged, is_open_, settings, applied, refused>>
    BY <1>0, <1>1 DEF UnixOpen, InUnix, outside, OpPlace, SetupAt
  <2>2. At(t) => Match /\ (refused = "never" => Tidy)
    BY <2>1 DEF At
  <2>3. CASE UNCHANGED <<fd_, descriptors>> /\ \E r : Return(t, r)
    BY <2>1, <2>2, <2>3, ReturnAt, StillTidy DEF Untouched
  <2>4. CASE /\ ~is_open_ /\ descriptors # Fds /\ fd_' = FreeFd
             /\ descriptors' = descriptors \cup {FreeFd} /\ Goto(t, "configure")
    <3>1. Onward(t) /\ pc'[t] = "configure" /\ op'[t] = op[t]
      BY <2>1, <2>4, GotoAt, GotoElse DEF SetupAt
    <3>2. FreeFd \in Fds
      BY <2>4, FreeFdIsFree DEF ObjectOK
    <3>3. ASSUME At(t), refused' = "never"
          PROVE  fd_' \in Fds /\ descriptors' = {fd_'}
      <4>1. descriptors = {}
        BY <2>1, <2>2, <2>4, <3>3 DEF Tidy
      <4> QED
        BY <2>4, <3>2, <4>1
    <3>4. ~is_open_' /\ op'[t] # "set"
      BY <2>1, <2>4, <3>1
    <3> QED
      BY <3>1, <3>3, <3>4 DEF At
  <2>5. CASE ~is_open_ /\ fd_' = NoFd /\ Return(t, "ioError") /\ UNCHANGED descriptors
    <3>1. ~is_open_'
      BY <2>1, <2>5
    <3>2. Match' /\ (Tidy => Tidy')
      BY <2>5, <3>1 DEF Match, Tidy
    <3> QED
      BY <2>1, <2>2, <2>5, <3>2, ReturnAt
  <2> QED
    BY <1>1, <2>3, <2>4, <2>5 DEF UnixOpen
<1>2. CASE UnixConfigure(t)
  <2>1. pc[t] = "configure" /\ Configuring(t)
        /\ UNCHANGED <<overlap, plugged, is_open_, fd_, descriptors, settings>>
    BY <1>0, <1>2 DEF UnixConfigure, InUnix, outside, fields, SetupAt
  <2>2. CASE Refused /\ \E r : Return(t, r)
    <3>1. Match' /\ refused' # "never"
      BY <2>2 DEF Refused, Match
    <3> QED
      BY <2>1, <2>2, <3>1, ReturnAt
  <2>3. CASE Usable /\ Go(t, "apply") /\ ReadSettings(t) /\ UNCHANGED refused
    <3>1. /\ pc'[t] = "apply" /\ op'[t] = op[t] /\ snap'[t] = settings'
          /\ \A u \in Thread \ {t} : snap'[u] = snap[u]
          /\ fd_' \in descriptors'
      BY <1>0, <2>1, <2>3 DEF Go, ReadSettings, Usable
    <3>2. Onward(t)
      BY <2>1, <3>1 DEF Onward, OpPlace, SetupAt, Configuring
    <3> QED
      BY <2>1, <2>3, <3>1, <3>2 DEF At
  <2> QED
    BY <1>2, <2>2, <2>3 DEF UnixConfigure
<1>3. CASE UnixApply(t)
  <2>1. pc[t] = "apply" /\ Configuring(t) /\ Return(t, "ok") /\ Applied
        /\ UNCHANGED <<overlap, plugged, fd_, descriptors, settings>>
    BY <1>0, <1>3 DEF UnixApply, InUnix, outside, SetupAt
  <2>2. /\ applied' = IF Usable THEN snap[t] ELSE applied
        /\ is_open_' = (is_open_ \/ op[t] # "set")
    BY <1>3 DEF UnixApply
  <2>3. plugged /\ At(t) => applied' = settings'
    BY <2>1, <2>2 DEF At, Usable
  <2>4. ASSUME At(t), refused' = "never"
        PROVE  Tidy'
    <3>1. refused = "never"
      BY <2>1, <2>4 DEF Applied
    <3>2. fd_ \in Fds /\ descriptors = {fd_} /\ (is_open_ <=> op[t] = "set")
      BY <2>1, <2>4, <3>1 DEF At
    <3>3. is_open_'
      BY <2>2, <3>2, Zenon
    <3> QED
      BY <1>0, <2>1, <3>2, <3>3 DEF Tidy
  <2> QED
    BY <2>1, <2>3, <2>4, ReturnAt DEF Match
<1>4. CASE UnixClose(t)
  <2>1. pc[t] = "closeFd" /\ Configuring(t)
        /\ UNCHANGED <<overlap, plugged, fd_, is_open_, settings, applied, refused>>
    BY <1>0, <1>4 DEF UnixClose, InUnix, outside, SetupAt
  <2>2. At(t) => Match /\ (refused = "never" => Tidy)
    BY <2>1 DEF At
  <2>3. Match => Match'
    BY <2>1 DEF Match
  <2>4. CASE ~is_open_ /\ Closed(t) /\ UNCHANGED descriptors
    BY <2>1, <2>2, <2>4, ClosedAt, StillTidy DEF Untouched
  <2>5. CASE is_open_ /\ fd_ = NoFd /\ Goto(t, "clearOpen")
    <3>1. Onward(t) /\ pc'[t] = "clearOpen" /\ op'[t] = op[t]
      BY <2>1, <2>5, GotoAt, GotoElse DEF SetupAt
    <3>2. At(t) => refused' # "never"
      BY <2>1, <2>2, <2>5 DEF Tidy
    <3> QED
      BY <2>2, <2>3, <3>1, <3>2 DEF At
  <2>6. CASE is_open_ /\ Drop(t, fd_) /\ Goto(t, "clearFd")
    <3>1. Onward(t) /\ pc'[t] = "clearFd" /\ op'[t] = op[t]
      BY <2>1, <2>6, GotoAt, GotoElse DEF SetupAt
    <3>2. At(t) /\ refused' = "never" => descriptors' = {}
      BY <2>1, <2>2, <2>6 DEF Tidy, Drop
    <3>3. is_open_'
      BY <2>1, <2>6
    <3> QED
      BY <2>2, <2>3, <3>1, <3>2, <3>3 DEF At
  <2>7. CASE ~plugged /\ Return(t, "ioError")
    BY <2>1, <2>7, ReturnAt
  <2>8. CASE /\ is_open_ /\ fd_ \notin descriptors \cup {NoFd}
             /\ Return(t, "ioError") /\ UNCHANGED descriptors
    BY <2>1, <2>2, <2>8, ReturnAt, StillTidy DEF Untouched
  <2> QED
    BY <1>4, <2>4, <2>5, <2>6, <2>7, <2>8 DEF UnixClose
<1>5. CASE UnixClearFd(t)
  <2>1. /\ pc[t] = "clearFd" /\ Configuring(t) /\ Goto(t, "clearOpen") /\ fd_' = NoFd
        /\ UNCHANGED <<overlap, plugged, is_open_, descriptors, settings, applied, refused>>
    BY <1>0, <1>5 DEF UnixClearFd, InUnix, outside, kernel, SetupAt
  <2>2. Onward(t) /\ pc'[t] = "clearOpen"
    BY <2>1, GotoAt DEF SetupAt
  <2> QED
    BY <2>1, <2>2 DEF At, Match
<1>6. CASE UnixClearOpen(t)
  <2>1. /\ pc[t] = "clearOpen" /\ Configuring(t) /\ Closed(t) /\ ~is_open_'
        /\ UNCHANGED <<overlap, plugged, fd_, descriptors, settings, applied, refused>>
    BY <1>0, <1>6 DEF UnixClearOpen, InUnix, outside, kernel, history, SetupAt
  <2>2. Match' /\ (At(t) /\ refused' = "never" => Tidy')
    BY <2>1 DEF At, Match, Tidy
  <2> QED
    BY <2>1, <2>2, ClosedAt
<1>7. CASE UnixSet(t)
  <2>1. /\ pc[t] = "body" /\ op[t] = "set" /\ Configuring(t)
        /\ UNCHANGED <<overlap, plugged, fd_, is_open_, descriptors, applied, refused>>
    BY <1>0, <1>7 DEF UnixSet, InUnix, InUnixCall, outside, kernel, history
  <2>2. At(t) /\ refused = "never" => Tidy
    BY <2>1 DEF At
  <2>3. CASE is_open_ /\ Goto(t, "configure")
    <3>1. Onward(t) /\ pc'[t] = "configure" /\ op'[t] = "set"
      BY <2>1, <2>3, GotoAt, GotoElse DEF SetupAt
    <3>2. At(t) /\ refused' = "never" => fd_' \in Fds /\ descriptors' = {fd_'}
      BY <1>0, <2>1, <2>2, <2>3 DEF Tidy
    <3>3. is_open_'
      BY <2>1, <2>3
    <3> QED
      BY <3>1, <3>2, <3>3 DEF At
  <2>4. CASE ~is_open_ /\ Return(t, "ok")
    <3>1. Match' /\ (Tidy => Tidy')
      BY <2>1, <2>4 DEF Match, Tidy
    <3> QED
      BY <2>1, <2>2, <2>4, <3>1, ReturnAt
  <2> QED
    BY <1>7, <2>3, <2>4 DEF UnixSet
<1> QED
  BY <1>1, <1>2, <1>3, <1>4, <1>5, <1>6, <1>7 DEF UnixSetup

LEMMA WinSetupAt ==
    ASSUME LockInv, ObjectOK, NEW t \in Thread, OpPlace(t), WinSetup(t)
    PROVE  Onward(t) /\ (plugged /\ At(t) => At(t)')
<1>0. /\ pc \in [Thread -> Working \cup {"idle", "lock"}]
      /\ op \in [Thread -> Ops \cup {"none", "construct", "destroy"}]
      /\ snap \in [Thread -> Settings]
      /\ fd_ \in Fds \cup {NoFd} /\ NoFd \notin Fds /\ is_open_ \in BOOLEAN
      /\ pc[t] \in SetupAt => Configuring(t)
      /\ op[t] \in {"set", "setPort"} => Configuring(t)
  BY DEF LockInv, ControlOK, ObjectOK, OpPlace, Configuring, Lifecycle, Fds, NoFd
<1>1. CASE WinOpen(t)
  <2>1. pc[t] = "openFd" /\ op[t] # "set" /\ Configuring(t)
        /\ UNCHANGED <<overlap, plugged, is_open_, settings, applied, refused>>
    BY <1>0, <1>1 DEF WinOpen, InWindows, outside, OpPlace, SetupAt
  <2>2. At(t) => Match /\ (refused = "never" => Tidy)
    BY <2>1 DEF At
  <2>3. CASE UNCHANGED <<fd_, descriptors>> /\ \E r : Return(t, r)
    BY <2>1, <2>2, <2>3, ReturnAt, StillTidy DEF Untouched
  <2>4. CASE /\ ~is_open_ /\ Goto(t, "configure")
             /\ \E d \in Fds : fd_' = d /\ descriptors' = {d}
    <3>1. Onward(t) /\ pc'[t] = "configure" /\ op'[t] = op[t]
      BY <2>1, <2>4, GotoAt, GotoElse DEF SetupAt
    <3>2. fd_' \in Fds /\ descriptors' = {fd_'}
      BY <2>4
    <3>3. ~is_open_' /\ op'[t] # "set"
      BY <2>1, <2>4, <3>1
    <3> QED
      BY <3>1, <3>2, <3>3 DEF At
  <2>5. CASE ~is_open_ /\ fd_' = NoFd /\ Return(t, "ioError") /\ UNCHANGED descriptors
    <3>1. ~is_open_'
      BY <2>1, <2>5
    <3>2. Match' /\ (Tidy => Tidy')
      BY <2>5, <3>1 DEF Match, Tidy
    <3> QED
      BY <2>1, <2>2, <2>5, <3>2, ReturnAt
  <2> QED
    BY <1>1, <2>3, <2>4, <2>5 DEF WinOpen
<1>2. CASE WinConfigure(t)
  <2>1. pc[t] = "configure" /\ Configuring(t)
        /\ UNCHANGED <<overlap, plugged, is_open_, fd_, descriptors, settings>>
    BY <1>0, <1>2 DEF WinConfigure, InWindows, outside, fields, kernel, SetupAt
  <2>2. CASE Refused /\ \E r : Return(t, r)
    <3>1. Match' /\ refused' # "never"
      BY <2>2 DEF Refused, Match
    <3> QED
      BY <2>1, <2>2, <3>1, ReturnAt
  <2>3. CASE Usable /\ Go(t, "apply") /\ ReadSettings(t) /\ UNCHANGED refused
    <3>1. /\ pc'[t] = "apply" /\ op'[t] = op[t] /\ snap'[t] = settings'
          /\ \A u \in Thread \ {t} : snap'[u] = snap[u]
          /\ fd_' \in descriptors'
      BY <1>0, <2>1, <2>3 DEF Go, ReadSettings, Usable
    <3>2. Onward(t)
      BY <2>1, <3>1 DEF Onward, OpPlace, SetupAt, Configuring
    <3> QED
      BY <2>1, <2>3, <3>1, <3>2 DEF At
  <2> QED
    BY <1>2, <2>2, <2>3 DEF WinConfigure
<1>3. CASE WinRefused(t)
  <2>1. /\ pc[t] = "apply" /\ Configuring(t) /\ Return(t, "ioError") /\ Refused
        /\ UNCHANGED <<overlap, plugged>>
    BY <1>0, <1>3 DEF WinRefused, InWindows, outside, SetupAt
  <2>2. Match' /\ refused' # "never"
    BY <2>1 DEF Refused, Match
  <2> QED
    BY <2>1, <2>2, ReturnAt
<1>22. CASE WinTimeoutsFail(t)
  <2>1. /\ pc[t] = "apply" /\ Configuring(t) /\ Return(t, "ioError") /\ Refused
        /\ UNCHANGED <<overlap, plugged>>
    BY <1>0, <1>22 DEF WinTimeoutsFail, InWindows, outside, SetupAt
  <2>2. Match' /\ refused' # "never"
    BY <2>1 DEF Refused, Match
  <2> QED
    BY <2>1, <2>2, ReturnAt
<1>4. CASE WinApply(t)
  <2>1. /\ pc[t] = "apply" /\ Configuring(t) /\ Usable /\ Applied /\ applied' = snap[t]
        /\ UNCHANGED <<overlap, plugged, fd_, descriptors, settings>>
    BY <1>0, <1>4 DEF WinApply, InWindows, outside, SetupAt
  <2>2. is_open_' = (is_open_ \/ op[t] # "set")
    BY <1>4 DEF WinApply
  <2>3. At(t) => applied' = settings'
    BY <2>1 DEF At
  <2>4. ASSUME At(t), refused' = "never"
        PROVE  is_open_' /\ fd_' \in Fds /\ descriptors' = {fd_'}
    <3>1. refused = "never"
      BY <2>1, <2>4 DEF Applied
    <3>2. fd_ \in Fds /\ descriptors = {fd_} /\ (is_open_ <=> op[t] = "set")
      BY <2>1, <2>4, <3>1 DEF At
    <3>3. is_open_'
      BY <2>2, <3>2, Zenon
    <3> QED
      BY <2>1, <3>2, <3>3
  <2>5. CASE Return(t, "ok")
    <3>1. At(t) /\ refused' = "never" => Tidy'
      BY <1>0, <2>1, <2>4 DEF Tidy
    <3> QED
      BY <2>1, <2>3, <2>5, <3>1, ReturnAt DEF Match
  <2>6. CASE op' = [op EXCEPT ![t] = "set"] /\ Go(t, "configure") /\ UNCHANGED snap
    <3>1. pc'[t] = "configure" /\ op'[t] = "set" /\ \A u \in Thread \ {t} : snap'[u] = snap[u]
      BY <1>0, <2>6 DEF Go
    <3>2. Onward(t)
      BY <2>1, <3>1 DEF Onward, OpPlace, SetupAt, Configuring, Lifecycle
    <3> QED
      BY <2>4, <3>1, <3>2 DEF At
  <2> QED
    BY <1>4, <2>5, <2>6 DEF WinApply
<1>5. CASE WinClose(t)
  <2>1. pc[t] = "closeFd" /\ Configuring(t)
        /\ UNCHANGED <<overlap, plugged, fd_, is_open_, settings, applied, refused>>
    BY <1>0, <1>5 DEF WinClose, InWindows, outside, SetupAt
  <2>2. At(t) => Match /\ (refused = "never" => Tidy)
    BY <2>1 DEF At
  <2>3. Match => Match'
    BY <2>1 DEF Match
  <2>4. CASE ~is_open_ /\ Closed(t) /\ UNCHANGED descriptors
    BY <2>1, <2>2, <2>4, ClosedAt, StillTidy DEF Untouched
  <2>5. CASE is_open_ /\ fd_ = NoFd /\ Goto(t, "clearOpen")
    <3>1. Onward(t) /\ pc'[t] = "clearOpen" /\ op'[t] = op[t]
      BY <2>1, <2>5, GotoAt, GotoElse DEF SetupAt
    <3>2. At(t) => refused' # "never"
      BY <2>1, <2>2, <2>5 DEF Tidy
    <3> QED
      BY <2>2, <2>3, <3>1, <3>2 DEF At
  <2>6. CASE is_open_ /\ Drop(t, fd_) /\ Goto(t, "clearFd")
    <3>1. Onward(t) /\ pc'[t] = "clearFd" /\ op'[t] = op[t]
      BY <2>1, <2>6, GotoAt, GotoElse DEF SetupAt
    <3>2. At(t) /\ refused' = "never" => descriptors' = {}
      BY <2>1, <2>2, <2>6 DEF Tidy, Drop
    <3>3. is_open_'
      BY <2>1, <2>6
    <3> QED
      BY <2>2, <2>3, <3>1, <3>2, <3>3 DEF At
  <2>7. CASE is_open_ /\ Return(t, "ioError") /\ UNCHANGED descriptors
    BY <2>1, <2>2, <2>7, ReturnAt, StillTidy DEF Untouched
  <2> QED
    BY <1>5, <2>4, <2>5, <2>6, <2>7 DEF WinClose
<1>6. CASE WinClearFd(t)
  <2>1. /\ pc[t] = "clearFd" /\ Configuring(t) /\ Goto(t, "clearOpen") /\ fd_' = NoFd
        /\ UNCHANGED <<overlap, plugged, is_open_, descriptors, settings, applied, refused>>
    BY <1>0, <1>6 DEF WinClearFd, InWindows, outside, kernel, SetupAt
  <2>2. Onward(t) /\ pc'[t] = "clearOpen"
    BY <2>1, GotoAt DEF SetupAt
  <2> QED
    BY <2>1, <2>2 DEF At, Match
<1>7. CASE WinClearOpen(t)
  <2>1. /\ pc[t] = "clearOpen" /\ Configuring(t) /\ Closed(t) /\ ~is_open_'
        /\ UNCHANGED <<overlap, plugged, fd_, descriptors, settings, applied, refused>>
    BY <1>0, <1>7 DEF WinClearOpen, InWindows, outside, kernel, history, SetupAt
  <2>2. Match' /\ (At(t) /\ refused' = "never" => Tidy')
    BY <2>1 DEF At, Match, Tidy
  <2> QED
    BY <2>1, <2>2, ClosedAt
<1>8. CASE WinSet(t)
  <2>1. /\ pc[t] = "body" /\ op[t] = "set" /\ Configuring(t)
        /\ UNCHANGED <<overlap, plugged, fd_, is_open_, descriptors, applied, refused>>
    BY <1>0, <1>8 DEF WinSet, InWindows, InWinCall, outside, kernel, history
  <2>2. At(t) /\ refused = "never" => Tidy
    BY <2>1 DEF At
  <2>3. CASE is_open_ /\ Goto(t, "configure")
    <3>1. Onward(t) /\ pc'[t] = "configure" /\ op'[t] = "set"
      BY <2>1, <2>3, GotoAt, GotoElse DEF SetupAt
    <3>2. At(t) /\ refused' = "never" => fd_' \in Fds /\ descriptors' = {fd_'}
      BY <1>0, <2>1, <2>2, <2>3 DEF Tidy
    <3>3. is_open_'
      BY <2>1, <2>3
    <3> QED
      BY <3>1, <3>2, <3>3 DEF At
  <2>4. CASE ~is_open_ /\ Return(t, "ok")
    <3>1. Match' /\ (Tidy => Tidy')
      BY <2>1, <2>4 DEF Match, Tidy
    <3> QED
      BY <2>1, <2>2, <2>4, <3>1, ReturnAt
  <2> QED
    BY <1>8, <2>3, <2>4 DEF WinSet
<1> QED
  BY <1>1, <1>2, <1>3, <1>4, <1>5, <1>6, <1>7, <1>8, <1>22 DEF WinSetup

LEMMA SetPortAt ==
    ASSUME LockInv, ObjectOK, NEW t \in Thread, SetPort(t)
    PROVE  Onward(t) /\ (At(t) => At(t)')
<1>1. /\ pc[t] = "body" /\ Configuring(t) /\ UNCHANGED <<overlap, plugged>> /\ Untouched
  BY DEF SetPort, Configuring, Lifecycle, outside, history, kernel, Untouched
<1>2. At(t) => Match /\ (refused = "never" => Tidy)
  BY <1>1 DEF At
<1>3. Goto(t, "closeFd") \/ Return(t, "ok")
  BY DEF SetPort
<1> QED
  BY <1>1, <1>2, <1>3, StillTidy, ReturnAt, GotoAt DEF SetupAt

-----------------------------------------------------------------------------
\* A thread whose place, and what its setup depends on, is as before.
LEMMA StillAt ==
    ASSUME Untouched, NEW t, op'[t] = op[t], snap'[t] = snap[t], At(t),
           pc'[t] = pc[t] \/ (pc[t] \notin SetupAt /\ pc'[t] \notin SetupAt)
    PROVE  At(t)'
<1>1. (Match => Match') /\ (Tidy => Tidy') /\ refused' = refused
  BY StillTidy
<1> QED
  BY <1>1 DEF Untouched, At, SetupAt

\* A step of the setup, while nobody else is in one.
LEMMA OnwardOK ==
    ASSUME LockInv, \A u \in Thread : OpPlace(u), SetupOK, NEW t \in Thread, Works(t),
           Onward(t), plugged /\ At(t) => At(t)'
    PROVE  (\A u \in Thread : OpPlace(u)') /\ SetupOK'
<1>1. /\ pc \in [Thread -> Working \cup {"idle", "lock"}]
      /\ op \in [Thread -> Ops \cup {"none", "construct", "destroy"}]
  BY DEF LockInv, ControlOK
<1>2. ASSUME NEW u \in Thread \ {t}
      PROVE  pc'[u] = pc[u] /\ op'[u] = op[u] /\ snap'[u] = snap[u]
  BY <1>1 DEF Works, Leaves, Stays, Onward
<1>3. ASSUME NEW u \in Thread
      PROVE  OpPlace(u)'
  BY <1>2 DEF Onward, OpPlace, Configuring
<1>4. SUFFICES ASSUME ~overlap'
               PROVE  /\ \A a, b \in Thread : Configuring(a)' /\ Configuring(b)' => a = b
                      /\ plugged' => \A u \in Thread : Lone(u)' => At(u)'
  BY <1>3 DEF SetupOK
<1>5. /\ Configuring(t) /\ \A u \in Thread \ {t} : ~Configuring(u)
      /\ plugged => At(t)'
  BY <1>4 DEF Onward, SetupOK, Lone
<1>6. \A u \in Thread \ {t} : ~Configuring(u)'
  BY <1>2, <1>5 DEF Configuring
<1>7. ASSUME plugged', NEW u \in Thread, Lone(u)', u # t
      PROVE  At(u)'
  <2>1. ~Configuring(t)'
    BY <1>7 DEF Lone
  <2>2. pc'[t] = "idle" /\ At(t)'
    BY <1>5, <1>7, <2>1 DEF Onward
  <2>3. Match' /\ (refused' = "never" => Tidy')
    BY <2>2 DEF At
  <2>4. pc'[u] \notin SetupAt
    BY <1>2, <1>5, <1>7 DEF OpPlace
  <2> QED
    BY <2>3, <2>4 DEF At, SetupAt
<1> QED
  BY <1>5, <1>6, <1>7 DEF Onward

\* A step of any other call: it changes nothing the setup depends on.
LEMMA ElseOK ==
    ASSUME LockInv, \A u \in Thread : OpPlace(u), SetupOK, NEW t \in Thread, Works(t),
           Elsewhere(t), plugged' => plugged
    PROVE  (\A u \in Thread : OpPlace(u)') /\ SetupOK'
<1>1. /\ pc \in [Thread -> Working \cup {"idle", "lock"}]
      /\ op \in [Thread -> Ops \cup {"none", "construct", "destroy"}]
  BY DEF LockInv, ControlOK
<1>2. ASSUME NEW u \in Thread \ {t}
      PROVE  pc'[u] = pc[u] /\ op'[u] = op[u] /\ snap'[u] = snap[u]
  BY <1>1 DEF Works, Leaves, Stays, Elsewhere
<1>3. ~Configuring(t) /\ ~Configuring(t)'
  BY DEF Elsewhere, Configuring, Lifecycle
<1>4. \A u \in Thread : Configuring(u)' <=> Configuring(u)
  BY <1>2, <1>3 DEF Configuring
<1>5. ASSUME NEW u \in Thread
      PROVE  OpPlace(u)'
  <2>1. CASE u = t
    BY <1>3, <2>1 DEF OpPlace, Elsewhere, SetupAt
  <2>2. CASE u # t
    BY <1>2, <2>2 DEF OpPlace, Configuring
  <2> QED
    BY <2>1, <2>2
<1>6. ASSUME ~overlap', plugged', NEW u \in Thread, Lone(u)'
      PROVE  At(u)'
  <2>1. At(u)
    BY <1>4, <1>6 DEF SetupOK, Lone, Elsewhere
  <2>2. CASE u = t
    <3>1. pc[t] \notin SetupAt /\ pc'[t] \notin SetupAt
      BY <1>3 DEF OpPlace, Elsewhere
    <3>2. Match' /\ (refused' = "never" => Tidy')
      BY <2>1, <2>2, <3>1, StillTidy DEF At, Elsewhere, SetupAt
    <3> QED
      BY <2>2, <3>1, <3>2 DEF At, SetupAt
  <2>3. CASE u # t
    BY <1>2, <2>1, <2>3, StillAt DEF Elsewhere
  <2> QED
    BY <2>2, <2>3
<1> QED
  BY <1>4, <1>5, <1>6 DEF SetupOK, Elsewhere

\* A step that is no call's, or only takes a lock.
LEMMA StandOK ==
    ASSUME \A u \in Thread : OpPlace(u), SetupOK, Untouched, UNCHANGED <<op, snap, overlap>>,
           plugged' => plugged,
           \A u \in Thread : pc'[u] = pc[u] \/ (pc[u] = "lock" /\ pc'[u] \in {"lock", "body"})
    PROVE  (\A u \in Thread : OpPlace(u)') /\ SetupOK'
<1>1. \A u \in Thread : OpPlace(u)' /\ (Lone(u)' => Lone(u))
  BY DEF OpPlace, Configuring, Lone, SetupAt
<1>2. \A u \in Thread : At(u) => At(u)'
  BY StillAt DEF SetupAt
<1> QED
  BY <1>1, <1>2 DEF SetupOK, Configuring

\* A call begins: one of the setup only while no other is under way, unless the
\* history says they overlapped.
LEMMA BeginOK ==
    ASSUME LockInv, \A u \in Thread : OpPlace(u), SetupOK, NEW t \in Thread, NEW c, NEW l,
           pc[t] = "idle", c # "none", pc' = [pc EXCEPT ![t] = l], op' = [op EXCEPT ![t] = c],
           l \in {"lock", "body"} \/ (l = "openFd" /\ c = "open")
             \/ (l = "closeFd" /\ c \in {"close", "destroy"}),
           UNCHANGED <<snap, plugged>>, Untouched,
           ~overlap' => ~overlap /\ (c \in Lifecycle \cup {"construct", "destroy"} =>
                                       \A u \in Thread : ~Configuring(u))
    PROVE  (\A u \in Thread : OpPlace(u)') /\ SetupOK'
<1>1. /\ pc \in [Thread -> Working \cup {"idle", "lock"}]
      /\ op \in [Thread -> Ops \cup {"none", "construct", "destroy"}]
  BY DEF LockInv, ControlOK
<1>2. /\ pc'[t] = l /\ op'[t] = c /\ op[t] = "none" /\ ~Configuring(t)
      /\ \A u \in Thread \ {t} : pc'[u] = pc[u] /\ op'[u] = op[u]
  BY <1>1 DEF OpPlace, Configuring, Lifecycle
<1>3. ASSUME NEW u \in Thread
      PROVE  OpPlace(u)'
  <2>1. CASE u = t
    BY <1>2, <2>1 DEF OpPlace, SetupAt, Configuring, Lifecycle
  <2>2. CASE u # t
    BY <1>2, <2>2 DEF OpPlace, Configuring
  <2> QED
    BY <2>1, <2>2
<1>4. SUFFICES ASSUME ~overlap'
               PROVE  /\ \A a, b \in Thread : Configuring(a)' /\ Configuring(b)' => a = b
                      /\ plugged' => \A u \in Thread : Lone(u)' => At(u)'
  BY <1>3 DEF SetupOK
<1>5. Configuring(t)' => \A u \in Thread \ {t} : ~Configuring(u) /\ ~Configuring(u)'
  BY <1>2, <1>4 DEF Configuring
<1>6. \A a, b \in Thread : Configuring(a)' /\ Configuring(b)' => a = b
  BY <1>2, <1>4, <1>5 DEF SetupOK, Configuring
<1>7. ASSUME plugged', NEW u \in Thread, Lone(u)'
      PROVE  At(u)'
  <2>1. Lone(u)
    BY <1>2, <1>7 DEF Lone, Configuring
  <2>2. At(u)
    BY <1>4, <1>7, <2>1 DEF SetupOK
  <2>3. CASE u = t
    <3>1. Match' /\ (refused' = "never" => Tidy')
      BY <2>2, <2>3, StillTidy DEF At
    <3> QED
      BY <1>2, <2>3, <3>1 DEF At
  <2>4. CASE u # t
    BY <1>2, <2>2, <2>4, StillAt
  <2> QED
    BY <2>3, <2>4
<1> QED
  BY <1>6, <1>7

LEMMA NextSetup == SetupInv /\ [SerialNext]_svars => SetupInv'
<1> SUFFICES ASSUME SetupInv, [SerialNext]_svars
             PROVE  (\A u \in Thread : OpPlace(u)') /\ SetupOK'
  BY NextTypes DEF SetupInv
<1>1. LockInv /\ ObjectOK /\ Places /\ SetupOK /\ \A u \in Thread : OpPlace(u)
  BY DEF SetupInv, TypeInv, DataInv
<1>2. ASSUME NEW t \in Thread, UnixStep(t) \/ UnixWaitForChange(t) \/ WinStep(t) \/ WinWaitForChange(t)
      PROVE  (\A u \in Thread : OpPlace(u)') /\ SetupOK'
  <2>1. Works(t) /\ plugged' = plugged
    BY <1>1, <1>2, UnixWorks, WinWorks, UnixTypes, WinTypes DEF ObjectTypes, outside
  <2>2. CASE UnixSetup(t)
    BY <1>1, <2>1, <2>2, UnixSetupAt, OnwardOK
  <2>3. CASE WinSetup(t)
    BY <1>1, <2>1, <2>3, WinSetupAt, OnwardOK
  <2>4. CASE ~UnixSetup(t) /\ ~WinSetup(t)
    BY <1>1, <1>2, <2>1, <2>4, UnixElse, WinElse, ElseOK
  <2> QED
    BY <2>2, <2>3, <2>4
<1>3. ASSUME NEW t \in Thread, SetPort(t)
      PROVE  (\A u \in Thread : OpPlace(u)') /\ SetupOK'
  <2>1. Works(t)
    BY <1>3, ReturnLeaves, GotoStays DEF SetPort, Works, Working
  <2> QED
    BY <1>1, <1>3, <2>1, SetPortAt, OnwardOK
<1>4. ASSUME NEW t \in Thread, TakeLock(t)
      PROVE  (\A u \in Thread : OpPlace(u)') /\ SetupOK'
  <2>1. \A u \in Thread : pc'[u] = pc[u] \/ (pc[u] = "lock" /\ pc'[u] \in {"lock", "body"})
    BY <1>1, <1>4 DEF TakeLock, LockInv, ControlOK
  <2>2. Untouched /\ UNCHANGED <<op, snap, overlap, plugged>>
    BY <1>4 DEF TakeLock, Untouched, locals, fields, kernel, outside, history
  <2> QED
    BY <1>1, <2>1, <2>2, StandOK
<1>5. ASSUME NEW t \in Thread, NEW c \in Calls[t], Call(t, c)
      PROVE  (\A u \in Thread : OpPlace(u)') /\ SetupOK'
  <2>1. c \in Ops /\ c \notin {"none", "construct", "destroy"}
    <3>1. c \in Ops
      BY SerialAssumption
    <3> QED
      BY <3>1 DEF Ops, Reads, Lifecycle
  <2>2. Entry(c) \in {"lock", "body"} \/ (Entry(c) = "openFd" /\ c = "open")
          \/ (Entry(c) = "closeFd" /\ c = "close")
    BY EntryPlace
  <2>3. /\ pc[t] = "idle" /\ pc' = [pc EXCEPT ![t] = Entry(c)] /\ op' = [op EXCEPT ![t] = c]
        /\ UNCHANGED <<snap, plugged>> /\ Untouched
    BY <1>5 DEF Call, Invoke, Untouched, fields, kernel, outside
  <2>4. ~overlap' => ~overlap /\ (c \in Lifecycle => \A u \in Thread : ~Configuring(u))
    <3>1. overlap' = (overlap \/ (c \in Lifecycle /\ \E u \in Thread : Configuring(u)))
      BY <1>5 DEF Call, Invoke
    <3> QED
      BY <3>1, Zenon
  <2> QED
    BY <1>1, <2>1, <2>2, <2>3, <2>4, BeginOK
<1>6. CASE Destroy
  <2>1. Main \in Thread /\ \A u \in Thread : ~Configuring(u)
    BY <1>1, <1>6, SerialAssumption DEF Destroy, OpPlace, Configuring, Lifecycle
  <2>2. /\ pc[Main] = "idle" /\ pc' = [pc EXCEPT ![Main] = "closeFd"]
        /\ op' = [op EXCEPT ![Main] = "destroy"]
        /\ UNCHANGED <<snap, plugged>> /\ Untouched
    BY <1>6, <2>1 DEF Destroy, Invoke, Untouched, fields, kernel, outside
  <2>3. ~overlap' => ~overlap
    <3>1. overlap' = (overlap \/ ("destroy" \in Lifecycle /\ \E u \in Thread : Configuring(u)))
      BY <1>6 DEF Destroy, Invoke
    <3> QED
      BY <3>1, Zenon
  <2> QED
    BY <1>1, <2>1, <2>2, <2>3, BeginOK
<1>7. CASE (\E t \in Thread : Expire(t)) \/ Arrive \/ Transmit \/ Unplug \/ UNCHANGED svars
  <2>1. Untouched /\ UNCHANGED <<pc, op, snap, overlap>> /\ (plugged' => plugged)
    BY <1>7 DEF Expire, Arrive, Transmit, Unplug, svars, Untouched, control, locals, fields,
                kernel, outside, history
  <2> QED
    BY <1>1, <2>1, StandOK
<1> QED
  BY <1>2, <1>3, <1>4, <1>5, <1>6, <1>7 DEF SerialNext, Step

LEMMA InitSetup == SerialInit => SetupInv
<1> SUFFICES ASSUME SerialInit PROVE SetupInv
  OBVIOUS
<1>1. /\ pc = [t \in Thread |-> IF t = Main /\ port_ # "" THEN "openFd" ELSE "idle"]
      /\ op = [t \in Thread |-> IF pc[t] = "idle" THEN "none" ELSE "construct"]
      /\ is_open_ = FALSE /\ fd_ = NoFd /\ descriptors = {}
  BY DEF SerialInit
<1>2. \A t \in Thread : OpPlace(t)
  BY <1>1 DEF OpPlace, Configuring, SetupAt, Lifecycle
<1>3. \A t \in Thread : Configuring(t) => t = Main
  BY <1>1 DEF Configuring, Lifecycle
<1>4. \A t \in Thread : pc[t] \in {"openFd", "idle"}
  BY <1>1
<1>5. Match /\ Tidy
  BY <1>1 DEF Match, Tidy
<1>6. \A t \in Thread : At(t)
  BY <1>4, <1>5 DEF At
<1> QED
  BY <1>2, <1>3, <1>6, InitTypes DEF SetupInv, SetupOK

LEMMA SetupInvHolds == SerialSpec => []SetupInv
BY InitSetup, NextSetup, PTL DEF SerialSpec

\* What the invariant says when none of those calls is under way.
LEMMA SettledTidy ==
    ASSUME SetupInv, Settled
    PROVE  Match /\ (refused = "never" => Tidy)
<1>1. Main \in Thread /\ Lone(Main) /\ pc[Main] \notin SetupAt
  BY SerialAssumption DEF SetupInv, Settled, Lone, OpPlace
<1>2. At(Main)
  BY <1>1 DEF SetupInv, SetupOK, Settled
<1> QED
  BY <1>1, <1>2 DEF At, SetupAt

\* While the calls that open, close or set did not overlap and none failed to
\* configure the device, the object holds one descriptor when it is open and
\* none when it is closed, whatever reads, writes and flushes run next to them.
THEOREM OneDescriptorHolds == SerialSpec => []OneDescriptor
<1>1. SetupInv => OneDescriptor
  BY SettledTidy DEF OneDescriptor, Tidy
<1> QED
  BY <1>1, SetupInvHolds, PTL

\* An open port works with the settings last stored, on either platform, unless
\* the last reconfiguration failed or those calls overlapped.
THEOREM SettingsAppliedHolds == SerialSpec => []SettingsApplied
<1>1. SetupInv => SettingsApplied
  BY SettledTidy DEF SettingsApplied, Match
<1> QED
  BY <1>1, SetupInvHolds, PTL
==============================================================================
