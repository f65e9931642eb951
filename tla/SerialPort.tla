----------------------------- MODULE SerialPort -----------------------------
(***************************************************************************)
(* serial::Serial: the object every thread of the program calls, its two   *)
(* mutexes, and the kernel's side of the port.  What a call does once it   *)
(* has its locks depends on the platform: modules SerialUnix (unix.cc) and *)
(* SerialWindows (win.cc).  Module Serial puts the parts together.         *)
(*                                                                         *)
(* Only reading, writing, flushing and setPort take a lock: open, close    *)
(* and the setters run unprotected next to them, and next to each other.   *)
(*                                                                         *)
(* Bytes are numbered in the order they reach the port, so the kernel's    *)
(* input queue is always the interval taken+1..arrived.                    *)
(*                                                                         *)
(* WriteFirst, SetPortFree, FreeReads and FreeWrites are wrong variants of *)
(* Locks.                                                                  *)
(***************************************************************************)
EXTENDS Integers, Sequences

CONSTANTS
    Thread,
    Main,        \* the thread that constructs and destroys the object
    Platforms,   \* a subset of {"unix", "windows"}
    None,
    Calls,       \* the calls each thread may make
    MaxCalls,    \* bound: how many it makes
    Size,        \* the bytes a read or a write asks for
    MaxIn,       \* bound: bytes that arrive
    Eol,         \* those of them that end a line
    OutCap,      \* room in the kernel's output queue
    MaxFd        \* descriptors 1..MaxFd

Rates    == {"table", "custom"}
Frames   == {"8N1", "undefined"}
Settings == [rate : Rates, frame : Frames]
Ports    == {"", "device", "absent"}

\* "query": one of the calls on the modem lines, the break and the queues
\* that neither lock nor wait.
Reads     == {"read", "readline", "readlines"}
Lifecycle == {"open", "close", "setPort", "set"}
Ops       == Reads \cup Lifecycle \cup {"write", "flush", "flushInput", "flushOutput",
                                        "query", "waitForChange"}

ASSUME SerialAssumption ==
    /\ Main \in Thread /\ None \notin Thread
    /\ Platforms \subseteq {"unix", "windows"}
    /\ Calls \in [Thread -> SUBSET Ops] /\ MaxCalls \in [Thread -> Nat]
    /\ Size \in Nat \ {0}
    /\ {MaxIn, OutCap, MaxFd} \subseteq Nat

VARIABLES
    \* the object
    phase,        \* its life
    port_, fd_, is_open_,
    settings,     \* baudrate_ ("rate"); bytesize_, parity_, stopbits_ ("frame")
    lock,         \* read_mutex and write_mutex
    \* the threads
    pc, op,       \* where it stands in which call
    got,          \* the bytes a reading call has in its buffer
    count,        \* bytes a read_ waits for; bytes_written of a write
    expired,      \* its total_timeout
    snap,         \* the settings reconfigurePort read
    \* the kernel and the device
    platform, plugged, descriptors, arrived, taken, accepted, pending,
    applied

\* History: whether close() ran, or an open() failed, under a thread's call; the
\* calls made; whether calls of Lifecycle overlapped; and whether a
\* reconfiguration failed: never, once but the last one went well, or the last one.
VARIABLES disturbed, calls, overlap, refused

control == <<phase, lock, pc>>
locals  == <<op, got, count, expired, snap>>
fields  == <<port_, fd_, is_open_, settings>>
input   == <<arrived, taken>>
output  == <<accepted, pending>>
kernel  == <<descriptors, input, output, applied>>
outside == <<platform, plugged>>
history == <<disturbed, calls, overlap, refused>>
svars   == <<control, locals, fields, kernel, outside, history>>

Mutex == {"read", "write"}
NoFd == 0
Fds  == 1..MaxFd

SerialTypeOK ==
    /\ phase \in {"constructing", "alive", "destroying", "gone", "aborted"}
    /\ port_ \in Ports /\ fd_ \in Fds \cup {NoFd} /\ is_open_ \in BOOLEAN
    /\ settings \in Settings /\ applied \in Settings
    /\ lock \in [Mutex -> Thread \cup {None}]
    /\ pc \in [Thread -> {"idle", "lock", "body", "readLoop", "readNow",
                          "writeLoop", "writeNow", "draining", "openFd", "configure",
                          "apply", "closeFd", "clearFd", "clearOpen"}]
    /\ op \in [Thread -> Ops \cup {"none", "construct", "destroy"}]
    /\ \A t \in Thread : got[t] \in Seq(1..MaxIn) /\ Len(got[t]) <= Size
    /\ count \in [Thread -> 0..Size]
    /\ expired \in [Thread -> BOOLEAN]
    /\ snap \in [Thread -> Settings]
    /\ platform \in Platforms
    /\ descriptors \subseteq Fds
    /\ arrived \in 0..MaxIn /\ taken \in 0..arrived
    /\ pending \in 0..OutCap /\ pending <= Len(accepted)
    /\ {plugged, overlap} \subseteq BOOLEAN
    /\ refused \in {"never", "once", "last"}

-----------------------------------------------------------------------------
(***************************************************************************)
(* Scoped locks, in the order a call takes them.  It gives back what it    *)
(* holds on every way out, by return or exception.                         *)
(***************************************************************************)
WriteFirst(c) ==
    CASE c \in Reads \cup {"flushInput"} -> <<"read">>
      [] c \in {"write", "flushOutput"}  -> <<"write">>
      [] c = "flush"                     -> <<"read", "write">>
      [] c = "setPort"                   -> <<"write", "read">>
      [] OTHER                            -> <<>>

SetPortFree(c) ==
    CASE c \in Reads \cup {"flushInput"} -> <<"read">>
      [] c \in {"write", "flushOutput"}  -> <<"write">>
      [] c = "flush"                     -> <<"read", "write">>
      [] OTHER                           -> <<>>

FreeReads(c) ==
    CASE c \in {"flushInput"}            -> <<"read">>
      [] c \in {"write", "flushOutput"}  -> <<"write">>
      [] c \in {"setPort", "flush"}      -> <<"read", "write">>
      [] OTHER                            -> <<>>

FreeWrites(c) ==
    CASE c \in Reads \cup {"flushInput"} -> <<"read">>
      [] c \in {"setPort", "flush"}      -> <<"read", "write">>
      [] OTHER                            -> <<>>

Locks(c) ==
    CASE c \in Reads \cup {"flushInput"} -> <<"read">>
      [] c \in {"write", "flushOutput"}  -> <<"write">>
      [] c \in {"setPort", "flush"}      -> <<"read", "write">>
      [] OTHER                            -> <<>>

Go(t, l) == pc' = [pc EXCEPT ![t] = l] /\ UNCHANGED <<phase, lock>>
Goto(t, l) == Go(t, l) /\ UNCHANGED locals

\* Holds a lock already: the read lock of a call that takes two.
Held(t) == IF \E m \in Mutex : lock[m] = t THEN 1 ELSE 0

TakeLock(t) ==
    LET needed == Locks(op[t])
        next   == needed[Held(t) + 1] IN
    /\ pc[t] = "lock" /\ lock[next] = None
    /\ lock' = [lock EXCEPT ![next] = t]
    /\ pc' = [pc EXCEPT ![t] = IF Held(t) + 1 = Len(needed) THEN "body" ELSE "lock"]
    /\ UNCHANGED <<phase, locals, fields, kernel, outside, history>>

Unlock(t) == lock' = [m \in Mutex |-> IF lock[m] = t THEN None ELSE lock[m]]

Factory == [rate |-> "table", frame |-> "8N1"]

\* The call of t ends: r is "ok" or the exception.  A constructor that throws
\* leaves no object; a destructor that throws ends the process.
Return(t, r) ==
    /\ pc' = [pc EXCEPT ![t] = "idle"]
    /\ Unlock(t)
    /\ phase' = CASE phase = "constructing" -> IF r = "ok" THEN "alive" ELSE "gone"
                  [] phase = "destroying"   -> IF r = "ok" THEN "gone" ELSE "aborted"
                  [] OTHER                  -> phase
    /\ op' = [op EXCEPT ![t] = "none"]
    /\ got' = [got EXCEPT ![t] = <<>>]
    /\ count' = [count EXCEPT ![t] = 0]
    /\ expired' = [expired EXCEPT ![t] = FALSE]
    /\ snap' = [snap EXCEPT ![t] = Factory]

\* Undefined behaviour that ends the process.
Abort ==
    /\ phase' = "aborted"
    /\ UNCHANGED <<lock, pc, locals>>

Configuring(u) == op[u] \in Lifecycle \cup {"construct", "destroy"}

Invoke(t, c, l) ==
    /\ pc' = [pc EXCEPT ![t] = l]
    /\ op' = [op EXCEPT ![t] = c]
    /\ disturbed' = [disturbed EXCEPT ![t] = FALSE]
    /\ overlap' = (overlap \/ (c \in Lifecycle /\ \E u \in Thread : Configuring(u)))
    /\ UNCHANGED <<lock, got, count, expired, snap, fields, kernel, outside, refused>>

Entry(c) ==
    CASE c = "open"        -> "openFd"
      [] c = "close"       -> "closeFd"
      [] Locks(c) # <<>>   -> "lock"
      [] OTHER              -> "body"

Call(t, c) ==
    /\ phase = "alive" /\ pc[t] = "idle" /\ calls[t] < MaxCalls[t]
    /\ calls' = [calls EXCEPT ![t] = @ + 1]
    /\ Invoke(t, c, Entry(c))
    /\ UNCHANGED phase

\* ~Serial closes the port; nobody may be using the object then.
Destroy ==
    /\ phase = "alive" /\ \A t \in Thread : pc[t] = "idle"
    /\ phase' = "destroying"
    /\ Invoke(Main, "destroy", "closeFd")
    /\ UNCHANGED calls

-----------------------------------------------------------------------------
(***************************************************************************)
(* The kernel and the device (external).  An unplugged device stays so:    *)
(* its descriptors read nothing and accept nothing.                        *)
(***************************************************************************)
Least(a, b) == IF a < b THEN a ELSE b
Usable      == fd_ \in descriptors /\ plugged
Readable    == IF Usable THEN arrived - taken ELSE 0
Room        == IF Usable THEN OutCap - pending ELSE 0
FreeFd      == CHOOSE d \in Fds \ descriptors : \A e \in Fds \ descriptors : d <= e

\* t's call takes up to n bytes from the input queue.
TakeBytes(t, n) ==
    LET k == Least(n, Readable) IN
    /\ taken' = taken + k
    /\ got' = [got EXCEPT ![t] = @ \o [j \in 1..k |-> taken + j]]
    /\ UNCHANGED arrived

\* t's call puts up to n more bytes in the output queue.  The history
\* `accepted` names each byte by its call's thread and its place in the call.
PutBytes(t, n) ==
    LET k == Least(n, Room) IN
    /\ accepted' = accepted \o [j \in 1..k |-> [by |-> t, nth |-> count[t] + j]]
    /\ pending' = pending + k
    /\ count' = [count EXCEPT ![t] = @ + k]
    /\ UNCHANGED <<op, got, expired, snap>>

Refused == refused' = "last"
Applied == refused' = IF refused = "never" THEN "never" ELSE "once"

ReadSettings(t) ==
    /\ snap' = [snap EXCEPT ![t] = settings]
    /\ UNCHANGED <<op, got, count, expired>>

\* The descriptor is taken from the calls under way.  setPort has both locks, so
\* none of them reads or writes then.
Disturb(t) ==
    disturbed' = IF op[t] = "setPort" THEN disturbed
                 ELSE [u \in Thread |-> disturbed[u] \/ pc[u] # "idle"]

\* The last descriptor to go takes the queues with it.
Drop(t, d) ==
    /\ descriptors' = descriptors \ {d}
    /\ IF descriptors = {d} THEN taken' = arrived /\ pending' = 0
                            ELSE UNCHANGED <<taken, pending>>
    /\ Disturb(t)
    /\ UNCHANGED <<arrived, accepted>>

Arrive ==
    /\ plugged /\ arrived < MaxIn
    /\ arrived' = arrived + 1
    /\ taken' = IF descriptors = {} THEN arrived + 1 ELSE taken
    /\ UNCHANGED <<control, locals, fields, descriptors, output, applied, outside, history>>

Transmit ==
    /\ plugged /\ pending > 0
    /\ pending' = pending - 1
    /\ UNCHANGED <<control, locals, fields, descriptors, input, accepted, applied, outside, history>>

Unplug ==
    /\ plugged
    /\ plugged' = FALSE
    /\ UNCHANGED <<control, locals, fields, kernel, platform, history>>

\* Time passes: the total timeout of a reading or writing call runs out.
Expire(t) ==
    /\ phase = "alive" /\ ~expired[t]
    /\ pc[t] \in {"readLoop", "readNow", "writeLoop", "writeNow"}
    /\ expired' = [expired EXCEPT ![t] = TRUE]
    /\ UNCHANGED <<control, op, got, count, snap, fields, kernel, outside, history>>

-----------------------------------------------------------------------------
(***************************************************************************)
(* serial.cc above the platform.  read_ returned with what it got: read    *)
(* ends; readline and readlines, which read byte by byte, go on unless     *)
(* nothing came, the line (of readline) ended, or the buffer is full.      *)
(***************************************************************************)
LineDone(t) ==
    \/ Len(got[t]) < count[t]
    \/ op[t] = "readline" /\ got[t][Len(got[t])] \in Eol
    \/ Len(got[t]) = Size

EndRead(t) ==
    /\ IF op[t] = "read" \/ LineDone(t) THEN Return(t, "ok") ELSE Goto(t, "body")
    /\ UNCHANGED <<fields, kernel, outside, history>>

\* What the next read_ of t's call asks for.
Wanted(t) == IF op[t] = "read" THEN Size ELSE Len(got[t]) + 1

\* What a setter makes of the stored settings.
Changed == {[settings EXCEPT !.rate = r] : r \in Rates}
           \cup {[settings EXCEPT !.frame = f] : f \in Frames}

\* setPort on an open port closes it, stores the name and opens it again.
SetPort(t) ==
    /\ pc[t] = "body" /\ op[t] = "setPort"
    /\ IF is_open_ THEN Goto(t, "closeFd") /\ UNCHANGED port_
                   ELSE Return(t, "ok") /\ port_' \in Ports \ {""}
    /\ UNCHANGED <<fd_, is_open_, settings, kernel, outside, history>>

\* close() came to its end in t.
Closed(t) ==
    IF op[t] = "setPort" THEN Goto(t, "openFd") /\ port_' \in Ports \ {""}
                              ELSE Return(t, "ok") /\ UNCHANGED port_

SerialInit ==
    /\ port_ \in {"", "device"} /\ fd_ = NoFd /\ is_open_ = FALSE
    /\ phase = IF port_ = "" THEN "alive" ELSE "constructing"
    /\ settings = Factory
    /\ lock = [m \in Mutex |-> None]
    /\ pc = [t \in Thread |-> IF t = Main /\ port_ # "" THEN "openFd" ELSE "idle"]
    /\ op = [t \in Thread |-> IF pc[t] = "idle" THEN "none" ELSE "construct"]
    /\ got = [t \in Thread |-> <<>>]
    /\ count = [t \in Thread |-> 0]
    /\ expired = [t \in Thread |-> FALSE]
    /\ snap = [t \in Thread |-> Factory]
    /\ platform \in Platforms /\ plugged = TRUE /\ descriptors = {}
    /\ arrived = 0 /\ taken = 0 /\ accepted = <<>> /\ pending = 0
    /\ applied = [rate |-> "custom", frame |-> "8N1"]
    /\ disturbed = [t \in Thread |-> FALSE]
    /\ calls = [t \in Thread |-> 0] /\ overlap = FALSE /\ refused = "never"
==============================================================================
