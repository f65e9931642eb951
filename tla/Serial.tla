------------------------------- MODULE Serial -------------------------------
(***************************************************************************)
(* The serial port as a whole: the calls of any number of threads, on      *)
(* either platform, next to the kernel and the device.                     *)
(***************************************************************************)
EXTENDS SerialUnix, SerialWindows

Step(t) ==
    \/ TakeLock(t) \/ SetPort(t)
    \/ UnixStep(t) \/ WinStep(t)

SerialNext ==
    \/ \E t \in Thread : \/ \E c \in Calls[t] : Call(t, c)
                         \/ Step(t) \/ Expire(t)
                         \/ UnixWaitForChange(t) \/ WinWaitForChange(t)
    \/ Destroy \/ Arrive \/ Transmit \/ Unplug

SerialSpec == SerialInit /\ [][SerialNext]_svars

-----------------------------------------------------------------------------
(***************************************************************************)
(* The bytes one reading call has are consecutive bytes of the line, even  *)
(* with other readers, flushInput and setPort around: the read lock.       *)
(* close() takes no lock and can tear it; a call that met it, or an open() *)
(* that failed, is left out.                                               *)
(***************************************************************************)
ReadContiguous ==
    \A t \in Thread : ~disturbed[t] =>
        \A j \in 2..Len(got[t]) : got[t][j] = got[t][j-1] + 1

(***************************************************************************)
(* The bytes of one write() reach the kernel in order and with nothing     *)
(* between them, whatever else runs: what the send thread writes arrives   *)
(* as a prefix of a frame, never as a mixture.                             *)
(***************************************************************************)
WriteContiguous ==
    \A j \in 1..Len(accepted) : accepted[j].nth > 1 =>
        /\ j > 1
        /\ accepted[j-1] = [accepted[j] EXCEPT !.nth = @ - 1]

(***************************************************************************)
(* "device disconnected?" is thrown only when it is, or when close() ran,  *)
(* or an open() failed, under the call: a thread that select told to go on *)
(* still finds bytes to read, or room to write, because nobody else takes  *)
(* them in between.                                                        *)
(***************************************************************************)
NoFalseDisconnect ==
    \A t \in Thread : platform = "unix" /\ plugged /\ ~disturbed[t] =>
        /\ pc[t] = "readNow" => Readable > 0
        /\ pc[t] = "writeNow" => Room > 0

(***************************************************************************)
(* While no two calls that open, close or set ran at the same time, no     *)
(* reconfiguration failed and the device is there, the process holds the   *)
(* descriptor in fd_ and no other when the port is open, and none when it  *)
(* is closed.                                                              *)
(***************************************************************************)
Settled == phase = "alive" /\ ~overlap /\ plugged /\ \A t \in Thread : ~Configuring(t)

OneDescriptor ==
    Settled /\ refused = "never" =>
        /\ is_open_ <=> fd_ # NoFd
        /\ descriptors = IF is_open_ THEN {fd_} ELSE {}

(***************************************************************************)
(* An open port works with the settings that were last stored, unless the  *)
(* last attempt to apply them failed or setters ran at the same time.      *)
(***************************************************************************)
SettingsApplied == Settled /\ is_open_ /\ refused # "last" => applied = settings

(***************************************************************************)
(* A call waits for one that is at work, or for one that waits for one at  *)
(* work: no ring of calls, however long, waits for each other's locks.     *)
(* flush and setPort, which take both, take them in the same order, and    *)
(* the other calls take one.                                               *)
(***************************************************************************)
WaitsFor(t, u) == pc[t] = "lock" /\ lock[Locks(op[t])[Held(t) + 1]] = u

NoDeadlock ==
    \A t, u, v \in Thread : WaitsFor(t, u) /\ WaitsFor(u, v) => pc[v] \notin {"idle", "lock"}
==============================================================================
