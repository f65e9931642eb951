----------------------------- MODULE SerialUnix -----------------------------
(***************************************************************************)
(* unix.cc: what the calls of module SerialPort do on a POSIX system.      *)
(*                                                                         *)
(* A wait that is interrupted (EINTR), and one that ends because only the  *)
(* inter-byte timeout ran out, loop: they change nothing and are not       *)
(* steps.  So a read never ends on the inter-byte timeout.                 *)
(*                                                                         *)
(* OpenTwice, StoreOnly and ReadFull are wrong variants of the definition  *)
(* after each.                                                             *)
(***************************************************************************)
EXTENDS SerialPort

InUnix(t, l) == platform = "unix" /\ phase \notin {"gone", "aborted"} /\ pc[t] = l
InUnixCall(t, ops) == InUnix(t, "body") /\ op[t] \in ops

-----------------------------------------------------------------------------
OpenTwice(t) ==
    /\ InUnix(t, "openFd")
    /\ IF port_ = "" THEN Return(t, "invalid") /\ UNCHANGED <<fd_, descriptors, disturbed>>
       ELSE IF port_ = "device" /\ plugged /\ descriptors # Fds
       THEN /\ fd_' = FreeFd
            /\ descriptors' = descriptors \cup {FreeFd}
            /\ Goto(t, "configure") /\ UNCHANGED disturbed
       ELSE fd_' = NoFd /\ Return(t, "ioError") /\ Disturb(t) /\ UNCHANGED descriptors
    /\ UNCHANGED <<port_, is_open_, settings, input, output, applied, outside, calls,
                   overlap, refused>>

\* A failing ::open sets fd_ to -1 as well.
UnixOpen(t) ==
    /\ InUnix(t, "openFd")
    /\ IF port_ = "" THEN Return(t, "invalid") /\ UNCHANGED <<fd_, descriptors, disturbed>>
       ELSE IF is_open_ THEN Return(t, "alreadyOpen") /\ UNCHANGED <<fd_, descriptors, disturbed>>
       ELSE IF port_ = "device" /\ plugged /\ descriptors # Fds
       THEN /\ fd_' = FreeFd
            /\ descriptors' = descriptors \cup {FreeFd}
            /\ Goto(t, "configure") /\ UNCHANGED disturbed
       ELSE fd_' = NoFd /\ Return(t, "ioError") /\ Disturb(t) /\ UNCHANGED descriptors
    /\ UNCHANGED <<port_, is_open_, settings, input, output, applied, outside, calls,
                   overlap, refused>>

\* The settings reconfigurePort refuses before it touches the device, and the
\* rates it has to ask the driver for.
UnixRefuses(s) == s.frame = "undefined"
UnixAsks(s)    == s.rate = "custom"

\* reconfigurePort up to tcsetattr.  A throw inside open leaves fd_ open; the
\* driver has a rate of its own (TIOCSSERIAL) before the rest is looked at.
UnixConfigure(t) ==
    /\ InUnix(t, "configure")
    /\ \/ /\ ~Usable \/ UnixAsks(settings)
          /\ Return(t, "ioError") /\ Refused
       \/ /\ Usable /\ UnixRefuses(settings)
          /\ Return(t, "invalid") /\ Refused
       \/ /\ Usable /\ ~UnixRefuses(settings)
          /\ Go(t, "apply") /\ ReadSettings(t) /\ UNCHANGED refused
    /\ IF Usable /\ UnixAsks(settings)
       THEN applied' \in {applied, [applied EXCEPT !.rate = "custom"]}
       ELSE UNCHANGED applied
    /\ UNCHANGED <<fields, descriptors, input, output, outside, disturbed, calls, overlap>>

\* tcsetattr, whose failure goes unnoticed, and is_open_ = true in open.
UnixApply(t) ==
    /\ InUnix(t, "apply")
    /\ applied' = IF Usable THEN snap[t] ELSE applied
    /\ is_open_' = (is_open_ \/ op[t] # "set")
    /\ Applied
    /\ Return(t, "ok")
    /\ UNCHANGED <<port_, fd_, settings, descriptors, input, output,
                   outside, disturbed, calls, overlap>>

\* ::close.  With the device gone it may report an error after releasing the
\* descriptor; close then throws and leaves fd_ and is_open_ as they were.
UnixClose(t) ==
    /\ InUnix(t, "closeFd")
    /\ \/ /\ ~is_open_ /\ Closed(t)
          /\ UNCHANGED <<descriptors, input, output, disturbed>>
       \/ /\ is_open_ /\ fd_ = NoFd /\ Goto(t, "clearOpen")
          /\ UNCHANGED <<port_, descriptors, input, output, disturbed>>
       \/ /\ is_open_ /\ fd_ \in descriptors /\ Drop(t, fd_)
          /\ Goto(t, "clearFd") \/ (~plugged /\ Return(t, "ioError"))
          /\ UNCHANGED port_
       \/ /\ is_open_ /\ fd_ \notin descriptors \cup {NoFd} /\ Return(t, "ioError")
          /\ UNCHANGED <<port_, descriptors, input, output, disturbed>>
    /\ UNCHANGED <<fd_, is_open_, settings, applied, outside, calls,
                   overlap, refused>>

UnixClearFd(t) ==
    /\ InUnix(t, "clearFd")
    /\ fd_' = NoFd
    /\ Goto(t, "clearOpen")
    /\ Disturb(t)
    /\ UNCHANGED <<port_, is_open_, settings, kernel, outside, calls, overlap, refused>>

UnixClearOpen(t) ==
    /\ InUnix(t, "clearOpen")
    /\ is_open_' = FALSE
    /\ Closed(t)
    /\ UNCHANGED <<fd_, settings, kernel, outside, history>>

StoreOnly(t) ==
    /\ InUnixCall(t, {"set"})
    /\ settings' \in Changed
    /\ Return(t, "ok")
    /\ UNCHANGED <<port_, fd_, is_open_, kernel, outside, history>>

\* The setters store first, then reconfigure an open port; setTimeout (a
\* "query" here) only stores.
UnixSet(t) ==
    /\ InUnixCall(t, {"set"})
    /\ settings' \in Changed
    /\ IF is_open_ THEN Goto(t, "configure") ELSE Return(t, "ok")
    /\ UNCHANGED <<port_, fd_, is_open_, kernel, outside, history>>

-----------------------------------------------------------------------------
\* read: the check, and the first ::read, whose failure is ignored.
UnixRead(t) ==
    /\ InUnixCall(t, Reads)
    /\ IF is_open_
       THEN /\ TakeBytes(t, Wanted(t) - Len(got[t]))
            /\ count' = [count EXCEPT ![t] = Wanted(t)]
            /\ expired' = [expired EXCEPT ![t] = FALSE]
            /\ Go(t, "readLoop") /\ UNCHANGED <<op, snap>>
       ELSE Return(t, "notOpen") /\ UNCHANGED input
    /\ UNCHANGED <<fields, descriptors, output, applied, outside, history>>

\* The loop until everything came or the time is up, and waitReadable.  An
\* unplugged device is always readable.  FD_SET with fd_ = -1 is undefined:
\* it ends the process, or the wait lasts until the timeout.
UnixReadLoop(t) ==
    /\ InUnix(t, "readLoop") /\ Len(got[t]) < count[t] /\ ~expired[t]
    /\ \/ fd_ = NoFd /\ Abort
       \/ fd_ \notin descriptors \cup {NoFd} /\ Return(t, "ioError")
       \/ fd_ \in descriptors /\ (Readable > 0 \/ ~plugged) /\ Goto(t, "readNow")
    /\ UNCHANGED <<fields, kernel, outside, history>>

UnixReadEnd(t) ==
    /\ InUnix(t, "readLoop") /\ (Len(got[t]) = count[t] \/ expired[t])
    /\ EndRead(t)

ReadFull(t) ==
    /\ InUnix(t, "readNow")
    /\ \/ /\ Readable > 0 /\ TakeBytes(t, count[t])
          /\ Go(t, "readLoop") /\ UNCHANGED <<op, count, expired, snap>>
       \/ /\ Readable = 0 /\ Return(t, "disconnected") /\ UNCHANGED input
       \/ /\ fd_ \notin descriptors /\ count[t] > 1 /\ Return(t, "ioError")
          /\ UNCHANGED input
    /\ UNCHANGED <<fields, descriptors, output, applied, outside, history>>

\* The read after the wait.  available() in a read of several bytes fails on
\* a bad descriptor before it.
UnixReadNow(t) ==
    /\ InUnix(t, "readNow")
    /\ \/ /\ Readable > 0 /\ TakeBytes(t, count[t] - Len(got[t]))
          /\ Go(t, "readLoop") /\ UNCHANGED <<op, count, expired, snap>>
       \/ /\ Readable = 0 /\ Return(t, "disconnected") /\ UNCHANGED input
       \/ /\ fd_ \notin descriptors /\ count[t] > 1 /\ Return(t, "ioError")
          /\ UNCHANGED input
    /\ UNCHANGED <<fields, descriptors, output, applied, outside, history>>

UnixWrite(t) ==
    /\ InUnixCall(t, {"write"})
    /\ IF is_open_ THEN Goto(t, "writeLoop") ELSE Return(t, "notOpen")
    /\ UNCHANGED <<fields, kernel, outside, history>>

\* The loop of write up to pselect; at the timeout it returns what was
\* written so far.
UnixWriteLoop(t) ==
    /\ InUnix(t, "writeLoop")
    /\ IF count[t] = Size \/ expired[t] THEN Return(t, "ok")
       ELSE \/ fd_ = NoFd /\ Abort
            \/ fd_ \notin descriptors \cup {NoFd} /\ Return(t, "ioError")
            \/ fd_ \in descriptors /\ (Room > 0 \/ ~plugged) /\ Goto(t, "writeNow")
    /\ UNCHANGED <<fields, kernel, outside, history>>

UnixWriteNow(t) ==
    /\ InUnix(t, "writeNow")
    /\ IF Room > 0 THEN PutBytes(t, Size - count[t]) /\ Go(t, "writeLoop")
                   ELSE Return(t, "disconnected") /\ UNCHANGED output
    /\ UNCHANGED <<fields, descriptors, input, applied, outside, history>>

-----------------------------------------------------------------------------
\* flush: tcdrain waits for the output, and only for it.
UnixFlush(t) ==
    /\ InUnixCall(t, {"flush"})
    /\ IF is_open_ THEN Goto(t, "draining") ELSE Return(t, "notOpen")
    /\ UNCHANGED <<fields, kernel, outside, history>>

UnixDrained(t) ==
    /\ InUnix(t, "draining")
    /\ pending = 0 \/ ~Usable
    /\ Return(t, "ok")
    /\ UNCHANGED <<fields, kernel, outside, history>>

UnixFlushInput(t) ==
    /\ InUnixCall(t, {"flushInput"})
    /\ Return(t, IF is_open_ THEN "ok" ELSE "notOpen")
    /\ taken' = IF is_open_ /\ Usable THEN arrived ELSE taken
    /\ UNCHANGED <<fields, descriptors, arrived, output, applied, outside, history>>

UnixFlushOutput(t) ==
    /\ InUnixCall(t, {"flushOutput"})
    /\ Return(t, IF is_open_ THEN "ok" ELSE "notOpen")
    /\ pending' = IF is_open_ /\ Usable THEN 0 ELSE pending
    /\ UNCHANGED <<fields, descriptors, input, accepted, applied, outside, history>>

\* tcsendbreak; its result is not looked at.
UnixSendBreak(t) ==
    /\ InUnixCall(t, {"query"})
    /\ Return(t, IF is_open_ THEN "ok" ELSE "notOpen")
    /\ UNCHANGED <<fields, kernel, outside, history>>

\* setBreak, setRTS and setDTR.
UnixSetLine(t) ==
    /\ InUnixCall(t, {"query"})
    /\ Return(t, IF ~is_open_ THEN "notOpen" ELSE IF Usable THEN "ok" ELSE "ioError")
    /\ UNCHANGED <<fields, descriptors, input, output, applied, outside, history>>

\* TIOCMIWAIT: returns when a modem line changes, if one ever does; the port
\* need not be open for the call to be made.
UnixWaitForChange(t) ==
    /\ InUnixCall(t, {"waitForChange"})
    /\ Return(t, IF Usable THEN "ok" ELSE "ioError")
    /\ UNCHANGED <<fields, kernel, outside, history>>

\* getCTS, getDSR, getRI and getCD.
UnixGetLine(t) ==
    /\ InUnixCall(t, {"query"})
    /\ Return(t, IF ~is_open_ THEN "notOpen" ELSE IF Usable THEN "ok" ELSE "ioError")
    /\ UNCHANGED <<fields, kernel, outside, history>>

UnixAvailable(t) ==
    /\ InUnixCall(t, {"query"})
    /\ Return(t, IF ~is_open_ \/ Usable THEN "ok" ELSE "ioError")
    /\ UNCHANGED <<fields, kernel, outside, history>>

UnixWaitReadable(t) ==
    /\ InUnixCall(t, {"query"})
    /\ \/ fd_ \in descriptors \cup {NoFd} /\ Return(t, "ok")
       \/ fd_ = NoFd /\ Abort
       \/ fd_ \notin descriptors \cup {NoFd} /\ Return(t, "ioError")
    /\ UNCHANGED <<fields, kernel, outside, history>>

UnixStep(t) ==
    \/ UnixOpen(t) \/ UnixConfigure(t) \/ UnixApply(t)
    \/ UnixClose(t) \/ UnixClearFd(t) \/ UnixClearOpen(t) \/ UnixSet(t)
    \/ UnixRead(t) \/ UnixReadLoop(t) \/ UnixReadEnd(t) \/ UnixReadNow(t)
    \/ UnixWrite(t) \/ UnixWriteLoop(t) \/ UnixWriteNow(t)
    \/ UnixFlush(t) \/ UnixDrained(t) \/ UnixFlushInput(t) \/ UnixFlushOutput(t)
    \/ UnixSendBreak(t) \/ UnixSetLine(t) \/ UnixGetLine(t)
    \/ UnixAvailable(t) \/ UnixWaitReadable(t)
==============================================================================
