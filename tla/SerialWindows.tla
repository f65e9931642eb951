---------------------------- MODULE SerialWindows ----------------------------
(***************************************************************************)
(* win.cc: what the calls of module SerialPort do on Windows, where a port *)
(* can be open only once, a read or a write is one system call, and        *)
(* a refused SetCommState closes the handle but leaves it in fd_; a failed *)
(* SetCommTimeouts leaves it open.                                         *)
(***************************************************************************)
EXTENDS SerialPort

InWindows(t, l) == platform = "windows" /\ phase \notin {"gone", "aborted"} /\ pc[t] = l
InWinCall(t, ops) == InWindows(t, "body") /\ op[t] \in ops

\* CreateFileW without sharing.  A failure overwrites fd_ as well.
WinOpen(t) ==
    /\ InWindows(t, "openFd")
    /\ IF port_ = "" THEN Return(t, "invalid") /\ UNCHANGED <<fd_, descriptors, disturbed>>
       ELSE IF is_open_ THEN Return(t, "alreadyOpen") /\ UNCHANGED <<fd_, descriptors, disturbed>>
       ELSE IF port_ = "device" /\ plugged /\ descriptors = {}
       THEN \E d \in Fds : fd_' = d /\ descriptors' = {d} /\ Goto(t, "configure")
            /\ UNCHANGED disturbed
       ELSE fd_' = NoFd /\ Return(t, "ioError") /\ Disturb(t) /\ UNCHANGED descriptors
    /\ UNCHANGED <<port_, is_open_, settings, input, output, applied, outside, calls,
                   overlap, refused>>

\* reconfigurePort up to SetCommState.  Any rate is tried on the driver.
WinConfigure(t) ==
    /\ InWindows(t, "configure")
    /\ IF Usable /\ settings.frame # "undefined"
       THEN Go(t, "apply") /\ ReadSettings(t) /\ UNCHANGED refused
       ELSE Return(t, IF Usable THEN "invalid" ELSE "ioError") /\ Refused
    /\ UNCHANGED <<fields, kernel, outside, disturbed,
                   calls, overlap>>

\* SetCommState fails: the handle is closed, and fd_ and is_open_ stay.
WinRefused(t) ==
    /\ InWindows(t, "apply")
    /\ ~Usable \/ snap[t].rate = "custom"
    /\ Return(t, "ioError") /\ Refused
    /\ IF fd_ \in descriptors THEN Drop(t, fd_)
       ELSE UNCHANGED <<descriptors, input, output, disturbed>>
    /\ UNCHANGED <<fields, applied, outside, calls, overlap>>

\* SetCommState worked and SetCommTimeouts fails: the handle stays open in fd_,
\* also under an open or a constructor that now throws.
WinTimeoutsFail(t) ==
    /\ InWindows(t, "apply")
    /\ Usable
    /\ applied' = snap[t]
    /\ Return(t, "ioError") /\ Refused
    /\ UNCHANGED <<fields, descriptors, input, output, outside, disturbed, calls, overlap>>

\* SetCommState, SetCommTimeouts and is_open_ = true in open.  The constructor
\* of Serial goes on with setTimeout.
WinApply(t) ==
    /\ InWindows(t, "apply")
    /\ Usable
    /\ applied' = snap[t]
    /\ is_open_' = (is_open_ \/ op[t] # "set")
    /\ Applied
    /\ IF op[t] = "construct"
       THEN /\ op' = [op EXCEPT ![t] = "set"]
            /\ Go(t, "configure") /\ UNCHANGED <<got, count, expired, snap>>
       ELSE Return(t, "ok")
    /\ UNCHANGED <<port_, fd_, settings, descriptors, input,
                   output, outside, disturbed, calls, overlap>>

WinClose(t) ==
    /\ InWindows(t, "closeFd")
    /\ IF ~is_open_ THEN Closed(t) /\ UNCHANGED <<descriptors, input, output, disturbed>>
       ELSE /\ UNCHANGED port_
            /\ IF fd_ \in descriptors THEN Drop(t, fd_) /\ Goto(t, "clearFd")
               ELSE /\ IF fd_ = NoFd THEN Goto(t, "clearOpen") ELSE Return(t, "ioError")
                    /\ UNCHANGED <<descriptors, input, output, disturbed>>
    /\ UNCHANGED <<fd_, is_open_, settings, applied, outside, calls,
                   overlap, refused>>

WinClearFd(t) ==
    /\ InWindows(t, "clearFd")
    /\ fd_' = NoFd
    /\ Goto(t, "clearOpen")
    /\ Disturb(t)
    /\ UNCHANGED <<port_, is_open_, settings, kernel, outside, calls, overlap, refused>>

WinClearOpen(t) ==
    /\ InWindows(t, "clearOpen")
    /\ is_open_' = FALSE
    /\ Closed(t)
    /\ UNCHANGED <<fd_, settings, kernel, outside, history>>

\* Every setter, setTimeout too, stores and then reconfigures an open port.
WinSet(t) ==
    /\ InWinCall(t, {"set"})
    /\ settings' \in Changed
    /\ IF is_open_ THEN Goto(t, "configure") ELSE Return(t, "ok")
    /\ UNCHANGED <<port_, fd_, is_open_, kernel, outside, history>>

-----------------------------------------------------------------------------
\* ReadFile returns when all came, when the total timeout is over, or, with
\* something read, when the interval between two bytes was too long.
WinRead(t) ==
    /\ InWinCall(t, Reads)
    /\ IF is_open_
       THEN /\ count' = [count EXCEPT ![t] = Wanted(t)]
            /\ expired' = [expired EXCEPT ![t] = FALSE]
            /\ Go(t, "readNow") /\ UNCHANGED <<op, got, snap>>
       ELSE Return(t, "notOpen")
    /\ UNCHANGED <<fields, kernel, outside, history>>

WinReadFile(t) ==
    /\ InWindows(t, "readNow")
    /\ IF Usable
       THEN /\ Readable > 0 \/ expired[t]
            /\ TakeBytes(t, count[t] - Len(got[t]))
            /\ Go(t, "readLoop") /\ UNCHANGED <<op, count, expired, snap>>
       ELSE Return(t, "ioError") /\ UNCHANGED input
    /\ UNCHANGED <<fields, descriptors, output, applied, outside, history>>

WinReadEnd(t) == InWindows(t, "readLoop") /\ EndRead(t)

WinWrite(t) ==
    /\ InWinCall(t, {"write"})
    /\ IF is_open_ THEN Goto(t, "writeNow") ELSE Return(t, "notOpen")
    /\ UNCHANGED <<fields, kernel, outside, history>>

\* WriteFile feeds the output queue until all is in or the time is up.
WinWriteFile(t) ==
    /\ InWindows(t, "writeNow")
    /\ \/ /\ ~Usable /\ Return(t, "ioError")
          /\ UNCHANGED output
       \/ /\ Usable /\ (count[t] = Size \/ expired[t]) /\ Return(t, "ok")
          /\ UNCHANGED output
       \/ /\ Room > 0 /\ count[t] < Size
          /\ PutBytes(t, Size - count[t]) /\ Go(t, "writeNow")
    /\ UNCHANGED <<fields, descriptors, input, applied, outside, history>>

-----------------------------------------------------------------------------
WinFlush(t) ==
    /\ InWinCall(t, {"flush"})
    /\ IF is_open_ THEN Goto(t, "draining") ELSE Return(t, "notOpen")
    /\ UNCHANGED <<fields, kernel, outside, history>>

WinDrained(t) ==
    /\ InWindows(t, "draining")
    /\ pending = 0 \/ ~Usable
    /\ Return(t, "ok")
    /\ UNCHANGED <<fields, kernel, outside, history>>

WinUnsupported(t) ==
    /\ InWinCall(t, {"flushInput", "flushOutput", "query"})
    /\ Return(t, "unsupported")
    /\ UNCHANGED <<fields, kernel, outside, history>>

WinWaitReadable(t) ==
    /\ InWinCall(t, {"query"})
    /\ Return(t, "unsupported")
    /\ UNCHANGED <<fields, kernel, outside, history>>

\* setBreak, setRTS and setDTR: whether EscapeCommFunction worked is not asked.
WinSetLine(t) ==
    /\ InWinCall(t, {"query"})
    /\ Return(t, IF is_open_ THEN "ok" ELSE "notOpen")
    /\ UNCHANGED <<fields, descriptors, input, output, applied, outside, history>>

\* False (here "ioError") when the mask or the wait fails.
WinWaitForChange(t) ==
    /\ InWinCall(t, {"waitForChange"})
    /\ Return(t, IF ~is_open_ THEN "notOpen" ELSE IF Usable THEN "ok" ELSE "ioError")
    /\ UNCHANGED <<fields, kernel, outside, history>>

\* getCTS, getDSR, getRI and getCD.
WinGetLine(t) ==
    /\ InWinCall(t, {"query"})
    /\ Return(t, IF ~is_open_ THEN "notOpen" ELSE IF Usable THEN "ok" ELSE "ioError")
    /\ UNCHANGED <<fields, kernel, outside, history>>

WinAvailable(t) ==
    /\ InWinCall(t, {"query"})
    /\ Return(t, IF ~is_open_ \/ Usable THEN "ok" ELSE "ioError")
    /\ UNCHANGED <<fields, kernel, outside, history>>

WinStep(t) ==
    \/ WinOpen(t) \/ WinConfigure(t) \/ WinRefused(t) \/ WinTimeoutsFail(t) \/ WinApply(t)
    \/ WinClose(t) \/ WinClearFd(t) \/ WinClearOpen(t) \/ WinSet(t)
    \/ WinRead(t) \/ WinReadFile(t) \/ WinReadEnd(t) \/ WinWrite(t) \/ WinWriteFile(t)
    \/ WinFlush(t) \/ WinDrained(t) \/ WinUnsupported(t) \/ WinWaitReadable(t)
    \/ WinSetLine(t) \/ WinGetLine(t) \/ WinAvailable(t)
==============================================================================
