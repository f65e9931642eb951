-------------------------------- MODULE Drone --------------------------------
(***************************************************************************)
(* DJIDrone: the commands of the application over LinkLayer::send, one at  *)
(* a time.  A command gives the link layer two callbacks that write to the *)
(* locals of send_cmd_data and of its caller and signal semForAck, and     *)
(* waits for the signal; what the semaphore does is in module              *)
(* CountingSemaphore, which module Semaphore implements.                   *)
(*                                                                         *)
(* When and whether an acknowledgement comes is module LinkLayer's matter: *)
(* each accepted request gets one callback, a refused one none.            *)
(***************************************************************************)
EXTENDS Integers

CONSTANTS
    SemCount,     \* the count semForAck starts with: 1 in Semaphore.h
    Codes,        \* the values a device answers with
    MaxSeq,       \* 255
    MaxCommands   \* bound: commands sent

Ops    == {"activate", "obtain", "release", "takeOff", "land"}
Flight == {"takeOff", "land"}

\* Acknowledgements: a code, or one that has not two bytes.  A local that
\* nobody wrote reads as any of them.
Bad   == -1
Unset == -2
Fail  == -3   \* the FailCallback ran
None  == -4   \* no callback ran
Acks  == Codes \cup {Bad}

VARIABLES
    m_initialized, m_cmdSeqCnt,
    pc, op,       \* where the application stands in which call
    cmd,          \* the command it is at
    sent,         \* commands sent so far; the last one's locals are the live ones
    res, ack,     \* res of send_cmd_data; ackData with ackLength
    permits,      \* of semForAck
    owed          \* commands whose callback is still to come

\* History: what the last command's callback said, the last report of a call
\* with what its last command was answered, and whether a command has gone on
\* before its callback ran.
VARIABLES answer, report, early

link  == <<sent, owed, answer>>
frame == <<res, ack, permits>>
dvars == <<m_initialized, m_cmdSeqCnt, pc, op, cmd, link, frame, report, early>>

Init ==
    /\ m_initialized = FALSE /\ m_cmdSeqCnt = MaxSeq
    /\ pc = "idle" /\ op = "activate" /\ cmd = "activation"
    /\ sent = 0 /\ owed = {}
    /\ res = 0 /\ ack = Unset /\ permits = SemCount
    /\ answer = None
    /\ report = [op |-> "activate", value |-> -1, answer |-> None]
    /\ early = FALSE

Initialize ==
    /\ ~m_initialized
    /\ m_initialized' = TRUE
    /\ UNCHANGED <<m_cmdSeqCnt, pc, op, cmd, link, frame, report, early>>

NextCmdSeq == m_cmdSeqCnt' = IF m_cmdSeqCnt = MaxSeq THEN 0 ELSE m_cmdSeqCnt + 1

\* The call asserts m_initialized and prepares its first command.
Begin(o, c) ==
    /\ pc = "idle" /\ m_initialized
    /\ pc' = "send" /\ op' = o /\ cmd' = c
    /\ UNCHANGED <<m_initialized, link, frame, report, early>>

Activate == Begin("activate", "activation") /\ UNCHANGED m_cmdSeqCnt

ChangeControlAuthorization(o) ==
    /\ o \in {"obtain", "release"}
    /\ Begin(o, "control") /\ UNCHANGED m_cmdSeqCnt

ChangeFlightMode(o) == o \in Flight /\ Begin(o, "start") /\ NextCmdSeq

\* send_cmd_data up to the wait.  That the link layer may refuse is ignored.
SendCmdData ==
    /\ pc = "send" /\ sent < MaxCommands
    /\ pc' = "wait"
    /\ sent' = sent + 1
    /\ owed' \in {owed, owed \cup {sent + 1}}
    /\ res' = 0 /\ ack' = Unset /\ permits' = SemCount /\ answer' = None
    /\ UNCHANGED <<m_initialized, m_cmdSeqCnt, op, cmd, report, early>>

\* What the callback writes to the live locals: r to res, a to ackData.
Write(r, a) == res' = r /\ ack' = a /\ permits' = permits + 1 /\ UNCHANGED pc

\* A callback whose locals are gone writes over whatever is there now:
\* nothing of use, the same places of a later command, or something fatal.
WriteStale(r, a) ==
    \/ UNCHANGED <<frame, pc>>
    \/ pc \in {"wait", "handle"} /\ Write(r, a)
    \/ pc' = "crashed" /\ UNCHANGED frame

CallBack(id, said, r, a) ==
    /\ pc # "crashed" /\ id \in owed
    /\ owed' = owed \ {id}
    /\ answer' = IF id = sent THEN said ELSE answer
    /\ IF id = sent /\ pc = "wait" THEN Write(r, a) ELSE WriteStale(r, a)
    /\ UNCHANGED <<m_initialized, m_cmdSeqCnt, op, cmd, sent, report, early>>

AckCallback(id)  == \E a \in Acks : CallBack(id, a, 0, a)
FailCallback(id) == CallBack(id, Fail, -1, ack)

\* semForAck.wait() lets the caller go on.
WaitForAck ==
    /\ pc = "wait" /\ permits > 0
    /\ permits' = permits - 1
    /\ pc' = "handle"
    /\ early' = (early \/ answer = None)
    /\ UNCHANGED <<m_initialized, m_cmdSeqCnt, op, cmd, link, res, ack, report>>

-----------------------------------------------------------------------------
\* What the caller of send_cmd_data sees in its buffer.
Seen == IF ack = Unset THEN Acks ELSE {ack}

Report(v) ==
    /\ report' = [op |-> op, value |-> v, answer |-> answer]
    /\ pc' = "idle"
    /\ UNCHANGED cmd

Again(c) == cmd' = c /\ pc' = "send" /\ UNCHANGED report

HandleFailure == res # 0 /\ Report(-1)

\* A new device is activated again, as often as it says it is new.
HandleActivationAck(a) ==
    /\ cmd = "activation" /\ res = 0
    /\ IF a = 3 THEN Again("activation") ELSE Report(IF a = Bad THEN -1 ELSE a)

HandleControlAuthorizationAck(a) ==
    /\ cmd = "control" /\ res = 0
    /\ Report(IF a \in {1, 2} THEN 0 ELSE -1)

\* CMD_RECIEVE starts the polling.  err[ackNum + 1] leaves the array for the
\* two codes at the top of the range.
HandleFlightModeAck(a) ==
    /\ cmd = "start" /\ res = 0
    /\ \/ a = 2 /\ Again("status")
       \/ a # 2 /\ Report(-1)
       \/ a \in {65280, 65535} /\ pc' = "crashed" /\ UNCHANGED <<cmd, report>>

\* The polling loop has no bound: SWITCHING_IN_PROGRESS asks again.
HandleStatus(a) ==
    /\ cmd = "status" /\ res = 0
    /\ IF a = 3 THEN Again("status") ELSE Report(IF a = 5 THEN 0 ELSE -1)

Handle ==
    /\ pc = "handle"
    /\ \/ HandleFailure
       \/ \E a \in Seen : \/ HandleActivationAck(a) \/ HandleControlAuthorizationAck(a)
                          \/ HandleFlightModeAck(a) \/ HandleStatus(a)
    /\ UNCHANGED <<m_initialized, m_cmdSeqCnt, op, link, frame, early>>

Next ==
    \/ Initialize
    \/ Activate \/ \E o \in Ops : ChangeControlAuthorization(o) \/ ChangeFlightMode(o)
    \/ SendCmdData \/ WaitForAck \/ Handle
    \/ \E id \in owed : AckCallback(id) \/ FailCallback(id)

DroneSpec == Init /\ [][Next]_dvars

-----------------------------------------------------------------------------
(***************************************************************************)
(* A call reports success ("Activation Successfully. ", "obtain control    *)
(* successfully", 0 of take_off) only when the device acknowledged its     *)
(* last command with a code that says so.                                  *)
(***************************************************************************)
SuccessCodes(o) ==
    CASE o = "activate"             -> {0}
      [] o \in {"obtain", "release"} -> {1, 2}
      [] o \in Flight                -> {5}

SuccessIsAnswered == report.value = 0 => report.answer \in SuccessCodes(report.op)

(***************************************************************************)
(* Nothing but a wait that the initial permit let through, that of this or *)
(* an earlier command, makes a call report a success it was not told: not  *)
(* the codes, the polling, a refusal or a callback of an earlier command.  *)
(***************************************************************************)
AnsweredUnlessEarly == ~early => SuccessIsAnswered

(***************************************************************************)
(* A command does not wait for ever, not even one that the link layer      *)
(* refused and that no callback will come for.                             *)
(***************************************************************************)
NeverBlocked == pc = "wait" => permits > 0
==============================================================================
