----------------------------- MODULE DroneProofs -----------------------------
(***************************************************************************)
(* The commands of the application for every count of the semaphore,       *)
(* whatever the device answers, the link layer refuses and however many    *)
(* commands are sent.  A report of success rests on an acknowledgement     *)
(* unless a command went on before its callback ran; with an initial       *)
(* permit, as the code has one, this happens, and no command blocks.       *)
(***************************************************************************)
EXTENDS Drone, TLAPS

\* res and ackData say what the last command was answered.
Told ==
    \/ answer = Fail /\ res = -1
    \/ answer \in Acks /\ res = 0 /\ ack = answer

\* Which command belongs to which call.
RightCommand ==
    /\ op \in Ops
    /\ op = "activate" => cmd = "activation"
    /\ op \in {"obtain", "release"} => cmd = "control"
    /\ op \in Flight => cmd \in {"start", "status"}

\* As long as no command went on early: a caller that waits has been told or
\* nothing was said; one that went on was told, and nothing is owed.
Waiting ==
    /\ owed \subseteq {sent}
    /\ pc # "wait" => owed = {}
    /\ pc = "wait" => \/ answer = None
                      \/ owed = {} /\ Told
    /\ pc = "handle" => Told

DroneInv ==
    /\ sent \in Nat
    /\ RightCommand
    /\ ~early => Waiting /\ SuccessIsAnswered

-----------------------------------------------------------------------------
LEMMA InitInv == Init => DroneInv
  BY DEF Init, DroneInv, RightCommand, Waiting, SuccessIsAnswered, Ops, Flight

LEMMA BeginInv ==
    ASSUME DroneInv, NEW o, NEW c, Begin(o, c),
           \/ o = "activate" /\ c = "activation"
           \/ o \in {"obtain", "release"} /\ c = "control"
           \/ o \in Flight /\ c = "start"
    PROVE  DroneInv'
  <1>1. RightCommand'
    BY DEF Begin, RightCommand, Ops, Flight
  <1>2. early' = early /\ sent' \in Nat
    BY DEF Begin, DroneInv, link
  <1>3. ~early => Waiting'
    BY DEF Begin, DroneInv, Waiting, link, frame
  <1>4. ~early => SuccessIsAnswered'
    BY DEF Begin, DroneInv, SuccessIsAnswered
  <1> QED
    BY <1>1, <1>2, <1>3, <1>4 DEF DroneInv

LEMMA SendInv ==
    ASSUME DroneInv, SendCmdData
    PROVE  DroneInv'
  <1>1. early' = early /\ sent' \in Nat /\ RightCommand'
    BY DEF SendCmdData, DroneInv, RightCommand
  <1>2. ~early => Waiting'
    <2>1. ~early => owed = {}
      BY DEF SendCmdData, DroneInv, Waiting
    <2> QED
      BY <2>1 DEF SendCmdData, Waiting
  <1>3. ~early => SuccessIsAnswered'
    BY DEF SendCmdData, DroneInv, SuccessIsAnswered
  <1> QED
    BY <1>1, <1>2, <1>3 DEF DroneInv

\* The callback finds its caller waiting, so that it writes to live locals.
LEMMA CallBackInv ==
    ASSUME DroneInv, NEW id \in owed, AckCallback(id) \/ FailCallback(id)
    PROVE  DroneInv'
  <1>1. UNCHANGED <<op, cmd, sent, report, early>>
    BY DEF AckCallback, FailCallback, CallBack
  <1>2. ASSUME ~early
        PROVE  Waiting' /\ SuccessIsAnswered'
    <2>1. id = sent /\ owed = {sent} /\ pc = "wait"
      BY <1>2 DEF DroneInv, Waiting
    <2>2. owed' = {} /\ pc' = "wait" /\ Told'
      <3>1. ASSUME NEW a \in Acks, CallBack(id, a, 0, a)
            PROVE  <2>2!:
        BY <2>1, <3>1 DEF CallBack, Write, Told
      <3>2. ASSUME CallBack(id, Fail, -1, ack)
            PROVE  <2>2!:
        BY <2>1, <3>2 DEF CallBack, Write, Told
      <3> QED
        BY <3>1, <3>2 DEF AckCallback, FailCallback
    <2>3. Waiting'
      BY <2>2 DEF Waiting
    <2>4. SuccessIsAnswered'
      BY <1>1, <1>2 DEF DroneInv, SuccessIsAnswered
    <2> QED
      BY <2>3, <2>4
  <1>3. RightCommand' /\ sent' \in Nat
    BY <1>1 DEF DroneInv, RightCommand
  <1> QED
    BY <1>1, <1>2, <1>3 DEF DroneInv

\* A wait that ends before anything was said is early; any other one was told.
LEMMA WaitInv ==
    ASSUME DroneInv, WaitForAck
    PROVE  DroneInv'
  <1>1. ~early' => ~early /\ answer # None
    <2>1. early' = (early \/ answer = None)
      BY DEF WaitForAck
    <2> QED
      BY <2>1, Zenon
  <1>2. ASSUME ~early'
        PROVE  Waiting' /\ SuccessIsAnswered'
    <2>1. owed = {} /\ Told
      BY <1>1, <1>2 DEF DroneInv, Waiting, WaitForAck
    <2>2. owed' = {} /\ Told' /\ pc' = "handle"
      BY <2>1 DEF WaitForAck, link, Told
    <2>3. SuccessIsAnswered'
      BY <1>1, <1>2 DEF DroneInv, WaitForAck, link, SuccessIsAnswered
    <2> QED
      BY <2>2, <2>3 DEF Waiting
  <1>3. RightCommand' /\ sent' \in Nat
    BY DEF DroneInv, WaitForAck, link, RightCommand
  <1> QED
    BY <1>2, <1>3 DEF DroneInv

\* What a report of success needs, and what the other outcomes leave alone.
LEMMA HandleTold ==
    ASSUME Codes \subseteq Nat, DroneInv, Handle, ~early
    PROVE  Waiting' /\ SuccessIsAnswered'
  <1>1. Told /\ owed = {} /\ RightCommand /\ SuccessIsAnswered
    BY DEF Handle, DroneInv, Waiting
  <1>2. \/ HandleFailure
        \/ \E a \in Seen : \/ HandleActivationAck(a) \/ HandleControlAuthorizationAck(a)
                           \/ HandleFlightModeAck(a) \/ HandleStatus(a)
    BY DEF Handle
  <1>3. pc' \in {"idle", "send", "crashed"} /\ owed' = {} /\ sent' = sent /\ op' = op
    BY <1>1, <1>2
       DEF Handle, HandleFailure, HandleActivationAck, HandleControlAuthorizationAck,
           HandleFlightModeAck, HandleStatus, Report, Again, link
  <1>4. res = 0 => ack = answer /\ Seen = {answer}
    BY <1>1 DEF Told, Seen, Unset, Acks, Bad
  <1>5. SuccessIsAnswered'
    <2>1. CASE HandleFailure
      BY <2>1 DEF HandleFailure, Report, SuccessIsAnswered
    <2>2. ASSUME res = 0, HandleActivationAck(answer)
          PROVE  SuccessIsAnswered'
      <3>1. op = "activate" /\ SuccessCodes(op) = {0}
        BY <1>1, <2>2 DEF HandleActivationAck, RightCommand, Ops, Flight,
                               SuccessCodes
      <3> QED
        BY <1>1, <2>2, <3>1 DEF HandleActivationAck, Report, Again, Bad,
                          SuccessIsAnswered
    <2>3. ASSUME res = 0, HandleControlAuthorizationAck(answer)
          PROVE  SuccessIsAnswered'
      <3>1. SuccessCodes(op) = {1, 2}
        BY <1>1, <2>3 DEF HandleControlAuthorizationAck, RightCommand, Ops, Flight,
                               SuccessCodes
      <3> QED
        BY <2>3, <3>1 DEF HandleControlAuthorizationAck, Report, SuccessIsAnswered
    <2>4. ASSUME HandleFlightModeAck(answer)
          PROVE  SuccessIsAnswered'
      BY <1>1, <2>4 DEF HandleFlightModeAck, Report, Again, SuccessIsAnswered
    <2>5. ASSUME res = 0, HandleStatus(answer)
          PROVE  SuccessIsAnswered'
      <3>1. SuccessCodes(op) = {5}
        BY <1>1, <2>5 DEF HandleStatus, RightCommand, Ops, Flight, SuccessCodes
      <3> QED
        BY <1>1, <2>5, <3>1 DEF HandleStatus, Report, Again, SuccessIsAnswered
    <2>6. HandleFailure \/ res = 0
      BY <1>2 DEF HandleActivationAck, HandleControlAuthorizationAck,
                  HandleFlightModeAck, HandleStatus
    <2> QED
      BY <1>2, <1>4, <2>1, <2>2, <2>3, <2>4, <2>5, <2>6
  <1>6. Waiting'
    BY <1>3 DEF Waiting
  <1> QED
    BY <1>5, <1>6

LEMMA HandleInv ==
    ASSUME Codes \subseteq Nat, DroneInv, Handle
    PROVE  DroneInv'
  <1>1. RightCommand /\ early' = early /\ sent' \in Nat /\ op' = op
    BY DEF Handle, DroneInv, link
  <1>2. RightCommand'
    BY <1>1
       DEF Handle, HandleFailure, HandleActivationAck, HandleControlAuthorizationAck,
           HandleFlightModeAck, HandleStatus, Report, Again, RightCommand, Ops, Flight
  <1> QED
    BY <1>1, <1>2, HandleTold DEF DroneInv

LEMMA StepInv ==
    ASSUME Codes \subseteq Nat, DroneInv, [Next]_dvars
    PROVE  DroneInv'
  <1>1. ASSUME UNCHANGED <<pc, op, cmd, link, frame, report, early>>
        PROVE  DroneInv'
    <2>1. RightCommand' /\ sent' \in Nat /\ early' = early
      BY <1>1 DEF DroneInv, RightCommand, link
    <2>2. ~early => Waiting' /\ SuccessIsAnswered'
      BY <1>1 DEF DroneInv, Waiting, Told, SuccessIsAnswered, link, frame
    <2> QED
      BY <2>1, <2>2 DEF DroneInv
  <1>2. CASE Activate
    BY <1>2, BeginInv DEF Activate
  <1>3. ASSUME NEW o \in Ops, ChangeControlAuthorization(o) \/ ChangeFlightMode(o)
        PROVE  DroneInv'
    BY <1>3, BeginInv DEF ChangeControlAuthorization, ChangeFlightMode
  <1>4. CASE Initialize \/ UNCHANGED dvars
    BY <1>1, <1>4 DEF Initialize, dvars
  <1> QED
    BY <1>2, <1>3, <1>4, SendInv, WaitInv, HandleInv, CallBackInv DEF Next

\* "Activation Successfully. ", "obtain control successfully" and the 0 of
\* take_off and land are reported only when the device said so, unless a command
\* before went on without its callback: for every count of the semaphore.
THEOREM AnsweredUnlessEarlyHolds ==
    ASSUME Codes \subseteq Nat
    PROVE  DroneSpec => []AnsweredUnlessEarly
  <1>1. Init => DroneInv
    BY InitInv
  <1>2. DroneInv /\ [Next]_dvars => DroneInv'
    BY StepInv
  <1>3. DroneInv => AnsweredUnlessEarly
    BY DEF DroneInv, AnsweredUnlessEarly
  <1> QED
    BY <1>1, <1>2, <1>3, PTL DEF DroneSpec

-----------------------------------------------------------------------------
\* Each command starts with the initial permits in the semaphore, and only its
\* own wait takes one.
Permits == permits \in Nat /\ NeverBlocked

LEMMA StepPermits ==
    ASSUME SemCount \in Nat \ {0}, Permits, [Next]_dvars
    PROVE  Permits'
  <1>1. ASSUME NEW o, NEW c, Begin(o, c)
        PROVE  Permits'
    BY <1>1 DEF Begin, Permits, NeverBlocked, frame
  <1>2. CASE Activate \/ \E o \in Ops : ChangeControlAuthorization(o) \/ ChangeFlightMode(o)
    BY <1>1, <1>2 DEF Activate, ChangeControlAuthorization, ChangeFlightMode
  <1>3. CASE SendCmdData
    BY <1>3 DEF SendCmdData, Permits, NeverBlocked
  <1>4. CASE WaitForAck
    BY <1>4 DEF WaitForAck, Permits, NeverBlocked
  <1>5. CASE Handle
    BY <1>5
       DEF Handle, HandleFailure, HandleActivationAck, HandleControlAuthorizationAck,
           HandleFlightModeAck, HandleStatus, Report, Again, frame, Permits, NeverBlocked
  <1>6. ASSUME NEW id \in owed, NEW said, NEW r, NEW a, CallBack(id, said, r, a)
        PROVE  Permits'
    BY <1>6 DEF CallBack, Write, WriteStale, frame, Permits, NeverBlocked
  <1>7. CASE Initialize \/ UNCHANGED dvars
    BY <1>7 DEF Initialize, dvars, frame, Permits, NeverBlocked
  <1> QED
    BY <1>2, <1>3, <1>4, <1>5, <1>6, <1>7 DEF Next, AckCallback, FailCallback

\* What an initial permit, the code's 1, is good for: no command waits for ever,
\* whatever is refused or lost and however late the callbacks come.
THEOREM NeverBlockedHolds ==
    ASSUME SemCount \in Nat \ {0}
    PROVE  DroneSpec => []NeverBlocked
  <1>1. Init => Permits
    BY DEF Init, Permits, NeverBlocked
  <1>2. Permits /\ [Next]_dvars => Permits'
    BY StepPermits
  <1>3. Permits => NeverBlocked
    BY DEF Permits
  <1> QED
    BY <1>1, <1>2, <1>3, PTL DEF DroneSpec
==============================================================================
