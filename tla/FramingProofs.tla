---------------------------- MODULE FramingProofs ----------------------------
(***************************************************************************)
(* For every size of header, checksum and block, every set of data         *)
(* lengths, every number of frames and every number of faults: what the    *)
(* receiver dispatches was sent, unharmed, in order and with its length;   *)
(* and while no frame wraps the length field, a faultless line is followed *)
(* byte by byte.                                                           *)
(***************************************************************************)
EXTENDS Framing, TLAPS

\* A remainder is smaller than its modulus.
LEMMA Remainder ==
    ASSUME NEW a \in Nat, NEW b \in Nat \ {0}
    PROVE  a % b \in 0..(b - 1)
  OBVIOUS

LEMMA ConstantTypes ==
    /\ HeaderSize \in Nat \ {0} /\ CrcSize \in Nat
    /\ BlockSize \in Nat \ {0} /\ LengthMod \in Nat \ {0}
    /\ MaxFrames \in Nat /\ MaxFaults \in Nat
  BY FramingAssumption

\* The sizes package_data_frame computes are those of a frame.
LEMMA Sizes ==
    ASSUME NEW n \in Lengths
    PROVE  /\ n \in Int
           /\ FrameSize(n) \in Nat \ {0}
           /\ FrameSize(n) >= HeaderSize
           /\ FrameSize(n) = HeaderSize => n = Bare
           /\ HeaderLength(n) \in Nat
           /\ ReceivedLength(n) \in Int
  <1>1. n \in Nat \/ n = -1
    BY FramingAssumption DEF Bare
  <1>2. n \in Nat => n % BlockSize \in 0..(BlockSize - 1)
    BY FramingAssumption, Remainder
  <1>3. /\ FrameSize(n) \in Nat \ {0}
        /\ FrameSize(n) >= HeaderSize
        /\ FrameSize(n) = HeaderSize => n = Bare
    BY <1>1, <1>2, FramingAssumption DEF FrameSize, Bare
  <1>4. HeaderLength(n) \in Nat
    <2>1. FrameSize(n) \in Nat
      BY <1>3
    <2>2. FrameSize(n) % LengthMod \in 0..(LengthMod - 1)
      BY <2>1, ConstantTypes, Remainder
    <2> QED
      BY <2>2, ConstantTypes DEF HeaderLength
  <1>5. ReceivedLength(n) \in Int
    BY <1>1, <1>2, <1>4, FramingAssumption DEF ReceivedLength, Padding
  <1> QED
    BY <1>1, <1>3, <1>4, <1>5

\* What the receiver computes from the header of a whole frame is the length
\* package_data_frame was given.
LEMMA RoundTrip ==
    ASSUME NEW n \in Lengths, n # 0, HeaderLength(n) = FrameSize(n)
    PROVE  ReceivedLength(n) = DataLength(n)
  <1>1. CASE n = Bare
    BY <1>1 DEF ReceivedLength, DataLength, FrameSize, Bare
  <1>2. CASE n # Bare
    <2>1. n \in Nat \ {0} /\ n # -1
      BY <1>2, FramingAssumption DEF Bare
    <2>2. n % BlockSize \in 0..(BlockSize - 1)
      BY <2>1, FramingAssumption, Remainder
    <2>3. FrameSize(n) = HeaderSize + CrcSize + n + (BlockSize - (n % BlockSize))
      BY <2>1 DEF FrameSize, Bare
    <2>4. HeaderLength(n) # HeaderSize
      BY <1>2, FramingAssumption
    <2> QED
      BY <2>1, <2>2, <2>3, <2>4, FramingAssumption
      DEF ReceivedLength, DataLength, Padding, Bare
  <1> QED
    BY <1>1, <1>2

\* A complete frame is a whole one, and ends where the line is.
LEMMA CompleteIsWhole ==
    ASSUME TypeOK, frame <= Len(sent), NEW good \in BOOLEAN, Complete(good)
    PROVE  /\ good /\ whole
           /\ Held = frame
           /\ offset = m_recvIndex
           /\ offset + 1 = FrameSize(sent[frame])
           /\ ReceivedLength(sent[frame]) = DataLength(sent[frame])
  <1>1. sent[frame] \in Lengths
    BY DEF TypeOK
  <1>2. /\ good /\ whole /\ Held = frame /\ offset = m_recvIndex
        /\ Index = HeaderLength(sent[frame])
    BY DEF Complete, RecvDataCorrect, InPlace, RecvLength
  <1>3. HeaderLength(sent[frame]) = FrameSize(sent[frame]) /\ sent[frame] # 0
    <2>1. CASE state = "body"
      BY <2>1, <1>1, <1>2, Sizes DEF Complete, RecvDataCorrect, HeaderComplete
    <2>2. CASE HeaderComplete
      <3>1. sent[frame] = Bare
        BY <2>2, <1>1, <1>2, FramingAssumption DEF HeaderComplete
      <3> QED
        BY <2>2, <3>1, <1>2 DEF HeaderComplete, FrameSize, Bare
    <2> QED
      BY <2>1, <2>2 DEF Complete
  <1> QED
    BY <1>1, <1>2, <1>3, RoundTrip DEF Index, TypeOK

-----------------------------------------------------------------------------
LEMMA InitInv == Init => FramingInv
  BY FramingAssumption, Sizes
  DEF Init, FramingInv, TypeOK, Line, Buffer, Dispatched, DeliveredAsSent,
      DamagedNeverDelivered

LEMMA ElementOf ==
    ASSUME NEW S, NEW s \in Seq(S), NEW i \in 1..Len(s)
    PROVE  s[i] \in S
  OBVIOUS

\* The frame in the buffer, or to be put in it, is not ahead of the line.
LEMMA HeldOnLine ==
    ASSUME FramingInv
    PROVE  /\ Held \in 1..frame
           /\ \A i \in 1..Len(delivered) :
                /\ delivered[i].frame \in 1..Len(sent)
                /\ delivered[i].frame < frame
                /\ delivered[i] \in [frame : Nat \ {0}, length : Int]
  <1>1. Held \in 1..frame
    BY DEF FramingInv, TypeOK, Buffer, Held
  <1>2. ASSUME NEW i \in 1..Len(delivered)
        PROVE  /\ delivered[i] \in [frame : Nat \ {0}, length : Int]
               /\ delivered[i].frame < Held
    <2>1. delivered \in Seq([frame : Nat \ {0}, length : Int])
      BY DEF FramingInv, TypeOK
    <2>2. delivered[i] \in [frame : Nat \ {0}, length : Int]
      BY <2>1, ElementOf, Zenon
    <2>3. delivered[i].frame < Held
      BY DEF FramingInv, Dispatched
    <2> QED
      BY <2>2, <2>3
  <1>3. ASSUME NEW i \in 1..Len(delivered)
        PROVE  /\ delivered[i].frame \in 1..Len(sent)
               /\ delivered[i].frame < frame
    <2>1. delivered[i].frame \in Nat \ {0} /\ delivered[i].frame < Held
      BY <1>2
    <2>2. frame \in 1..(Len(sent) + 1) /\ Len(sent) \in Nat
      BY DEF FramingInv, TypeOK
    <2> QED
      BY <1>1, <2>1, <2>2
  <1> QED
    BY <1>1, <1>2, <1>3

LEMMA PackageInv ==
    ASSUME FramingInv, NEW n \in Lengths, Package(n)
    PROVE  FramingInv'
  <1> USE DEF Package, recvVars
  <1>1. /\ Len(sent') = Len(sent) + 1
        /\ \A f \in 1..Len(sent) : sent'[f] = sent[f]
        /\ sent'[Len(sent) + 1] = n
        /\ sent' \in Seq(Lengths)
    BY DEF FramingInv, TypeOK
  <1>2. TypeOK'
    BY <1>1 DEF FramingInv, TypeOK
  <1>3. Line'
    <2>1. frame' <= Len(sent') => offset' < FrameSize(sent'[frame'])
      <3>1. CASE frame <= Len(sent)
        BY <3>1, <1>1 DEF FramingInv, TypeOK, Line
      <3>2. CASE frame = Len(sent) + 1
        <4>1. offset = 0 /\ FrameSize(n) \in Nat \ {0}
          BY <3>2, Sizes DEF FramingInv, TypeOK, Line
        <4> QED
          BY <3>2, <4>1, <1>1
      <3> QED
        BY <3>1, <3>2 DEF FramingInv, TypeOK
    <2>2. frame' > Len(sent') => offset' = 0
      BY <1>1 DEF FramingInv, TypeOK
    <2>3. (\A f \in damaged : f < frame \/ (f = frame /\ offset > 0))'
      BY DEF FramingInv, Line
    <2> QED
      BY <2>1, <2>2, <2>3 DEF Line
  <1>4. Buffer'
    BY DEF FramingInv, Buffer
  <1>5. Dispatched'
    <2>1. DeliveredAsSent'
      BY <1>1, HeldOnLine DEF FramingInv, Dispatched, DeliveredAsSent
    <2> QED
      BY <2>1 DEF FramingInv, Dispatched, DamagedNeverDelivered, Held
  <1> QED
    BY <1>2, <1>3, <1>4, <1>5 DEF FramingInv

\* What the line does by itself.
LEMMA LineStep ==
    ASSUME FramingInv, NextByte, Fault \/ NoFault
    PROVE  /\ sent' = sent
           /\ frame \in 1..Len(sent)
           /\ sent[frame] \in Lengths
           /\ frame' \in 1..(Len(sent) + 1)
           /\ offset' \in Nat
           /\ faults' \in 0..MaxFaults
           /\ damaged' \subseteq 1..Len(sent)
           /\ damaged \subseteq damaged'
           /\ damaged' \subseteq damaged \cup {frame}
           /\ \/ frame' = frame /\ offset' = offset + 1
              \/ /\ frame' = frame + 1 /\ offset' = 0
                 /\ offset + 1 = FrameSize(sent[frame])
           /\ Line'
  <1>1. sent' = sent /\ frame \in 1..Len(sent) /\ sent[frame] \in Lengths
    BY DEF FramingInv, TypeOK, NextByte
  <1>2. FrameSize(sent[frame]) \in Nat \ {0} /\ offset < FrameSize(sent[frame])
    <2>1. FrameSize(sent[frame]) \in Nat \ {0}
      BY <1>1, Sizes
    <2> QED
      BY <1>1, <2>1 DEF FramingInv, TypeOK, Line
  <1>3. /\ \/ /\ frame' = frame /\ offset' = offset + 1
              /\ offset + 1 < FrameSize(sent[frame])
           \/ /\ frame' = frame + 1 /\ offset' = 0
              /\ offset + 1 = FrameSize(sent[frame])
        /\ frame' \in 1..(Len(sent) + 1)
        /\ offset' \in Nat
    BY <1>1, <1>2 DEF FramingInv, TypeOK, NextByte
  <1>4. /\ faults' \in 0..MaxFaults
        /\ damaged' \subseteq 1..Len(sent)
        /\ damaged \subseteq damaged'
        /\ damaged' \subseteq damaged \cup {frame}
    <2>1. /\ damaged \subseteq damaged'
          /\ damaged' \subseteq damaged \cup {frame}
      BY DEF Fault, NoFault
    <2>2. damaged' \subseteq 1..Len(sent)
      BY <2>1, <1>1 DEF FramingInv, TypeOK
    <2>3. faults' \in 0..MaxFaults
      BY ConstantTypes DEF FramingInv, TypeOK, Fault, NoFault
    <2> QED
      BY <2>1, <2>2, <2>3
  <1>5. Line'
    <2>1. frame' <= Len(sent) => offset' < FrameSize(sent[frame'])
      <3>1. CASE frame' = frame
        BY <3>1, <1>1, <1>3
      <3>2. ASSUME frame' = frame + 1, frame' <= Len(sent)
            PROVE  offset' = 0 /\ FrameSize(sent[frame']) \in Nat \ {0}
        <4>1. sent[frame'] \in Lengths
          BY <3>2, <1>1, <1>3 DEF FramingInv, TypeOK
        <4> QED
          BY <3>2, <4>1, <1>1, <1>3, Sizes
      <3> QED
        BY <3>1, <3>2, <1>3
    <2>2. frame' > Len(sent) => offset' = 0
      BY <1>1, <1>3
    <2>3. \A f \in damaged' : f < frame' \/ (f = frame' /\ offset' > 0)
      BY <1>1, <1>3, <1>4 DEF FramingInv, TypeOK, Line
    <2> QED
      BY <1>1, <2>1, <2>2, <2>3 DEF Line
  <1> QED
    BY <1>1, <1>3, <1>4, <1>5

\* The byte on the line is of no delivered frame.
LEMMA DeliveredUnharmed ==
    ASSUME FramingInv, NextByte, Fault \/ NoFault
    PROVE  \A i \in 1..Len(delivered) : delivered[i].frame \notin damaged'
  <1>1. damaged' \subseteq damaged \cup {frame}
    BY DEF Fault, NoFault
  <1>2. ASSUME NEW i \in 1..Len(delivered)
        PROVE  delivered[i].frame # frame /\ delivered[i].frame \notin damaged
    <2>1. delivered[i].frame \in Nat /\ frame \in Nat /\ delivered[i].frame < frame
      BY HeldOnLine DEF FramingInv, TypeOK
    <2> QED
      BY <2>1 DEF FramingInv, Dispatched, DamagedNeverDelivered
  <1> QED
    BY <1>1, <1>2

LEMMA LoseByteInv ==
    ASSUME FramingInv, LoseByte
    PROVE  FramingInv'
  <1> USE DEF recvVars
  <1>1. NextByte /\ Fault /\ UNCHANGED recvVars
    BY DEF LoseByte
  <1>2. TypeOK'
    BY <1>1, LineStep DEF FramingInv, TypeOK
  <1>3. Buffer'
    BY <1>1, LineStep DEF FramingInv, TypeOK, Buffer
  <1>4. Dispatched'
    <2>1. DeliveredAsSent'
      BY <1>1, LineStep DEF FramingInv, Dispatched, DeliveredAsSent
    <2>2. DamagedNeverDelivered'
      BY <1>1, DeliveredUnharmed DEF DamagedNeverDelivered
    <2>3. \A i \in 1..Len(delivered') : delivered'[i].frame < Held'
      <3>1. CASE m_recvIndex = 0
        <4>1. Held' = frame' /\ frame' \in Nat /\ frame \in Nat /\ frame' >= frame
          BY <3>1, <1>1, LineStep DEF Held, FramingInv, TypeOK
        <4> QED
          BY <4>1, <1>1, HeldOnLine
      <3>2. CASE m_recvIndex # 0
        BY <3>2, <1>1 DEF Held, FramingInv, Dispatched
      <3> QED
        BY <3>1, <3>2
    <2> QED
      BY <2>1, <2>2, <2>3 DEF Dispatched
  <1> QED
    BY <1>1, <1>2, <1>3, <1>4, LineStep DEF FramingInv

\* The byte is stored and nothing dispatched.
LEMMA StoredInv ==
    ASSUME FramingInv, NextByte, NEW good \in BOOLEAN,
           (Fault /\ good = FALSE) \/ (NoFault /\ good = TRUE),
           WaitForMore(good) \/ Abort(good)
    PROVE  FramingInv'
  <1>1. StoreData(good) /\ UNCHANGED delivered
    BY DEF WaitForMore, Abort
  <1>2. Fault \/ NoFault
    OBVIOUS
  <1>3. Held \in 1..frame /\ Held' = Held /\ m_recvIndex' > 0
    BY <1>1, <1>2, LineStep DEF FramingInv, TypeOK, Buffer, Held, StoreData, Index
  <1>4. TypeOK'
    <2>1. /\ state' \in {"header", "body", "aborted"}
          /\ state' = "header" => m_recvIndex' < HeaderSize
          /\ state' = "body" => m_recvIndex' >= HeaderSize
      BY <1>1, FramingAssumption
      DEF WaitForMore, Abort, StoreData, Index, HeaderComplete, FramingInv, TypeOK
    <2>2. m_recvIndex' \in Nat /\ inBuffer' \in 0..Len(sent) /\ whole' \in BOOLEAN
      BY <1>1, <1>2, <1>3, LineStep
      DEF FramingInv, TypeOK, StoreData, Index, InPlace
    <2> QED
      BY <2>1, <2>2, <1>1, <1>2, LineStep DEF FramingInv, TypeOK
  <1>5. Buffer'
    <2>1. ASSUME whole', inBuffer' = frame'
          PROVE  /\ offset' >= m_recvIndex'
                 /\ offset' = m_recvIndex' => frame' \notin damaged'
      <3>1. good /\ whole /\ Held = frame /\ offset = m_recvIndex /\ NoFault
        BY <2>1, <1>1 DEF StoreData, InPlace
      <3>2. frame' = frame /\ offset' = offset + 1
        BY <2>1, <3>1, <1>1, <1>2, LineStep DEF StoreData, FramingInv, TypeOK
      <3>3. frame \notin damaged
        BY <3>1 DEF FramingInv, TypeOK, Line, Buffer, Held
      <3> QED
        BY <3>1, <3>2, <3>3, <1>1 DEF StoreData, Index, NoFault, FramingInv, TypeOK
    <2> QED
      BY <2>1, <1>1, <1>2, <1>3, LineStep DEF Buffer, StoreData, FramingInv, TypeOK
  <1>6. Dispatched'
    <2>1. DeliveredAsSent'
      BY <1>1, <1>2, LineStep DEF FramingInv, Dispatched, DeliveredAsSent
    <2>2. DamagedNeverDelivered'
      BY <1>1, <1>2, DeliveredUnharmed DEF DamagedNeverDelivered
    <2> QED
      BY <2>1, <2>2, <1>1, <1>3 DEF FramingInv, Dispatched
  <1> QED
    BY <1>2, <1>4, <1>5, <1>6, LineStep DEF FramingInv

\* The byte completes a frame, which is dispatched.
LEMMA CompleteInv ==
    ASSUME FramingInv, NextByte, NEW good \in BOOLEAN,
           (Fault /\ good = FALSE) \/ (NoFault /\ good = TRUE),
           Complete(good)
    PROVE  FramingInv'
  <1>1. Fault \/ NoFault
    OBVIOUS
  <1>2. /\ good /\ whole /\ Held = frame /\ offset = m_recvIndex /\ NoFault
        /\ offset + 1 = FrameSize(sent[frame])
        /\ ReceivedLength(sent[frame]) = DataLength(sent[frame])
    BY <1>1, CompleteIsWhole, LineStep DEF FramingInv, TypeOK
  <1>3. frame' = frame + 1 /\ offset' = 0
    BY <1>1, <1>2, LineStep DEF NextByte, FramingInv, TypeOK
  <1>4. frame \notin damaged
    BY <1>2 DEF FramingInv, TypeOK, Line, Buffer, Held
  <1> DEFINE r == [frame |-> frame, length |-> DataLength(sent[frame])]
  <1>5. /\ r \in [frame : Nat \ {0}, length : Int]
        /\ r.frame = frame /\ r.length = DataLength(sent[frame])
    BY <1>1, LineStep, Sizes DEF DataLength
  <1>6. /\ delivered' = Append(delivered, r)
        /\ Len(delivered') = Len(delivered) + 1
        /\ \A i \in 1..Len(delivered) : delivered'[i] = delivered[i]
        /\ delivered'[Len(delivered) + 1] = r
        /\ delivered' \in Seq([frame : Nat \ {0}, length : Int])
    BY <1>2, <1>5 DEF Complete, FramingInv, TypeOK
  <1>7. Held' = frame + 1
    BY <1>3 DEF Complete, Reset, Held
  <1>8. TypeOK'
    BY <1>1, <1>6, LineStep, ConstantTypes DEF FramingInv, TypeOK, Complete, Reset
  <1>9. Buffer'
    BY DEF Complete, Reset, Buffer
  <1>10. Dispatched'
    <2>1. \A i \in 1..Len(delivered') : delivered'[i].frame < Held'
      BY <1>5, <1>6, <1>7, HeldOnLine DEF FramingInv, TypeOK
    <2>2. DeliveredAsSent'
      <3>1. ASSUME NEW i \in 1..Len(delivered')
            PROVE  delivered'[i].length = DataLength(sent'[delivered'[i].frame])
        <4>1. sent' = sent
          BY DEF NextByte
        <4>2. CASE i \in 1..Len(delivered)
          BY <4>1, <4>2, <1>6 DEF FramingInv, Dispatched, DeliveredAsSent
        <4>3. CASE i = Len(delivered) + 1
          BY <4>1, <4>3, <1>5, <1>6
        <4> QED
          BY <4>2, <4>3, <1>6 DEF FramingInv, TypeOK
      <3>2. ASSUME NEW i \in 1..Len(delivered'), NEW j \in 1..Len(delivered'), i < j
            PROVE  delivered'[i].frame < delivered'[j].frame
        <4>1. i \in 1..Len(delivered)
          BY <3>2, <1>6 DEF FramingInv, TypeOK
        <4>2. CASE j \in 1..Len(delivered)
          BY <3>2, <4>1, <4>2, <1>6 DEF FramingInv, Dispatched, DeliveredAsSent
        <4>3. CASE j = Len(delivered) + 1
          BY <4>1, <4>3, <1>5, <1>6, HeldOnLine
        <4> QED
          BY <4>2, <4>3, <1>6 DEF FramingInv, TypeOK
      <3> QED
        BY <3>1, <3>2 DEF DeliveredAsSent
    <2>3. DamagedNeverDelivered'
      <3>1. ASSUME NEW i \in 1..Len(delivered')
            PROVE  delivered'[i].frame \notin damaged'
        <4>1. damaged' = damaged
          BY <1>2 DEF NoFault
        <4>2. CASE i \in 1..Len(delivered)
          BY <4>1, <4>2, <1>6 DEF FramingInv, Dispatched, DamagedNeverDelivered
        <4>3. CASE i = Len(delivered) + 1
          BY <4>1, <4>3, <1>4, <1>5, <1>6
        <4>4. Len(delivered) \in Nat
          BY DEF FramingInv, TypeOK
        <4> QED
          BY <4>2, <4>3, <4>4, <1>6
      <3> QED
        BY <3>1 DEF DamagedNeverDelivered
    <2> QED
      BY <2>1, <2>2, <2>3 DEF Dispatched
  <1> QED
    BY <1>1, <1>8, <1>9, <1>10, LineStep DEF FramingInv

LEMMA StepInv == FramingInv /\ [Next]_vars => FramingInv'
  <1> SUFFICES ASSUME FramingInv, [Next]_vars
               PROVE  FramingInv'
    OBVIOUS
  <1>1. CASE \E n \in Lengths : Package(n)
    BY <1>1, PackageInv
  <1>2. CASE LoseByte
    BY <1>2, LoseByteInv
  <1>3. CASE DamageByte
    BY <1>3, StoredInv, CompleteInv DEF DamageByte, OnRecvByte
  <1>4. CASE RecvByte
    BY <1>4, StoredInv, CompleteInv DEF RecvByte, OnRecvByte
  <1>5. CASE UNCHANGED vars
    BY <1>5 DEF vars, lineVars, recvVars, FramingInv, TypeOK, Line, Buffer,
                Dispatched, DeliveredAsSent, DamagedNeverDelivered, Held
  <1> QED
    BY <1>1, <1>2, <1>3, <1>4, <1>5 DEF Next

\* The invariant of line and receiver, from which the next theorems follow.
THEOREM FramingInvHolds == Spec => []FramingInv
  <1>1. Init => FramingInv
    BY InitInv
  <1>2. FramingInv /\ [Next]_vars => FramingInv'
    BY StepInv
  <1> QED
    BY <1>1, <1>2, PTL DEF Spec

\* Whatever bytes are lost or damaged, dispatch_data is only given frames that
\* were sent, in order, each at most once and with its length.
THEOREM DeliveredAsSentHolds == Spec => []DeliveredAsSent
  <1>1. FramingInv => DeliveredAsSent
    BY DEF FramingInv, Dispatched
  <1> QED
    BY <1>1, FramingInvHolds, PTL

\* Type correctness of line and receiver.
THEOREM TypeCorrect == Spec => []TypeOK
  <1>1. FramingInv => TypeOK
    BY DEF FramingInv
  <1> QED
    BY <1>1, FramingInvHolds, PTL

\* A frame that lost a byte or had one damaged is never dispatched.
THEOREM DamagedNeverDeliveredHolds == Spec => []DamagedNeverDelivered
  <1>1. FramingInv => DamagedNeverDelivered
    BY DEF FramingInv, Dispatched
  <1> QED
    BY <1>1, FramingInvHolds, PTL

-----------------------------------------------------------------------------
(***************************************************************************)
(* The lengths whose frames do not wrap the length field: with the sizes   *)
(* of the source, 1 to 991.                                                *)
(***************************************************************************)
Fits == \A n \in Lengths : n # 0 /\ FrameSize(n) < LengthMod

\* With the sizes of the source the frames that fit are those of 1 to 991
\* bytes of data, though package_data_frame accepts up to 1023.
THEOREM LengthsThatFit ==
    ASSUME HeaderSize = 12, CrcSize = 4, BlockSize = 16, LengthMod = 1024,
           NEW n \in 1..1023
    PROVE  FrameSize(n) < LengthMod <=> n <= 991
  <1>1. FrameSize(n) = 32 + n - (n % 16)
    BY DEF FrameSize, Bare
  <1>2. n - (n % 16) < 992 <=> n <= 991
    OBVIOUS
  <1> QED
    BY <1>1, <1>2

LEMMA FittingLength ==
    ASSUME Fits, NEW n \in Lengths
    PROVE  /\ n = Bare \/ n > 0
           /\ HeaderLength(n) = FrameSize(n)
  <1>1. FrameSize(n) \in Nat /\ FrameSize(n) < LengthMod
    BY Sizes DEF Fits
  <1>2. HeaderLength(n) = FrameSize(n)
    BY <1>1, ConstantTypes DEF HeaderLength
  <1> QED
    BY <1>2, FramingAssumption DEF Fits

LEMMA KeepsUpStep ==
    ASSUME Fits, FramingInv, InStep, [Next]_vars
    PROVE  InStep'
  <1>1. CASE \E n \in Lengths : Package(n)
    BY <1>1 DEF Package, recvVars, InStep
  <1>2. ASSUME NextByte, Fault
        PROVE  damaged' # {}
    BY <1>2 DEF Fault
  <1>3. ASSUME RecvByte, damaged' = {}
        PROVE  InStep'
    <2>1. /\ NextByte /\ NoFault /\ OnRecvByte(TRUE) /\ damaged = {}
          /\ Len(delivered) = frame - 1
          /\ whole
          /\ offset = m_recvIndex
          /\ m_recvIndex > 0 => inBuffer = frame
          /\ state \in {"header", "body"}
          /\ state = "body" <=> m_recvIndex >= HeaderSize
      BY <1>3 DEF RecvByte, NoFault, InStep, FramingInv, TypeOK
    <2>2. /\ frame \in 1..Len(sent) /\ sent[frame] \in Lengths
          /\ offset \in Nat /\ m_recvIndex \in Nat /\ HeaderSize \in Nat
          /\ offset < FrameSize(sent[frame])
      BY <2>1, LineStep, ConstantTypes DEF FramingInv, TypeOK, Line
    <2>3. /\ FrameSize(sent[frame]) \in Nat
          /\ FrameSize(sent[frame]) >= HeaderSize
          /\ FrameSize(sent[frame]) = HeaderSize => sent[frame] = Bare
          /\ sent[frame] = Bare => FrameSize(sent[frame]) = HeaderSize
          /\ sent[frame] = Bare \/ sent[frame] > 0
          /\ RecvLength = FrameSize(sent[frame])
      <3>1. Held = frame
        BY <2>1, <2>2 DEF Held
      <3> QED
        BY <2>2, <3>1, Sizes, FittingLength DEF RecvLength, FrameSize, Bare
    <2>4. InPlace(TRUE) /\ Index = offset + 1
      BY <2>1, <2>2 DEF InPlace, Held, Index
    <2>5. state = "header" => Index <= HeaderSize
      BY <2>2, <2>4, <2>1
    <2>6. ~Abort(TRUE)
      <3>1. CASE state = "header"
        <4>1. ~(RecvLength < HeaderSize)
          BY <2>2, <2>3
        <4> QED
          BY <3>1, <4>1, <2>4 DEF Abort, HeaderComplete
      <3>2. CASE state = "body"
        <4>1. Index > HeaderSize
          BY <3>2, <2>1, <2>2, <2>4
        <4>2. Index <= RecvLength
          BY <2>2, <2>3, <2>4
        <4>3. Index = RecvLength => RecvDataCorrect(TRUE)
          <5>1. Held = frame
            BY <2>1, <2>2 DEF Held
          <5>2. sent[frame] # Bare \/ Index # RecvLength
            BY <4>1, <2>2, <2>3, <2>4
          <5> QED
            BY <5>1, <5>2, <2>3, <2>4 DEF RecvDataCorrect
        <4> QED
          <5>1. Index >= RecvLength => Index = RecvLength
            BY <4>2, <2>2, <2>3, <2>4
          <5> QED
            BY <3>2, <4>3, <5>1 DEF Abort, HeaderComplete
      <3> QED
        BY <3>1, <3>2, <2>1
    <2>7. CASE WaitForMore(TRUE)
      <3>1. Index < FrameSize(sent[frame])
        <4>1. \/ Index < HeaderSize
              \/ Index < RecvLength
          <5>1. state = "header" /\ ~HeaderComplete => Index < HeaderSize
            BY <2>2, <2>4, <2>5 DEF HeaderComplete
          <5> QED
            BY <2>7, <5>1 DEF WaitForMore
        <4> QED
          BY <4>1, <2>2, <2>3, <2>4
      <3>2. frame' = frame /\ offset' = offset + 1
        BY <3>1, <2>1, <2>4 DEF NextByte
      <3>3. whole' /\ m_recvIndex' = offset + 1 /\ inBuffer' = frame
        <4>1. StoreData(TRUE)
          BY <2>7 DEF WaitForMore
        <4>2. Held = frame
          BY <2>1, <2>2 DEF Held
        <4> QED
          BY <4>1, <4>2, <2>4 DEF StoreData
      <3>4. state' = "body" <=> Index >= HeaderSize
        <4>1. CASE state = "header" /\ ~HeaderComplete /\ state' = "header"
          BY <4>1, <2>2, <2>4, <2>5 DEF HeaderComplete
        <4>2. CASE HeaderComplete /\ state' = "body"
          BY <4>2, <2>2, <2>4 DEF HeaderComplete
        <4>3. CASE state = "body" /\ state' = "body"
          BY <4>3, <2>1, <2>2, <2>4
        <4> QED
          BY <2>7, <4>1, <4>2, <4>3 DEF WaitForMore
      <3>5. state' # "aborted" /\ delivered' = delivered
        BY <2>7 DEF WaitForMore
      <3> QED
        BY <2>1, <2>4, <3>2, <3>3, <3>4, <3>5 DEF InStep
    <2>8. CASE Complete(TRUE)
      <3>1. offset + 1 = FrameSize(sent[frame])
        <4>1. TypeOK /\ frame <= Len(sent)
          BY <2>1 DEF FramingInv, NextByte
        <4> QED
          BY <2>8, <4>1, CompleteIsWhole
      <3>2. frame' = frame + 1 /\ offset' = 0
        BY <3>1, <2>1, <2>2 DEF NextByte
      <3>3. Len(delivered') = Len(delivered) + 1
        BY <2>8 DEF Complete, FramingInv, TypeOK
      <3> QED
        BY <2>1, <2>2, <2>8, <3>2, <3>3, ConstantTypes
        DEF Complete, Reset, InStep
    <2> QED
      BY <2>1, <2>6, <2>7, <2>8 DEF OnRecvByte
  <1>4. CASE UNCHANGED vars
    BY <1>4 DEF vars, lineVars, recvVars, InStep
  <1> QED
    BY <1>1, <1>2, <1>3, <1>4 DEF Next, LoseByte, DamageByte, InStep

\* If every frame fits the length field, a line without faults never stops
\* the receiver at an assertion and every frame read was dispatched.
THEOREM FaultlessLineKeepsUpHolds ==
    ASSUME Fits
    PROVE  Spec => []FaultlessLineKeepsUp
  <1>1. Init => InStep
    BY ConstantTypes DEF Init, InStep
  <1>2. FramingInv /\ InStep /\ [Next]_vars => InStep'
    BY KeepsUpStep
  <1>3. InStep => FaultlessLineKeepsUp
    BY DEF InStep, FaultlessLineKeepsUp
  <1> QED
    BY <1>1, <1>2, <1>3, FramingInvHolds, PTL DEF Spec

=============================================================================
