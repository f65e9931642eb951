------------------------------- MODULE Framing -------------------------------
(***************************************************************************)
(* Frames on the serial line: package_data_frame on one side, the state    *)
(* machine of the receive thread on the other, one step per received byte. *)
(*                                                                         *)
(* A byte is abstracted to the frame it belongs to, its offset in it and   *)
(* whether it arrives intact.  The two checksums are taken to detect every *)
(* damage, and AES to be undone by the receiver.  The line may lose and    *)
(* damage up to MaxFaults bytes.                                           *)
(*                                                                         *)
(* An assertion that fails ends the program: no build of the repository    *)
(* defines NDEBUG.                                                         *)
(*                                                                         *)
(* ShortPadding, BareLength, SkipCheck and KeepBuffer are wrong variants   *)
(* of the definition after each; no specification uses them.               *)
(***************************************************************************)
EXTENDS Integers, Sequences

CONSTANTS
    HeaderSize,   \* sizeof(SDKHeader), 12
    CrcSize,      \* _SDK_CRC_DATA_SIZE, 4
    BlockSize,    \* AES block, 16
    LengthMod,    \* 2^10: header->length is a field of 10 bits
    Lengths,      \* the data lengths of frames; package_data_frame asserts < 1024
    MaxFrames,    \* bound: frames sent
    MaxFaults     \* bound: bytes lost or damaged

-----------------------------------------------------------------------------
(***************************************************************************)
(* package_data_frame for `n` bytes of data.  A block of padding is added  *)
(* even when the data fill whole blocks, or are empty: a header alone, the *)
(* Bare frame, is received but never packaged, so it is the peer's.        *)
(***************************************************************************)
Bare == -1

FrameSize(n) ==
    CASE n = Bare -> HeaderSize
      [] n = 0    -> HeaderSize + BlockSize
      [] n > 0    -> HeaderSize + CrcSize + n + (BlockSize - (n % BlockSize))

BareLength(n)   == HeaderSize + CrcSize + n
HeaderLength(n) == FrameSize(n) % LengthMod

ShortPadding(n) == IF n > 0 THEN (BlockSize - (n % BlockSize)) % BlockSize ELSE 0
Padding(n)      == IF n > 0 THEN BlockSize - (n % BlockSize) ELSE 0

(***************************************************************************)
(* The data length that reaches dispatch_data: decrypt_recv_data takes the *)
(* padding off the header's length, get_data_and_length the header and the *)
(* checksum.                                                               *)
(***************************************************************************)
ReceivedLength(n) ==
    IF HeaderLength(n) = HeaderSize
    THEN 0
    ELSE HeaderLength(n) - Padding(n) - HeaderSize - CrcSize

ASSUME FramingAssumption ==
    /\ HeaderSize \in Nat \ {0} /\ CrcSize \in Nat
    /\ BlockSize \in Nat \ {0} /\ LengthMod \in Nat \ {0}
    /\ Lengths \subseteq Nat \cup {Bare}
    /\ \A n \in Lengths : HeaderLength(n) = HeaderSize => n = Bare
    /\ MaxFrames \in Nat /\ MaxFaults \in Nat

-----------------------------------------------------------------------------
VARIABLES
    sent,         \* data lengths of the frames written so far
    frame,        \* the frame whose bytes are on the line, 1..Len(sent) + 1
    offset,       \* its next byte
    faults,       \* faults of the line so far
    damaged,      \* history: frames that lost a byte or had one damaged
    state,        \* the active state of m_recvFSM, or "aborted"
    m_recvIndex,
    whole,        \* m_recvBuffer holds the first m_recvIndex bytes of a frame
    inBuffer,     \* the frame its first byte came from
    delivered     \* frames handed to dispatch_data, with their data lengths

lineVars == <<sent, frame, offset, faults, damaged>>
recvVars == <<state, m_recvIndex, whole, inBuffer, delivered>>
vars     == <<lineVars, recvVars>>

Init ==
    /\ sent = <<>>
    /\ frame = 1
    /\ offset = 0
    /\ faults = 0
    /\ damaged = {}
    /\ state = "header"
    /\ m_recvIndex = 0
    /\ whole = TRUE
    /\ inBuffer = 0
    /\ delivered = <<>>

\* The frame is written to the port, behind the frames before it.
Package(n) ==
    /\ Len(sent) < MaxFrames
    /\ sent' = Append(sent, n)
    /\ UNCHANGED <<frame, offset, faults, damaged, recvVars>>

-----------------------------------------------------------------------------
(***************************************************************************)
(* The line: its next byte is lost, damaged, or arrives.                   *)
(***************************************************************************)
NextByte ==
    /\ state # "aborted"
    /\ frame <= Len(sent)
    /\ IF offset + 1 < FrameSize(sent[frame])
       THEN offset' = offset + 1 /\ UNCHANGED frame
       ELSE offset' = 0 /\ frame' = frame + 1
    /\ UNCHANGED sent

Fault ==
    /\ faults < MaxFaults
    /\ faults' = faults + 1
    /\ damaged' = damaged \cup {frame}

NoFault == UNCHANGED <<faults, damaged>>

-----------------------------------------------------------------------------
(***************************************************************************)
(* The receiver.  store_data puts the byte behind those in the buffer; the *)
(* buffer is still the beginning of one frame if the byte is its next one. *)
(***************************************************************************)
Index == m_recvIndex + 1
Held  == IF m_recvIndex = 0 THEN frame ELSE inBuffer

InPlace(good) ==
    /\ whole
    /\ good
    /\ frame = Held
    /\ offset = m_recvIndex

\* get_recv_data_length, once the header in the buffer has been checked.
RecvLength == HeaderLength(sent[Held])

\* header_complete, and header_correct by the checksum of the header.
HeaderComplete == state = "header" /\ Index = HeaderSize

\* check_recv_data_crc: the buffer ends in the checksum of what precedes it,
\* which package_data_frame writes only for a frame with data.
SkipCheck(good) == TRUE
RecvDataCorrect(good) ==
    /\ InPlace(good)
    /\ sent[Held] > 0
    /\ Index = FrameSize(sent[Held])

StoreData(good) ==
    /\ m_recvIndex' = Index
    /\ whole' = InPlace(good)
    /\ inBuffer' = Held

\* recv_data_complete is false, or not asked yet.
WaitForMore(good) ==
    /\ \/ state = "header" /\ ~HeaderComplete /\ state' = "header"
       \/ HeaderComplete /\ InPlace(good) /\ Index < RecvLength /\ state' = "body"
       \/ state = "body" /\ Index < RecvLength /\ state' = "body"
    /\ StoreData(good)
    /\ UNCHANGED delivered

\* CompleteState::on_reset
KeepBuffer ==
    /\ state' = "header"
    /\ UNCHANGED <<m_recvIndex, whole, inBuffer>>
Reset ==
    /\ state' = "header"
    /\ m_recvIndex' = 0
    /\ whole' = TRUE
    /\ inBuffer' = 0

\* The loop of the receive thread dispatches a complete frame and resets.
Complete(good) ==
    /\ \/ HeaderComplete /\ InPlace(good) /\ RecvLength = Index
       \/ state = "body" /\ Index = RecvLength /\ RecvDataCorrect(good)
    /\ delivered' = Append(delivered,
           [frame |-> Held, length |-> ReceivedLength(sent[Held])])
    /\ Reset

\* The assertions for a header or a body that is not correct, and for a
\* length the buffer has already passed.
Abort(good) ==
    /\ \/ HeaderComplete /\ (~InPlace(good) \/ RecvLength < Index)
       \/ state = "body" /\ Index >= RecvLength
                         /\ ~(Index = RecvLength /\ RecvDataCorrect(good))
    /\ state' = "aborted"
    /\ StoreData(good)
    /\ UNCHANGED delivered

OnRecvByte(good) == WaitForMore(good) \/ Complete(good) \/ Abort(good)

-----------------------------------------------------------------------------
LoseByte   == NextByte /\ Fault /\ UNCHANGED recvVars
DamageByte == NextByte /\ Fault /\ OnRecvByte(FALSE)
RecvByte   == NextByte /\ NoFault /\ OnRecvByte(TRUE)

Next ==
    \/ \E n \in Lengths : Package(n)
    \/ LoseByte
    \/ DamageByte
    \/ RecvByte

Spec == Init /\ [][Next]_vars

-----------------------------------------------------------------------------
\* The type invariant; the header state waits for a header's bytes only, the
\* body state for those behind it.
TypeOK ==
    /\ sent \in Seq(Lengths)
    /\ frame \in 1..(Len(sent) + 1)
    /\ offset \in Nat
    /\ faults \in 0..MaxFaults
    /\ damaged \subseteq 1..Len(sent)
    /\ state \in {"header", "body", "aborted"}
    /\ m_recvIndex \in Nat
    /\ state = "header" => m_recvIndex < HeaderSize
    /\ state = "body" => m_recvIndex >= HeaderSize
    /\ whole \in BOOLEAN
    /\ inBuffer \in 0..Len(sent)
    /\ delivered \in Seq([frame : Nat \ {0}, length : Int])

DataLength(n) == IF n = Bare THEN 0 ELSE n

\* What dispatch_data is given is a frame that was sent, with exactly the
\* length it was sent with, and frames arrive in order and at most once,
\* whatever bytes the line loses or damages: padding, header length and the
\* two checksums of package_data_frame agree with the receiver's states.
DeliveredAsSent ==
    /\ \A i \in 1..Len(delivered) :
         delivered[i].length = DataLength(sent[delivered[i].frame])
    /\ \A i, j \in 1..Len(delivered) :
         i < j => delivered[i].frame < delivered[j].frame

\* A frame with a lost or damaged byte never reaches dispatch_data, not even
\* completed by the bytes of the frame behind it.
DamagedNeverDelivered ==
    \A i \in 1..Len(delivered) : delivered[i].frame \notin damaged

\* While the line is faultless the receiver keeps up with it: it never stops
\* at an assertion, and every frame whose last byte was read was dispatched.
FaultlessLineKeepsUp ==
    damaged = {} => state # "aborted" /\ Len(delivered) = frame - 1

-----------------------------------------------------------------------------
(***************************************************************************)
(* The inductive invariant.  The buffer is behind the line: it is the      *)
(* beginning of the frame on the line up to the next byte, or one of its   *)
(* bytes was missed; and every delivered frame lies before both.           *)
(***************************************************************************)
Line ==
    /\ frame <= Len(sent) => offset < FrameSize(sent[frame])
    /\ frame > Len(sent) => offset = 0
    /\ \A f \in damaged : f < frame \/ (f = frame /\ offset > 0)

Buffer ==
    /\ m_recvIndex > 0 => inBuffer \in 1..frame
    /\ whole /\ m_recvIndex > 0 /\ inBuffer = frame =>
         /\ offset >= m_recvIndex
         /\ offset = m_recvIndex => frame \notin damaged

Dispatched ==
    /\ \A i \in 1..Len(delivered) : delivered[i].frame < Held
    /\ DeliveredAsSent
    /\ DamagedNeverDelivered

FramingInv == TypeOK /\ Line /\ Buffer /\ Dispatched

\* What is added while nothing was damaged: line and buffer move together.
InStep ==
    damaged = {} =>
      /\ state # "aborted"
      /\ Len(delivered) = frame - 1
      /\ whole
      /\ offset = m_recvIndex
      /\ m_recvIndex > 0 => inBuffer = frame
      /\ state = "body" <=> m_recvIndex >= HeaderSize

=============================================================================
