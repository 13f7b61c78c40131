------------------------------ MODULE CdcFrame ------------------------------
(***************************************************************************)
(* The decoder of host frames (cdc.rs): [command, len_hi, len_lo] and the  *)
(* payload, cut into USB packets anywhere.                                 *)
(*                                                                         *)
(* The host waits for an answer or a timeout, so what it wrote has been    *)
(* read when it sends again: the bytes of one frame are on their way at a  *)
(* time, and two positions in it stand for the USB buffers.                *)
(***************************************************************************)
EXTENDS Integers, Sequences

CONSTANTS
  Base,         \* number of byte values
  MaxPayload,   \* MAX_PAYLOAD_SIZE
  UsbRxBuf,     \* USB_RX_BUF_SIZE: the most bytes one read returns
  Known,        \* the command bytes that Command::from_byte knows
  HostFrames,   \* the frames hosts send
  MaxFrames     \* bound: frames sent in a behaviour

Byte == 0 .. Base - 1

ASSUME CdcAssumption ==
  /\ Base \in Nat /\ Base >= 2
  /\ MaxPayload \in Nat \ {0} /\ MaxPayload < Base * Base
  /\ UsbRxBuf \in Nat \ {0}
  /\ Known \subseteq Byte
  /\ HostFrames \subseteq [command : Byte, payload : Seq(Byte)]
  /\ \A f \in HostFrames : Len(f.payload) < Base * Base
  /\ MaxFrames \in Nat

VARIABLES
  state,          \* DecodeState
  command_byte,
  length,
  payload_idx,
  payload,        \* the array, stale bytes of earlier frames included
  panicked,       \* the array was indexed behind its end
  sent,           \* history: the frames the host sent
  got,            \* bytes of the last frame that decode() went past
  read,           \* bytes of the last frame that were read from USB
  decoded         \* history: the frames decode() returned

decoderVars == <<state, command_byte, length, payload_idx, payload>>
vars == <<decoderVars, panicked, sent, got, read, decoded>>

HeaderSize == 3
FrameSize(f) == HeaderSize + Len(f.payload)

FrameByte(f, i) ==
  CASE i = 1 -> f.command
    [] i = 2 -> Len(f.payload) \div Base
    [] i = 3 -> Len(f.payload) % Base
    [] OTHER -> f.payload[i - HeaderSize]

\* The frame on its way, if any was sent.
Current == sent[Len(sent)]

Unread == IF sent = <<>> THEN 0 ELSE FrameSize(Current) - got

AllRead == Unread = 0

Init ==
  /\ state = "Idle"
  /\ command_byte = 0
  /\ length = 0
  /\ payload_idx = 0
  /\ payload = [i \in 0 .. MaxPayload - 1 |-> 0]
  /\ panicked = FALSE
  /\ sent = <<>>
  /\ got = 0
  /\ read = 0
  /\ decoded = <<>>

----------------------------------------------------------------------------
(* Host and USB *)

HostSends ==
  /\ AllRead
  /\ Len(sent) < MaxFrames
  /\ \E f \in HostFrames : sent' = Append(sent, f)
  /\ got' = 0
  /\ read' = 0
  /\ UNCHANGED <<decoderVars, panicked, decoded>>

PacketRead ==
  /\ ~panicked
  /\ ~AllRead
  /\ got = read
  /\ \E n \in 1 .. UsbRxBuf :
       /\ read + n <= FrameSize(Current)
       /\ read' = read + n
  /\ UNCHANGED <<decoderVars, panicked, sent, got, decoded>>

----------------------------------------------------------------------------
(* decode(), one byte of the packet at a time *)

NextByte(s, b) ==
  /\ ~panicked
  /\ got < read
  /\ state = s
  /\ b = FrameByte(Current, got + 1)

reset ==
  /\ state' = "Idle"
  /\ command_byte' = 0
  /\ length' = 0
  /\ payload_idx' = 0

Continues == got' = got + 1 /\ UNCHANGED decoded

\* A return drops what is left of the packet.
Returns == got' = read

ReturnsNone == Returns /\ UNCHANGED decoded

ReturnsFrame(n) ==
  /\ Returns
  /\ decoded' = Append(decoded,
       [command |-> command_byte, payload |-> [i \in 1 .. n |-> payload'[i - 1]]])

IdleByte ==
  \E b \in Byte :
    /\ NextByte("Idle", b)
    /\ command_byte' = b
    /\ state' = "LenHigh"
    /\ Continues
    /\ UNCHANGED <<length, payload_idx, payload, panicked, sent, read>>

LenHighByte ==
  \E b \in Byte :
    /\ NextByte("LenHigh", b)
    /\ length' = b * Base
    /\ state' = "LenLow"
    /\ Continues
    /\ UNCHANGED <<command_byte, payload_idx, payload, panicked, sent, read>>

TooLong_OffByOne(n) == n >= MaxPayload
TooLong(n) == n > MaxPayload

\* The low byte of `length` is zero here, so |= adds.
LenLowByte ==
  \E b \in Byte :
    /\ NextByte("LenLow", b)
    /\ UNCHANGED <<payload, panicked, sent, read>>
    /\ \/ /\ TooLong(length + b)
          /\ reset
          /\ ReturnsNone
       \/ /\ length + b = 0
          /\ command_byte \in Known
          /\ ReturnsFrame(0)
          /\ reset
       \/ \* an unknown command: the decoder stays as it is
          /\ length + b = 0
          /\ command_byte \notin Known
          /\ ReturnsNone
          /\ UNCHANGED <<state, command_byte, length, payload_idx>>
       \/ /\ length + b > 0
          /\ ~TooLong(length + b)
          /\ length' = length + b
          /\ payload_idx' = 0
          /\ state' = "Payload"
          /\ Continues
          /\ UNCHANGED command_byte

PayloadDone_Early(n) == n + 1 >= length
PayloadDone_Late(n) == n > length
PayloadDone(n) == n >= length

PayloadByte ==
  \E b \in Byte :
    /\ NextByte("Payload", b)
    /\ payload_idx < MaxPayload
    /\ payload' = [payload EXCEPT ![payload_idx] = b]
    /\ UNCHANGED <<panicked, sent, read>>
    /\ \/ /\ ~PayloadDone(payload_idx + 1)
          /\ payload_idx' = payload_idx + 1
          /\ Continues
          /\ UNCHANGED <<state, command_byte, length>>
       \/ /\ PayloadDone(payload_idx + 1)
          /\ command_byte \in Known
          /\ ReturnsFrame(payload_idx + 1)
          /\ reset
       \/ \* an unknown command: the next byte is taken for payload too
          /\ PayloadDone(payload_idx + 1)
          /\ command_byte \notin Known
          /\ payload_idx' = payload_idx + 1
          /\ ReturnsNone
          /\ UNCHANGED <<state, command_byte, length>>

\* payload[payload_idx] behind the end of the array.
PayloadPanics ==
  /\ \E b \in Byte : NextByte("Payload", b)
  /\ payload_idx >= MaxPayload
  /\ panicked' = TRUE
  /\ UNCHANGED <<decoderVars, sent, got, read, decoded>>

Decode == IdleByte \/ LenHighByte \/ LenLowByte \/ PayloadByte \/ PayloadPanics

Next == HostSends \/ PacketRead \/ Decode

Spec == Init /\ [][Next]_vars

\* The firmware polls USB for ever, and decode() is a loop over the packet.
FairSpec == Spec /\ WF_vars(PacketRead \/ Decode)

----------------------------------------------------------------------------
(* Properties *)

Legal(f) == f.command \in Known /\ Len(f.payload) <= MaxPayload

OnlyLegalSent == \A i \in 1 .. Len(sent) : Legal(sent[i])

\* However frames are cut into packets, and whatever earlier frames left in
\* the decoder: frames the protocol allows come out as they were sent, each
\* once and in order, and only the last may still be on its way.
FramesComeOutAsSent ==
  OnlyLegalSent =>
    decoded = IF AllRead THEN sent ELSE SubSeq(sent, 1, Len(sent) - 1)

\* As long as hosts send what the protocol allows the payload array is never
\* indexed behind its end, also by a payload of the maximal size.
LegalNeverPanics == OnlyLegalSent => ~panicked

\* A host that sends an allowed frame gets it decoded.
FramesGetThrough == \A n \in 1 .. MaxFrames :
  (OnlyLegalSent /\ Len(sent) = n) ~> (Len(decoded) >= n \/ ~OnlyLegalSent)

=============================================================================
