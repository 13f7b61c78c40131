--------------------------- MODULE CdcFrameProofs ---------------------------
(***************************************************************************)
(* The frame decoder hands over what an obedient host sent, and the host   *)
(* reads its own answers, for every size of bytes, payloads and packets.   *)
(***************************************************************************)
EXTENDS CdcExchange, SequenceTheorems, TLAPS

Before == SubSeq(sent, 1, Len(sent) - 1)

\* What the positions and histories are.
Places ==
  /\ sent \in Seq(HostFrames)
  /\ got \in Nat /\ read \in Nat /\ got <= read
  /\ sent = <<>> => read = 0
  /\ sent # <<>> => read <= FrameSize(Current)
  /\ payload \in [0 .. MaxPayload - 1 -> Byte]

\* How far the decoder is in the current frame, and what it has kept of it.
InIdle ==
  state = "Idle" =>
    \/ AllRead /\ decoded = sent
    \/ sent # <<>> /\ got = 0 /\ decoded = Before

InLenHigh ==
  state = "LenHigh" =>
    /\ sent # <<>> /\ got = 1 /\ decoded = Before
    /\ command_byte = Current.command

InLenLow ==
  state = "LenLow" =>
    /\ sent # <<>> /\ got = 2 /\ decoded = Before
    /\ command_byte = Current.command
    /\ length = (Len(Current.payload) \div Base) * Base

InPayload ==
  state = "Payload" =>
    /\ sent # <<>> /\ got = HeaderSize + payload_idx /\ decoded = Before
    /\ command_byte = Current.command
    /\ length = Len(Current.payload)
    /\ payload_idx \in Nat /\ payload_idx < length
    /\ \A j \in 0 .. payload_idx - 1 : payload[j] = Current.payload[j + 1]

InStep ==
  /\ ~panicked
  /\ state \in {"Idle", "LenHigh", "LenLow", "Payload"}
  /\ InIdle /\ InLenHigh /\ InLenLow /\ InPayload

CdcInv == Places /\ (OnlyLegalSent => InStep)

----------------------------------------------------------------------------

LEMMA CurrentFacts ==
  ASSUME Places, sent # <<>>
  PROVE  /\ Len(sent) \in Nat \ {0}
         /\ Current \in HostFrames
         /\ Current.command \in Byte
         /\ Current.payload \in Seq(Byte)
         /\ Len(Current.payload) \in Nat
         /\ Len(Current.payload) < Base * Base
         /\ FrameSize(Current) = 3 + Len(Current.payload)
         /\ OnlyLegalSent => Legal(Current)
<1>1. Len(sent) \in Nat \ {0}
  BY EmptySeq DEF Places
<1>2. Current \in HostFrames
  BY <1>1, ElementOfSeq DEF Places, Current
<1>3. /\ Current.command \in Byte /\ Current.payload \in Seq(Byte)
      /\ Len(Current.payload) < Base * Base
  BY <1>2, CdcAssumption DEF CdcAssumption
<1>4. OnlyLegalSent => Legal(Current)
  BY <1>1 DEF OnlyLegalSent, Current
<1>5. QED
  BY <1>1, <1>2, <1>3, <1>4 DEF FrameSize, HeaderSize

\* The two length bytes make up the length again.
LEMMA TwoLengthBytes ==
  ASSUME NEW n \in Nat, NEW b \in Nat \ {0}
  PROVE  ((n \div b) * b) + (n % b) = n
OBVIOUS

\* The payload copied out of the array is the payload that was sent.
LEMMA CopiedPayload ==
  ASSUME NEW f \in HostFrames, NEW n \in Nat, Len(f.payload) = n,
         NEW a, \A j \in 0 .. n - 1 : a[j] = f.payload[j + 1]
  PROVE  [command |-> f.command, payload |-> [i \in 1 .. n |-> a[i - 1]]] = f
<1>1. f.payload \in Seq(Byte) /\ f \in [command : Byte, payload : Seq(Byte)]
  BY CdcAssumption DEF CdcAssumption
<1>2. \A i \in 1 .. n : a[i - 1] = f.payload[i]
  BY <1>1
<1>3. [i \in 1 .. n |-> a[i - 1]] = [i \in 1 .. n |-> f.payload[i]]
  BY <1>2
<1>4. [i \in 1 .. n |-> f.payload[i]] = f.payload
  BY <1>1
<1>5. QED
  BY <1>1, <1>3, <1>4

LEMMA BeforeAndCurrent ==
  ASSUME Places, sent # <<>>
  PROVE  Append(Before, Current) = sent
<1>1. sent \in Seq(HostFrames) /\ Len(sent) \in Nat \ {0}
  BY CurrentFacts DEF Places
<1>2. Before \in Seq(HostFrames) /\ Len(Before) = Len(sent) - 1
      /\ \A i \in 1 .. Len(sent) - 1 : Before[i] = sent[i]
  <2>1. \A i \in 1 .. Len(sent) - 1 : sent[i] \in HostFrames
    BY <1>1, ElementOfSeq
  <2>2. /\ Before \in Seq(HostFrames)
        /\ Len(Before) = IF 1 <= Len(sent) - 1 THEN Len(sent) - 1 - 1 + 1 ELSE 0
        /\ \A i \in 1 .. Len(sent) - 1 - 1 + 1 : Before[i] = sent[1 + i - 1]
    <3>1. Len(sent) - 1 \in Int
      BY <1>1
    <3>2. QED
      BY <2>1, <3>1, SubSeqProperties DEF Before
  <2>3. Len(Before) = Len(sent) - 1
    <3>1. Len(sent) \in Nat /\ Len(sent) >= 1
      BY <1>1
    <3>2. CASE Len(sent) = 1
      BY <2>2, <3>2
    <3>3. CASE Len(sent) > 1
      <4>1. 1 <= Len(sent) - 1
        BY <3>1, <3>3
      <4>2. Len(Before) = Len(sent) - 1 - 1 + 1
        BY <2>2, <4>1
      <4>3. QED
        BY <3>1, <4>2
    <3>4. QED
      BY <3>1, <3>2, <3>3
  <2>4. ASSUME NEW i \in 1 .. Len(sent) - 1 PROVE Before[i] = sent[i]
    <3>1. i \in 1 .. Len(sent) - 1 - 1 + 1 /\ 1 + i - 1 = i
      BY <1>1
    <3>2. QED
      BY <2>2, <3>1
  <2>5. QED
    BY <2>2, <2>3, <2>4
<1>3. QED
  BY <1>1, <1>2, CurrentFacts, SeqEqual DEF Current

LEMMA CdcInit == Init => CdcInv
<1> SUFFICES ASSUME Init PROVE CdcInv
  OBVIOUS
<1>1. payload \in [0 .. MaxPayload - 1 -> Byte] /\ sent \in Seq(HostFrames)
  BY EmptySeq, CdcAssumption DEF Init, CdcAssumption, Byte
<1>2. Places
  BY <1>1 DEF Init, Places
<1>3. InStep
  BY DEF Init, InStep, InIdle, InLenHigh, InLenLow, InPayload, AllRead, Unread
<1>4. QED
  BY <1>2, <1>3 DEF CdcInv

\* Only decoding changes what the decoder is in the middle of; sending and
\* reading keep it.
LEMMA Sending == ASSUME CdcInv, HostSends PROVE CdcInv'
<1>1. PICK f \in HostFrames : sent' = Append(sent, f)
  BY DEF HostSends
<1>2. /\ sent' \in Seq(HostFrames) /\ sent' # <<>> /\ Len(sent') = Len(sent) + 1
      /\ sent'[Len(sent')] = f
      /\ \A i \in 1 .. Len(sent) : sent'[i] = sent[i]
      /\ Len(sent) \in Nat
  BY <1>1 DEF CdcInv, Places
<1>3. Len(f.payload) \in Nat
  BY CdcAssumption DEF CdcAssumption
<1>4. Places'
  BY <1>2, <1>3 DEF CdcInv, Places, HostSends, decoderVars, Current, FrameSize, HeaderSize
<1>5. OnlyLegalSent' => OnlyLegalSent
  BY <1>2 DEF OnlyLegalSent
<1>6. ASSUME OnlyLegalSent' PROVE InStep'
  <2>1. InStep /\ AllRead
    BY <1>5, <1>6 DEF CdcInv, HostSends
  <2>2. state = "Idle" /\ decoded = sent
    <3>1. sent # <<>> => got = 3 + Len(Current.payload)
      BY <2>1, CurrentFacts DEF CdcInv, AllRead, Unread, Places
    <3>2. sent # <<>> => Len(Current.payload) \in Nat
      BY CurrentFacts DEF CdcInv
    <3>3. QED
      BY <2>1, <3>1, <3>2
      DEF InStep, InIdle, InLenHigh, InLenLow, InPayload, HeaderSize
  <2>3. Before' = sent
    <3>1. Before' = SubSeq(sent', 1, Len(sent))
      BY <1>2 DEF Before
    <3>2. QED
      BY <1>1, <1>2, <3>1, AppendProperties, SubSeqProperties, SeqEqual DEF CdcInv, Places
  <2>4. QED
    BY <1>2, <2>1, <2>2, <2>3
    DEF HostSends, decoderVars, InStep, InIdle, InLenHigh, InLenLow, InPayload
<1>7. QED
  BY <1>4, <1>6 DEF CdcInv

LEMMA Reading == ASSUME CdcInv, PacketRead PROVE CdcInv'
<1>1. Places'
  BY CdcAssumption, CurrentFacts
  DEF CdcInv, Places, PacketRead, decoderVars, Current, AllRead, Unread, FrameSize,
      CdcAssumption
<1>2. OnlyLegalSent' => InStep'
  BY DEF CdcInv, PacketRead, decoderVars, OnlyLegalSent, InStep, InIdle, InLenHigh, InLenLow,
     InPayload, AllRead, Unread, Current, Before
<1>3. QED
  BY <1>1, <1>2 DEF CdcInv

----------------------------------------------------------------------------
(* Decoding *)

\* While a byte is there to decode, a frame is on its way.
LEMMA ByteThere ==
  ASSUME Places, got < read
  PROVE  /\ sent # <<>> /\ ~AllRead
         /\ got + 1 <= read /\ read <= 3 + Len(Current.payload)
BY CurrentFacts DEF Places, AllRead, Unread

LEMMA DecodingPlaces ==
  ASSUME Places, UNCHANGED <<sent, read>>, got < read, got' \in {got + 1, read},
         payload' \in [0 .. MaxPayload - 1 -> Byte]
  PROVE  Places'
BY DEF Places, Current, FrameSize

\* Where the frame ends, decode() has returned what was sent.
LEMMA FrameReturned ==
  ASSUME CdcInv, OnlyLegalSent, UNCHANGED <<sent, read, panicked>>, got < read, sent # <<>>,
         NEW n \in Nat, n = Len(Current.payload), got + 1 = HeaderSize + n,
         command_byte = Current.command, decoded = Before,
         \A j \in 0 .. n - 1 : payload'[j] = Current.payload[j + 1],
         ReturnsFrame(n), reset
  PROVE  InStep'
<1>1. /\ Current \in HostFrames
      /\ read = FrameSize(Current) /\ FrameSize(Current) \in Nat
  BY ByteThere, CurrentFacts DEF CdcInv, Places, HeaderSize
<1>2. [command |-> command_byte, payload |-> [i \in 1 .. n |-> payload'[i - 1]]] = Current
  BY <1>1, CopiedPayload
<1>3. decoded' = sent
  BY <1>2, BeforeAndCurrent DEF ReturnsFrame, CdcInv
<1>4. AllRead'
  BY <1>1 DEF ReturnsFrame, Returns, AllRead, Unread, Current, FrameSize
<1>5. QED
  BY <1>3, <1>4
  DEF reset, CdcInv, InStep, InIdle, InLenHigh, InLenLow, InPayload

LEMMA DecodingIdle == ASSUME CdcInv, IdleByte PROVE CdcInv'
<1>1. PICK b \in Byte :
        /\ NextByte("Idle", b) /\ command_byte' = b /\ state' = "LenHigh" /\ Continues
        /\ UNCHANGED <<length, payload_idx, payload, panicked, sent, read>>
  BY DEF IdleByte
<1>2. Places'
  BY <1>1, DecodingPlaces DEF NextByte, Continues, CdcInv, Places
<1>3. ASSUME OnlyLegalSent' PROVE InStep'
  <2>1. InStep /\ OnlyLegalSent
    BY <1>1, <1>3 DEF CdcInv, OnlyLegalSent
  <2>2. sent # <<>> /\ got = 0 /\ decoded = Before
    BY <1>1, <2>1, ByteThere DEF CdcInv, InStep, InIdle, NextByte
  <2>3. b = Current.command
    BY <1>1, <2>2 DEF NextByte, FrameByte
  <2>4. QED
    BY <1>1, <2>1, <2>2, <2>3
    DEF Continues, InStep, InIdle, InLenHigh, InLenLow, InPayload, Before, Current
<1>4. QED
  BY <1>2, <1>3 DEF CdcInv

LEMMA DecodingLenHigh == ASSUME CdcInv, LenHighByte PROVE CdcInv'
<1>1. PICK b \in Byte :
        /\ NextByte("LenHigh", b) /\ length' = b * Base /\ state' = "LenLow" /\ Continues
        /\ UNCHANGED <<command_byte, payload_idx, payload, panicked, sent, read>>
  BY DEF LenHighByte
<1>2. Places'
  BY <1>1, DecodingPlaces DEF NextByte, Continues, CdcInv, Places
<1>3. ASSUME OnlyLegalSent' PROVE InStep'
  <2>1. InStep /\ OnlyLegalSent
    BY <1>1, <1>3 DEF CdcInv, OnlyLegalSent
  <2>2. /\ sent # <<>> /\ got = 1 /\ decoded = Before
        /\ command_byte = Current.command
    BY <1>1, <2>1 DEF InStep, InLenHigh, NextByte
  <2>3. b = Len(Current.payload) \div Base
    BY <1>1, <2>2 DEF NextByte, FrameByte
  <2>4. QED
    BY <1>1, <2>1, <2>2, <2>3
    DEF Continues, InStep, InIdle, InLenHigh, InLenLow, InPayload, Before, Current
<1>4. QED
  BY <1>2, <1>3 DEF CdcInv

LEMMA DecodingLenLow == ASSUME CdcInv, LenLowByte PROVE CdcInv'
<1> DEFINE n == Len(Current.payload)
<1>1. PICK b \in Byte :
        /\ NextByte("LenLow", b)
        /\ UNCHANGED <<payload, panicked, sent, read>>
        /\ \/ TooLong(length + b) /\ reset /\ ReturnsNone
           \/ length + b = 0 /\ command_byte \in Known /\ ReturnsFrame(0) /\ reset
           \/ /\ length + b = 0 /\ command_byte \notin Known /\ ReturnsNone
              /\ UNCHANGED <<state, command_byte, length, payload_idx>>
           \/ /\ length + b > 0 /\ ~TooLong(length + b) /\ length' = length + b
              /\ payload_idx' = 0 /\ state' = "Payload" /\ Continues
              /\ UNCHANGED command_byte
  BY DEF LenLowByte
<1>2. got' \in {got + 1, read}
  BY <1>1 DEF ReturnsNone, ReturnsFrame, Returns, Continues
<1>3. Places'
  BY <1>1, <1>2, DecodingPlaces DEF NextByte, CdcInv, Places
<1>4. ASSUME OnlyLegalSent' PROVE InStep'
  <2>1. InStep /\ OnlyLegalSent
    BY <1>1, <1>4 DEF CdcInv, OnlyLegalSent
  <2>2. /\ sent # <<>> /\ got = 2 /\ decoded = Before
        /\ command_byte = Current.command
        /\ length = (n \div Base) * Base
    BY <1>1, <2>1 DEF InStep, InLenLow, NextByte
  <2>3. n \in Nat /\ n <= MaxPayload /\ command_byte \in Known
    BY <2>1, <2>2, CurrentFacts DEF CdcInv, Legal
  <2>4. length + b = n
    <3>1. Base \in Nat \ {0}
      BY CdcAssumption DEF CdcAssumption
    <3>2. ((n \div Base) * Base) + (n % Base) = n
      BY <2>3, <3>1, TwoLengthBytes
    <3>3. b = n % Base
      BY <1>1, <2>2 DEF NextByte, FrameByte
    <3>4. QED
      BY <2>2, <3>2, <3>3
  <2>5. ~TooLong(length + b)
    BY <2>3, <2>4, CdcAssumption DEF TooLong, CdcAssumption
  <2>6. CASE n = 0
    <3>1. ReturnsFrame(0) /\ reset
      BY <1>1, <2>3, <2>4, <2>5, <2>6
    <3>2. QED
      BY <1>1, <2>1, <2>2, <2>6, <3>1, FrameReturned DEF NextByte, HeaderSize
  <2>7. CASE n # 0
    <3>1. /\ n > 0 /\ length' = n /\ payload_idx' = 0 /\ state' = "Payload"
          /\ Continues /\ UNCHANGED command_byte
      BY <1>1, <2>3, <2>4, <2>5, <2>7
    <3>2. QED
      BY <1>1, <2>1, <2>2, <2>3, <3>1
      DEF Continues, InStep, InIdle, InLenHigh, InLenLow, InPayload, Before, Current,
          HeaderSize
  <2>8. QED
    BY <2>6, <2>7
<1>5. QED
  BY <1>3, <1>4 DEF CdcInv

LEMMA DecodingPayload == ASSUME CdcInv, PayloadByte PROVE CdcInv'
<1> DEFINE n == Len(Current.payload)
<1>1. PICK b \in Byte :
        /\ NextByte("Payload", b)
        /\ payload' = [payload EXCEPT ![payload_idx] = b]
        /\ UNCHANGED <<panicked, sent, read>>
        /\ \/ /\ ~PayloadDone(payload_idx + 1) /\ payload_idx' = payload_idx + 1
              /\ Continues /\ UNCHANGED <<state, command_byte, length>>
           \/ /\ PayloadDone(payload_idx + 1) /\ command_byte \in Known
              /\ ReturnsFrame(payload_idx + 1) /\ reset
           \/ /\ PayloadDone(payload_idx + 1) /\ command_byte \notin Known
              /\ payload_idx' = payload_idx + 1 /\ ReturnsNone
              /\ UNCHANGED <<state, command_byte, length>>
  BY DEF PayloadByte
<1>2. got' \in {got + 1, read}
  BY <1>1 DEF ReturnsNone, ReturnsFrame, Returns, Continues
<1>3. Places'
  BY <1>1, <1>2, DecodingPlaces DEF NextByte, CdcInv, Places
<1>4. ASSUME OnlyLegalSent' PROVE InStep'
  <2>1. InStep /\ OnlyLegalSent
    BY <1>1, <1>4 DEF CdcInv, OnlyLegalSent
  <2>2. /\ sent # <<>> /\ got = HeaderSize + payload_idx /\ decoded = Before
        /\ command_byte = Current.command /\ length = n
        /\ payload_idx \in Nat /\ payload_idx < n
        /\ \A j \in 0 .. payload_idx - 1 : payload[j] = Current.payload[j + 1]
    BY <1>1, <2>1 DEF InStep, InPayload, NextByte
  <2>3. n \in Nat /\ n <= MaxPayload /\ command_byte \in Known
    BY <2>1, <2>2, CurrentFacts DEF CdcInv, Legal
  <2>4. b = Current.payload[payload_idx + 1]
    BY <1>1, <2>2 DEF NextByte, FrameByte, HeaderSize
  <2>5. \A j \in 0 .. payload_idx : payload'[j] = Current.payload[j + 1]
    <3>1. payload_idx \in 0 .. MaxPayload - 1 /\ MaxPayload \in Nat
      BY <2>2, <2>3, CdcAssumption DEF CdcAssumption
    <3>2. payload \in [0 .. MaxPayload - 1 -> Byte]
      BY DEF CdcInv, Places
    <3>3. payload'[payload_idx] = b
      BY <1>1, <3>1, <3>2
    <3>4. ASSUME NEW j \in 0 .. payload_idx - 1 PROVE payload'[j] = payload[j]
      BY <1>1, <3>1, <3>2
    <3>5. ASSUME NEW j \in 0 .. payload_idx PROVE payload'[j] = Current.payload[j + 1]
      <4>1. CASE j = payload_idx
        BY <2>4, <3>3, <4>1
      <4>2. CASE j \in 0 .. payload_idx - 1
        BY <2>2, <3>4, <4>2
      <4>3. QED
        BY <3>1, <4>1, <4>2
    <3>6. QED
      BY <3>5
  <2>6. CASE payload_idx + 1 = n
    <3>1. PayloadDone(payload_idx + 1)
      BY <2>2, <2>3, <2>6 DEF PayloadDone
    <3>2. ReturnsFrame(payload_idx + 1) /\ reset
      BY <1>1, <2>3, <3>1
    <3>3. \A j \in 0 .. (payload_idx + 1) - 1 : payload'[j] = Current.payload[j + 1]
      BY <2>2, <2>5
    <3>4. payload_idx + 1 \in Nat /\ got + 1 = HeaderSize + (payload_idx + 1)
      BY <2>2 DEF HeaderSize
    <3>5. QED
      BY <1>1, <2>1, <2>2, <2>6, <3>2, <3>3, <3>4, FrameReturned DEF NextByte
  <2>7. CASE payload_idx + 1 # n
    <3>1. ~PayloadDone(payload_idx + 1) /\ payload_idx + 1 < n
      BY <2>2, <2>3, <2>7 DEF PayloadDone
    <3>2. /\ payload_idx' = payload_idx + 1 /\ Continues
          /\ UNCHANGED <<state, command_byte, length>>
      BY <1>1, <3>1
    <3>3. state' = "Payload"
      BY <1>1, <3>2 DEF NextByte
    <3>4. QED
      BY <1>1, <2>1, <2>2, <2>5, <3>1, <3>2, <3>3
      DEF Continues, InStep, InIdle, InLenHigh, InLenLow, InPayload, Before, Current,
          HeaderSize
  <2>8. QED
    BY <2>6, <2>7
<1>5. QED
  BY <1>3, <1>4 DEF CdcInv

\* In step, the array is indexed below the length, and so below its end.
LEMMA NoPanic == ASSUME CdcInv, PayloadPanics PROVE CdcInv'
<1>1. Places'
  BY DEF PayloadPanics, decoderVars, CdcInv, Places, Current
<1>2. ~OnlyLegalSent
  <2>1. SUFFICES ASSUME OnlyLegalSent PROVE FALSE
    OBVIOUS
  <2>2. InPayload /\ state = "Payload" /\ payload_idx >= MaxPayload
    BY <2>1 DEF CdcInv, InStep, PayloadPanics, NextByte
  <2>3. /\ sent # <<>> /\ payload_idx \in Nat
        /\ payload_idx < Len(Current.payload)
    BY <2>2 DEF InPayload
  <2>4. Len(Current.payload) <= MaxPayload /\ Len(Current.payload) \in Nat
    BY <2>1, <2>3, CurrentFacts DEF CdcInv, Legal
  <2>5. QED
    BY <2>2, <2>3, <2>4, CdcAssumption DEF CdcAssumption
<1>3. ~OnlyLegalSent'
  BY <1>2 DEF PayloadPanics, OnlyLegalSent
<1>4. QED
  BY <1>1, <1>3 DEF CdcInv

LEMMA CdcNext == CdcInv /\ [Next]_vars => CdcInv'
<1> SUFFICES ASSUME CdcInv, [Next]_vars PROVE CdcInv'
  OBVIOUS
<1>1. CASE HostSends
  BY <1>1, Sending
<1>2. CASE PacketRead
  BY <1>2, Reading
<1>3. CASE IdleByte
  BY <1>3, DecodingIdle
<1>4. CASE LenHighByte
  BY <1>4, DecodingLenHigh
<1>5. CASE LenLowByte
  BY <1>5, DecodingLenLow
<1>6. CASE PayloadByte
  BY <1>6, DecodingPayload
<1>7. CASE PayloadPanics
  BY <1>7, NoPanic
<1>8. CASE UNCHANGED vars
  BY <1>8
  DEF vars, decoderVars, CdcInv, Places, OnlyLegalSent, InStep, InIdle, InLenHigh, InLenLow,
      InPayload, AllRead, Unread, Current, Before
<1>9. QED
  BY <1>1, <1>2, <1>3, <1>4, <1>5, <1>6, <1>7, <1>8 DEF Next, Decode

----------------------------------------------------------------------------

LEMMA InStepDelivers == CdcInv => FramesComeOutAsSent /\ LegalNeverPanics
<1> SUFFICES ASSUME CdcInv, OnlyLegalSent
             PROVE  /\ decoded = IF AllRead THEN sent ELSE Before
                    /\ ~panicked
  BY DEF FramesComeOutAsSent, LegalNeverPanics, Before
<1>1. Places /\ InStep
  BY DEF CdcInv
<1>2. CASE sent # <<>>
  <2>1. /\ Len(Current.payload) \in Nat /\ FrameSize(Current) = 3 + Len(Current.payload)
    BY <1>1, <1>2, CurrentFacts
  <2>2. AllRead <=> got = 3 + Len(Current.payload)
    BY <1>1, <1>2, <2>1 DEF AllRead, Unread, Places
  <2>3. QED
    BY <1>1, <1>2, <2>1, <2>2
    DEF InStep, InIdle, InLenHigh, InLenLow, InPayload, HeaderSize
<1>3. CASE sent = <<>>
  BY <1>1, <1>3 DEF InStep, InIdle, InLenHigh, InLenLow, InPayload, AllRead, Unread
<1>4. QED
  BY <1>2, <1>3

\* Whatever the sizes of payloads and packets, as long as hosts send what the
\* protocol allows, decode() returns every frame once, in order and as it was
\* sent, and never indexes its payload array behind the end.
THEOREM FramesSafe == Spec => [](FramesComeOutAsSent /\ LegalNeverPanics)
<1>1. Spec => []CdcInv
  BY CdcInit, CdcNext, PTL DEF Spec
<1>2. QED
  BY <1>1, InStepDelivers, PTL

\* An obedient host cannot make the decoder index behind its payload array.
COROLLARY NoLegalPanic == Spec => []LegalNeverPanics
BY FramesSafe, PTL

\* The answers and the host around the decoder are steps of it or none, so
\* that this is also what the whole exchange does.
THEOREM ExchangeDecodes == ExchangeSpec => Spec /\ [](FramesComeOutAsSent /\ LegalNeverPanics)
<1>1. ExchangeInit => Init
  BY DEF ExchangeInit
<1>2. [ExchangeNext]_<<vars, exchangeVars>> => [Next]_vars
  BY DEF ExchangeNext, FirmwareStep, Waits, ReadsPacket, Decodes, Handle, Write, GiveUp, SendText,
     SendType, Ask, ReadHeader, ReadBody, TimeOut, Drain, Next
<1>3. ExchangeSpec => Spec
  BY <1>1, <1>2, PTL DEF ExchangeSpec, Spec
<1>4. QED
  BY <1>3, FramesSafe, PTL

----------------------------------------------------------------------------
(* The way back *)

Wire == [of : Nat, at : Nat, val : Nat]

LEMMA SplitFacts ==
  ASSUME NEW s \in Seq(Wire), NEW m \in 0 .. Len(s)
  PROVE  /\ SubSeq(s, 1, m) \in Seq(Wire) /\ Len(SubSeq(s, 1, m)) = m
         /\ \A k \in 1 .. m : SubSeq(s, 1, m)[k] = s[k]
         /\ SubSeq(s, m + 1, Len(s)) \in Seq(Wire)
         /\ Len(SubSeq(s, m + 1, Len(s))) = Len(s) - m
         /\ \A k \in 1 .. Len(s) - m : SubSeq(s, m + 1, Len(s))[k] = s[m + k]
<1>1. Len(s) \in Nat /\ m \in Nat /\ m <= Len(s) /\ \A k \in 1 .. Len(s) : s[k] \in Wire
  BY LenProperties, ElementOfSeq
<1>2. /\ SubSeq(s, 1, m) \in Seq(Wire)
      /\ Len(SubSeq(s, 1, m)) = IF 1 <= m THEN m - 1 + 1 ELSE 0
      /\ \A k \in 1 .. m - 1 + 1 : SubSeq(s, 1, m)[k] = s[1 + k - 1]
  <2>1. 1 \in Int /\ m \in Int /\ \A k \in 1 .. m : s[k] \in Wire
    BY <1>1
  <2>2. QED
    BY <2>1, SubSeqProperties
<1>3. /\ SubSeq(s, m + 1, Len(s)) \in Seq(Wire)
      /\ Len(SubSeq(s, m + 1, Len(s))) = IF m + 1 <= Len(s) THEN Len(s) - (m + 1) + 1 ELSE 0
      /\ \A k \in 1 .. Len(s) - (m + 1) + 1 :
           SubSeq(s, m + 1, Len(s))[k] = s[m + 1 + k - 1]
  <2>1. m + 1 \in Int /\ Len(s) \in Int /\ \A k \in m + 1 .. Len(s) : s[k] \in Wire
    BY <1>1
  <2>2. QED
    BY <2>1, SubSeqProperties
<1>4. Len(SubSeq(s, 1, m)) = m /\ \A k \in 1 .. m : SubSeq(s, 1, m)[k] = s[k]
  <2>1. m - 1 + 1 = m /\ \A k \in 1 .. m : 1 + k - 1 = k
    BY <1>1
  <2>2. QED
    BY <1>1, <1>2, <2>1
<1>5. /\ Len(SubSeq(s, m + 1, Len(s))) = Len(s) - m
      /\ \A k \in 1 .. Len(s) - m : SubSeq(s, m + 1, Len(s))[k] = s[m + k]
  <2>1. Len(s) - (m + 1) + 1 = Len(s) - m
    BY <1>1
  <2>2. Len(SubSeq(s, m + 1, Len(s))) = Len(s) - m
    <3>1. CASE m + 1 <= Len(s)
      BY <1>3, <2>1, <3>1
    <3>2. CASE ~(m + 1 <= Len(s))
      BY <1>1, <1>3, <3>2
    <3>3. QED
      BY <3>1, <3>2
  <2>3. ASSUME NEW k \in 1 .. Len(s) - m
        PROVE  SubSeq(s, m + 1, Len(s))[k] = s[m + k]
    <3>1. k \in 1 .. Len(s) - (m + 1) + 1 /\ m + 1 + k - 1 = m + k
      BY <1>1, <2>1
    <3>2. QED
      BY <1>3, <3>1
  <2>4. QED
    BY <2>2, <2>3
<1>6. QED
  BY <1>2, <1>3, <1>4, <1>5

\* bytes stands in whole behind its first n bytes.
Stands(bytes, whole, n) == \A k \in 1 .. Len(bytes) : bytes[k] = whole[n + k]

LEMMA StandsTogether ==
  ASSUME NEW s \in Seq(Wire), NEW t \in Seq(Wire), NEW whole, NEW n \in Nat,
         Stands(s, whole, n), Stands(t, whole, n + Len(s))
  PROVE  /\ s \o t \in Seq(Wire) /\ Len(s \o t) = Len(s) + Len(t)
         /\ Stands(s \o t, whole, n)
<1>1. /\ Len(s) \in Nat /\ Len(t) \in Nat
      /\ s \o t \in Seq(Wire) /\ Len(s \o t) = Len(s) + Len(t)
      /\ \A k \in 1 .. Len(s) + Len(t) :
           (s \o t)[k] = IF k <= Len(s) THEN s[k] ELSE t[k - Len(s)]
  BY LenProperties, ConcatProperties
<1>2. ASSUME NEW k \in 1 .. Len(s \o t)
      PROVE  (s \o t)[k] = whole[n + k]
  <2>1. CASE k <= Len(s)
    BY <1>1, <2>1 DEF Stands
  <2>2. CASE Len(s) < k
    <3>1. k - Len(s) \in 1 .. Len(t) /\ n + Len(s) + (k - Len(s)) = n + k
      BY <1>1, <2>2
    <3>2. QED
      BY <1>1, <2>2, <3>1 DEF Stands
  <2>3. QED
    BY <1>1, <2>1, <2>2
<1>3. QED
  BY <1>1, <1>2 DEF Stands

LEMMA StandsApart ==
  ASSUME NEW s \in Seq(Wire), NEW m \in 0 .. Len(s), NEW whole, NEW n \in Nat,
         Stands(s, whole, n)
  PROVE  /\ Stands(SubSeq(s, 1, m), whole, n)
         /\ Stands(SubSeq(s, m + 1, Len(s)), whole, n + m)
<1>1. Len(s) \in Nat /\ m \in Nat /\ m <= Len(s)
  BY LenProperties
<1>2. Stands(SubSeq(s, 1, m), whole, n)
  BY <1>1, SplitFacts DEF Stands
<1>3. ASSUME NEW k \in 1 .. Len(s) - m
      PROVE  SubSeq(s, m + 1, Len(s))[k] = whole[n + m + k]
  <2>1. m + k \in 1 .. Len(s) /\ n + (m + k) = n + m + k
    BY <1>1
  <2>2. QED
    BY <2>1, SplitFacts DEF Stands
<1>4. QED
  BY <1>2, <1>3, SplitFacts DEF Stands

\* A reply's bytes know their reply and their place, and its length bytes say
\* its length, unless the async firmware cut the length to a byte.
LEMMA ReplyFacts ==
  ASSUME NEW id \in Nat, NEW n \in 0 .. MaxPayload, firmware \in {"sync", "async"}
  PROVE  /\ Reply(id, n) \in Seq(Wire) /\ Len(Reply(id, n)) = HeaderSize + n
         /\ \A k \in 1 .. HeaderSize + n :
              Reply(id, n)[k].of = id /\ Reply(id, n)[k].at = k
         /\ firmware = "sync" \/ n < Base => Announced(Reply(id, n)) = n
<1>1. Base \in Nat \ {0} /\ Base >= 2 /\ n \in Nat /\ HeaderSize = 3
  BY CdcAssumption DEF CdcAssumption, HeaderSize
<1>2. n \div Base \in Nat /\ n % Base \in Nat
  BY <1>1
<1>3. /\ LengthBytes(n)[1] \in Nat /\ LengthBytes(n)[2] = n % Base
      /\ firmware = "sync" => LengthBytes(n)[1] = n \div Base
      /\ firmware # "sync" => LengthBytes(n)[1] = 0
  BY <1>2 DEF LengthBytes
<1>4. ASSUME NEW k \in 1 .. HeaderSize + n
      PROVE  /\ (IF k \in 2 .. 3 THEN LengthBytes(n)[k - 1] ELSE Other) \in Nat
             /\ k \in Nat
  <2>1. CASE k \in 2 .. 3
    <3>1. k - 1 \in {1, 2}
      BY <2>1
    <3>2. QED
      BY <1>2, <1>3, <2>1, <3>1
  <2>2. QED
    BY <1>1, <2>1 DEF Other
<1>5. Reply(id, n) \in Seq(Wire) /\ Len(Reply(id, n)) = HeaderSize + n
  BY <1>1, <1>4 DEF Reply, Wire
<1>6. ASSUME NEW k \in 1 .. HeaderSize + n
      PROVE  /\ Reply(id, n)[k].of = id /\ Reply(id, n)[k].at = k
             /\ k \in 2 .. 3 => Reply(id, n)[k].val = LengthBytes(n)[k - 1]
  BY DEF Reply
<1>7. 2 \in 1 .. HeaderSize + n /\ 3 \in 1 .. HeaderSize + n
  BY <1>1
<1>8. /\ Reply(id, n)[2].val = LengthBytes(n)[1]
      /\ Reply(id, n)[3].val = LengthBytes(n)[2]
  <2>1. Reply(id, n)[2].val = LengthBytes(n)[2 - 1] /\ Reply(id, n)[3].val = LengthBytes(n)[3 - 1]
    BY <1>6, <1>7
  <2>2. QED
    BY <2>1
<1>9. ASSUME firmware = "sync" \/ n < Base PROVE Announced(Reply(id, n)) = n
  <2>1. CASE firmware = "sync"
    <3>1. ((n \div Base) * Base) + (n % Base) = n
      BY <1>1, TwoLengthBytes
    <3>2. QED
      BY <1>3, <1>8, <2>1, <3>1 DEF Announced
  <2>2. CASE firmware # "sync"
    <3>1. n % Base = n
      BY <1>1, <1>9, <2>2
    <3>2. 0 * Base = 0
      BY <1>1
    <3>3. QED
      BY <1>1, <1>3, <1>8, <2>2, <3>1, <3>2 DEF Announced
  <2>3. QED
    BY <2>1, <2>2
<1>10. QED
  BY <1>5, <1>6, <1>9

ExchangeTypes ==
  /\ reply \in Seq(Wire) /\ pipe \in Seq(Wire) /\ answer \in Seq(Wire)
  /\ answered \in Nat /\ size \in 0 .. MaxPayload
  /\ firmware \in {"sync", "async"}
  /\ host \in {"idle", "header", "body", "returned"}
  /\ host = "header" => Len(answer) = 0
  /\ host = "body" => Len(answer) = HeaderSize

\* The reply to the last request, if it has been handled.
Due == Reply(Len(sent), size)

\* Nothing is on its way.
Quiet == AllRead /\ answered = Len(sent) /\ Len(reply) = 0 /\ Len(pipe) = 0

\* What send_recv returned is the reply, as far as it was written.
Returned ==
  /\ Stands(answer, Due, 0)
  /\ Len(answer) <= HeaderSize + size
  /\ cut \/ Len(answer) = HeaderSize + size

\* The request is on its way to the firmware's handler.
Asking ==
  /\ sent # <<>> /\ answered = Len(sent) - 1
  /\ host = "header" /\ Len(reply) = 0 /\ Len(pipe) = 0

\* The reply is on its way to the host: a part was read, a part was written,
\* and the rest was kept or given up.
Answering ==
  /\ sent # <<>> /\ AllRead /\ answered = Len(sent)
  /\ firmware = "sync" \/ size < Base
  /\ Stands(answer, Due, 0)
  /\ Stands(pipe, Due, Len(answer))
  /\ Stands(reply, Due, Len(answer) + Len(pipe))
  /\ Len(answer) + Len(pipe) + Len(reply) <= HeaderSize + size
  /\ cut \/ Len(answer) + Len(pipe) + Len(reply) = HeaderSize + size

InTurn ==
  /\ host \in {"idle", "returned"} => Quiet
  /\ host = "returned" => Returned
  /\ host \in {"header", "body"} => Asking \/ Answering

ExchangeInv == CdcInv /\ ExchangeTypes /\ (OnlyLegalSent /\ instep => InTurn)

\* A type byte that is still to come is something else that can arrive.
OwedIsElse == owed => ~instep

LEMMA OwedStep == OwedIsElse /\ [ExchangeNext]_<<vars, exchangeVars>> => OwedIsElse'
BY DEF OwedIsElse, ExchangeNext, FirmwareStep, Waits, ReadsPacket, Decodes, Handle, Write, GiveUp,
   SendText, SendType, Ask, ReadHeader, ReadBody, TimeOut, Drain, Free, exchangeVars, firmwareVars

LEMMA DueFacts ==
  ASSUME ExchangeInv
  PROVE  /\ Due \in Seq(Wire) /\ Len(Due) = HeaderSize + size
         /\ \A k \in 1 .. HeaderSize + size : Due[k].of = Len(sent) /\ Due[k].at = k
         /\ firmware = "sync" \/ size < Base => Announced(Due) = size
         /\ size \in Nat /\ Len(reply) \in Nat /\ Len(pipe) \in Nat /\ Len(answer) \in Nat
<1>1. Len(sent) \in Nat /\ MaxPayload \in Nat
  BY LenProperties, CdcAssumption DEF ExchangeInv, CdcInv, Places, CdcAssumption
<1>2. /\ size \in 0 .. MaxPayload /\ firmware \in {"sync", "async"}
      /\ reply \in Seq(Wire) /\ pipe \in Seq(Wire) /\ answer \in Seq(Wire)
  BY DEF ExchangeInv, ExchangeTypes
<1>3. size \in Nat /\ Len(reply) \in Nat /\ Len(pipe) \in Nat /\ Len(answer) \in Nat
  BY <1>1, <1>2, LenProperties
<1>4. QED
  BY <1>1, <1>2, <1>3, ReplyFacts DEF Due

\* As long as hosts send what the protocol allows, a frame is decoded once its
\* last byte is.
LEMMA DecodedFacts ==
  ASSUME CdcInv, OnlyLegalSent
  PROVE  /\ Len(sent) \in Nat
         /\ AllRead => Len(decoded) = Len(sent)
         /\ ~AllRead => sent # <<>> /\ Len(decoded) = Len(sent) - 1
<1>1. decoded = IF AllRead THEN sent ELSE Before
  BY InStepDelivers DEF FramesComeOutAsSent, Before
<1>2. sent \in Seq(HostFrames) /\ Len(sent) \in Nat
  BY LenProperties DEF CdcInv, Places
<1>3. ASSUME ~AllRead PROVE sent # <<>> /\ Len(Before) = Len(sent) - 1
  <2>1. sent # <<>>
    BY <1>3 DEF AllRead, Unread
  <2>2. Len(sent) \in Nat \ {0} /\ Append(Before, Current) = sent
    BY <2>1, BeforeAndCurrent, CurrentFacts DEF CdcInv
  <2>3. Len(sent) - 1 \in Int /\ \A i \in 1 .. Len(sent) - 1 : sent[i] \in HostFrames
    BY <1>2, <2>2, ElementOfSeq
  <2>4. Before \in Seq(HostFrames)
    BY <2>3, SubSeqProperties DEF Before
  <2>5. Len(sent) = Len(Before) + 1 /\ Len(Before) \in Nat
    BY <2>2, <2>4, AppendProperties, CurrentFacts, LenProperties DEF CdcInv
  <2>6. QED
    BY <2>1, <2>5
<1>4. QED
  BY <1>1, <1>2, <1>3

LEMMA ExchangeStarts == ExchangeInit => ExchangeInv
<1> SUFFICES ASSUME ExchangeInit PROVE ExchangeInv
  OBVIOUS
<1>1. CdcInv
  BY CdcInit DEF ExchangeInit
<1>2. <<>> \in Seq(Wire) /\ Len(<<>>) = 0 /\ MaxPayload \in Nat
  BY EmptySeq, CdcAssumption DEF CdcAssumption
<1>3. ExchangeTypes
  BY <1>2 DEF ExchangeInit, ExchangeTypes
<1>4. Quiet
  BY <1>2 DEF ExchangeInit, Init, Quiet, AllRead, Unread
<1>5. InTurn
  BY <1>4 DEF ExchangeInit, InTurn
<1>6. QED
  BY <1>1, <1>3, <1>5 DEF ExchangeInv

\* Steps that leave every answer where it is.
LEMMA FrameStep ==
  ASSUME ExchangeInv, CdcInv', Decodes \/ ReadsPacket \/ Waits
  PROVE  ExchangeInv'
<1>1. /\ UNCHANGED <<firmware, answered, reply, size, hostVars, pipe, cut, instep, sent>>
      /\ Decode \/ PacketRead \/ UNCHANGED vars
  BY DEF Decodes, ReadsPacket, Waits, exchangeVars, firmwareVars, PacketRead, Decode,
     IdleByte, LenHighByte, LenLowByte, PayloadByte, PayloadPanics, vars
<1>2. ExchangeTypes'
  BY <1>1 DEF ExchangeInv, ExchangeTypes, hostVars
<1>3. ASSUME OnlyLegalSent', instep' PROVE InTurn'
  <2>1. OnlyLegalSent /\ InTurn
    BY <1>1, <1>3 DEF OnlyLegalSent, ExchangeInv
  <2>2. AllRead => UNCHANGED vars
    <3>1. ASSUME Decode PROVE ~AllRead
      <4>1. got < read
        BY <3>1 DEF Decode, IdleByte, LenHighByte, LenLowByte, PayloadByte, PayloadPanics,
           NextByte
      <4>2. QED
        BY <4>1, ByteThere DEF ExchangeInv, CdcInv
    <3>2. PacketRead => ~AllRead
      BY DEF PacketRead
    <3>3. QED
      BY <1>1, <3>1, <3>2
  <2>3. /\ Due' = Due
        /\ AllRead => AllRead'
    BY <1>1, <2>2 DEF Due, Reply, LengthBytes, AllRead, Unread, Current, vars
  <2>4. Quiet => Quiet'
    BY <1>1, <2>3 DEF Quiet
  <2>5. Asking => Asking'
    BY <1>1 DEF Asking, hostVars
  <2>6. Answering => Answering'
    BY <1>1, <2>3 DEF Answering, hostVars
  <2>7. Returned => Returned'
    BY <1>1, <2>3 DEF Returned, hostVars
  <2>8. QED
    BY <1>1, <2>1, <2>4, <2>5, <2>6, <2>7 DEF InTurn, hostVars
<1>4. QED
  BY <1>2, <1>3 DEF ExchangeInv

\* A handled request's reply is all there.
LEMMA HandleStep ==
  ASSUME ExchangeInv, CdcInv', Handle
  PROVE  ExchangeInv'
<1>1. PICK n \in 0 .. MaxPayload :
        /\ size' = n /\ reply' = Reply(answered', n)
        /\ instep' = (instep /\ (firmware = "sync" \/ n < Base))
  BY DEF Handle
<1>2. /\ Len(reply) = 0 /\ answered < Len(decoded) /\ answered' = answered + 1 /\ cut' = FALSE
      /\ UNCHANGED <<sent, got, read, firmware, pipe, host, answer>>
  BY EmptySeq DEF Handle, vars, hostVars
<1>3. /\ answered' \in Nat /\ firmware' \in {"sync", "async"}
      /\ Len(pipe) \in Nat /\ Len(answer) \in Nat
  BY <1>2, DueFacts DEF ExchangeInv, ExchangeTypes
<1>4. reply' \in Seq(Wire) /\ Len(reply') = HeaderSize + n
  BY <1>1, <1>3, ReplyFacts DEF ExchangeInv, ExchangeTypes
<1>5. ExchangeTypes'
  BY <1>1, <1>2, <1>3, <1>4 DEF ExchangeInv, ExchangeTypes
<1>6. ASSUME OnlyLegalSent', instep' PROVE InTurn'
  <2>1. OnlyLegalSent /\ InTurn /\ (firmware = "sync" \/ n < Base)
    BY <1>1, <1>2, <1>6 DEF OnlyLegalSent, ExchangeInv
  <2>2. Len(decoded) <= Len(sent) /\ Len(sent) \in Nat
    BY <2>1, DecodedFacts DEF ExchangeInv
  <2>3. Asking
    BY <1>2, <2>1, <2>2 DEF InTurn, Quiet, Answering, ExchangeInv, ExchangeTypes
  <2>4. AllRead /\ answered' = Len(sent) /\ sent # <<>> /\ host = "header"
    <3>1. Len(decoded) = Len(sent)
      BY <1>2, <1>3, <2>2, <2>3 DEF Asking, ExchangeInv, ExchangeTypes
    <3>2. QED
      BY <1>2, <2>1, <2>2, <2>3, <3>1, DecodedFacts DEF Asking, ExchangeInv
  <2>5. Due' = reply'
    BY <1>1, <1>2, <2>4 DEF Due, Reply, LengthBytes
  <2>6. AllRead'
    BY <1>2, <2>4 DEF AllRead, Unread, Current
  <2>7. Len(answer) = 0 /\ Len(pipe) = 0
    BY <2>3, <2>4 DEF Asking, ExchangeInv, ExchangeTypes
  <2>8. Answering'
    <3>1. Stands(answer', Due', 0) /\ Stands(pipe', Due', Len(answer'))
      BY <1>2, <2>7 DEF Stands
    <3>2. Stands(reply', Due', Len(answer') + Len(pipe'))
      <4>1. Len(answer') + Len(pipe') = 0 /\ \A k \in 1 .. Len(reply') : 0 + k = k
        BY <1>2, <2>7
      <4>2. QED
        BY <2>5, <4>1 DEF Stands
    <3>3. Len(answer') + Len(pipe') + Len(reply') = HeaderSize + size'
      BY <1>1, <1>2, <1>4, <2>7 DEF HeaderSize
    <3>4. HeaderSize + size' \in Nat
      BY <1>1 DEF HeaderSize
    <3>5. QED
      BY <1>1, <1>2, <2>1, <2>4, <2>6, <3>1, <3>2, <3>3, <3>4 DEF Answering
  <2>9. QED
    BY <1>2, <2>4, <2>8 DEF InTurn
<1>7. QED
  BY <1>5, <1>6 DEF ExchangeInv

LEMMA WriteStep ==
  ASSUME ExchangeInv, CdcInv', Write
  PROVE  ExchangeInv'
<1>1. PICK m \in 1 .. Len(reply) :
        /\ pipe' = pipe \o SubSeq(reply, 1, m)
        /\ reply' = SubSeq(reply, m + 1, Len(reply))
  BY DEF Write
<1>2. UNCHANGED <<sent, got, read, firmware, answered, size, host, answer, cut, instep>>
  BY DEF Write, vars, hostVars
<1>3. /\ reply \in Seq(Wire) /\ pipe \in Seq(Wire)
      /\ Len(reply) \in Nat /\ Len(pipe) \in Nat /\ Len(answer) \in Nat
      /\ m \in 0 .. Len(reply) /\ m \in Nat /\ Len(reply) # 0
  BY <1>1, DueFacts DEF ExchangeInv, ExchangeTypes
<1>4. /\ SubSeq(reply, 1, m) \in Seq(Wire) /\ Len(SubSeq(reply, 1, m)) = m
      /\ reply' \in Seq(Wire) /\ Len(reply') = Len(reply) - m
  BY <1>1, <1>3, SplitFacts
<1>5. pipe' \in Seq(Wire) /\ Len(pipe') = Len(pipe) + m
  BY <1>1, <1>3, <1>4, ConcatProperties
<1>6. ExchangeTypes'
  BY <1>2, <1>4, <1>5 DEF ExchangeInv, ExchangeTypes
<1>7. ASSUME OnlyLegalSent', instep' PROVE InTurn'
  <2>1. OnlyLegalSent /\ InTurn
    BY <1>2, <1>7 DEF OnlyLegalSent, ExchangeInv
  <2>2. Answering /\ host \in {"header", "body"}
    BY <1>3, <2>1 DEF InTurn, Quiet, Asking, ExchangeInv, ExchangeTypes
  <2>3. Due' = Due /\ (AllRead => AllRead')
    BY <1>2 DEF Due, Reply, LengthBytes, AllRead, Unread, Current
  <2>4. /\ Stands(pipe, Due, Len(answer))
        /\ Stands(reply, Due, Len(answer) + Len(pipe))
    BY <2>2 DEF Answering
  <2>5. /\ Stands(SubSeq(reply, 1, m), Due, Len(answer) + Len(pipe))
        /\ Stands(reply', Due, Len(answer) + Len(pipe) + m)
    BY <1>1, <1>3, <2>4, StandsApart
  <2>6. Stands(pipe', Due, Len(answer))
    BY <1>1, <1>3, <1>4, <2>4, <2>5, StandsTogether
  <2>7. Len(answer) + Len(pipe') = Len(answer) + Len(pipe) + m
    BY <1>3, <1>5
  <2>8. Stands(reply', Due, Len(answer) + Len(pipe'))
    BY <2>5, <2>7
  <2>9. Len(answer) + Len(pipe') + Len(reply') = Len(answer) + Len(pipe) + Len(reply)
    BY <1>3, <1>4, <1>5
  <2>10. Answering'
    BY <1>2, <2>2, <2>3, <2>6, <2>8, <2>9 DEF Answering
  <2>11. QED
    BY <1>2, <2>2, <2>10 DEF InTurn
<1>8. QED
  BY <1>6, <1>7 DEF ExchangeInv

\* What is left of a reply is dropped: what was written stands in its place.
LEMMA GiveUpStep ==
  ASSUME ExchangeInv, CdcInv', GiveUp
  PROVE  ExchangeInv'
<1>1. /\ reply' = <<>> /\ cut' = TRUE /\ reply # <<>>
      /\ UNCHANGED <<sent, got, read, firmware, answered, size, host, answer, pipe, instep>>
  BY DEF GiveUp, vars, hostVars
<1>2. /\ <<>> \in Seq(Wire) /\ Len(<<>>) = 0 /\ Len(reply) # 0
      /\ Len(reply) \in Nat /\ Len(pipe) \in Nat /\ Len(answer) \in Nat
  BY <1>1, EmptySeq, DueFacts DEF ExchangeInv, ExchangeTypes
<1>3. ExchangeTypes'
  BY <1>1, <1>2 DEF ExchangeInv, ExchangeTypes
<1>4. ASSUME OnlyLegalSent', instep' PROVE InTurn'
  <2>1. OnlyLegalSent /\ InTurn
    BY <1>1, <1>4 DEF OnlyLegalSent, ExchangeInv
  <2>2. Answering /\ host \in {"header", "body"}
    BY <1>2, <2>1 DEF InTurn, Quiet, Asking, ExchangeInv, ExchangeTypes
  <2>3. Due' = Due /\ (AllRead => AllRead')
    BY <1>1 DEF Due, Reply, LengthBytes, AllRead, Unread, Current
  <2>4. Len(answer) + Len(pipe) + Len(reply) <= HeaderSize + size
    BY <2>2 DEF Answering
  <2>5. Len(answer') + Len(pipe') + Len(reply') <= HeaderSize + size'
    <3>1. HeaderSize + size \in Nat
      BY DueFacts DEF HeaderSize
    <3>2. QED
      BY <1>1, <1>2, <2>4, <3>1
  <2>6. Stands(reply', Due', Len(answer') + Len(pipe'))
    BY <1>1, <1>2 DEF Stands
  <2>7. Answering'
    BY <1>1, <2>2, <2>3, <2>5, <2>6 DEF Answering
  <2>8. QED
    BY <1>1, <2>2, <2>7 DEF InTurn
<1>5. QED
  BY <1>3, <1>4 DEF ExchangeInv

LEMMA SendTextStep ==
  ASSUME ExchangeInv, CdcInv', SendText
  PROVE  ExchangeInv'
<1>1. /\ pipe' = pipe \o Text /\ instep' = FALSE
      /\ UNCHANGED <<firmware, answered, reply, size, host, answer>>
  BY DEF SendText, hostVars
<1>2. Text \in Seq(Wire)
  BY ExchangeAssumption DEF ExchangeAssumption, Text, Wire, Other
<1>3. pipe' \in Seq(Wire)
  BY <1>1, <1>2, ConcatProperties DEF ExchangeInv, ExchangeTypes
<1>4. QED
  BY <1>1, <1>3 DEF ExchangeInv, ExchangeTypes

LEMMA SendTypeStep ==
  ASSUME ExchangeInv, OwedIsElse, CdcInv', SendType
  PROVE  ExchangeInv'
<1>1. /\ pipe' = pipe \o TypeByte /\ ~instep'
      /\ UNCHANGED <<firmware, answered, reply, size, host, answer>>
  BY DEF SendType, OwedIsElse, hostVars
<1>2. TypeByte \in Seq(Wire)
  BY ExchangeAssumption DEF ExchangeAssumption, TypeByte, Wire, Other
<1>3. pipe' \in Seq(Wire)
  BY <1>1, <1>2, ConcatProperties DEF ExchangeInv, ExchangeTypes
<1>4. QED
  BY <1>1, <1>3 DEF ExchangeInv, ExchangeTypes

\* A request is sent when nothing is on its way.
LEMMA AskStep ==
  ASSUME ExchangeInv, CdcInv', Ask
  PROVE  ExchangeInv'
<1>1. /\ host \in {"idle", "returned"} /\ host' = "header" /\ answer' = <<>>
      /\ UNCHANGED <<firmware, answered, reply, size, pipe, instep>>
  BY DEF Ask, firmwareVars
<1>2. PICK f \in HostFrames : sent' = Append(sent, f)
  BY DEF Ask, HostSends
<1>3. /\ sent' # <<>> /\ Len(sent') = Len(sent) + 1 /\ Len(sent) \in Nat
      /\ \A i \in 1 .. Len(sent) : sent'[i] = sent[i]
  <2>1. sent \in Seq(HostFrames)
    BY DEF ExchangeInv, CdcInv, Places
  <2>2. QED
    BY <1>2, <2>1, AppendProperties, LenProperties
<1>4. OnlyLegalSent' => OnlyLegalSent
  BY <1>3 DEF OnlyLegalSent
<1>5. <<>> \in Seq(Wire) /\ Len(<<>>) = 0
  BY EmptySeq
<1>6. ExchangeTypes'
  BY <1>1, <1>5 DEF ExchangeInv, ExchangeTypes
<1>7. ASSUME OnlyLegalSent', instep' PROVE InTurn'
  <2>1. Quiet
    BY <1>1, <1>4, <1>7 DEF ExchangeInv, InTurn
  <2>2. Asking'
    BY <1>1, <1>3, <2>1 DEF Quiet, Asking
  <2>3. QED
    BY <1>1, <2>2 DEF InTurn
<1>8. QED
  BY <1>6, <1>7 DEF ExchangeInv

LEMMA ReadHeaderStep ==
  ASSUME ExchangeInv, CdcInv', ReadHeader
  PROVE  ExchangeInv'
<1>1. /\ host = "header" /\ Len(pipe) >= HeaderSize
      /\ answer' = SubSeq(pipe, 1, HeaderSize)
      /\ pipe' = SubSeq(pipe, HeaderSize + 1, Len(pipe))
      /\ host' = IF Announced(answer') = 0 THEN "returned" ELSE "body"
      /\ UNCHANGED <<sent, got, read, firmware, answered, reply, size, cut, instep>>
  BY DEF ReadHeader, vars, firmwareVars
<1>2. /\ pipe \in Seq(Wire) /\ Len(pipe) \in Nat /\ Len(reply) \in Nat
      /\ HeaderSize \in 0 .. Len(pipe) /\ HeaderSize = 3 /\ Len(answer) = 0
      /\ size \in Nat
  <2>1. Len(pipe) \in Nat /\ Len(reply) \in Nat /\ size \in Nat
    BY DueFacts
  <2>2. HeaderSize = 3
    BY DEF HeaderSize
  <2>3. pipe \in Seq(Wire) /\ Len(answer) = 0
    BY <1>1 DEF ExchangeInv, ExchangeTypes
  <2>4. QED
    BY <1>1, <2>1, <2>2, <2>3
<1>3. /\ answer' \in Seq(Wire) /\ Len(answer') = 3
      /\ pipe' \in Seq(Wire) /\ Len(pipe') = Len(pipe) - 3
  <2>1. /\ SubSeq(pipe, 1, HeaderSize) \in Seq(Wire)
        /\ Len(SubSeq(pipe, 1, HeaderSize)) = HeaderSize
        /\ SubSeq(pipe, HeaderSize + 1, Len(pipe)) \in Seq(Wire)
        /\ Len(SubSeq(pipe, HeaderSize + 1, Len(pipe))) = Len(pipe) - HeaderSize
    <3>1. pipe \in Seq(Wire) /\ HeaderSize \in 0 .. Len(pipe)
      BY <1>2
    <3>2. QED
      BY ONLY <3>1, SplitFacts
  <2>2. QED
    BY <1>1, <1>2, <2>1
<1>4. ExchangeTypes'
  BY <1>1, <1>2, <1>3 DEF ExchangeInv, ExchangeTypes
<1>5. ASSUME OnlyLegalSent', instep' PROVE InTurn'
  <2>1. OnlyLegalSent /\ InTurn
    BY <1>1, <1>5 DEF OnlyLegalSent, ExchangeInv
  <2>2. Answering
    BY <1>1, <1>2, <2>1 DEF InTurn, Asking
  <2>3. Due' = Due /\ AllRead'
    BY <1>1, <2>2 DEF Due, Reply, LengthBytes, AllRead, Unread, Current, Answering
  <2>4. Stands(pipe, Due, 0) /\ Stands(reply, Due, 0 + Len(pipe))
    BY <1>2, <2>2 DEF Answering
  <2>5. Stands(answer', Due, 0) /\ Stands(pipe', Due, 0 + 3)
    BY <1>1, <1>2, <2>4, StandsApart
  <2>6. /\ Len(pipe) + Len(reply) <= HeaderSize + size
        /\ cut \/ Len(pipe) + Len(reply) = HeaderSize + size
        /\ firmware = "sync" \/ size < Base
    BY <1>2, <2>2 DEF Answering
  <2>7. Announced(answer') = size
    <3>1. answer'[2] = Due[2] /\ answer'[3] = Due[3]
      <4>1. 2 \in 1 .. Len(answer') /\ 3 \in 1 .. Len(answer') /\ 0 + 2 = 2 /\ 0 + 3 = 3
        BY <1>3
      <4>2. answer'[2] = Due[0 + 2] /\ answer'[3] = Due[0 + 3]
        BY <2>5, <4>1 DEF Stands
      <4>3. QED
        BY <4>1, <4>2
    <3>2. QED
      BY <2>6, <3>1, DueFacts DEF Announced
  <2>8. CASE size = 0
    <3>1. Len(pipe') = 0 /\ Len(reply') = 0
      BY <1>1, <1>2, <1>3, <2>6, <2>8
    <3>2. Quiet'
      BY <1>1, <2>2, <2>3, <3>1 DEF Answering, Quiet
    <3>3. Returned'
      BY <1>1, <1>2, <1>3, <2>3, <2>5, <2>8 DEF Returned, HeaderSize
    <3>4. QED
      BY <1>1, <2>7, <2>8, <3>2, <3>3 DEF InTurn
  <2>9. CASE size # 0
    <3>1. Stands(pipe', Due', Len(answer'))
      BY <1>3, <2>3, <2>5
    <3>2. Stands(reply', Due', Len(answer') + Len(pipe'))
      <4>1. Len(answer') + Len(pipe') = 0 + Len(pipe)
        BY <1>2, <1>3
      <4>2. QED
        BY <1>1, <2>3, <2>4, <4>1
    <3>3. /\ Len(answer') + Len(pipe') + Len(reply') <= HeaderSize + size'
          /\ cut' \/ Len(answer') + Len(pipe') + Len(reply') = HeaderSize + size'
      <4>1. Len(answer') + Len(pipe') + Len(reply') = Len(pipe) + Len(reply)
        BY <1>1, <1>2, <1>3
      <4>2. QED
        BY <1>1, <2>6, <4>1
    <3>4. Answering'
      BY <1>1, <2>2, <2>3, <2>5, <3>1, <3>2, <3>3 DEF Answering
    <3>5. QED
      BY <1>1, <2>7, <2>9, <3>4 DEF InTurn
  <2>10. QED
    BY <2>8, <2>9
<1>6. QED
  BY <1>4, <1>5 DEF ExchangeInv

LEMMA ReadBodyStep ==
  ASSUME ExchangeInv, CdcInv', ReadBody
  PROVE  ExchangeInv'
<1> DEFINE a == Announced(answer)
<1>1. /\ host = "body" /\ Len(pipe) >= a
      /\ answer' = answer \o SubSeq(pipe, 1, a)
      /\ pipe' = SubSeq(pipe, a + 1, Len(pipe))
      /\ host' = "returned"
      /\ UNCHANGED <<sent, got, read, firmware, answered, reply, size, cut, instep>>
  BY DEF ReadBody, vars, firmwareVars
<1>2. /\ pipe \in Seq(Wire) /\ Len(pipe) \in Nat /\ Len(reply) \in Nat
      /\ answer \in Seq(Wire) /\ Len(answer) = 3 /\ size \in Nat
  BY <1>1, DueFacts DEF ExchangeInv, ExchangeTypes, HeaderSize
<1>3. a \in Nat
  <2>1. answer[2] \in Wire /\ answer[3] \in Wire
    <3>1. 2 \in 1 .. Len(answer) /\ 3 \in 1 .. Len(answer)
      BY <1>2
    <3>2. QED
      BY <1>2, <3>1, ElementOfSeq
  <2>2. Base \in Nat /\ answer[2].val \in Nat /\ answer[3].val \in Nat
    BY <2>1, CdcAssumption DEF CdcAssumption, Wire
  <2>3. QED
    BY <2>2 DEF Announced
<1> HIDE DEF a
<1>4. a \in 0 .. Len(pipe)
  BY <1>1, <1>2, <1>3
<1>5. /\ SubSeq(pipe, 1, a) \in Seq(Wire) /\ Len(SubSeq(pipe, 1, a)) = a
      /\ pipe' \in Seq(Wire) /\ Len(pipe') = Len(pipe) - a
  BY <1>1, <1>2, <1>4, SplitFacts
<1>6. answer' \in Seq(Wire) /\ Len(answer') = 3 + a
  <2> DEFINE body == SubSeq(pipe, 1, a)
  <2>1. body \in Seq(Wire) /\ Len(body) = a
    BY <1>5
  <2> HIDE DEF body
  <2>2. answer \in Seq(Wire)
    BY <1>2
  <2>3. answer \o body \in Seq(Wire) /\ Len(answer \o body) = Len(answer) + Len(body)
    BY <2>1, <2>2, ConcatProperties
  <2>4. Len(answer \o body) = 3 + a
    BY <1>2, <2>1, <2>3
  <2>5. QED
    BY <1>1, <2>3, <2>4 DEF body
<1>7. ExchangeTypes'
  BY <1>1, <1>5, <1>6 DEF ExchangeInv, ExchangeTypes
<1>8. ASSUME OnlyLegalSent', instep' PROVE InTurn'
  <2>1. OnlyLegalSent /\ InTurn
    BY <1>1, <1>8 DEF OnlyLegalSent, ExchangeInv
  <2>2. Answering
    BY <1>1, <2>1 DEF InTurn, Asking
  <2>3. Due' = Due /\ AllRead'
    BY <1>1, <2>2 DEF Due, Reply, LengthBytes, AllRead, Unread, Current, Answering
  <2>4. Stands(answer, Due, 0) /\ Stands(pipe, Due, 0 + Len(answer))
    BY <1>2, <2>2 DEF Answering
  <2>5. a = size
    <3>1. answer[2] = Due[2] /\ answer[3] = Due[3]
      <4>1. 2 \in 1 .. Len(answer) /\ 3 \in 1 .. Len(answer) /\ 0 + 2 = 2 /\ 0 + 3 = 3
        BY <1>2
      <4>2. answer[2] = Due[0 + 2] /\ answer[3] = Due[0 + 3]
        BY <2>4, <4>1 DEF Stands
      <4>3. QED
        BY <4>1, <4>2
    <3>2. firmware = "sync" \/ size < Base
      BY <2>2 DEF Answering
    <3>3. QED
      BY <3>1, <3>2, DueFacts DEF Announced, a
  <2>6. Stands(SubSeq(pipe, 1, a), Due, 0 + Len(answer))
    BY <1>2, <1>4, <2>4, StandsApart
  <2>7. Stands(answer', Due, 0)
    BY <1>1, <1>2, <1>5, <2>4, <2>6, StandsTogether
  <2>8. 3 + Len(pipe) + Len(reply) <= 3 + size
    BY <1>2, <2>2 DEF Answering, HeaderSize
  <2>9. Len(pipe') = 0 /\ Len(reply') = 0
    BY <1>1, <1>2, <1>4, <1>5, <2>5, <2>8
  <2>10. Quiet'
    BY <1>1, <2>2, <2>3, <2>9 DEF Answering, Quiet
  <2>11. Returned'
    BY <1>1, <1>2, <1>6, <2>3, <2>5, <2>7 DEF Returned, HeaderSize
  <2>12. QED
    BY <1>1, <2>10, <2>11 DEF InTurn
<1>9. QED
  BY <1>7, <1>8 DEF ExchangeInv

\* When the firmware is idle, what a timeout returns is what it wrote: all, or
\* what it wrote before it gave up.  When it is not, its answer is late.
LEMMA TimeOutStep ==
  ASSUME ExchangeInv, CdcInv', TimeOut
  PROVE  ExchangeInv'
<1>1. /\ AllRead /\ host \in {"header", "body"}
      /\ answer' = answer \o pipe /\ pipe' = <<>> /\ host' = "returned"
      /\ instep' = (instep /\ Free)
      /\ UNCHANGED <<sent, got, read, firmware, answered, reply, size, cut>>
  BY DEF TimeOut, vars, firmwareVars
<1>2. /\ pipe \in Seq(Wire) /\ Len(pipe) \in Nat /\ Len(reply) \in Nat
      /\ answer \in Seq(Wire) /\ Len(answer) \in Nat /\ size \in Nat
      /\ <<>> \in Seq(Wire) /\ Len(<<>>) = 0
  BY DueFacts, EmptySeq DEF ExchangeInv, ExchangeTypes
<1>3. answer' \in Seq(Wire) /\ Len(answer') = Len(answer) + Len(pipe)
  BY <1>1, <1>2, ConcatProperties
<1>4. ExchangeTypes'
  BY <1>1, <1>2, <1>3 DEF ExchangeInv, ExchangeTypes
<1>5. ASSUME OnlyLegalSent', instep' PROVE InTurn'
  <2>1. OnlyLegalSent /\ InTurn /\ Free
    BY <1>1, <1>5 DEF OnlyLegalSent, ExchangeInv
  <2>2. answered = Len(sent) /\ Len(sent) \in Nat /\ Len(reply) = 0
    BY <1>1, <1>2, <2>1, DecodedFacts DEF ExchangeInv, Free
  <2>3. Answering
    BY <1>1, <2>1, <2>2 DEF InTurn, Asking
  <2>4. Due' = Due /\ AllRead'
    BY <1>1 DEF Due, Reply, LengthBytes, AllRead, Unread, Current
  <2>5. Stands(answer, Due, 0) /\ Stands(pipe, Due, 0 + Len(answer))
    BY <1>2, <2>3 DEF Answering
  <2>6. Stands(answer', Due, 0)
    BY <1>1, <1>2, <2>5, StandsTogether
  <2>7. Len(answer') <= HeaderSize + size /\ (cut \/ Len(answer') = HeaderSize + size)
    <3>1. Len(answer) + Len(pipe) + Len(reply) = Len(answer')
      BY <1>2, <1>3, <2>2
    <3>2. QED
      BY <2>3, <3>1 DEF Answering
  <2>8. Returned'
    BY <1>1, <2>4, <2>6, <2>7 DEF Returned
  <2>9. Quiet'
    BY <1>1, <1>2, <2>2, <2>4 DEF Quiet
  <2>10. QED
    BY <1>1, <2>8, <2>9 DEF InTurn
<1>6. QED
  BY <1>4, <1>5 DEF ExchangeInv

\* A drain in a quiet moment leaves nothing on its way.
LEMMA DrainStep ==
  ASSUME ExchangeInv, CdcInv', Drain
  PROVE  ExchangeInv'
<1>1. /\ host \in {"idle", "returned"} /\ host' = "idle" /\ pipe' = <<>>
      /\ instep' = (instep \/ (Free /\ AllRead /\ got = read))
      /\ UNCHANGED <<sent, got, read, firmware, answered, reply, size, answer>>
  BY DEF Drain, vars, firmwareVars
<1>2. <<>> \in Seq(Wire) /\ Len(<<>>) = 0
  BY EmptySeq
<1>3. ExchangeTypes'
  BY <1>1, <1>2 DEF ExchangeInv, ExchangeTypes
<1>4. ASSUME OnlyLegalSent', instep' PROVE InTurn'
  <2>1. OnlyLegalSent
    BY <1>1, <1>4 DEF OnlyLegalSent
  <2>2. AllRead /\ answered = Len(sent) /\ Len(reply) = 0
    <3>1. CASE instep
      BY <1>1, <2>1, <3>1 DEF ExchangeInv, InTurn, Quiet
    <3>2. CASE Free /\ AllRead
      BY <1>2, <2>1, <3>2, DecodedFacts DEF ExchangeInv, Free
    <3>3. QED
      BY <1>1, <1>4, <3>1, <3>2
  <2>3. Quiet'
    BY <1>1, <1>2, <2>2 DEF Quiet, AllRead, Unread, Current
  <2>4. QED
    BY <1>1, <2>3 DEF InTurn
<1>5. QED
  BY <1>3, <1>4 DEF ExchangeInv

LEMMA ExchangeStep ==
  ExchangeInv /\ OwedIsElse /\ CdcInv' /\ [ExchangeNext]_<<vars, exchangeVars>> => ExchangeInv'
<1> SUFFICES ASSUME ExchangeInv, OwedIsElse, CdcInv', [ExchangeNext]_<<vars, exchangeVars>>
             PROVE  ExchangeInv'
  OBVIOUS
<1>1. CASE UNCHANGED <<vars, exchangeVars>>
  <2>1. UNCHANGED <<sent, got, read, firmware, answered, reply, size, host, answer, pipe, cut,
                    instep>>
    BY <1>1 DEF vars, exchangeVars, firmwareVars, hostVars
  <2>2. /\ Due' = Due /\ (AllRead => AllRead') /\ ExchangeTypes'
        /\ OnlyLegalSent' => OnlyLegalSent
    BY <2>1 DEF Due, Reply, LengthBytes, AllRead, Unread, Current, ExchangeInv, ExchangeTypes,
       OnlyLegalSent
  <2>3. QED
    BY <2>1, <2>2 DEF ExchangeInv, InTurn, Quiet, Returned, Asking, Answering
<1>2. QED
  BY <1>1, FrameStep, HandleStep, WriteStep, GiveUpStep, SendTextStep, SendTypeStep, AskStep,
     ReadHeaderStep, ReadBodyStep, TimeOutStep, DrainStep DEF ExchangeNext, FirmwareStep

\* As long as nothing else can arrive, send_recv returns the answer to its own
\* request, whole unless the firmware gave up, whatever the sizes of payloads
\* and packets; after a text or a timeout, one drain in a quiet moment is enough.
THEOREM OwnReplies == ExchangeSpec => []AnswersAreOwn
<1>1. ExchangeSpec => []CdcInv
  <2>1. ExchangeInit => Init
    BY DEF ExchangeInit
  <2>2. [ExchangeNext]_<<vars, exchangeVars>> => [Next]_vars
    BY DEF ExchangeNext, FirmwareStep, Waits, ReadsPacket, Decodes, Handle, Write, GiveUp,
       SendText, SendType, Ask, ReadHeader, ReadBody, TimeOut, Drain, Next
  <2>3. QED
    BY <2>1, <2>2, CdcInit, CdcNext, PTL DEF ExchangeSpec
<1>2. ExchangeInv => AnswersAreOwn
  <2>1. SUFFICES ASSUME ExchangeInv, OnlyLegalSent, instep, host = "returned"
                 PROVE  /\ \A k \in DOMAIN answer : answer[k].of = Len(sent) /\ answer[k].at = k
                        /\ cut \/ Len(answer) = HeaderSize + size
    BY DEF AnswersAreOwn
  <2>2. Returned /\ DOMAIN answer = 1 .. Len(answer)
    BY <2>1, LenProperties DEF ExchangeInv, ExchangeTypes, InTurn
  <2>3. ASSUME NEW k \in 1 .. Len(answer)
        PROVE  answer[k].of = Len(sent) /\ answer[k].at = k
    <3>1. answer[k] = Due[0 + k] /\ 0 + k = k
      BY <2>2 DEF Returned, Stands
    <3>2. k \in 1 .. HeaderSize + size
      BY <2>1, <2>2, DueFacts DEF Returned, HeaderSize
    <3>3. QED
      BY <2>1, <3>1, <3>2, DueFacts
  <2>4. QED
    BY <2>2, <2>3 DEF Returned
<1>3. ExchangeInit => OwedIsElse
  BY DEF ExchangeInit, OwedIsElse
<1>4. QED
  BY <1>1, <1>2, <1>3, ExchangeStarts, ExchangeStep, OwedStep, PTL DEF ExchangeSpec

=============================================================================
