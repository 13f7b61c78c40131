---------------------------- MODULE CdcExchange ----------------------------
(***************************************************************************)
(* Frames and their answers over USB CDC: CdcFrame with the way back, that *)
(* is, with the answers of both firmwares (send_response in cdc.rs,        *)
(* write_cdc_response in async_firmware.rs), the text the async firmware   *)
(* sends unasked, and the host that reads them (send_recv and drain in     *)
(* tools/hil/rig.py).                                                      *)
(*                                                                         *)
(* A byte says which answer it is of, its place there and its value.       *)
(* Whether an answer is that to its own request once one has timed out in  *)
(* the firmware is for AsyncFirmware; here the firmware answers in turn.   *)
(***************************************************************************)
EXTENDS CdcFrame

CONSTANTS
  TextLen,  \* bytes of a text
  MaxTexts  \* bound: texts sent in a behaviour

ASSUME ExchangeAssumption == TextLen \in Nat \ {0} /\ MaxTexts \in Nat

VARIABLES
  firmware,  \* "sync" or "async"
  answered,  \* frames of decoded that were handled
  reply,     \* bytes the firmware has still to write
  pipe,      \* bytes written and not read by the host
  texts,     \* texts sent so far
  owed,      \* a text was sent whose type byte is still to come
  waits,     \* the async firmware is in read_packet
  host,      \* "idle", reading "header" or "body", or "returned" from send_recv
  answer,    \* what it has read since its last request
  size,      \* history: length of the last reply's body
  cut,       \* history: the last reply was given up half way
  instep     \* history: nothing but the next reply will arrive

firmwareVars == <<firmware, answered, reply, size, texts, owed, waits>>
hostVars == <<host, answer>>
exchangeVars == <<firmwareVars, hostVars, pipe, cut, instep>>

ExchangeInit ==
  /\ Init
  /\ firmware \in {"sync", "async"}
  /\ answered = 0
  /\ reply = <<>>
  /\ pipe = <<>>
  /\ texts = 0
  /\ owed = FALSE
  /\ waits = FALSE
  /\ host = "idle"
  /\ answer = <<>>
  /\ size = 0
  /\ cut = FALSE
  /\ instep = TRUE

----------------------------------------------------------------------------
(* Answers *)

\* The value of what is no length: one that is a length when it is read as one.
Other == 1

\* The two bytes of a length: Response::encode writes both, the async firmware
\* a zero and the length `as u8`.
LengthBytes_OneByte(n) == <<0, n % Base>>
LengthBytes(n) ==
  IF firmware = "sync" THEN <<n \div Base, n % Base>> ELSE <<0, n % Base>>

Reply(id, n) ==
  [k \in 1 .. HeaderSize + n |->
     [of |-> id, at |-> k, val |-> IF k \in 2 .. 3 THEN LengthBytes(n)[k - 1] ELSE Other]]
Text == [k \in 1 .. TextLen |-> [of |-> 0, at |-> k, val |-> Other]]
TypeByte == <<[of |-> 0, at |-> TextLen + 1, val |-> Other]>>

Announced(bytes) == bytes[2].val * Base + bytes[3].val

\* The firmware is at the top of its loop.
Free == reply = <<>> /\ answered = Len(decoded) /\ ~owed

\* The sync firmware polls; the async one looks for texts and then waits for a
\* packet, so that a text follows an answer or a part of a frame.
Waits ==
  /\ firmware = "async" /\ Free /\ got = read /\ ~waits
  /\ waits' = TRUE
  /\ UNCHANGED <<vars, firmware, answered, reply, size, texts, owed, hostVars, pipe, cut, instep>>

ReadsPacket ==
  /\ Free /\ PacketRead
  /\ waits = (firmware = "async")
  /\ waits' = FALSE
  /\ UNCHANGED <<firmware, answered, reply, size, texts, owed, hostVars, pipe, cut, instep>>

Decodes == Free /\ Decode /\ UNCHANGED exchangeVars

\* The command's own work is for the firmware's module. A code is cut to what
\* fits with its type: bodies are at most MaxPayload long in both firmwares.
Handle ==
  /\ reply = <<>> /\ answered < Len(decoded)
  /\ answered' = answered + 1
  /\ \E n \in 0 .. MaxPayload :
       /\ size' = n
       /\ reply' = Reply(answered', n)
       /\ instep' = (instep /\ (firmware = "sync" \/ n < Base))
  /\ cut' = FALSE
  /\ UNCHANGED <<vars, firmware, texts, owed, waits, pipe, hostVars>>

Write ==
  /\ \E m \in 1 .. Len(reply) :
       /\ pipe' = pipe \o SubSeq(reply, 1, m)
       /\ reply' = SubSeq(reply, m + 1, Len(reply))
  /\ UNCHANGED <<vars, firmware, answered, size, texts, owed, waits, hostVars, cut, instep>>

\* MAX_USB_WRITE_RETRIES: the rest of the answer is never written.
GiveUp ==
  /\ firmware = "sync" /\ reply # <<>>
  /\ reply' = <<>>
  /\ cut' = TRUE
  /\ UNCHANGED <<vars, firmware, answered, size, texts, owed, waits, pipe, hostVars, instep>>

\* The async firmware sends a code it read, "[SCAN] ...", and, after a pause in
\* which it does nothing else, its type; a report on the memory has none.
SendText ==
  /\ firmware = "async" /\ Free /\ got = read /\ ~waits
  /\ texts < MaxTexts
  /\ texts' = texts + 1
  /\ pipe' = pipe \o Text
  /\ owed' \in BOOLEAN
  /\ instep' = FALSE
  /\ UNCHANGED <<vars, firmware, answered, reply, size, waits, hostVars, cut>>

SendType ==
  /\ owed
  /\ owed' = FALSE
  /\ pipe' = pipe \o TypeByte
  /\ UNCHANGED <<vars, firmware, answered, reply, size, texts, waits, hostVars, cut, instep>>

----------------------------------------------------------------------------
(* The host *)

Ask ==
  /\ host \in {"idle", "returned"}
  /\ HostSends
  /\ host' = "header"
  /\ answer' = <<>>
  /\ UNCHANGED <<firmwareVars, pipe, cut, instep>>

\* read(3), then read(length): each returns with what it asked for, or, after
\* a timeout, with what has come.  The timeout is seconds: the request has been
\* read by then, its answer may still come.
ReadHeader ==
  /\ host = "header" /\ Len(pipe) >= HeaderSize
  /\ answer' = SubSeq(pipe, 1, HeaderSize)
  /\ pipe' = SubSeq(pipe, HeaderSize + 1, Len(pipe))
  /\ host' = IF Announced(answer') = 0 THEN "returned" ELSE "body"
  /\ UNCHANGED <<vars, firmwareVars, cut, instep>>

ReadBody ==
  /\ host = "body" /\ Len(pipe) >= Announced(answer)
  /\ answer' = answer \o SubSeq(pipe, 1, Announced(answer))
  /\ pipe' = SubSeq(pipe, Announced(answer) + 1, Len(pipe))
  /\ host' = "returned"
  /\ UNCHANGED <<vars, firmwareVars, cut, instep>>

TimeOut ==
  /\ AllRead /\ got = read
  /\ \/ host = "header" /\ Len(pipe) < HeaderSize
     \/ host = "body" /\ Len(pipe) < Announced(answer)
  /\ answer' = answer \o pipe
  /\ pipe' = <<>>
  /\ host' = "returned"
  /\ instep' = (instep /\ Free)
  /\ UNCHANGED <<vars, firmwareVars, cut>>

\* drain reads until nothing comes.
Drain ==
  /\ host \in {"idle", "returned"}
  /\ host' = "idle"
  /\ pipe' = <<>>
  /\ instep' = (instep \/ (Free /\ AllRead /\ got = read))
  /\ UNCHANGED <<vars, firmwareVars, answer, cut>>

FirmwareStep == Waits \/ ReadsPacket \/ Decodes \/ Handle \/ Write \/ GiveUp \/ SendType

ExchangeNext == FirmwareStep \/ SendText \/ Ask \/ ReadHeader \/ ReadBody \/ TimeOut \/ Drain

ExchangeSpec == ExchangeInit /\ [][ExchangeNext]_<<vars, exchangeVars>>

\* As in CdcFrame, and the loops that write an answer end.
FairExchange == ExchangeSpec /\ WF_<<vars, exchangeVars>>(FirmwareStep)

----------------------------------------------------------------------------
(* Properties *)

\* As long as nothing else can arrive, send_recv returns the answer to its own
\* request, from its first byte on, and all of it unless the firmware gave up:
\* an answer cut in the middle does not shift the next one, and after anything
\* else (a timeout of the host, a text) one drain in a quiet moment is enough.
AnswersAreOwn ==
  OnlyLegalSent /\ instep /\ host = "returned" =>
    /\ \A k \in DOMAIN answer : answer[k].of = Len(sent) /\ answer[k].at = k
    /\ cut \/ Len(answer) = HeaderSize + size

----------------------------------------------------------------------------
(* What a document says and the code does not do *)

\* A host that has read an answer to the end its length says has read all of it.
LengthsTrue ==
  LET own == \A k \in DOMAIN answer : answer[k].of = answered /\ answer[k].at = k
  IN  host = "returned" /\ own /\ Len(answer) >= HeaderSize =>
        (Len(answer) = HeaderSize + Announced(answer) => Len(answer) = HeaderSize + size)

=============================================================================
