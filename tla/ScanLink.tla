----------------------------- MODULE ScanLink -----------------------------
(***************************************************************************)
(* The byte stream between the GM65 module and the two drivers             *)
(* (driver/sync.rs, driver/async_.rs): replies to commands and scanned     *)
(* codes share one line, and neither carries an address.  A driver that    *)
(* was initialised runs one call after the other; a call is a list of      *)
(* commands, each drained for, written and answered as send_command does,  *)
(* or a read.  Bytes arrive at any time into the receive ring              *)
(* (scanner_uart.rs), which loses what it has no room for.                 *)
(*                                                                         *)
(* Register values and the answers a call returns are left out; time is,   *)
(* too, save that a driver that waits for silence does not take the gap    *)
(* between two bytes of one frame for it.  A UART error ends a read; while *)
(* a command waits, it is one more way to miss the reply.                  *)
(***************************************************************************)
EXTENDS Integers, Sequences, FiniteSetsExt

CONSTANTS
  RespLen,   \* RESPONSE_LEN
  CodeLen,   \* bytes of each code, without its line end
  MaxScan,   \* MAX_SCAN_SIZE
  RingSize,  \* RING_SIZE; a spsc::Queue holds one less
  InboxCap,  \* commands the module keeps until it comes to them
  MaxCodes,  \* bound: codes the module reads
  MaxCalls   \* bound: calls that write commands

ASSUME LinkAssumption ==
  /\ {RespLen, MaxScan, RingSize} \subseteq Nat \ {0}
  /\ {InboxCap, MaxCodes, MaxCalls} \subseteq Nat
  /\ CodeLen \in [1 .. MaxCodes -> Nat \ {0}]

VARIABLES
  driver,   \* which driver this is
  state,    \* ScannerState: "Detecting" while init runs, an Error by its name
  todo,     \* commands the running call has still to send, the current one first
  pc,       \* what the driver waits for
  buffer,   \* ScanBuffer
  ring,     \* bytes received
  line,     \* bytes on their way from the module
  inbox,    \* commands the module has not handled yet
  enabled,  \* the module's ScanEnable register
  codes,    \* codes the module has read
  calls,    \* calls so far
  lost,     \* history: the ring was full
  cut,      \* history: bytes of a code, or a part of a reply, went elsewhere
  own       \* history: only reads since the last trigger, and none overflowed

moduleVars == <<line, inbox, enabled, codes>>
callVars == <<driver, calls>>
histVars == <<lost, cut, own>>
vars == <<driver, state, todo, pc, buffer, ring, moduleVars, calls, histVars>>

----------------------------------------------------------------------------
(* Bytes and frames *)

\* Byte k of a frame: a reply is frame 0, a code has its number.
FrameLen(frame) == IF frame = 0 THEN RespLen ELSE CodeLen[frame] + 1
Byte == UNION {{frame} \X (1 .. FrameLen(frame)) : frame \in 0 .. MaxCodes}
Reply == [k \in 1 .. RespLen |-> <<0, k>>]
\* The last byte of a code is its CR.
Code(id) == [k \in 1 .. FrameLen(id) |-> <<id, k>>]
Payload(id) == SubSeq(Code(id), 1, CodeLen[id])
OfCode(byte) == byte[1] # 0
IsEol(byte) == OfCode(byte) /\ byte[2] = FrameLen(byte[1])

\* The frame a driver takes for a reply: its prefix and its end are looked at.
IsReply(bytes) == \A k \in DOMAIN bytes : bytes[k] = <<0, k>>
Slice(data, i) == SubSeq(data, (i - 1) * RespLen + 1, i * RespLen)

strip_leaked_responses_Once(data) ==
  IF Len(data) >= RespLen /\ IsReply(Slice(data, 1))
    THEN SubSeq(data, RespLen + 1, Len(data)) ELSE data
\* All replies in front of the data are dropped.
strip_leaked_responses(data) ==
  LET leading == {n \in 0 .. Len(data) \div RespLen :
                    \A i \in 1 .. n : IsReply(Slice(data, i))}
  IN  SubSeq(data, Max(leading) * RespLen + 1, Len(data))

\* A command, and whether send_command waits for its reply; or just a drain.
Drain == [cmd |-> "drain", wait |-> FALSE]
Command == [cmd : {"enable", "stop", "other"}, wait : BOOLEAN] \cup {Drain}
Sends(cmd) == [cmd |-> cmd, wait |-> TRUE]
Writes(cmd) == [cmd |-> cmd, wait |-> FALSE]

State ==
  {"Detecting", "Ready", "Scanning", "ScanComplete",
   "Cancelled", "BufferOverflow", "UartError", "InitFailed"}

Init ==
  /\ driver \in {"sync", "async"}
  /\ state = "Ready"
  /\ todo = <<>>
  /\ pc = "idle"
  /\ buffer = <<>>
  /\ ring = <<>>
  /\ line = <<>>
  /\ inbox = <<>>
  /\ enabled = FALSE
  /\ codes = 0
  /\ calls = 0
  /\ lost = FALSE
  /\ cut = FALSE
  /\ own = FALSE

----------------------------------------------------------------------------
(* The module and the line *)

ModuleReads ==
  /\ enabled
  /\ codes < MaxCodes
  /\ codes' = codes + 1
  /\ line' = line \o Code(codes')
  /\ enabled' \in BOOLEAN   \* in command mode one code ends the scan
  /\ UNCHANGED <<callVars, state, todo, pc, buffer, ring, inbox, histVars>>

\* A command is carried out when the module comes to it; it or its reply may
\* get lost.
ModuleAnswers ==
  /\ inbox # <<>>
  /\ inbox' = Tail(inbox)
  /\ \/ UNCHANGED <<enabled, line>>
     \/ /\ enabled' = CASE Head(inbox) = "enable" -> TRUE
                        [] Head(inbox) = "stop" -> FALSE
                        [] OTHER -> enabled
        /\ line' \in {line, line \o Reply}
  /\ UNCHANGED <<callVars, state, todo, pc, buffer, ring, codes, histVars>>

RingHasRoom_OffByOne == Len(ring) < RingSize
RingHasRoom == Len(ring) < RingSize - 1

\* handle_usart6_interrupt: enqueue fails when the ring is full.
Arrive ==
  /\ line # <<>>
  /\ line' = Tail(line)
  /\ IF RingHasRoom
       THEN ring' = Append(ring, Head(line)) /\ UNCHANGED histVars
       ELSE lost' = TRUE /\ cut' = TRUE /\ own' = FALSE /\ UNCHANGED ring
  /\ UNCHANGED <<callVars, state, todo, pc, buffer, inbox, enabled,
                 codes>>

----------------------------------------------------------------------------
(* Calls that send commands *)

Entered(steps) == IF steps = <<>> THEN "idle" ELSE "send"

Call(steps) ==
  /\ pc = "idle"
  /\ todo' = steps
  /\ pc' = Entered(steps)
  /\ UNCHANGED <<driver, ring, moduleVars, lost>>

ClearBuffer_Not == UNCHANGED <<buffer, cut>>
ClearBuffer ==
  /\ buffer' = <<>>
  /\ cut' = (cut \/ buffer # <<>>)

trigger_scan ==
  /\ state' = "Scanning"
  /\ Call(<<Sends("enable")>>)
  /\ ClearBuffer
  /\ own' = ~lost

\* stop_scan, and any register access: state and buffer stay.
Keeps ==
  /\ own' = FALSE
  /\ cut' = (cut \/ buffer # <<>>)
  /\ UNCHANGED <<state, buffer>>
stop_scan == Keeps /\ Call(<<Sends("stop")>>)
access_register == Keeps /\ Call(<<Sends("other")>>)
start_scanning == Keeps /\ Call(<<Sends("stop"), Sends("other"), Sends("enable")>>)

enter_continuous_mode ==
  /\ driver = "sync"
  /\ Keeps
  /\ Call(<<Sends("stop"), Writes("other"), Writes("enable"), Drain>>)

exit_continuous_mode ==
  /\ driver = "sync"
  /\ Keeps
  /\ Call(<<Writes("stop"), Writes("other"), Drain>>)

NextCommand ==
  /\ todo' = Tail(todo)
  /\ pc' = Entered(Tail(todo))

\* drain_uart throws away what arrives until the line is silent, which it is
\* at the end of a frame only.
drain_uart ==
  \E n \in 0 .. Len(line) :
    /\ n < Len(line) => line[n + 1][2] = 1
    /\ line' = SubSeq(line, n + 1, Len(line))
    /\ ring' = <<>>
    /\ cut' = (cut \/ (\E k \in DOMAIN ring : OfCode(ring[k]))
                  \/ (\E k \in 1 .. n : OfCode(line[k])))

\* send_command drains first, but not during a scan.  What arrives between the
\* drain and the write may as well arrive after it.  A write may fail.
Drains(command) == command = Drain \/ (command.wait /\ state # "Scanning")

SendCommand ==
  /\ pc = "send"
  /\ IF Drains(Head(todo)) THEN drain_uart ELSE UNCHANGED <<line, ring, cut>>
  /\ \/ /\ Head(todo) # Drain
        /\ inbox' = IF Len(inbox) < InboxCap THEN Append(inbox, Head(todo).cmd) ELSE inbox
        /\ IF Head(todo).wait
             THEN pc' = "reply" /\ UNCHANGED todo
             ELSE NextCommand
     \/ UNCHANGED inbox /\ NextCommand
  /\ UNCHANGED <<callVars, state, buffer, enabled, codes, lost, own>>

\* RESPONSE_LEN bytes are taken as the reply, whatever they are; one that does
\* not parse is no answer, and no call looks at it further.
ReadReply ==
  /\ pc = "reply" /\ Len(ring) >= RespLen
  /\ ring' = SubSeq(ring, RespLen + 1, Len(ring))
  /\ cut' = (cut \/ \E k \in 1 .. RespLen : OfCode(ring[k]))
  /\ NextCommand
  /\ UNCHANGED <<callVars, state, buffer, moduleVars, lost, own>>

\* The part of a reply that is there is lost.
ReplyTimeout ==
  /\ pc = "reply" /\ Len(ring) < RespLen
  /\ ring' = <<>>
  /\ cut' = (cut \/ ring # <<>>)
  /\ NextCommand
  /\ UNCHANGED <<callVars, state, buffer, moduleVars, lost, own>>

CallProgress == SendCommand \/ ReadReply \/ ReplyTimeout

----------------------------------------------------------------------------
(* Reads *)

\* Nothing received, and no frame half way.
Silent == ring = <<>> /\ \A k \in DOMAIN line : k = 1 => line[k][2] = 1

\* try_read_scan leaves ScanComplete first.
StartRead(how) ==
  /\ pc = "idle"
  /\ pc' = how
  /\ IF how = "try_read_scan" /\ state = "ScanComplete"
       THEN state' = "Ready" /\ ClearBuffer
       ELSE UNCHANGED <<state, buffer, cut>>
  /\ UNCHANGED <<callVars, todo, ring, moduleVars, lost, own>>

PushFails_OffByOne == Len(buffer) = MaxScan - 1
\* push fails on a full buffer, also for a line end.
PushFails == Len(buffer) = MaxScan

\* The payload is complete; read_scan strips replies from it, try_read_scan
\* does not.
Completes == ring # <<>> /\ IsEol(Head(ring)) /\ buffer # <<>> /\ ~PushFails
Returned ==
  IF pc = "read_scan" THEN strip_leaked_responses(buffer) ELSE buffer

\* What is in a full buffer stays there until it is cleared.
Overflow ==
  /\ PushFails
  /\ state' = "BufferOverflow" /\ pc' = "idle"
  /\ cut' = TRUE /\ own' = FALSE
  /\ UNCHANGED buffer

Push ==
  /\ ~PushFails
  /\ IF ~IsEol(Head(ring))
       THEN buffer' = Append(buffer, Head(ring)) /\ UNCHANGED <<state, pc>>
       ELSE /\ buffer' = <<>>
            /\ IF buffer = <<>>
                 THEN UNCHANGED <<state, pc>>
                 ELSE state' = "ScanComplete" /\ pc' = "idle"
  /\ UNCHANGED <<cut, own>>

ReadByte ==
  /\ pc \in {"read_scan", "try_read_scan"} /\ ring # <<>>
  /\ ring' = Tail(ring)
  /\ Overflow \/ Push
  /\ UNCHANGED <<callVars, todo, moduleVars, lost>>

ReadEnds_NoError ==
  /\ \/ pc = "read_scan" /\ driver = "sync" /\ Silent
     \/ pc = "try_read_scan" /\ ring = <<>>
     \/ pc = "read_scan" /\ driver = "async"
  /\ pc' = "idle"
  /\ UNCHANGED <<callVars, state, todo, buffer, ring, moduleVars, histVars>>
\* The sync read_scan gives up after a long silence and fails; try_read_scan
\* returns.  The async read_scan is dropped by its caller at any time.
ReadEnds ==
  /\ \/ pc = "read_scan" /\ driver = "sync" /\ Silent /\ state' = "Cancelled"
     \/ pc = "try_read_scan" /\ ring = <<>> /\ UNCHANGED state
     \/ pc = "read_scan" /\ driver = "async" /\ UNCHANGED state
  /\ pc' = "idle"
  /\ UNCHANGED <<callVars, todo, buffer, ring, moduleVars, histVars>>

\* A UART error; try_read_scan takes it for silence (poll_uart).
ReadFails ==
  /\ pc \in {"read_scan", "try_read_scan"}
  /\ state' = IF pc = "read_scan" THEN "UartError" ELSE state
  /\ pc' = "idle"
  /\ UNCHANGED <<callVars, todo, buffer, ring, moduleVars, histVars>>

\* poll_uart: the caller takes a byte; the main loop throws it away.
poll_uart ==
  /\ pc = "idle" /\ driver = "sync" /\ ring # <<>>
  /\ ring' = Tail(ring)
  /\ cut' = TRUE
  /\ own' = FALSE
  /\ UNCHANGED <<callVars, state, todo, pc, buffer, moduleVars, lost>>

cancel_scan ==
  /\ pc = "idle" /\ driver = "async"
  /\ state' = "Cancelled"
  /\ UNCHANGED <<callVars, todo, pc, buffer, ring, moduleVars, histVars>>

reset_to_ready ==
  /\ pc = "idle" /\ driver = "sync"
  /\ state' = "Ready"
  /\ ClearBuffer
  /\ UNCHANGED <<callVars, todo, pc, ring, moduleVars, lost, own>>

ModuleStep == ModuleReads \/ ModuleAnswers \/ Arrive

CallStarts ==
  /\ calls < MaxCalls
  /\ calls' = calls + 1
  /\ \/ trigger_scan \/ stop_scan \/ access_register \/ start_scanning
     \/ enter_continuous_mode \/ exit_continuous_mode

Next ==
  \/ ModuleStep
  \/ CallStarts \/ CallProgress
  \/ StartRead("read_scan")
  \/ driver = "sync" /\ StartRead("try_read_scan")
  \/ ReadByte \/ ReadEnds \/ ReadFails
  \/ poll_uart \/ cancel_scan \/ reset_to_ready

Spec == Init /\ [][Next]_vars

----------------------------------------------------------------------------
(* Properties *)

LinkTypeOK ==
  /\ driver \in {"sync", "async"}
  /\ state \in State
  /\ todo \in Seq(Command)
  /\ pc \in {"idle", "send", "reply", "read_scan", "try_read_scan"}
  /\ buffer \in Seq(Byte) /\ Len(buffer) <= MaxScan
  /\ ring \in Seq(Byte) /\ Len(ring) < RingSize
  /\ line \in Seq(Byte)
  /\ inbox \in Seq({"enable", "stop", "other"}) /\ Len(inbox) <= InboxCap
  /\ {enabled, lost, cut, own} \subseteq BOOLEAN
  /\ codes \in 0 .. MaxCodes
  /\ calls \in 0 .. MaxCalls
  /\ (pc \in {"send", "reply"}) = (todo # <<>>)

\* Late replies never damage a code: as long as no byte was lost, no command took
\* bytes of a code and the buffer had room, read_scan returns whole codes, however many replies
\* came after their command had given up on them.
LateRepliesHarmless ==
  ~cut /\ pc = "read_scan" /\ Completes =>
    \E id \in 1 .. codes : Returned = Payload(id)

\* A code is never pieced together from two: with nothing lost, what a trigger's
\* own reads collect comes from one code, even when the trigger finds the rest
\* of an earlier code on the line, or takes a part of the code for its reply.
OneSource ==
  own /\ pc \in {"read_scan", "try_read_scan"} =>
    \A i, j \in DOMAIN buffer :
      OfCode(buffer[i]) /\ OfCode(buffer[j]) => buffer[i][1] = buffer[j][1]

============================================================================
