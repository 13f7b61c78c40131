------------------------ MODULE AsyncFirmwareProofs ------------------------
(***************************************************************************)
(* Theorems about the async firmware's tasks, for channels of any          *)
(* capacity and any number of requests, codes and taps.                    *)
(***************************************************************************)
EXTENDS AsyncFirmware, SequenceTheorems, TLAPS

----------------------------------------------------------------------------
(* Channels *)

\* try_send keeps a channel's type and its bound, and puts a message last.
LEMMA SentFacts ==
  ASSUME NEW S, NEW channel \in Seq(S), NEW message \in S, NEW cap \in Nat,
         Len(channel) <= cap
  PROVE  /\ Sent(channel, message, cap) \in Seq(S)
         /\ Len(Sent(channel, message, cap)) <= cap
         /\ \/ Sent(channel, message, cap) = channel
            \/ /\ Len(Sent(channel, message, cap)) = Len(channel) + 1
               /\ Sent(channel, message, cap)[Len(channel) + 1] = message
               /\ \A k \in 1 .. Len(channel) : Sent(channel, message, cap)[k] = channel[k]
         /\ Len(channel) < cap => Sent(channel, message, cap) = Append(channel, message)
<1>1. CASE Len(channel) < cap
  <2>1. Sent(channel, message, cap) = Append(channel, message)
    BY <1>1 DEF Sent
  <2>2. Len(channel) \in Nat
    BY LenProperties
  <2>3. QED
    BY <1>1, <2>1, <2>2, AppendProperties
<1>2. CASE ~(Len(channel) < cap)
  BY <1>2 DEF Sent
<1>3. QED
  BY <1>1, <1>2

\* A receiver takes the message in front.
LEMMA TakenFacts ==
  ASSUME NEW S, NEW channel \in Seq(S), channel # <<>>
  PROVE  /\ Head(channel) \in S /\ Head(channel) = channel[1]
         /\ Tail(channel) \in Seq(S)
         /\ Len(channel) \in Nat \ {0} /\ Len(Tail(channel)) = Len(channel) - 1
         /\ \A k \in 1 .. Len(channel) - 1 : Tail(channel)[k] = channel[k + 1]
BY HeadTailProperties, LenProperties

----------------------------------------------------------------------------
(* Types *)

CommandTypes ==
  /\ current \in HostCommand
  /\ commandCh \in Seq(HostCommand) /\ Len(commandCh) <= CommandCap
  /\ settings \in {0, 1} /\ register \in {0, 1}
  /\ asked \in 0 .. MaxRequests

AnswerTypes ==
  /\ responseCh \in Seq(CdcResponse) /\ Len(responseCh) <= ResponseCap
  /\ last_scan \in 0 .. MaxScans
  /\ scans \in 0 .. MaxScans
  /\ given \in 0 .. MaxScans
  /\ scanCh \in Seq(1 .. MaxScans) /\ Len(scanCh) <= ScanCap
  /\ scanner_connected \in BOOLEAN

\* What every step leaves of the command channel and what it knows of commands.
LEMMA CommandTypesNext ==
  CommandTypes /\ [Next]_vars => CommandTypes'
<1> SUFFICES ASSUME CommandTypes, [Next]_vars PROVE CommandTypes'
  OBVIOUS
<1> USE DEF CommandTypes, taskVars, settingVars, hostVars
<1>0. /\ CommandCap \in Nat /\ MaxRequests \in Nat
      /\ NoCommand \in HostCommand
  BY AsyncAssumption DEF AsyncAssumption, NoCommand, HostCommand, Requests
<1>1. CASE TakeCommand
  <2>1. commandCh # <<>> /\ current' = Head(commandCh) /\ commandCh' = Tail(commandCh)
    BY <1>1 DEF TakeCommand
  <2>2. /\ Head(commandCh) \in HostCommand /\ Tail(commandCh) \in Seq(HostCommand)
        /\ Len(commandCh) \in Nat /\ Len(Tail(commandCh)) = Len(commandCh) - 1
    BY <2>1, TakenFacts
  <2>3. UNCHANGED <<settings, register, asked>>
    BY <1>1 DEF TakeCommand
  <2>4. QED
    BY <1>0, <2>1, <2>2, <2>3
<1>2. CASE \/ RunTrigger \/ RunQuery \/ RunData \/ RunGetSettings \/ RunSetSettings
           \/ RunEntered
  <2>1. /\ current' = NoCommand /\ UNCHANGED <<commandCh, asked>>
        /\ register' \in {register, current.bit} /\ settings' \in {register', settings}
    BY <1>2 DEF RunTrigger, RunQuery, RunData, RunGetSettings, RunSetSettings, RunEntered,
       Finished, ReadBack
  <2>2. current.bit \in {0, 1}
    BY DEF HostCommand
  <2>3. QED
    BY <1>0, <2>1, <2>2
<1>3. ASSUME NEW kind \in Requests, NEW bit \in {0, 1}, HostAsks(kind, bit)
      PROVE  CommandTypes'
  <2>1. asked' \in 0 .. MaxRequests
    BY <1>0, <1>3 DEF HostAsks
  <2>2. [from |-> asked', kind |-> kind, bit |-> bit] \in HostCommand
    BY <2>1 DEF HostCommand
  <2>3. QED
    BY <1>0, <1>3, <2>1, <2>2, SentFacts DEF HostAsks
<1>4. ASSUME NEW zone \in Zone, TapRow(zone) PROVE CommandTypes'
  <2>1. settings' \in {0, 1}
    BY <1>4 DEF TapRow
  <2>2. [from |-> 0, kind |-> "SetSettings", bit |-> settings'] \in HostCommand
    BY <1>0, <2>1 DEF HostCommand, Requests
  <2>3. QED
    BY <1>0, <1>4, <2>1, <2>2, SentFacts DEF TapRow, Toggled
<1>5. CASE \/ InitOk \/ InitFails \/ RunEnterSettings \/ ScannerSleeps \/ AutoTrigger
           \/ BackToTop \/ ReadCode
  BY <1>5 DEF InitOk, InitFails, RunEnterSettings, ScannerSleeps, AutoTrigger, BackToTop,
     ReadCode
<1>6. CASE Connect \/ Disconnect \/ SendScan \/ Listen \/ HostLocal \/ Answer \/ AnswerTimeout
  BY <1>6 DEF Connect, Disconnect, SendScan, Listen, HostLocal, Answer, AnswerWith,
     AnswerTimeout
<1>7. CASE Show \/ UNCHANGED vars
  BY <1>7 DEF Show, vars
<1>8. ASSUME NEW zone \in Zone, TapBack(zone) \/ TapHome(zone) \/ TapElsewhere(zone)
      PROVE  CommandTypes'
  BY <1>8 DEF TapBack, TapHome, TapElsewhere
<1>9. QED
  BY <1>1, <1>2, <1>3, <1>4, <1>5, <1>6, <1>7, <1>8 DEF Next, ScannerTask, CdcTask, HandleTap

LEMMA LinesTyped ==
  ASSUME AnswerTypes, NEW line \in {0, last_scan}
  PROVE  line \in 0 .. MaxScans
<1>1. MaxScans \in Nat
  BY AsyncAssumption DEF AsyncAssumption
<1>2. last_scan \in 0 .. MaxScans
  BY DEF AnswerTypes
<1>3. QED
  BY <1>1, <1>2

LEMMA RespondFacts ==
  ASSUME CommandTypes, AnswerTypes, NEW line \in 0 .. MaxScans, NEW scanning \in BOOLEAN,
         Respond(line, scanning)
  PROVE  /\ responseCh' \in Seq(CdcResponse) /\ Len(responseCh') <= ResponseCap
         /\ \/ responseCh' = responseCh
            \/ /\ Len(responseCh') = Len(responseCh) + 1
               /\ responseCh'[Len(responseCh) + 1] =
                    [to |-> current.from, line |-> line, scanning |-> scanning]
               /\ \A k \in 1 .. Len(responseCh) : responseCh'[k] = responseCh[k]
         /\ Len(responseCh) < ResponseCap =>
              responseCh' = Append(responseCh, [to |-> current.from, line |-> line,
                                                scanning |-> scanning])
<1>1. ResponseCap \in Nat
  BY AsyncAssumption DEF AsyncAssumption
<1>2. [to |-> current.from, line |-> line, scanning |-> scanning] \in CdcResponse
  BY DEF CommandTypes, HostCommand, CdcResponse
<1>3. responseCh \in Seq(CdcResponse) /\ Len(responseCh) <= ResponseCap
  BY DEF AnswerTypes
<1>4. QED
  BY <1>1, <1>2, <1>3, SentFacts DEF Respond

\* The commands that are answered, and what with.
LEMMA Responds ==
  ASSUME AnswerTypes,
         \/ RunTrigger \/ RunQuery \/ RunData \/ RunGetSettings \/ RunSetSettings
         \/ RunEntered
  PROVE  /\ \E line \in {0, last_scan}, scanning \in BOOLEAN : Respond(line, scanning)
         /\ scanner \in {"busy", "entering"} /\ scanner' = "idle" /\ current' = NoCommand
         /\ UNCHANGED <<hostVars, scans, scanCh, commandCh, scanner_connected>>
<1>1. /\ scanner \in {"busy", "entering"} /\ scanner' = "idle" /\ current' = NoCommand
      /\ UNCHANGED <<hostVars, scans, scanCh, commandCh, scanner_connected>>
  BY DEF RunTrigger, RunQuery, RunData, RunGetSettings, RunSetSettings, RunEntered,
     Finished, Runs
<1>2. CASE RunTrigger
  BY <1>1, <1>2 DEF RunTrigger, AnswerTypes
<1>3. CASE RunData
  BY <1>1, <1>3 DEF RunData
<1>4. CASE RunQuery \/ RunGetSettings \/ RunSetSettings \/ RunEntered
  BY <1>1, <1>4 DEF RunQuery, RunGetSettings, RunSetSettings, RunEntered
<1>5. QED
  BY <1>2, <1>3, <1>4

LEMMA AnswerTypesNext ==
  CommandTypes /\ AnswerTypes /\ [Next]_vars => AnswerTypes'
<1> SUFFICES ASSUME CommandTypes, AnswerTypes, [Next]_vars PROVE AnswerTypes'
  OBVIOUS
<1>0. MaxScans \in Nat /\ ScanCap \in Nat /\ ResponseCap \in Nat
  BY AsyncAssumption DEF AsyncAssumption
<1>1. CASE \/ RunTrigger \/ RunQuery \/ RunData \/ RunGetSettings \/ RunSetSettings
           \/ RunEntered
  <2>1. last_scan' \in {last_scan, 0}
    BY <1>1 DEF RunTrigger, RunQuery, RunData, Taken, RunGetSettings, RunSetSettings,
       RunEntered
  <2>2. PICK line \in {0, last_scan}, scanning \in BOOLEAN : Respond(line, scanning)
    BY <1>1, Responds
  <2>3. UNCHANGED <<scans, scanCh, scanner_connected>>
    BY <1>1, Responds
  <2> given' = given
    BY <1>1, Responds DEF hostVars
  <2>4. line \in 0 .. MaxScans
    BY <1>0, <2>2 DEF AnswerTypes
  <2>5. responseCh' \in Seq(CdcResponse) /\ Len(responseCh') <= ResponseCap
    BY <2>2, <2>4, RespondFacts
  <2>6. QED
    BY <1>0, <2>1, <2>3, <2>5 DEF AnswerTypes
<1>2. CASE ReadCode
  <2>1. /\ scans' = scans + 1 /\ scans < MaxScans /\ last_scan' = scans'
        /\ scanCh' = Sent(scanCh, scans', ScanCap)
        /\ UNCHANGED <<responseCh, given, scanner_connected>>
    BY <1>2 DEF ReadCode, hostVars
  <2>2. scans' \in 1 .. MaxScans
    BY <1>0, <2>1 DEF AnswerTypes
  <2>3. scanCh' \in Seq(1 .. MaxScans) /\ Len(scanCh') <= ScanCap
    BY <1>0, <2>1, <2>2, SentFacts DEF AnswerTypes
  <2>4. QED
    BY <2>1, <2>2, <2>3 DEF AnswerTypes
<1>3. CASE SendScan
  <2>1. scanCh # <<>> /\ scanCh' = Tail(scanCh)
        /\ UNCHANGED <<scans, last_scan, given, responseCh, scanner_connected>>
    BY <1>3 DEF SendScan
  <2>2. /\ Tail(scanCh) \in Seq(1 .. MaxScans) /\ Len(scanCh) \in Nat
        /\ Len(Tail(scanCh)) = Len(scanCh) - 1
    BY <2>1, TakenFacts DEF AnswerTypes
  <2>3. QED
    BY <1>0, <2>1, <2>2 DEF AnswerTypes
<1>4. CASE Answer
  <2>1. responseCh # <<>> /\ responseCh' = Tail(responseCh)
        /\ given' \in {given, Head(responseCh).line}
        /\ UNCHANGED <<scanVars, scanner_connected>>
    BY <1>4 DEF Answer, AnswerWith
  <2>2. /\ Head(responseCh) \in CdcResponse
        /\ Tail(responseCh) \in Seq(CdcResponse) /\ Len(responseCh) \in Nat
        /\ Len(Tail(responseCh)) = Len(responseCh) - 1
    BY <2>1, TakenFacts DEF AnswerTypes
  <2>3. QED
    BY <1>0, <2>1, <2>2 DEF AnswerTypes, scanVars, CdcResponse
<1>5. CASE InitOk
  BY <1>5 DEF InitOk, AnswerTypes, scanVars, hostVars
<1>6. CASE \/ InitFails \/ TakeCommand \/ RunEnterSettings \/ ScannerSleeps
           \/ AutoTrigger \/ BackToTop \/ Connect \/ Disconnect \/ Listen \/ HostLocal
           \/ AnswerTimeout \/ Show \/ UNCHANGED vars
  <2>1. UNCHANGED <<scanVars, responseCh, given, scanner_connected>>
    BY <1>6 DEF InitFails, TakeCommand, RunEnterSettings, ScannerSleeps, AutoTrigger,
       BackToTop, Connect, Disconnect, Listen, HostLocal, AnswerTimeout, Show, vars, hostVars
  <2>2. QED
    BY <2>1 DEF AnswerTypes, scanVars
<1>7. ASSUME \/ \E kind \in Requests, bit \in {0, 1} : HostAsks(kind, bit)
             \/ \E zone \in Zone : HandleTap(zone)
      PROVE  AnswerTypes'
  <2>1. UNCHANGED <<scanVars, responseCh, given, scanner_connected>>
    BY <1>7 DEF HostAsks, HandleTap, TapBack, TapRow, TapHome, TapElsewhere, hostVars
  <2>2. QED
    BY <2>1 DEF AnswerTypes, scanVars
<1>8. QED
  BY <1>1, <1>2, <1>3, <1>4, <1>5, <1>6, <1>7 DEF Next, ScannerTask, CdcTask

DisplayTypes == displayCh \in Seq(DisplayEvent) /\ Len(displayCh) <= DisplayCap

LEMMA DisplayTypesNext == DisplayTypes /\ [Next]_vars => DisplayTypes'
<1> SUFFICES ASSUME DisplayTypes, [Next]_vars PROVE DisplayTypes'
  OBVIOUS
<1>0. DisplayCap \in Nat
  BY AsyncAssumption DEF AsyncAssumption
<1>1. \/ displayCh' \in {displayCh, Sent(displayCh, "Home", DisplayCap),
                         Sent(displayCh, "Page", DisplayCap)}
      \/ displayCh # <<>> /\ displayCh' = Tail(displayCh)
  <2>1. CASE ScannerTask
    BY <2>1 DEF ScannerTask, InitOk, InitFails, TakeCommand, RunTrigger, RunQuery, RunData,
       RunGetSettings, RunSetSettings, RunEnterSettings, RunEntered, ScannerSleeps, AutoTrigger,
       BackToTop, ReadCode, Drawn
  <2>2. CASE CdcTask
    BY <2>2 DEF CdcTask, Connect, Disconnect, SendScan, Listen, HostLocal, HostAsks, Answer,
       AnswerWith, AnswerTimeout
  <2>3. CASE Show \/ (\E zone \in Zone : HandleTap(zone)) \/ UNCHANGED vars
    BY <2>3 DEF Show, HandleTap, TapBack, TapRow, TapHome, TapElsewhere, Drawn, vars
  <2>4. QED
    BY <2>1, <2>2, <2>3 DEF Next
<1>2. CASE displayCh # <<>> /\ displayCh' = Tail(displayCh)
  <2>1. /\ Tail(displayCh) \in Seq(DisplayEvent) /\ Len(displayCh) \in Nat
        /\ Len(Tail(displayCh)) = Len(displayCh) - 1
    BY <1>2, TakenFacts DEF DisplayTypes
  <2>2. QED
    BY <1>0, <1>2, <2>1 DEF DisplayTypes
<1>3. ASSUME NEW event \in DisplayEvent, displayCh' = Sent(displayCh, event, DisplayCap)
      PROVE  DisplayTypes'
  BY <1>0, <1>3, SentFacts DEF DisplayTypes
<1>4. QED
  BY <1>1, <1>2, <1>3 DEF DisplayTypes, DisplayEvent

TaskTypes ==
  /\ scanner \in {"init", "idle", "asleep", "busy", "entering", "retry", "reading",
                  "blinking"}
  /\ cdc \in {"closed", "top", "paused", "listening", "waiting"}
  /\ auto_scan \in BOOLEAN /\ in_settings \in BOOLEAN
  /\ known \in BOOLEAN /\ disturbed \in BOOLEAN
  /\ taps \in 0 .. MaxTaps

LEMMA TaskTypesNext == AnswerTypes /\ TaskTypes /\ [Next]_vars => TaskTypes'
<1> SUFFICES ASSUME AnswerTypes, TaskTypes, [Next]_vars PROVE TaskTypes'
  OBVIOUS
<1> USE DEF modeVars, settingVars, hostVars, taskVars
<1>0. MaxTaps \in Nat /\ scanner_connected \in BOOLEAN
  BY AsyncAssumption DEF AsyncAssumption, AnswerTypes
<1>1. CASE ScannerTask
  <2>1. UNCHANGED <<cdc, disturbed, taps>>
    BY <1>1 DEF ScannerTask, InitOk, InitFails, TakeCommand, RunTrigger, RunQuery, RunData,
       RunGetSettings, RunSetSettings, RunEnterSettings, RunEntered, ScannerSleeps, AutoTrigger,
       BackToTop, ReadCode, Finished
  <2>2. scanner' \in {"idle", "busy", "entering", "asleep", "reading", "retry", "blinking"}
    BY <1>1 DEF ScannerTask, InitOk, InitFails, TakeCommand, RunTrigger, RunQuery, RunData,
       RunGetSettings, RunSetSettings, RunEnterSettings, RunEntered, ScannerSleeps, AutoTrigger,
       BackToTop, ReadCode, Finished
  <2>3. (UNCHANGED modeVars \/ (in_settings' = TRUE /\ auto_scan' = FALSE))
    BY <1>1 DEF ScannerTask, InitOk, InitFails, TakeCommand, RunTrigger, RunQuery, RunData,
       RunGetSettings, RunSetSettings, RunEnterSettings, RunEntered, ScannerSleeps, AutoTrigger,
       BackToTop, ReadCode
  <2>4. known' = known \/ known' = TRUE \/ known' = (known /\ current.kind # "SetSettings")
    BY <1>1 DEF ScannerTask, InitOk, InitFails, TakeCommand, RunTrigger, RunQuery, RunData,
       RunGetSettings, RunSetSettings, RunEnterSettings, RunEntered, ScannerSleeps, AutoTrigger,
       BackToTop, ReadCode, ReadBack
  <2>5. QED
    BY <2>1, <2>2, <2>3, <2>4 DEF TaskTypes
<1>2. CASE CdcTask
  BY <1>2 DEF TaskTypes, CdcTask, Connect, Disconnect, SendScan, Listen, HostLocal, HostAsks,
     Answer, AnswerWith, AnswerTimeout
<1>3. CASE Show \/ UNCHANGED vars
  <2>1. UNCHANGED <<scanner, cdc, known, disturbed, taps>>
    BY <1>3 DEF Show, vars
  <2>2. \/ in_settings' = FALSE /\ auto_scan' = scanner_connected
        \/ UNCHANGED <<in_settings, auto_scan>>
    BY <1>3 DEF Show, vars
  <2>3. QED
    BY <1>0, <2>1, <2>2 DEF TaskTypes
<1>4. ASSUME NEW zone \in Zone, HandleTap(zone) PROVE TaskTypes'
  <2>1. taps' \in 0 .. MaxTaps
    BY <1>0, <1>4 DEF TaskTypes, HandleTap, TapBack, TapRow, TapHome, TapElsewhere, Tapped
  <2>2. UNCHANGED <<scanner, cdc>>
    BY <1>4 DEF HandleTap, TapBack, TapRow, TapHome, TapElsewhere
  <2>3. /\ in_settings' \in {in_settings, TRUE, FALSE}
        /\ auto_scan' \in {auto_scan, scanner_connected, FALSE}
        /\ disturbed' \in {disturbed, TRUE}
    BY <1>4 DEF HandleTap, TapBack, TapRow, TapHome, TapElsewhere
  <2>4. known' = known \/ known' = (known /\ Len(commandCh) < CommandCap)
    BY <1>4 DEF HandleTap, TapBack, TapRow, TapHome, TapElsewhere
  <2>5. known' \in BOOLEAN
    BY <2>4 DEF TaskTypes
  <2>6. QED
    BY <1>0, <2>1, <2>2, <2>3, <2>5 DEF TaskTypes
<1>5. QED
  BY <1>1, <1>2, <1>3, <1>4 DEF Next

TypeInv == CommandTypes /\ AnswerTypes /\ DisplayTypes /\ TaskTypes

LEMMA TypeInit == Init => TypeInv
<1> SUFFICES ASSUME Init PROVE TypeInv
  OBVIOUS
<1>1. /\ commandCh \in Seq(HostCommand) /\ Len(commandCh) = 0
      /\ responseCh \in Seq(CdcResponse) /\ Len(responseCh) = 0
      /\ scanCh \in Seq(1 .. MaxScans) /\ Len(scanCh) = 0
      /\ displayCh \in Seq(DisplayEvent) /\ Len(displayCh) = 0
  BY EmptySeq DEF Init
<1>2. /\ CommandCap \in Nat /\ ResponseCap \in Nat /\ ScanCap \in Nat /\ DisplayCap \in Nat
      /\ 0 \in 0 .. MaxRequests /\ 0 \in 0 .. MaxScans /\ 0 \in 0 .. MaxTaps
  BY AsyncAssumption DEF AsyncAssumption
<1>3. current \in HostCommand
  BY <1>2 DEF Init, NoCommand, HostCommand, Requests
<1>4. CommandTypes /\ AnswerTypes /\ DisplayTypes
  <2>1. CommandTypes
    BY <1>1, <1>2, <1>3 DEF Init, CommandTypes
  <2>2. AnswerTypes
    <3>1. last_scan = 0 /\ scans = 0 /\ given = 0
      BY DEF Init
    <3>2. scanner_connected \in BOOLEAN
      BY DEF Init
    <3>3. /\ responseCh \in Seq(CdcResponse) /\ Len(responseCh) <= ResponseCap
          /\ scanCh \in Seq(1 .. MaxScans) /\ Len(scanCh) <= ScanCap
      BY <1>1, <1>2
    <3>4. QED
      BY <1>2, <3>1, <3>2, <3>3 DEF AnswerTypes
  <2>3. DisplayTypes
    BY <1>1, <1>2 DEF DisplayTypes
  <2>4. QED
    BY <2>1, <2>2, <2>3
<1>5. TaskTypes
  BY <1>2 DEF Init, TaskTypes
<1>6. QED
  BY <1>4, <1>5 DEF TypeInv

LEMMA TypeNext == TypeInv /\ [Next]_vars => TypeInv'
BY CommandTypesNext, AnswerTypesNext, DisplayTypesNext, TaskTypesNext DEF TypeInv

\* Channels stay within their capacities whatever the tasks do in whatever
\* order, and every shared field has a value of its type.
THEOREM TasksTyped == Spec => []AsyncTypeOK
<1>1. TypeInv => AsyncTypeOK
  BY DEF TypeInv, CommandTypes, AnswerTypes, DisplayTypes, TaskTypes, AsyncTypeOK
<1>2. QED
  BY TypeInit, TypeNext, <1>1, PTL DEF Spec

----------------------------------------------------------------------------
(* Requests on their way *)

InService == scanner \in {"busy", "entering"}

\* Both are requests of the host, and the first is the earlier one.
Before(a, b) == a # 0 /\ b # 0 => a < b

Takes ==
  /\ ~InService /\ InService' /\ commandCh # <<>>
  /\ current' = Head(commandCh) /\ commandCh' = Tail(commandCh)
  /\ UNCHANGED <<responseCh, asked, cdc, disturbed>>

Responded ==
  /\ InService /\ ~InService' /\ current' = NoCommand
  /\ \E line \in {0, last_scan}, scanning \in BOOLEAN : Respond(line, scanning)
  /\ UNCHANGED <<commandCh, asked, cdc, disturbed>>

Asks ==
  /\ cdc = "listening" /\ cdc' = "waiting"
  /\ asked' = asked + 1
  /\ \E kind \in Requests, bit \in {0, 1} :
       commandCh' = Sent(commandCh, [from |-> asked', kind |-> kind, bit |-> bit], CommandCap)
  /\ UNCHANGED <<scanner, current, responseCh, disturbed>>

Toggles ==
  /\ settings' \in {0, 1}
  /\ Toggled
  /\ disturbed' = TRUE
  /\ UNCHANGED <<scanner, current, responseCh, asked, cdc>>

Answered ==
  /\ cdc = "waiting" /\ cdc' = "top" /\ responseCh # <<>>
  /\ responseCh' = Tail(responseCh)
  /\ UNCHANGED <<scanner, current, commandCh, asked, disturbed>>

\* The host gives up, or the step is not about a request.
MovesNothing ==
  /\ InService' <=> InService
  /\ UNCHANGED <<current, commandCh, responseCh, asked>>
  /\ disturbed' # TRUE => disturbed' = disturbed /\ (cdc' = "waiting" <=> cdc = "waiting")

\* A step moves at most one command or response, and only these ways.
LEMMA RequestSteps ==
  ASSUME TypeInv, [Next]_vars
  PROVE  Takes \/ Responded \/ Asks \/ Toggles \/ Answered \/ MovesNothing
<1> USE DEF taskVars, modeVars, settingVars, hostVars
<1>1. CASE TakeCommand
  BY <1>1 DEF TakeCommand, Interruptible, Takes, InService
<1>2. CASE \/ RunTrigger \/ RunQuery \/ RunData \/ RunGetSettings \/ RunSetSettings
           \/ RunEntered
  BY <1>2, Responds DEF TypeInv, Responded, InService
<1>3. CASE \/ InitOk \/ InitFails \/ RunEnterSettings \/ ScannerSleeps \/ AutoTrigger
           \/ BackToTop \/ ReadCode
  <2>1. InService' <=> InService
    BY <1>3 DEF InitOk, InitFails, RunEnterSettings, Runs, ScannerSleeps, AutoTrigger,
       BackToTop, ReadCode, InService
  <2>2. UNCHANGED <<current, commandCh, responseCh, asked, disturbed, cdc>>
    BY <1>3 DEF InitOk, InitFails, RunEnterSettings, ScannerSleeps, AutoTrigger, BackToTop,
       ReadCode
  <2>3. QED
    BY <2>1, <2>2 DEF MovesNothing
<1>4. ASSUME NEW kind \in Requests, NEW bit \in {0, 1}, HostAsks(kind, bit)
      PROVE  Asks
  BY <1>4 DEF HostAsks, Asks
<1>5. CASE Answer
  BY <1>5 DEF Answer, AnswerWith, Answered
<1>6. CASE Connect \/ Disconnect \/ SendScan \/ Listen \/ HostLocal \/ AnswerTimeout
  <2>1. UNCHANGED <<scanner, current, commandCh, responseCh, asked>>
    BY <1>6 DEF Connect, Disconnect, SendScan, Listen, HostLocal, AnswerTimeout
  <2>2. \/ disturbed' = TRUE
        \/ disturbed' = disturbed /\ cdc # "waiting" /\ cdc' # "waiting"
    BY <1>6 DEF Connect, Disconnect, SendScan, Listen, HostLocal, AnswerTimeout
  <2>3. QED
    BY <2>1, <2>2 DEF MovesNothing, InService
<1>7. ASSUME NEW zone \in Zone, TapRow(zone) PROVE Toggles
  <2>1. settings' \in {0, 1}
    BY <1>7 DEF TypeInv, CommandTypes, TapRow
  <2>2. QED
    BY <1>7, <2>1 DEF TapRow, Toggles
<1>8. ASSUME \/ Show \/ UNCHANGED vars
             \/ \E zone \in Zone : TapBack(zone) \/ TapHome(zone) \/ TapElsewhere(zone)
      PROVE  MovesNothing
  <2>1. UNCHANGED <<scanner, current, commandCh, responseCh, asked, disturbed, cdc>>
    BY <1>8 DEF Show, vars, TapBack, TapHome, TapElsewhere
  <2>2. QED
    BY <2>1 DEF MovesNothing, InService
<1>9. QED
  BY <1>1, <1>2, <1>3, <1>4, <1>5, <1>6, <1>7, <1>8
     DEF Next, ScannerTask, CdcTask, HandleTap

\* No request is ahead of the count.
Numbered ==
  /\ \A i \in 1 .. Len(responseCh) : responseCh[i].to <= asked
  /\ current.from <= asked
  /\ \A k \in 1 .. Len(commandCh) : commandCh[k].from <= asked

ResponsesInOrder ==
  \A i, j \in 1 .. Len(responseCh) : i < j => Before(responseCh[i].to, responseCh[j].to)
CommandsInOrder ==
  \A k, m \in 1 .. Len(commandCh) : k < m => Before(commandCh[k].from, commandCh[m].from)
ResponsesFirst ==
  \A i \in 1 .. Len(responseCh), k \in 1 .. Len(commandCh) :
    Before(responseCh[i].to, commandCh[k].from)
ServedBetween ==
  InService => /\ \A i \in 1 .. Len(responseCh) : Before(responseCh[i].to, current.from)
               /\ \A k \in 1 .. Len(commandCh) : Before(current.from, commandCh[k].from)

\* What AnswersInOrder says, place by place, and what it rests on.
InOrder == Numbered /\ ResponsesInOrder /\ CommandsInOrder /\ ResponsesFirst /\ ServedBetween

LEMMA RequestNumbers ==
  ASSUME TypeInv
  PROVE  /\ asked \in Nat /\ current.from \in Nat
         /\ Len(responseCh) \in Nat /\ Len(commandCh) \in Nat
         /\ \A i \in 1 .. Len(responseCh) : responseCh[i].to \in Nat
         /\ \A k \in 1 .. Len(commandCh) : commandCh[k].from \in Nat
<1>1. MaxRequests \in Nat
  BY AsyncAssumption DEF AsyncAssumption
<1>2. /\ responseCh \in Seq(CdcResponse) /\ commandCh \in Seq(HostCommand)
      /\ current \in HostCommand /\ asked \in 0 .. MaxRequests
  BY DEF TypeInv, AnswerTypes, CommandTypes
<1>3. /\ \A i \in 1 .. Len(responseCh) : responseCh[i] \in CdcResponse
      /\ \A k \in 1 .. Len(commandCh) : commandCh[k] \in HostCommand
      /\ Len(responseCh) \in Nat /\ Len(commandCh) \in Nat
  BY <1>2, ElementOfSeq, LenProperties
<1>4. QED
  BY <1>1, <1>2, <1>3 DEF CdcResponse, HostCommand

LEMMA InOrderNext ==
  ASSUME TypeInv, TypeInv', InOrder, [Next]_vars
  PROVE  InOrder'
<1>0. /\ asked \in Nat /\ current.from \in Nat
      /\ Len(responseCh) \in Nat /\ Len(commandCh) \in Nat
      /\ \A i \in 1 .. Len(responseCh) : responseCh[i].to \in Nat
      /\ \A k \in 1 .. Len(commandCh) : commandCh[k].from \in Nat
  BY RequestNumbers
<1>1. CASE Takes
  <2>1. /\ Head(commandCh) = commandCh[1] /\ Len(Tail(commandCh)) = Len(commandCh) - 1
        /\ Len(commandCh) > 0
        /\ \A k \in 1 .. Len(commandCh) - 1 : Tail(commandCh)[k] = commandCh[k + 1]
    BY <1>1, TakenFacts DEF Takes, TypeInv, CommandTypes
  <2>2. /\ current'.from = commandCh[1].from /\ 1 \in 1 .. Len(commandCh)
        /\ \A k \in 1 .. Len(commandCh') :
             k + 1 \in 2 .. Len(commandCh) /\ commandCh'[k].from = commandCh[k + 1].from
        /\ UNCHANGED <<responseCh, asked>>
    BY <1>0, <1>1, <2>1 DEF Takes
  <2>3. QED
    <3>1. Numbered'
      BY <2>2 DEF InOrder, Numbered
    <3>2. ResponsesInOrder'
      BY <1>0, <2>2 DEF InOrder, ResponsesInOrder
    <3>3. CommandsInOrder'
      BY <1>0, <2>2 DEF InOrder, CommandsInOrder
    <3>4. ResponsesFirst'
      BY <1>0, <2>2 DEF InOrder, ResponsesFirst
    <3>5. ServedBetween'
      BY <1>0, <2>2 DEF InOrder, ServedBetween, ResponsesFirst, CommandsInOrder
    <3>6. QED
      BY <3>1, <3>2, <3>3, <3>4, <3>5 DEF InOrder
<1>2. CASE Responded
  <2>1. PICK line \in {0, last_scan}, scanning \in BOOLEAN : Respond(line, scanning)
    BY <1>2 DEF Responded
  <2>2. line \in 0 .. MaxScans
    BY <2>1, LinesTyped DEF TypeInv
  <2>3. \/ responseCh' = responseCh
        \/ /\ Len(responseCh') = Len(responseCh) + 1
           /\ responseCh'[Len(responseCh) + 1] =
                [to |-> current.from, line |-> line, scanning |-> scanning]
           /\ \A k \in 1 .. Len(responseCh) : responseCh'[k] = responseCh[k]
    BY <2>1, <2>2, RespondFacts DEF TypeInv
  <2>4. /\ InService /\ ~InService' /\ current'.from = 0 /\ UNCHANGED <<commandCh, asked>>
    BY <1>2 DEF Responded, NoCommand
  <2>5. CASE responseCh' = responseCh
    <3>1. Numbered'
      BY <1>0, <2>4, <2>5 DEF InOrder, Numbered
    <3>2. ResponsesInOrder' /\ CommandsInOrder'
      BY <2>4, <2>5 DEF InOrder, ResponsesInOrder, CommandsInOrder
    <3>3. ResponsesFirst'
      BY <2>4, <2>5 DEF InOrder, ResponsesFirst
    <3>4. ServedBetween'
      BY <2>4, <2>5 DEF InOrder, ServedBetween
    <3>5. QED
      BY <3>1, <3>2, <3>3, <3>4 DEF InOrder
  <2>6. CASE responseCh' # responseCh
    <3>1. ASSUME NEW i \in 1 .. Len(responseCh')
          PROVE  \/ i \in 1 .. Len(responseCh) /\ responseCh'[i].to = responseCh[i].to
                 \/ i = Len(responseCh) + 1 /\ responseCh'[i].to = current.from
      BY <1>0, <2>3, <2>6
    <3>2. QED
      <4>1. Numbered'
        <5>1. ASSUME NEW i \in 1 .. Len(responseCh') PROVE responseCh'[i].to <= asked'
          BY <2>4, <3>1 DEF InOrder, Numbered
        <5>2. QED
          BY <1>0, <2>4, <5>1 DEF InOrder, Numbered
      <4>2. ResponsesInOrder'
        <5>1. ASSUME NEW i \in 1 .. Len(responseCh'), NEW j \in 1 .. Len(responseCh'), i < j
              PROVE  Before(responseCh'[i].to, responseCh'[j].to)
          <6>1. i \in 1 .. Len(responseCh) /\ responseCh'[i].to = responseCh[i].to
            BY <1>0, <2>3, <2>6, <5>1
          <6>2. CASE j \in 1 .. Len(responseCh) /\ responseCh'[j].to = responseCh[j].to
            BY <5>1, <6>1, <6>2 DEF InOrder, ResponsesInOrder
          <6>3. CASE responseCh'[j].to = current.from
            BY <2>4, <6>1, <6>3 DEF InOrder, ServedBetween
          <6>4. QED
            BY <3>1, <6>2, <6>3
        <5>2. QED
          BY <5>1 DEF ResponsesInOrder
      <4>3. CommandsInOrder'
        BY <1>0, <2>4, <3>1 DEF InOrder, CommandsInOrder
      <4>4. ResponsesFirst'
        BY <1>0, <2>4, <3>1 DEF InOrder, ResponsesFirst, ServedBetween
      <4>5. ServedBetween'
        BY <1>0, <2>4, <3>1 DEF ServedBetween
      <4>6. QED
        BY <4>1, <4>2, <4>3, <4>4, <4>5 DEF InOrder
  <2>7. QED
    BY <2>5, <2>6
<1>3. CASE Asks \/ Toggles
  <2>0. CommandCap \in Nat
    BY AsyncAssumption DEF AsyncAssumption
  <2>1. \E command \in HostCommand :
          /\ commandCh' = Sent(commandCh, command, CommandCap)
          /\ command.from = 0 \/ (command.from = asked' /\ asked' = asked + 1)
    <3>1. CASE Asks
      <4>1. PICK kind \in Requests, bit \in {0, 1} :
              commandCh' = Sent(commandCh, [from |-> asked', kind |-> kind, bit |-> bit],
                                CommandCap)
        BY <3>1 DEF Asks
      <4>2. [from |-> asked', kind |-> kind, bit |-> bit] \in HostCommand
        BY DEF HostCommand, TypeInv, CommandTypes
      <4>3. QED
        BY <3>1, <4>1, <4>2 DEF Asks
    <3>2. CASE Toggles
      <4>1. [from |-> 0, kind |-> "SetSettings", bit |-> settings'] \in HostCommand
        BY <3>2, AsyncAssumption DEF AsyncAssumption, HostCommand, Requests, Toggles
      <4>2. QED
        BY <3>2, <4>1 DEF Toggles, Toggled
    <3>3. QED
      BY <1>3, <3>1, <3>2
  <2>2. PICK command \in HostCommand :
          /\ commandCh' = Sent(commandCh, command, CommandCap)
          /\ command.from = 0 \/ (command.from = asked' /\ asked' = asked + 1)
    BY <2>1
  <2>3. \/ commandCh' = commandCh
        \/ /\ Len(commandCh') = Len(commandCh) + 1
           /\ commandCh'[Len(commandCh) + 1] = command
           /\ \A k \in 1 .. Len(commandCh) : commandCh'[k] = commandCh[k]
    BY <2>0, <2>2, SentFacts DEF TypeInv, CommandTypes
  <2>4. /\ asked' \in {asked, asked + 1} /\ (InService' <=> InService)
        /\ UNCHANGED <<current, responseCh>>
    BY <1>3 DEF Asks, Toggles, InService
  <2>5. CASE commandCh' = commandCh
    <3>1. Numbered'
      BY <1>0, <2>4, <2>5 DEF InOrder, Numbered
    <3>2. ResponsesInOrder' /\ CommandsInOrder'
      BY <2>4, <2>5 DEF InOrder, ResponsesInOrder, CommandsInOrder
    <3>3. ResponsesFirst'
      BY <2>4, <2>5 DEF InOrder, ResponsesFirst
    <3>4. ServedBetween'
      BY <2>4, <2>5 DEF InOrder, ServedBetween
    <3>5. QED
      BY <3>1, <3>2, <3>3, <3>4 DEF InOrder
  <2>6. CASE commandCh' # commandCh
    <3>1. ASSUME NEW k \in 1 .. Len(commandCh')
          PROVE  \/ k \in 1 .. Len(commandCh) /\ commandCh'[k].from = commandCh[k].from
                 \/ /\ k = Len(commandCh) + 1 /\ commandCh'[k].from = command.from
      BY <1>0, <2>3, <2>6
    <3>2. Len(commandCh') = Len(commandCh) + 1
      BY <2>3, <2>6
    <3>3. /\ command.from \in 0 .. asked'
          /\ \A n \in Nat : n <= asked => n <= asked' /\ Before(n, command.from)
      BY <1>0, <2>2, <2>4 DEF Before
    <3>4. QED
      <4>1. Numbered'
        <5>1. asked <= asked'
          BY <1>0, <2>4
        <5>2. ASSUME NEW k \in 1 .. Len(commandCh') PROVE commandCh'[k].from <= asked'
          BY <1>0, <3>1, <3>3, <5>1 DEF InOrder, Numbered
        <5>3. ASSUME NEW n \in Nat, n <= asked PROVE n <= asked'
          BY <1>0, <2>4, <5>3
        <5>4. QED
          BY <1>0, <2>4, <5>2, <5>3 DEF InOrder, Numbered
      <4>2. ResponsesInOrder'
        BY <1>0, <2>4, <3>1, <3>2, <3>3 DEF InOrder, ResponsesInOrder, Numbered
      <4>3. CommandsInOrder'
        <5>1. ASSUME NEW k \in 1 .. Len(commandCh'), NEW m \in 1 .. Len(commandCh'), k < m
              PROVE  Before(commandCh'[k].from, commandCh'[m].from)
          <6>1. k \in 1 .. Len(commandCh) /\ commandCh'[k].from = commandCh[k].from
            BY <1>0, <3>1, <3>2, <5>1
          <6>2. CASE m \in 1 .. Len(commandCh) /\ commandCh'[m].from = commandCh[m].from
            BY <5>1, <6>1, <6>2 DEF InOrder, CommandsInOrder
          <6>3. CASE commandCh'[m].from = command.from
            BY <1>0, <3>3, <6>1, <6>3 DEF InOrder, Numbered
          <6>4. QED
            BY <3>1, <6>2, <6>3
        <5>2. QED
          BY <5>1 DEF CommandsInOrder
      <4>4. ResponsesFirst'
        BY <1>0, <2>4, <3>1, <3>2, <3>3 DEF InOrder, ResponsesFirst, Numbered
      <4>5. ServedBetween'
        BY <1>0, <2>4, <3>1, <3>2, <3>3 DEF InOrder, ServedBetween, Numbered
      <4>6. QED
        BY <4>1, <4>2, <4>3, <4>4, <4>5 DEF InOrder
  <2>7. QED
    BY <2>5, <2>6
<1>4. CASE Answered
  <2>1. /\ Len(Tail(responseCh)) = Len(responseCh) - 1 /\ Len(responseCh) > 0
        /\ \A k \in 1 .. Len(responseCh) - 1 : Tail(responseCh)[k] = responseCh[k + 1]
    BY <1>4, TakenFacts DEF Answered, TypeInv, AnswerTypes
  <2>2. /\ \A i \in 1 .. Len(responseCh') :
             i + 1 \in 1 .. Len(responseCh) /\ responseCh'[i].to = responseCh[i + 1].to
        /\ UNCHANGED <<current, commandCh, asked>> /\ (InService' <=> InService)
    BY <1>0, <1>4, <2>1 DEF Answered, InService
  <2>3. QED
    <3>1. Numbered'
      BY <2>2 DEF InOrder, Numbered
    <3>2. ResponsesInOrder'
      BY <1>0, <2>2 DEF InOrder, ResponsesInOrder
    <3>3. CommandsInOrder'
      BY <1>0, <2>2 DEF InOrder, CommandsInOrder
    <3>4. ResponsesFirst'
      BY <1>0, <2>2 DEF InOrder, ResponsesFirst
    <3>5. ServedBetween'
      BY <1>0, <2>2 DEF InOrder, ServedBetween
    <3>6. QED
      BY <3>1, <3>2, <3>3, <3>4, <3>5 DEF InOrder
<1>5. CASE MovesNothing
  BY <1>0, <1>5 DEF MovesNothing, InOrder, Numbered, ResponsesInOrder,
     CommandsInOrder, ResponsesFirst, ServedBetween, Before
<1>6. QED
  BY <1>1, <1>2, <1>3, <1>4, <1>5, RequestSteps

\* InFlight is the responses' requests, the one served and the commands', in
\* that order.
Answering == [k \in DOMAIN responseCh |-> responseCh[k].to]
Serving == IF InService THEN <<current.from>> ELSE <<>>
Queueing == [k \in DOMAIN commandCh |-> commandCh[k].from]

LEMMA InFlightPlaces ==
  ASSUME TypeInv
  PROVE  /\ InFlight = Answering \o Serving \o Queueing
         /\ Answering \in Seq(Nat) /\ Len(Answering) = Len(responseCh)
         /\ Serving \in Seq(Nat) /\ Len(Serving) = IF InService THEN 1 ELSE 0
         /\ Queueing \in Seq(Nat) /\ Len(Queueing) = Len(commandCh)
         /\ \A i \in 1 .. Len(responseCh) : Answering[i] = responseCh[i].to
         /\ InService => Serving[1] = current.from
         /\ \A k \in 1 .. Len(commandCh) : Queueing[k] = commandCh[k].from
<1>1. /\ current.from \in Nat /\ Len(responseCh) \in Nat /\ Len(commandCh) \in Nat
      /\ \A i \in 1 .. Len(responseCh) : responseCh[i].to \in Nat
      /\ \A k \in 1 .. Len(commandCh) : commandCh[k].from \in Nat
  BY RequestNumbers
<1>2. DOMAIN responseCh = 1 .. Len(responseCh) /\ DOMAIN commandCh = 1 .. Len(commandCh)
  BY LenProperties DEF TypeInv, AnswerTypes, CommandTypes
<1>3. /\ Answering \in Seq(Nat) /\ Len(Answering) = Len(responseCh)
      /\ \A i \in 1 .. Len(responseCh) : Answering[i] = responseCh[i].to
  BY <1>1, <1>2 DEF Answering
<1>4. /\ Queueing \in Seq(Nat) /\ Len(Queueing) = Len(commandCh)
      /\ \A k \in 1 .. Len(commandCh) : Queueing[k] = commandCh[k].from
  BY <1>1, <1>2 DEF Queueing
<1>5. /\ Serving \in Seq(Nat) /\ Len(Serving) = IF InService THEN 1 ELSE 0
      /\ InService => Serving[1] = current.from
  BY <1>1 DEF Serving
<1>6. InFlight = Answering \o Serving \o Queueing
  BY DEF InFlight, Answering, Serving, Queueing, InService
<1>7. QED
  BY <1>3, <1>4, <1>5, <1>6

Ascends(s) == \A i, j \in 1 .. Len(s) : i < j => Before(s[i], s[j])
Precedes(s, t) == \A i \in 1 .. Len(s), j \in 1 .. Len(t) : Before(s[i], t[j])

LEMMA ConcatAscends ==
  ASSUME NEW s \in Seq(Nat), NEW t \in Seq(Nat)
  PROVE  /\ s \o t \in Seq(Nat)
         /\ Ascends(s) /\ Ascends(t) /\ Precedes(s, t) => Ascends(s \o t)
         /\ \A u \in Seq(Nat) : Precedes(s, u) /\ Precedes(t, u) => Precedes(s \o t, u)
<1>1. Len(s) \in Nat /\ Len(t) \in Nat /\ s \o t \in Seq(Nat)
  BY LenProperties, ConcatProperties
<1>2. ASSUME NEW i \in 1 .. Len(s \o t)
      PROVE  \/ i \in 1 .. Len(s) /\ (s \o t)[i] = s[i]
             \/ /\ i > Len(s) /\ i - Len(s) \in 1 .. Len(t)
                /\ (s \o t)[i] = t[i - Len(s)]
  BY <1>1, ConcatProperties
<1>3. ASSUME Ascends(s), Ascends(t), Precedes(s, t)
      PROVE  Ascends(s \o t)
  <2>1. SUFFICES ASSUME NEW i \in 1 .. Len(s \o t), NEW j \in 1 .. Len(s \o t), i < j
                 PROVE  Before((s \o t)[i], (s \o t)[j])
    BY DEF Ascends
  <2>2. CASE j <= Len(s)
    <3>1. /\ i \in 1 .. Len(s) /\ (s \o t)[i] = s[i]
          /\ j \in 1 .. Len(s) /\ (s \o t)[j] = s[j]
      BY <1>1, <1>2, <2>1, <2>2
    <3>2. QED
      BY <1>3, <2>1, <3>1 DEF Ascends
  <2>3. CASE i <= Len(s) /\ Len(s) < j
    <3>1. /\ i \in 1 .. Len(s) /\ (s \o t)[i] = s[i]
          /\ j - Len(s) \in 1 .. Len(t) /\ (s \o t)[j] = t[j - Len(s)]
      BY <1>1, <1>2, <2>3
    <3>2. QED
      BY <1>3, <3>1 DEF Precedes
  <2>4. CASE Len(s) < i
    <3>1. /\ i - Len(s) \in 1 .. Len(t) /\ (s \o t)[i] = t[i - Len(s)]
          /\ j - Len(s) \in 1 .. Len(t) /\ (s \o t)[j] = t[j - Len(s)]
          /\ i - Len(s) < j - Len(s)
      BY <1>1, <1>2, <2>1, <2>4
    <3>2. QED
      BY <1>3, <3>1 DEF Ascends
  <2>5. i \in Nat /\ j \in Nat /\ Len(s) \in Nat
    BY <1>1, <1>2
  <2>6. j <= Len(s) \/ (i <= Len(s) /\ Len(s) < j) \/ Len(s) < i
    BY <2>1, <2>5
  <2>7. QED
    BY <2>2, <2>3, <2>4, <2>6
<1>4. ASSUME NEW u \in Seq(Nat), Precedes(s, u), Precedes(t, u)
      PROVE  Precedes(s \o t, u)
  BY <1>2, <1>4 DEF Precedes
<1>5. QED
  BY <1>1, <1>3, <1>4

LEMMA InOrderSuffices ==
  ASSUME TypeInv, InOrder
  PROVE  AnswersInOrder
<1>1. /\ Answering \in Seq(Nat) /\ Serving \in Seq(Nat) /\ Queueing \in Seq(Nat)
      /\ InFlight = Answering \o Serving \o Queueing
  BY InFlightPlaces
<1>2. Ascends(Answering) /\ Ascends(Queueing) /\ Precedes(Answering, Queueing)
  BY InFlightPlaces DEF InOrder, ResponsesInOrder, CommandsInOrder, ResponsesFirst, Ascends,
     Precedes
<1>3. Ascends(Serving)
  BY InFlightPlaces DEF Ascends
<1>4. Precedes(Answering, Serving) /\ Precedes(Serving, Queueing)
  <2>1. CASE InService
    <3>1. Len(Serving) = 1 /\ Serving[1] = current.from
      BY <2>1, InFlightPlaces
    <3>2. QED
      BY <2>1, <3>1, InFlightPlaces DEF InOrder, ServedBetween, Precedes
  <2>2. CASE ~InService
    BY <2>2, InFlightPlaces DEF Precedes
  <2>3. QED
    BY <2>1, <2>2
<1>5. InFlight \in Seq(Nat) /\ Ascends(InFlight)
  BY <1>1, <1>2, <1>3, <1>4, ConcatAscends
<1>6. DOMAIN InFlight = 1 .. Len(InFlight)
  BY <1>5, LenProperties
<1>7. QED
  BY <1>5, <1>6 DEF AnswersInOrder, Ascends, Before

\* Answers come back in the order of the requests, however many are late: a
\* request the host gave up on shifts the later answers but never swaps two.
THEOREM LateAnswersShift == Spec => []AnswersInOrder
<1>1. Init => InOrder
  BY EmptySeq, AsyncAssumption DEF Init, AsyncAssumption, InOrder, Numbered, ResponsesInOrder,
     CommandsInOrder, ResponsesFirst, ServedBetween, InService, NoCommand
<1>2. TypeInv /\ TypeInv' /\ InOrder /\ [Next]_vars => InOrder'
  BY InOrderNext
<1>3. TypeInv /\ InOrder => AnswersInOrder
  BY InOrderSuffices
<1>4. QED
  BY TypeInit, TypeNext, <1>1, <1>2, <1>3, PTL DEF Spec

\* Undisturbed, there is one request under way while the CDC task waits, its own,
\* and none at other times.
OnTheWay ==
  ~disturbed =>
    IF cdc = "waiting"
      THEN \/ /\ Len(responseCh) = 1 /\ responseCh[1].to = asked
              /\ ~InService /\ Len(commandCh) = 0
           \/ Len(responseCh) = 0 /\ InService /\ current.from = asked /\ Len(commandCh) = 0
           \/ /\ Len(responseCh) = 0 /\ ~InService
              /\ Len(commandCh) = 1 /\ commandCh[1].from = asked
      ELSE Len(responseCh) = 0 /\ ~InService /\ Len(commandCh) = 0

LEMMA OnTheWayNext ==
  ASSUME TypeInv, OnTheWay, [Next]_vars
  PROVE  OnTheWay'
<1>0. /\ Len(responseCh) \in Nat /\ Len(commandCh) \in Nat
      /\ responseCh # <<>> => Len(responseCh) # 0
      /\ commandCh # <<>> => Len(commandCh) # 0
  BY RequestNumbers, EmptySeq DEF TypeInv, AnswerTypes, CommandTypes
<1>1. CASE Takes
  <2>1. Head(commandCh) = commandCh[1] /\ Len(Tail(commandCh)) = Len(commandCh) - 1
    BY <1>1, TakenFacts DEF Takes, TypeInv, CommandTypes
  <2>2. /\ Len(commandCh) # 0 /\ ~InService /\ InService' /\ current' = commandCh[1]
        /\ Len(commandCh') = Len(commandCh) - 1
        /\ UNCHANGED <<responseCh, asked, cdc, disturbed>>
    BY <1>0, <1>1, <2>1 DEF Takes
  <2>3. QED
    BY <1>0, <2>2 DEF OnTheWay
<1>2. CASE Responded
  <2>1. PICK line \in {0, last_scan}, scanning \in BOOLEAN : Respond(line, scanning)
    BY <1>2 DEF Responded
  <2>2. line \in 0 .. MaxScans
    BY <2>1, LinesTyped DEF TypeInv
  <2>3. Len(responseCh) < ResponseCap =>
          responseCh' = Append(responseCh, [to |-> current.from, line |-> line,
                                            scanning |-> scanning])
    BY <2>1, <2>2, RespondFacts DEF TypeInv
  <2>4. ResponseCap \in Nat \ {0}
    BY AsyncAssumption DEF AsyncAssumption
  <2>5. ASSUME Len(responseCh) = 0
        PROVE  Len(responseCh') = 1 /\ responseCh'[1].to = current.from
    <3>1. responseCh \in Seq(CdcResponse)
      BY DEF TypeInv, AnswerTypes
    <3>2. [to |-> current.from, line |-> line, scanning |-> scanning] \in CdcResponse
      BY <2>2 DEF TypeInv, CommandTypes, HostCommand, CdcResponse
    <3>3. QED
      BY <2>3, <2>4, <2>5, <3>1, <3>2, AppendProperties
  <2>6. /\ InService /\ ~InService' /\ UNCHANGED <<commandCh, asked, cdc, disturbed>>
    BY <1>2 DEF Responded
  <2>7. QED
    BY <1>0, <2>5, <2>6 DEF OnTheWay
<1>3. CASE Asks
  <2>1. PICK kind \in Requests, bit \in {0, 1} :
          commandCh' = Sent(commandCh, [from |-> asked', kind |-> kind, bit |-> bit], CommandCap)
    BY <1>3 DEF Asks
  <2>2. [from |-> asked', kind |-> kind, bit |-> bit] \in HostCommand
    BY TypeNext DEF HostCommand, TypeInv, CommandTypes
  <2>3. CommandCap \in Nat \ {0}
    BY AsyncAssumption DEF AsyncAssumption
  <2>4. ASSUME Len(commandCh) = 0
        PROVE  Len(commandCh') = 1 /\ commandCh'[1].from = asked'
    <3>1. commandCh' = Append(commandCh, [from |-> asked', kind |-> kind, bit |-> bit])
      BY <2>1, <2>3, <2>4 DEF Sent
    <3>2. QED
      BY <2>2, <2>4, <3>1, AppendProperties DEF TypeInv, CommandTypes
  <2>5. /\ cdc = "listening" /\ cdc' = "waiting" /\ (InService' <=> InService)
        /\ UNCHANGED <<responseCh, disturbed>>
    BY <1>3 DEF Asks, InService
  <2>6. QED
    BY <1>0, <2>4, <2>5 DEF OnTheWay
<1>4. CASE Toggles
  BY <1>4 DEF Toggles, OnTheWay
<1>5. CASE Answered
  <2>1. Len(Tail(responseCh)) = Len(responseCh) - 1
    BY <1>5, TakenFacts DEF Answered, TypeInv, AnswerTypes
  <2>2. /\ cdc = "waiting" /\ cdc' = "top" /\ Len(responseCh) # 0
        /\ Len(responseCh') = Len(responseCh) - 1
        /\ (InService' <=> InService) /\ UNCHANGED <<commandCh, disturbed>>
    BY <1>0, <1>5, <2>1 DEF Answered, InService
  <2>3. QED
    BY <1>0, <2>2 DEF OnTheWay
<1>6. CASE MovesNothing
  <2>1. SUFFICES ASSUME ~disturbed' PROVE OnTheWay'
    BY DEF OnTheWay
  <2>2. disturbed' # TRUE
    BY <2>1
  <2>3. ~disturbed /\ (cdc' = "waiting" <=> cdc = "waiting") /\ (InService' <=> InService)
    BY <1>6, <2>1, <2>2 DEF MovesNothing
  <2>4. UNCHANGED <<current, commandCh, responseCh, asked>>
    BY <1>6 DEF MovesNothing
  <2>5. QED
    BY <2>3, <2>4 DEF OnTheWay
<1>7. QED
  BY <1>1, <1>2, <1>3, <1>4, <1>5, <1>6, RequestSteps

LEMMA OnTheWaySuffices ==
  ASSUME TypeInv, OnTheWay
  PROVE  CleanSession
<1>1. SUFFICES ASSUME ~disturbed
               PROVE  InFlight = IF cdc = "waiting" THEN <<asked>> ELSE <<>>
  BY DEF CleanSession
<1>2. /\ Answering \in Seq(Nat) /\ Queueing \in Seq(Nat)
      /\ InFlight = Answering \o Serving \o Queueing
      /\ Serving = IF InService THEN <<current.from>> ELSE <<>>
      /\ current.from \in Nat
  BY InFlightPlaces, RequestNumbers DEF Serving
<1>3. ASSUME NEW s \in Seq(Nat)
      PROVE  /\ s \o <<>> = s /\ <<>> \o s = s
             /\ Len(s) = 0 => s = <<>>
             /\ Len(s) = 1 => s = <<s[1]>>
  BY ConcatEmptySeq, EmptySeq
<1>4. <<>> \in Seq(Nat) /\ <<current.from>> \in Seq(Nat)
  BY <1>2
<1>5. /\ Len(responseCh) = 0 => Answering = <<>>
      /\ Len(commandCh) = 0 => Queueing = <<>>
      /\ Len(responseCh) = 1 => Answering = <<responseCh[1].to>>
      /\ Len(commandCh) = 1 => Queueing = <<commandCh[1].from>>
  <2>1. Len(Answering) = Len(responseCh) /\ Len(Queueing) = Len(commandCh)
    BY InFlightPlaces
  <2>2. /\ Len(responseCh) = 1 => Answering[1] = responseCh[1].to
        /\ Len(commandCh) = 1 => Queueing[1] = commandCh[1].from
    BY InFlightPlaces
  <2>3. QED
    BY <1>2, <1>3, <2>1, <2>2
<1>6. CASE /\ cdc = "waiting" /\ Len(responseCh) = 1 /\ responseCh[1].to = asked
           /\ ~InService /\ Len(commandCh) = 0
  <2>1. Answering = <<asked>> /\ Serving = <<>> /\ Queueing = <<>>
    BY <1>2, <1>5, <1>6
  <2>2. QED
    BY <1>2, <1>3, <1>6, <2>1
<1>7. CASE /\ cdc = "waiting" /\ Len(responseCh) = 0 /\ InService /\ current.from = asked
           /\ Len(commandCh) = 0
  <2>1. Answering = <<>> /\ Serving = <<asked>> /\ Queueing = <<>>
    BY <1>2, <1>5, <1>7
  <2>2. QED
    BY <1>2, <1>3, <1>4, <1>7, <2>1
<1>8. CASE /\ cdc = "waiting" /\ Len(responseCh) = 0 /\ ~InService /\ Len(commandCh) = 1
           /\ commandCh[1].from = asked
  <2>1. Answering = <<>> /\ Serving = <<>> /\ Queueing = <<asked>>
    BY <1>2, <1>5, <1>8
  <2>2. QED
    BY <1>2, <1>3, <1>4, <1>8, <2>1
<1>9. CASE cdc # "waiting" /\ Len(responseCh) = 0 /\ ~InService /\ Len(commandCh) = 0
  BY <1>2, <1>3, <1>4, <1>5, <1>9
<1>10. QED
  BY <1>1, <1>6, <1>7, <1>8, <1>9 DEF OnTheWay

\* Until a request times out or a row is toggled, each answer is the waiting
\* request's own and nothing else is under way.
THEOREM OwnAnswerWhileClean == Spec => []CleanSession
<1>1. Init => OnTheWay
  BY EmptySeq DEF Init, OnTheWay, InService
<1>2. TypeInv /\ OnTheWay /\ [Next]_vars => OnTheWay'
  BY OnTheWayNext
<1>3. TypeInv /\ OnTheWay => CleanSession
  BY OnTheWaySuffices
<1>4. QED
  BY TypeInit, TypeNext, <1>1, <1>2, <1>3, PTL DEF Spec

----------------------------------------------------------------------------
(* The code given to the host *)

\* A code that was answered is not in the shared state any more, and what is
\* there is newer than every code on its way to the host, and that newer than
\* the one given last.
CodesInOrder ==
  /\ last_scan <= scans /\ given <= scans /\ Before(given, last_scan)
  /\ \A i \in 1 .. Len(responseCh) : Before(given, responseCh[i].line)
  /\ \A i \in 1 .. Len(responseCh) :
       responseCh[i].line <= scans /\ Before(responseCh[i].line, last_scan)
  /\ \A i, j \in 1 .. Len(responseCh) :
       i < j => Before(responseCh[i].line, responseCh[j].line)

LEMMA CodeNumbers ==
  ASSUME AnswerTypes
  PROVE  /\ last_scan \in Nat /\ scans \in Nat /\ given \in Nat /\ Len(responseCh) \in Nat
         /\ \A i \in 1 .. Len(responseCh) : responseCh[i].line \in Nat
<1>1. MaxScans \in Nat
  BY AsyncAssumption DEF AsyncAssumption
<1>2. /\ responseCh \in Seq(CdcResponse)
      /\ last_scan \in 0 .. MaxScans /\ scans \in 0 .. MaxScans /\ given \in 0 .. MaxScans
  BY DEF AnswerTypes
<1>3. Len(responseCh) \in Nat /\ \A i \in 1 .. Len(responseCh) : responseCh[i] \in CdcResponse
  BY <1>2, ElementOfSeq, LenProperties
<1>4. QED
  BY <1>1, <1>2, <1>3 DEF CdcResponse

Gives ==
  /\ \E line \in {0, last_scan}, scanning \in BOOLEAN :
       Respond(line, scanning) /\ (line # 0 => last_scan' = 0)
  /\ last_scan' \in {0, last_scan} /\ UNCHANGED <<scans, given>>

Reads == scans' = scans + 1 /\ last_scan' = scans' /\ UNCHANGED <<responseCh, given>>

SendsOff ==
  /\ responseCh # <<>> /\ responseCh' = Tail(responseCh)
  /\ given' = IF Head(responseCh).line = 0 THEN given ELSE Head(responseCh).line
  /\ UNCHANGED <<scans, last_scan>>

\* A step answers a command, reads a code, sends a response off, or does
\* nothing to codes.
LEMMA CodeSteps ==
  ASSUME AnswerTypes, [Next]_vars
  PROVE  \/ Gives
         \/ Reads
         \/ SendsOff
         \/ UNCHANGED <<scans, last_scan, given, responseCh>>
<1> USE DEF taskVars, modeVars, settingVars, hostVars, scanVars
<1>1. CASE RunTrigger
  BY <1>1 DEF RunTrigger, Finished, Gives, AnswerTypes
<1>2. CASE RunData
  BY <1>2 DEF RunData, Taken, Finished, Gives
<1>3. CASE RunQuery \/ RunGetSettings \/ RunSetSettings \/ RunEntered
  BY <1>3 DEF RunQuery, RunGetSettings, RunSetSettings, RunEntered, Finished, Gives
<1>4. CASE ReadCode
  BY <1>4 DEF ReadCode, Reads
<1>5. CASE Answer
  BY <1>5 DEF Answer, AnswerWith, SendsOff
<1>6. CASE \/ InitOk \/ InitFails \/ TakeCommand \/ RunEnterSettings \/ ScannerSleeps
           \/ AutoTrigger \/ BackToTop \/ Connect \/ Disconnect \/ SendScan \/ Listen
           \/ HostLocal \/ AnswerTimeout \/ Show \/ UNCHANGED vars
  BY <1>6 DEF InitOk, InitFails, TakeCommand, RunEnterSettings, ScannerSleeps, AutoTrigger,
     BackToTop, Connect, Disconnect, SendScan, Listen, HostLocal, AnswerTimeout, Show, vars
<1>7. ASSUME \/ \E kind \in Requests, bit \in {0, 1} : HostAsks(kind, bit)
             \/ \E zone \in Zone : HandleTap(zone)
      PROVE  UNCHANGED <<scans, last_scan, given, responseCh>>
  BY <1>7 DEF HostAsks, HandleTap, TapBack, TapRow, TapHome, TapElsewhere
<1>8. QED
  BY <1>1, <1>2, <1>3, <1>4, <1>5, <1>6, <1>7 DEF Next, ScannerTask, CdcTask

LEMMA CodesInOrderNext ==
  ASSUME TypeInv, CodesInOrder, [Next]_vars
  PROVE  CodesInOrder'
<1>0. /\ last_scan \in Nat /\ scans \in Nat /\ given \in Nat /\ Len(responseCh) \in Nat
      /\ \A i \in 1 .. Len(responseCh) : responseCh[i].line \in Nat
  BY CodeNumbers DEF TypeInv
<1>1. CASE Gives
  <2>1. PICK line \in {0, last_scan}, scanning \in BOOLEAN :
          Respond(line, scanning) /\ (line # 0 => last_scan' = 0)
    BY <1>1 DEF Gives
  <2>2. line \in 0 .. MaxScans
    BY <2>1, LinesTyped DEF TypeInv
  <2>3. \/ responseCh' = responseCh
        \/ /\ Len(responseCh') = Len(responseCh) + 1
           /\ responseCh'[Len(responseCh) + 1] =
                [to |-> current.from, line |-> line, scanning |-> scanning]
           /\ \A k \in 1 .. Len(responseCh) : responseCh'[k] = responseCh[k]
    BY <2>1, <2>2, RespondFacts DEF TypeInv
  <2>4. last_scan' \in {0, last_scan} /\ scans' = scans /\ given' = given
    BY <1>1 DEF Gives
  <2>5. /\ last_scan' <= scans' /\ given' <= scans' /\ Before(given', last_scan')
        /\ \A n \in Nat : Before(n, last_scan) => Before(n, last_scan')
    BY <1>0, <2>4 DEF CodesInOrder, Before
  <2>6. /\ line <= scans' /\ Before(given', line) /\ Before(line, last_scan')
        /\ \A n \in Nat : Before(n, last_scan) => Before(n, line)
    BY <1>0, <2>1, <2>4, <2>5 DEF CodesInOrder, Before
  <2>7. CASE responseCh' = responseCh
    BY <1>0, <2>4, <2>5, <2>7 DEF CodesInOrder
  <2>8. CASE responseCh' # responseCh
    <3>1. ASSUME NEW i \in 1 .. Len(responseCh')
          PROVE  \/ i \in 1 .. Len(responseCh) /\ responseCh'[i].line = responseCh[i].line
                 \/ i = Len(responseCh) + 1 /\ responseCh'[i].line = line
      BY <1>0, <2>3, <2>8
    <3>2. ASSUME NEW i \in 1 .. Len(responseCh')
          PROVE  /\ responseCh'[i].line <= scans' /\ Before(responseCh'[i].line, last_scan')
                 /\ Before(given', responseCh'[i].line)
      BY <1>0, <2>4, <2>5, <2>6, <3>1 DEF CodesInOrder
    <3>3. ASSUME NEW i \in 1 .. Len(responseCh'), NEW j \in 1 .. Len(responseCh'), i < j
          PROVE  Before(responseCh'[i].line, responseCh'[j].line)
      <4>1. i \in 1 .. Len(responseCh) /\ responseCh'[i].line = responseCh[i].line
        BY <1>0, <2>3, <2>8, <3>1, <3>3
      <4>2. QED
        BY <1>0, <2>6, <3>1, <3>3, <4>1 DEF CodesInOrder
    <3>4. QED
      BY <2>5, <3>2, <3>3 DEF CodesInOrder
  <2>9. QED
    BY <2>7, <2>8
<1>2. CASE Reads
  BY <1>0, <1>2 DEF Reads, CodesInOrder, Before
<1>3. CASE SendsOff
  <2>1. /\ Len(Tail(responseCh)) = Len(responseCh) - 1 /\ Len(responseCh) > 0
        /\ Head(responseCh) = responseCh[1]
        /\ \A k \in 1 .. Len(responseCh) - 1 : Tail(responseCh)[k] = responseCh[k + 1]
    BY <1>3, TakenFacts DEF SendsOff, TypeInv, AnswerTypes
  <2>2. \A i \in 1 .. Len(responseCh') :
          i + 1 \in 1 .. Len(responseCh) /\ responseCh'[i].line = responseCh[i + 1].line
    BY <1>0, <1>3, <2>1 DEF SendsOff
  <2>3. given' = IF responseCh[1].line = 0 THEN given ELSE responseCh[1].line
    BY <1>3, <2>1 DEF SendsOff
  <2>4. /\ given' \in Nat /\ given' <= scans /\ Before(given', last_scan)
        /\ \A i \in 2 .. Len(responseCh) : Before(given', responseCh[i].line)
    BY <1>0, <2>1, <2>3 DEF CodesInOrder
  <2>5. \A i \in 1 .. Len(responseCh') : Before(given', responseCh'[i].line)
    BY <1>0, <2>2, <2>4
  <2>6. QED
    BY <1>0, <1>3, <2>2, <2>4, <2>5 DEF CodesInOrder, SendsOff
<1>4. CASE UNCHANGED <<scans, last_scan, given, responseCh>>
  BY <1>4 DEF CodesInOrder
<1>5. QED
  BY <1>1, <1>2, <1>3, <1>4, CodeSteps DEF TypeInv

\* The code given to the host last, those in responses under way and the one kept
\* are newer and newer: a response never brings a scanned code again or after a
\* newer one, though responses wait in the channel and may be dropped when it is
\* full.
THEOREM CodesGivenOnce == Spec => []DataInOrderOnce
<1>1. Init => CodesInOrder
  BY AsyncAssumption, EmptySeq DEF AsyncAssumption, Init, CodesInOrder, Before
<1>2. TypeInv /\ CodesInOrder /\ [Next]_vars => CodesInOrder'
  BY CodesInOrderNext
<1>3. ASSUME TypeInv, CodesInOrder PROVE DataInOrderOnce
  <2> DEFINE before == <<given>>
             underway == [k \in DOMAIN responseCh |-> responseCh[k].line]
             kept == <<last_scan>>
             lines == before \o underway \o kept
  <2>1. /\ last_scan \in Nat /\ given \in Nat /\ Len(responseCh) \in Nat
        /\ \A i \in 1 .. Len(responseCh) : responseCh[i].line \in Nat
    BY <1>3, CodeNumbers DEF TypeInv
  <2>2. DOMAIN responseCh = 1 .. Len(responseCh)
    BY <1>3, LenProperties DEF TypeInv, AnswerTypes
  <2>3. /\ underway \in Seq(Nat) /\ Len(underway) = Len(responseCh)
        /\ \A i \in 1 .. Len(responseCh) : underway[i] = responseCh[i].line
        /\ kept \in Seq(Nat) /\ Len(kept) = 1 /\ kept[1] = last_scan
        /\ before \in Seq(Nat) /\ Len(before) = 1 /\ before[1] = given
    BY <2>1, <2>2
  <2>4. DataInOrderOnce = \A i, j \in DOMAIN lines :
                            i < j /\ lines[i] # 0 /\ lines[j] # 0 => lines[i] < lines[j]
    BY DEF DataInOrderOnce
  <2> HIDE DEF before, underway, kept
  <2>5. /\ Ascends(before) /\ Ascends(underway) /\ Ascends(kept)
        /\ Precedes(before, underway) /\ Precedes(before, kept) /\ Precedes(underway, kept)
    BY <1>3, <2>3 DEF CodesInOrder, Ascends, Precedes
  <2>6. before \o underway \in Seq(Nat) /\ Ascends(before \o underway)
    BY <2>3, <2>5, ConcatAscends
  <2>7. Precedes(before \o underway, kept)
    BY <2>3, <2>5, ConcatAscends
  <2>8. lines \in Seq(Nat) /\ Ascends(lines)
    BY <2>3, <2>6, <2>7, <2>5, ConcatAscends
  <2>9. QED
    BY <2>4, <2>8, LenProperties DEF Ascends, Before
<1>4. QED
  BY TypeInit, TypeNext, <1>1, <1>2, <1>3, PTL DEF Spec

----------------------------------------------------------------------------
(* The settings shown and the module's *)

WritePending ==
  \/ scanner = "busy" /\ current.kind = "SetSettings"
  \/ \E k \in DOMAIN commandCh : commandCh[k].kind = "SetSettings"

\* What a step may do to the settings: agree with the module, admit that it is
\* not known, leave a write to be carried out, or leave them alone, with every
\* write that was pending still pending.
LEMMA SettingSteps ==
  ASSUME TypeInv, [Next]_vars
  PROVE  \/ settings' = register' \/ ~known' \/ WritePending'
         \/ /\ UNCHANGED <<settings, register>>
            /\ known' => known
            /\ WritePending => WritePending'
<1> DEFINE Kept == /\ UNCHANGED <<settings, register>> /\ (known' => known)
                   /\ WritePending => WritePending'
<1> USE DEF taskVars, modeVars, settingVars, hostVars
<1>0. commandCh \in Seq(HostCommand) /\ DOMAIN commandCh = 1 .. Len(commandCh)
  BY LenProperties DEF TypeInv, CommandTypes
<1>1. CASE InitOk
  BY <1>1 DEF InitOk, WritePending
<1>2. CASE TakeCommand
  <2>1. /\ ~(scanner = "busy") /\ scanner' = "busy" /\ current' = Head(commandCh)
        /\ commandCh # <<>> /\ commandCh' = Tail(commandCh) /\ UNCHANGED settingVars
    BY <1>2 DEF TakeCommand, Interruptible
  <2>2. /\ Head(commandCh) = commandCh[1] /\ Len(commandCh) \in Nat \ {0}
        /\ Tail(commandCh) \in Seq(HostCommand) /\ Len(Tail(commandCh)) = Len(commandCh) - 1
        /\ \A k \in 1 .. Len(commandCh) - 1 : Tail(commandCh)[k] = commandCh[k + 1]
    BY <1>0, <2>1, TakenFacts
  <2>3. DOMAIN commandCh' = 1 .. Len(commandCh) - 1
    BY <2>1, <2>2, LenProperties
  <2>4. ASSUME NEW k \in 1 .. Len(commandCh), commandCh[k].kind = "SetSettings"
        PROVE  WritePending'
    <3>1. CASE k = 1
      BY <2>1, <2>2, <2>4, <3>1 DEF WritePending
    <3>2. CASE k # 1
      <4>1. k - 1 \in 1 .. Len(commandCh) - 1 /\ commandCh'[k - 1] = commandCh[k]
        BY <2>1, <2>2, <3>2
      <4>2. QED
        BY <2>3, <2>4, <4>1 DEF WritePending
    <3>3. QED
      BY <3>1, <3>2
  <2>5. QED
    BY <1>0, <2>1, <2>4 DEF WritePending
<1>3. CASE RunTrigger \/ RunQuery \/ RunData \/ RunEnterSettings \/ RunEntered
  <2>1. ~(scanner = "busy" /\ current.kind = "SetSettings")
    BY <1>3 DEF RunTrigger, RunQuery, RunData, RunEnterSettings, RunEntered, Runs
  <2>2. UNCHANGED <<settingVars, commandCh>>
    BY <1>3 DEF RunTrigger, RunQuery, RunData, RunEnterSettings, RunEntered, Finished
  <2>3. QED
    BY <2>1, <2>2 DEF WritePending
<1>4. CASE RunGetSettings
  <2>1. ~(scanner = "busy" /\ current.kind = "SetSettings") /\ UNCHANGED <<register, commandCh>>
    BY <1>4 DEF RunGetSettings, Runs, Finished
  <2>2. settings' = register' \/ (settings' = settings /\ (known' => known))
    BY <1>4 DEF RunGetSettings, ReadBack
  <2>3. QED
    BY <2>1, <2>2 DEF WritePending
<1>5. CASE RunSetSettings
  <2>1. settings' = register' \/ ~known'
    BY <1>5 DEF RunSetSettings, Runs, ReadBack
  <2>2. QED
    BY <2>1
<1>6. CASE InitFails \/ ScannerSleeps \/ AutoTrigger \/ BackToTop \/ ReadCode
  <2>1. scanner # "busy" /\ UNCHANGED <<settingVars, commandCh>>
    BY <1>6 DEF InitFails, ScannerSleeps, AutoTrigger, BackToTop, ReadCode
  <2>2. QED
    BY <2>1 DEF WritePending
<1>7. ASSUME NEW kind \in Requests, NEW bit \in {0, 1}, HostAsks(kind, bit)
      PROVE  Kept
  <2>1. /\ UNCHANGED <<scanner, current, settingVars>>
        /\ commandCh' = Sent(commandCh, [from |-> asked', kind |-> kind, bit |-> bit],
                             CommandCap)
    BY <1>7 DEF HostAsks
  <2>2. [from |-> asked', kind |-> kind, bit |-> bit] \in HostCommand
    BY TypeNext DEF TypeInv, CommandTypes, HostCommand
  <2>3. CommandCap \in Nat /\ Len(commandCh) <= CommandCap /\ Len(commandCh) \in Nat
    BY <1>0, AsyncAssumption, LenProperties DEF AsyncAssumption, TypeInv, CommandTypes
  <2>4. /\ commandCh' \in Seq(HostCommand) /\ Len(commandCh') >= Len(commandCh)
        /\ \A k \in 1 .. Len(commandCh) : commandCh'[k] = commandCh[k]
    BY <1>0, <2>1, <2>2, <2>3, SentFacts
  <2>5. \A k \in DOMAIN commandCh : k \in DOMAIN commandCh' /\ commandCh'[k] = commandCh[k]
    BY <1>0, <2>3, <2>4, LenProperties
  <2>6. QED
    BY <2>1, <2>5 DEF WritePending
<1>8. CASE \/ Connect \/ Disconnect \/ SendScan \/ Listen \/ HostLocal \/ Answer
           \/ AnswerTimeout \/ Show \/ UNCHANGED vars
  <2>1. UNCHANGED <<scanner, current, settingVars, commandCh>>
    BY <1>8 DEF Connect, Disconnect, SendScan, Listen, HostLocal, Answer, AnswerWith,
       AnswerTimeout, Show, vars
  <2>2. QED
    BY <2>1 DEF WritePending
<1>9. ASSUME NEW zone \in Zone, TapRow(zone)
      PROVE  ~known' \/ WritePending'
  <2>1. /\ known' = (known /\ Len(commandCh) < CommandCap)
        /\ settings' = 1 - settings /\ Toggled
    BY <1>9 DEF TapRow
  <2>2. SUFFICES ASSUME Len(commandCh) < CommandCap PROVE WritePending'
    BY <2>1
  <2>3. [from |-> 0, kind |-> "SetSettings", bit |-> settings'] \in HostCommand
    BY <2>1, AsyncAssumption DEF AsyncAssumption, TypeInv, CommandTypes, HostCommand, Requests
  <2>4. commandCh' = Append(commandCh, [from |-> 0, kind |-> "SetSettings", bit |-> settings'])
    BY <2>1, <2>2 DEF Toggled, Sent
  <2>5. /\ commandCh' \in Seq(HostCommand) /\ Len(commandCh') = Len(commandCh) + 1
        /\ commandCh'[Len(commandCh) + 1] =
             [from |-> 0, kind |-> "SetSettings", bit |-> settings']
    BY <1>0, <2>3, <2>4, AppendProperties
  <2>6. Len(commandCh) + 1 \in DOMAIN commandCh'
    BY <1>0, <2>5, LenProperties
  <2>7. commandCh'[Len(commandCh) + 1].kind = "SetSettings"
    BY <2>5
  <2>8. QED
    BY <2>6, <2>7 DEF WritePending
<1>10. ASSUME NEW zone \in Zone, TapBack(zone) \/ TapHome(zone) \/ TapElsewhere(zone)
       PROVE  Kept
  <2>1. UNCHANGED <<scanner, current, settingVars, commandCh>>
    BY <1>10 DEF TapBack, TapHome, TapElsewhere
  <2>2. QED
    BY <2>1 DEF WritePending
<1>11. QED
  BY <1>1, <1>2, <1>3, <1>4, <1>5, <1>6, <1>7, <1>8, <1>9, <1>10
     DEF Next, ScannerTask, CdcTask, HandleTap

\* The touch task's toggle, shown at once, and the scanner task's readback end
\* with the module's value, in whatever order the host's writes come between.
THEOREM SettingsSettle == Spec => []SettingsAgree
<1> DEFINE Inv == known /\ ~WritePending => settings = register
<1>1. Init => Inv
  BY DEF Init
<1>2. ASSUME TypeInv, Inv, [Next]_vars PROVE Inv'
  BY <1>2, SettingSteps
<1>3. Inv => SettingsAgree
  BY DEF SettingsAgree, WritePending
<1>4. QED
  BY TypeInit, TypeNext, <1>1, <1>2, <1>3, PTL DEF Spec

=============================================================================
