--------------------------- MODULE AsyncFirmware ---------------------------
(***************************************************************************)
(* The async firmware (bin/async_firmware.rs): the scanner, CDC, display   *)
(* and touch tasks, which share one executor and talk over bounded         *)
(* channels and one shared record.  A step is what a task does between two *)
(* awaits that may suspend it.                                             *)
(*                                                                         *)
(* A command has the number of the host's request it serves, or 0 when the *)
(* touch task sent it, and a response the number of its command.  The code *)
(* has no such numbers: they say which request a response answers.         *)
(*                                                                         *)
(* Time is left out: a timer may fire whenever its task waits for it.  The *)
(* UART is, too: register I/O of a command succeeds or not.                *)
(***************************************************************************)
EXTENDS Integers, Sequences

CONSTANTS
  CommandCap,   \* CMD_CHANNEL_CAPACITY, of COMMAND_CHANNEL
  ResponseCap,  \* the same, of CDC_RESPONSE_CHANNEL
  ScanCap,      \* CHANNEL_CAPACITY, of SCAN_CHANNEL
  DisplayCap,   \* the same, of DISPLAY_CHANNEL
  MaxRequests,  \* bound: requests of the host in a behaviour
  MaxScans,     \* bound: codes the module reads
  MaxTaps       \* bound: taps on the touch screen

ASSUME AsyncAssumption ==
  /\ {CommandCap, ResponseCap, ScanCap, DisplayCap} \subseteq Nat \ {0}
  /\ {MaxRequests, MaxScans, MaxTaps} \subseteq Nat

VARIABLES
  scanner,      \* where the scanner task is
  current,      \* the command it runs
  cdc,          \* where the CDC task is
  commandCh, responseCh, scanCh, displayCh,
  scanner_connected, auto_scan, in_settings,  \* SharedState
  last_scan,    \* SharedState: number of the scan, or 0
  settings,     \* SharedState: one setting of the module, as a bit
  register,     \* that setting in the module
  asked,        \* requests the host has sent
  scans,        \* codes the scanner task has read
  given,        \* history: the last scan a response gave to the host, or 0
  taps,         \* taps so far
  known,        \* history: settings was read, and no failure since
  disturbed     \* history: a request timed out, or a row was toggled

taskVars == <<scanner, current>>
modeVars == <<auto_scan, in_settings>>
settingVars == <<settings, register, known>>
hostVars == <<cdc, asked, given, disturbed>>
scanVars == <<scans, scanCh, last_scan>>
vars == <<taskVars, modeVars, settingVars, hostVars, taps, scanVars,
          commandCh, responseCh, displayCh, scanner_connected>>

----------------------------------------------------------------------------
(* Messages *)

Sent_Anyway(channel, message, cap) == Append(channel, message)
\* try_send: a message for a full channel is dropped.
Sent(channel, message, cap) ==
  IF Len(channel) < cap THEN Append(channel, message) ELSE channel

\* Diagnostic is answered like Status, and is Status here.
Requests == {"Status", "Trigger", "Data", "GetSettings", "SetSettings", "EnterSettings"}
HostCommand == [from : 0 .. MaxRequests, kind : Requests, bit : {0, 1}]
NoCommand == [from |-> 0, kind |-> "Status", bit |-> 0]
CdcResponse == [to : 0 .. MaxRequests, line : 0 .. MaxScans, scanning : BOOLEAN]

\* Of the display's events only Home does more than draw.
DisplayEvent == {"Home", "Page"}
Drawn(event) == displayCh' = Sent(displayCh, event, DisplayCap)

\* The buttons a touched point lies on: the settings page's Back and the home
\* page's Settings button overlap.
Zone == {{"row"}, {"back"}, {"home"}, {"back", "home"}}

Init ==
  /\ scanner = "init"
  /\ current = NoCommand
  /\ cdc = "closed"
  /\ commandCh = <<>>
  /\ responseCh = <<>>
  /\ scanCh = <<>>
  /\ displayCh = <<>>
  /\ scanner_connected = FALSE
  /\ auto_scan = TRUE
  /\ in_settings = FALSE
  /\ last_scan = 0
  /\ settings = 0
  /\ register \in {0, 1}
  /\ asked = 0
  /\ given = 0
  /\ scans = 0
  /\ taps = 0
  /\ known = FALSE
  /\ disturbed = FALSE

----------------------------------------------------------------------------
(* The scanner task *)

InitOk ==
  /\ scanner = "init"
  /\ scanner_connected' = TRUE
  /\ \/ /\ settings' = register
        /\ known' = TRUE
        /\ Drawn("Page")
     \/ /\ UNCHANGED <<settings, known>>
        /\ Drawn("Home")
  /\ scanner' = "idle"
  /\ UNCHANGED <<current, modeVars, register, hostVars, taps, scanVars,
                 commandCh, responseCh>>

InitFails ==
  /\ scanner = "init"
  /\ scanner' = "idle"
  /\ Drawn("Page")
  /\ UNCHANGED <<current, modeVars, settingVars, hostVars, taps, scanVars,
                 commandCh, responseCh, scanner_connected>>

\* A command is taken at the top of the loop, wakes the sleeping task, or
\* interrupts a read: pending_cmd holds it until the top of the loop.
Interruptible_WhileAwake == scanner \in {"idle", "reading"}
Interruptible == scanner \in {"idle", "asleep", "reading"}

TakeCommand_Forgets ==
  /\ scanner \in {"idle", "asleep", "reading"}
  /\ commandCh # <<>>
  /\ commandCh' = Tail(commandCh)
  /\ IF scanner = "reading"
       THEN scanner' = "idle" /\ UNCHANGED current
       ELSE scanner' = "busy" /\ current' = Head(commandCh)
  /\ UNCHANGED <<modeVars, settingVars, hostVars, taps, scanVars,
                 responseCh, displayCh, scanner_connected>>
TakeCommand ==
  /\ Interruptible
  /\ commandCh # <<>>
  /\ current' = Head(commandCh)
  /\ commandCh' = Tail(commandCh)
  /\ scanner' = "busy"
  /\ UNCHANGED <<modeVars, settingVars, hostVars, taps, scanVars,
                 responseCh, displayCh, scanner_connected>>

Runs(kind) == scanner = "busy" /\ current.kind = kind

Respond(line, scanning) ==
  responseCh' = Sent(responseCh,
                     [to |-> current.from, line |-> line, scanning |-> scanning],
                     ResponseCap)

Finished ==
  /\ scanner' = "idle"
  /\ current' = NoCommand
  /\ UNCHANGED <<hostVars, taps, scans, scanCh, commandCh, scanner_connected>>

\* trigger_scan fails only when init() failed.
RunTrigger ==
  /\ Runs("Trigger")
  /\ Respond(0, scanner_connected)
  /\ Finished
  /\ UNCHANGED <<modeVars, settingVars, last_scan, displayCh>>

RunQuery ==
  /\ Runs("Status")
  /\ Respond(0, FALSE)
  /\ Finished
  /\ UNCHANGED <<modeVars, settingVars, last_scan, displayCh>>

Taken_Kept == last_scan' = last_scan
Taken == last_scan' = 0

\* The scan is given away even when the response finds no room.
RunData ==
  /\ Runs("Data")
  /\ Respond(last_scan, FALSE)
  /\ Taken
  /\ Finished
  /\ UNCHANGED <<modeVars, settingVars, displayCh>>

\* get_scanner_settings: what the module answers, or nothing.
ReadBack ==
  \/ settings' = register' /\ known' = TRUE
  \/ settings' = settings /\ known' = (known /\ current.kind # "SetSettings")

RunGetSettings ==
  /\ Runs("GetSettings")
  /\ register' = register
  /\ ReadBack
  /\ Drawn("Page")
  /\ Respond(0, FALSE)
  /\ Finished
  /\ UNCHANGED <<modeVars, last_scan>>

\* The result of the write is not looked at; a response is sent for the touch
\* screen's commands, too.
RunSetSettings ==
  /\ Runs("SetSettings")
  /\ register' \in {register, current.bit}
  /\ ReadBack
  /\ displayCh' \in {displayCh, Sent(displayCh, "Page", DisplayCap)}
  /\ Respond(0, FALSE)
  /\ Finished
  /\ UNCHANGED <<modeVars, last_scan>>

RunEnterSettings_Confirms ==
  /\ Runs("EnterSettings")
  /\ in_settings' = TRUE
  /\ auto_scan' = FALSE
  /\ scanner' = "entering"
  /\ Respond(0, FALSE)
  /\ UNCHANGED <<current, settingVars, hostVars, taps, scanVars,
                 commandCh, displayCh, scanner_connected>>
RunEnterSettings ==
  /\ Runs("EnterSettings")
  /\ in_settings' = TRUE
  /\ auto_scan' = FALSE
  /\ scanner' = "entering"
  /\ UNCHANGED <<current, settingVars, hostVars, taps, scanVars,
                 commandCh, responseCh, displayCh, scanner_connected>>

RunEntered ==
  /\ scanner = "entering"
  /\ displayCh' \in {displayCh, Sent(displayCh, "Page", DisplayCap)}
  /\ Respond(0, FALSE)
  /\ Finished
  /\ UNCHANGED <<modeVars, settingVars, last_scan>>

\* The top of the loop when no command waits.
ScannerSleeps ==
  /\ scanner = "idle" /\ commandCh = <<>>
  /\ ~auto_scan
  /\ scanner' = "asleep"
  /\ UNCHANGED <<current, modeVars, settingVars, hostVars, taps, scanVars,
                 commandCh, responseCh, displayCh, scanner_connected>>

AutoTrigger_Always ==
  /\ scanner = "idle" /\ commandCh = <<>>
  /\ scanner' = IF scanner_connected THEN "reading" ELSE "retry"
  /\ UNCHANGED <<current, modeVars, settingVars, hostVars, taps, scanVars,
                 commandCh, responseCh, displayCh, scanner_connected>>
AutoTrigger ==
  /\ scanner = "idle" /\ commandCh = <<>>
  /\ auto_scan
  /\ scanner' = IF scanner_connected THEN "reading" ELSE "retry"
  /\ UNCHANGED <<current, modeVars, settingVars, hostVars, taps, scanVars,
                 commandCh, responseCh, displayCh, scanner_connected>>

\* The retry delay, the blinking and a read without a code end.
BackToTop ==
  /\ scanner \in {"retry", "blinking", "reading"}
  /\ scanner' = "idle"
  /\ UNCHANGED <<current, modeVars, settingVars, hostVars, taps, scanVars,
                 commandCh, responseCh, displayCh, scanner_connected>>

ReadCode ==
  /\ scanner = "reading"
  /\ scans < MaxScans
  /\ scans' = scans + 1
  /\ scanCh' = Sent(scanCh, scans', ScanCap)
  /\ Drawn("Page")
  /\ last_scan' = scans'
  /\ scanner' = "blinking"
  /\ UNCHANGED <<current, modeVars, settingVars, hostVars, taps,
                 commandCh, responseCh, scanner_connected>>

ScannerTask ==
  \/ InitOk \/ InitFails
  \/ TakeCommand
  \/ RunTrigger \/ RunQuery \/ RunData \/ RunGetSettings \/ RunSetSettings
  \/ RunEnterSettings \/ RunEntered
  \/ ScannerSleeps \/ AutoTrigger \/ BackToTop \/ ReadCode

----------------------------------------------------------------------------
(* The CDC task *)

Connect ==
  /\ cdc = "closed"
  /\ cdc' = "top"
  /\ UNCHANGED <<asked, given, disturbed, taskVars, modeVars, settingVars, taps, scanVars,
                 commandCh, responseCh, displayCh, scanner_connected>>

\* Read errors of read_packet: no response is drained.
Disconnect ==
  /\ cdc = "listening"
  /\ cdc' = "closed"
  /\ UNCHANGED <<asked, given, disturbed, taskVars, modeVars, settingVars, taps, scanVars,
                 commandCh, responseCh, displayCh, scanner_connected>>

\* An unasked-for line with the code; a failed write loses it.
SendScan ==
  /\ cdc = "top" /\ scanCh # <<>>
  /\ scanCh' = Tail(scanCh)
  /\ \/ cdc' = "paused" /\ auto_scan' = FALSE
     \/ cdc' = "closed" /\ UNCHANGED auto_scan
  /\ UNCHANGED <<asked, given, disturbed, taskVars, in_settings, settingVars, taps,
                 scans, last_scan, commandCh, responseCh, displayCh, scanner_connected>>

\* The pause after a sent code ends; or nothing is there to send, and the task
\* waits for a packet.
Listen ==
  /\ \/ cdc = "paused" /\ cdc' = "top"
     \/ cdc = "top" /\ scanCh = <<>> /\ cdc' = "listening"
  /\ UNCHANGED <<asked, given, disturbed, taskVars, modeVars, settingVars, taps, scanVars,
                 commandCh, responseCh, displayCh, scanner_connected>>

\* Requests the CDC task answers by itself; only DisplayQr draws.
HostLocal ==
  /\ cdc = "listening"
  /\ cdc' = "top"
  /\ displayCh' \in {displayCh, Sent(displayCh, "Page", DisplayCap)}
  /\ UNCHANGED <<asked, given, disturbed, taskVars, modeVars, settingVars, taps, scanVars,
                 commandCh, responseCh, scanner_connected>>

\* A request for the scanner task; it is not checked that it was accepted.
HostAsks(kind, bit) ==
  /\ cdc = "listening"
  /\ asked < MaxRequests
  /\ asked' = asked + 1
  /\ auto_scan' = (auto_scan \/ kind = "Trigger")
  /\ commandCh' = Sent(commandCh, [from |-> asked', kind |-> kind, bit |-> bit], CommandCap)
  /\ cdc' = "waiting"
  /\ UNCHANGED <<given, disturbed, taskVars, in_settings, settingVars, taps, scanVars,
                 responseCh, displayCh, scanner_connected>>

\* The CDC task sends a response to the host and is ready for the next packet;
\* some responses are also shown on the display.
AnswerWith(response, rest) ==
  /\ responseCh' = rest
  /\ displayCh' = IF response.scanning \/ response.line # 0
                    THEN Sent(displayCh, "Page", DisplayCap)
                    ELSE displayCh
  /\ given' = IF response.line = 0 THEN given ELSE response.line
  /\ cdc' = "top"
  /\ UNCHANGED <<asked, disturbed, taskVars, modeVars, settingVars, taps, scanVars,
                 commandCh, scanner_connected>>

Answer_OwnOnly ==
  /\ cdc = "waiting" /\ responseCh # <<>> /\ Head(responseCh).to = asked
  /\ AnswerWith(Head(responseCh), Tail(responseCh))
Answer_Newest ==
  /\ cdc = "waiting" /\ responseCh # <<>>
  /\ AnswerWith(responseCh[Len(responseCh)], SubSeq(responseCh, 1, Len(responseCh) - 1))
\* The oldest response is sent to the host, whatever it answers.
Answer ==
  /\ cdc = "waiting" /\ responseCh # <<>>
  /\ AnswerWith(Head(responseCh), Tail(responseCh))

\* select looks at the channel first: a response that is there wins.
AnswerTimeout ==
  /\ cdc = "waiting" /\ responseCh = <<>>
  /\ cdc' = "top"
  /\ disturbed' = TRUE
  /\ UNCHANGED <<asked, given, taskVars, modeVars, settingVars, taps, scanVars,
                 commandCh, responseCh, displayCh, scanner_connected>>

CdcTask ==
  \/ Connect \/ Disconnect \/ SendScan \/ Listen \/ HostLocal
  \/ \E kind \in Requests, bit \in {0, 1} :
       (kind = "SetSettings" \/ bit = 0) /\ HostAsks(kind, bit)
  \/ Answer \/ AnswerTimeout

----------------------------------------------------------------------------
(* The display and touch tasks *)

\* The display waits for SCANNER_INIT_DONE.  Home is the only event with an
\* effect, and that effect comes when the event is drawn, not when it was sent.
Show ==
  /\ scanner # "init" /\ displayCh # <<>>
  /\ displayCh' = Tail(displayCh)
  /\ IF Head(displayCh) = "Home"
       THEN in_settings' = FALSE /\ auto_scan' = scanner_connected
       ELSE UNCHANGED modeVars
  /\ UNCHANGED <<taskVars, settingVars, hostVars, taps, scanVars,
                 commandCh, responseCh, scanner_connected>>

\* run_touch: a debounced tap; run_settings_touch takes it up within 50 ms, so
\* that the two are one step.
Tapped == taps < MaxTaps /\ taps' = taps + 1

TapBack(zone) ==
  /\ Tapped
  /\ in_settings /\ "back" \in zone
  /\ in_settings' = FALSE
  /\ auto_scan' = scanner_connected
  /\ Drawn("Home")
  /\ UNCHANGED <<taskVars, settingVars, hostVars, scanVars,
                 commandCh, responseCh, scanner_connected>>

Toggled_Unsaved == UNCHANGED commandCh
Toggled ==
  commandCh' = Sent(commandCh, [from |-> 0, kind |-> "SetSettings", bit |-> settings'],
                    CommandCap)

\* The toggled settings are shown at once and sent to the scanner task, if its
\* channel has room.
TapRow(zone) ==
  /\ Tapped
  /\ in_settings /\ "row" \in zone
  /\ settings' = 1 - settings
  /\ Drawn("Page")
  /\ Toggled
  /\ known' = (known /\ Len(commandCh) < CommandCap)
  /\ disturbed' = TRUE
  /\ UNCHANGED <<taskVars, modeVars, register, cdc, asked, given, scanVars,
                 responseCh, scanner_connected>>

TapHome(zone) ==
  /\ Tapped
  /\ ~in_settings /\ "home" \in zone
  /\ in_settings' = TRUE
  /\ auto_scan' = FALSE
  /\ Drawn("Page")
  /\ UNCHANGED <<taskVars, settingVars, hostVars, scanVars,
                 commandCh, responseCh, scanner_connected>>

TapElsewhere(zone) ==
  /\ Tapped
  /\ zone \cap (IF in_settings THEN {"row", "back"} ELSE {"home"}) = {}
  /\ UNCHANGED <<taskVars, modeVars, settingVars, hostVars, scanVars,
                 commandCh, responseCh, displayCh, scanner_connected>>

HandleTap(zone) == TapBack(zone) \/ TapRow(zone) \/ TapHome(zone) \/ TapElsewhere(zone)

Next ==
  \/ ScannerTask
  \/ CdcTask
  \/ Show
  \/ \E zone \in Zone : HandleTap(zone)

Spec == Init /\ [][Next]_vars

\* The executor polls every task that can go on; timers fire.  The host, the
\* module and the user promise nothing.
Fairness ==
  /\ WF_vars(ScannerTask)
  /\ WF_vars(SendScan \/ Listen \/ Answer \/ AnswerTimeout)
  /\ WF_vars(Show)

FairSpec == Spec /\ Fairness

\* The part of it the liveness properties need: they are checked without the
\* rest, and so hold with it.
NeededFairness == WF_vars(ScannerTask) /\ WF_vars(Answer \/ AnswerTimeout)

LiveSpec == Spec /\ NeededFairness

----------------------------------------------------------------------------
(* Properties *)

AsyncTypeOK ==
  /\ scanner \in {"init", "idle", "asleep", "busy", "entering", "retry", "reading",
                  "blinking"}
  /\ current \in HostCommand
  /\ cdc \in {"closed", "top", "paused", "listening", "waiting"}
  /\ commandCh \in Seq(HostCommand) /\ Len(commandCh) <= CommandCap
  /\ responseCh \in Seq(CdcResponse) /\ Len(responseCh) <= ResponseCap
  /\ scanCh \in Seq(1 .. MaxScans) /\ Len(scanCh) <= ScanCap
  /\ displayCh \in Seq(DisplayEvent) /\ Len(displayCh) <= DisplayCap
  /\ {scanner_connected, auto_scan, in_settings, known, disturbed} \subseteq BOOLEAN
  /\ last_scan \in 0 .. MaxScans
  /\ settings \in {0, 1} /\ register \in {0, 1}
  /\ asked \in 0 .. MaxRequests
  /\ scans \in 0 .. MaxScans
  /\ given \in 0 .. MaxScans
  /\ taps \in 0 .. MaxTaps

\* The requests under way, the one answered next first; 0 is the touch task's.
InFlight ==
  [k \in DOMAIN responseCh |-> responseCh[k].to]
    \o (IF scanner \in {"busy", "entering"} THEN <<current.from>> ELSE <<>>)
    \o [k \in DOMAIN commandCh |-> commandCh[k].from]

\* Answers come in the order of the requests, and no request has two: late
\* answers (CDC_RESPONSE_CHANNEL is not drained) shift, they do not swap.
AnswersInOrder ==
  \A i, j \in DOMAIN InFlight :
    i < j /\ InFlight[i] # 0 /\ InFlight[j] # 0 => InFlight[i] < InFlight[j]

\* As long as no request has timed out and no row was toggled, a request that
\* waits is in exactly one place on its way, and nothing else is on the way: it
\* gets its own answer.
CleanSession ==
  ~disturbed => InFlight = IF cdc = "waiting" THEN <<asked>> ELSE <<>>

\* The code the host was given last, those in responses under way and the one in
\* the shared state, in this order, are strictly newer and newer: ScannerData
\* takes the scan out of the shared state, so that no code is answered twice or
\* after a newer one, whatever answers are late or dropped.
DataInOrderOnce ==
  LET lines == <<given>> \o [k \in DOMAIN responseCh |-> responseCh[k].line] \o <<last_scan>> IN
  \A i, j \in DOMAIN lines :
    i < j /\ lines[i] # 0 /\ lines[j] # 0 => lines[i] < lines[j]

\* The settings shown agree with the module once every change has been carried
\* out, if none was dropped and the last reading worked: the touch task's
\* optimistic toggle and the scanner task's readback settle on the same value.
SettingsAgree ==
  LET pending == (scanner = "busy" /\ current.kind = "SetSettings")
                   \/ \E k \in DOMAIN commandCh : commandCh[k].kind = "SetSettings"
  IN  known /\ ~pending => settings = register

Queued(request) == \E k \in DOMAIN commandCh : commandCh[k].from = request

\* A command that found room is carried out: a sleeping scanner task wakes, and
\* auto-scan does not keep it from its channel.
CommandsRun ==
  \A request \in 1 .. MaxRequests : Queued(request) ~> ~Queued(request)

\* The host gets an answer or an error to each request, even when the command
\* or its response was dropped by a full channel.
RequestsEnd == cdc = "waiting" ~> cdc # "waiting"

\* Behind the settings page the scanner comes to rest, unless auto-scan is
\* switched on again.
QuietInSettings ==
  (in_settings /\ ~auto_scan) ~> (scanner = "asleep" \/ auto_scan \/ ~in_settings)

----------------------------------------------------------------------------
(* What a document says and the code does not do *)

\* With auto-scan on, as after Back on the settings page, a connected scanner
\* scans again.
AutoScanResumes ==
  (scanner = "asleep" /\ auto_scan /\ scanner_connected)
    ~> (scanner = "reading" \/ ~auto_scan)

============================================================================
