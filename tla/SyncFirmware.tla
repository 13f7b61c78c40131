---------------------------- MODULE SyncFirmware ----------------------------
(***************************************************************************)
(* The sync firmware (main.rs): one loop that in each pass looks at USB,   *)
(* the auto-scan trigger, the scan watchdog, the self-healing, the scanner *)
(* UART and the touch screen, in this order.  The driver is ScanSession;   *)
(* what the loop reads is the queue of lines in the UART ring.             *)
(*                                                                         *)
(* A line is a code that was read, the NAK the module sends when it found  *)
(* none, or a line too long for the scan buffer.  Lines may arrive at any  *)
(* time: nothing in the driver ties them to a trigger.                     *)
(***************************************************************************)
EXTENDS Integers, Sequences

CONSTANTS
  MaxLines,      \* bound: lines the module sends in a behaviour
  MaxFailures,   \* bound: consecutive_failures counts no further
  Timeout,       \* SCAN_TIMEOUT_CYCLES, in ticks; a pass takes less than a tick
  Wrap           \* period of the 32-bit cycle counter, in ticks

ASSUME SyncAssumption ==
  /\ MaxLines \in Nat
  /\ MaxFailures \in Nat /\ MaxFailures >= 3
  /\ Timeout \in Nat \ {0}
  /\ Wrap \in Nat /\ Wrap > Timeout + 1

VARIABLES
  phase, connected,    \* the driver
  full,                \* the scan buffer holds an overflowed line
  wire,                \* lines in the UART ring: <<kind, number>>
  arrived,             \* lines sent so far
  pc,                  \* the part of the loop that runs next
  scanner_connected,   \* hw.scanner_connected, set at boot
  continuous_active,
  auto_scan,
  in_settings,
  on_scan_result,
  consecutive_failures,
  elapsed,             \* cycle_count() - scan_start_cycles, in ticks
  ticked,              \* a tick has gone by in this pass
  last_scan_data,      \* number of the stored scan, or 0
  seen,                \* history: number of the newest scan the loop read
  delivered            \* history: number of the last scan the host was given

Driver == INSTANCE ScanSession

driverVars == <<phase, connected, full>>
wireVars == <<wire, arrived>>
uiVars == <<auto_scan, in_settings, on_scan_result>>
healVars == <<continuous_active, consecutive_failures>>
clockVars == <<elapsed, ticked>>
dataVars == <<last_scan_data, seen, delivered>>
vars == <<driverVars, wireVars, pc, scanner_connected, uiVars, healVars, clockVars, dataVars>>

Line == {"code", "nak", "long"} \X (1 .. MaxLines)
kind(n) == wire[n][1]
number(n) == wire[n][2]

Init ==
  /\ Driver!Init
  /\ full = FALSE
  /\ wire = <<>>
  /\ arrived = 0
  /\ pc = "boot"
  /\ scanner_connected = FALSE
  /\ continuous_active = FALSE
  /\ auto_scan = FALSE
  /\ in_settings = FALSE
  /\ on_scan_result = FALSE
  /\ consecutive_failures = 0
  /\ elapsed = 0
  /\ ticked = FALSE
  /\ last_scan_data = 0
  /\ seen = 0
  /\ delivered = 0

----------------------------------------------------------------------------
(* The driver's effect on the ring *)

WireAfter(n) == SubSeq(wire, n + 1, Len(wire))

\* Bytes are taken from the front of the ring, n lines and perhaps a part of the
\* next.  The rest of a code is a code, and that of a long line may be one.
LeftAfter(n) ==
  {WireAfter(n)} \cup
    IF n < Len(wire) /\ kind(n + 1) = "long"
      THEN {[WireAfter(n) EXCEPT ![1] = <<"code", number(n + 1)>>]} ELSE {}

\* send_command drains the ring first, except while a scan runs: then lines
\* that are there may be read in place of the reply.
CommandSent ==
  /\ \/ wire' = <<>>
     \/ phase = "Scanning" /\ \E n \in 0 .. Len(wire) : wire' \in LeftAfter(n)
  /\ UNCHANGED arrived

\* trigger_scan: begin_scan empties the scan buffer before the command goes out.
trigger_scan ==
  /\ Driver!Trigger
  /\ full' = FALSE
  /\ \E n \in 0 .. Len(wire) : wire' \in LeftAfter(n)
  /\ UNCHANGED arrived

TriggerRefused == ~connected /\ UNCHANGED driverVars

reset_to_ready ==
  /\ Driver!Reset
  /\ full' = FALSE

InitReturns ==
  /\ Driver!InitOk \/ Driver!InitErr
  /\ wire' = <<>>
  /\ UNCHANGED <<full, arrived>>

----------------------------------------------------------------------------
(* Boot *)

Boot ==
  /\ pc = "boot"
  /\ Driver!StartInit
  /\ pc' = "boot_init"
  /\ UNCHANGED <<full, wireVars, scanner_connected, uiVars, healVars, clockVars, dataVars>>

FirstInitOk_Assumed == TRUE
FirstInitOk == phase' = "Ready"

\* hw.scanner_connected keeps what this first init() said.
BootInit ==
  /\ pc = "boot_init"
  /\ InitReturns
  /\ scanner_connected' = FirstInitOk
  /\ auto_scan' = scanner_connected'
  /\ pc' = "usb"
  /\ UNCHANGED <<in_settings, on_scan_result, healVars, clockVars, dataVars>>

----------------------------------------------------------------------------
(* USB: at most one command frame per pass *)

NoFrame ==
  /\ pc = "usb"
  /\ pc' = "trigger"
  /\ UNCHANGED <<driverVars, wireVars, scanner_connected, uiVars, healVars, clockVars, dataVars>>

LeaveContinuous == continuous_active' = FALSE

\* What every frame does: it dismisses a result like a touch does, leaves the
\* module's continuous mode, and suspends auto-scan while it is handled.
FrameTaken ==
  /\ on_scan_result' = FALSE
  /\ auto_scan' = (~in_settings /\ IF on_scan_result THEN scanner_connected ELSE auto_scan)
  /\ LeaveContinuous
  /\ UNCHANGED <<in_settings, consecutive_failures>>

Handled ==
  /\ pc = "usb"
  /\ FrameTaken
  /\ pc' = "trigger"
  /\ UNCHANGED <<scanner_connected, clockVars>>

\* The ring after a frame that sends no command of its own: leaving continuous
\* mode drains it, and in the settings screen the settings are read again.
QuietFrame ==
  /\ IF in_settings THEN CommandSent
     ELSE wire' = IF continuous_active THEN <<>> ELSE wire
  /\ UNCHANGED arrived

\* ScannerStatus, GetSettings, SetSettings, Diagnostic, SelfTest, ModuleReboot:
\* commands to the module that leave the driver's state as it is, even those
\* that stop the module's scan.  (Status of a dead scanner sends none.)
HostQuery ==
  /\ Handled
  /\ CommandSent \/ (~connected /\ QuietFrame)
  /\ UNCHANGED <<driverVars, dataVars>>

\* DisplayQr and EnterSettings.
HostDisplay ==
  /\ Handled
  /\ QuietFrame
  /\ UNCHANGED <<driverVars, dataVars>>

\* The watchdog's start time is not set here.
HostTrigger ==
  /\ Handled
  /\ trigger_scan \/ (TriggerRefused /\ QuietFrame)
  /\ UNCHANGED dataVars

TakeScanData_Keeps == last_scan_data' = last_scan_data
TakeScanData == last_scan_data' = 0

HostData ==
  /\ Handled
  /\ \/ last_scan_data # 0 /\ delivered' = last_scan_data
     \/ last_scan_data = 0 /\ UNCHANGED delivered
  /\ TakeScanData
  /\ QuietFrame
  /\ UNCHANGED <<driverVars, seen>>

\* FactoryReset: heal the module, restore the baud rate, init() again.
HostFactoryReset ==
  /\ pc = "usb"
  /\ FrameTaken
  /\ Driver!StartInit
  /\ pc' = "usb_init"
  /\ UNCHANGED <<full, wireVars, scanner_connected, clockVars, dataVars>>

FactoryResetInit ==
  /\ pc = "usb_init"
  /\ InitReturns
  /\ pc' = "trigger"
  /\ UNCHANGED <<scanner_connected, uiVars, healVars, clockVars, dataVars>>

----------------------------------------------------------------------------
(* Auto-scan, watchdog, self-healing *)

\* auto_scan is only set when the scanner is connected: trigger_scan succeeds.
MayTrigger == ~continuous_active /\ auto_scan /\ ~in_settings /\ phase = "Ready"

AutoTrigger ==
  /\ pc = "trigger"
  /\ MayTrigger
  /\ trigger_scan
  /\ elapsed' = 0
  /\ pc' = "watchdog"
  /\ UNCHANGED <<scanner_connected, uiVars, healVars, ticked, dataVars>>

NoTrigger ==
  /\ pc = "trigger"
  /\ ~MayTrigger
  /\ pc' = "watchdog"
  /\ UNCHANGED <<driverVars, wireVars, scanner_connected, uiVars, healVars, clockVars, dataVars>>

WatchdogDue == ~continuous_active /\ phase = "Scanning" /\ elapsed >= Timeout

WatchdogResets_StopOnly == UNCHANGED driverVars
WatchdogResets == reset_to_ready

WatchdogFires ==
  /\ pc = "watchdog"
  /\ WatchdogDue
  /\ CommandSent
  /\ WatchdogResets
  /\ consecutive_failures' =
       IF consecutive_failures < MaxFailures
       THEN consecutive_failures + 1 ELSE consecutive_failures
  /\ pc' = "heal"
  /\ UNCHANGED <<scanner_connected, uiVars, continuous_active, clockVars, dataVars>>

NoWatchdog ==
  /\ pc = "watchdog"
  /\ ~WatchdogDue
  /\ pc' = "heal"
  /\ UNCHANGED <<driverVars, wireVars, scanner_connected, uiVars, healVars, clockVars, dataVars>>

MustHeal == ~continuous_active /\ consecutive_failures >= 3 /\ scanner_connected

Heal ==
  /\ pc = "heal"
  /\ MustHeal
  /\ Driver!StartInit
  /\ pc' = "heal_init"
  /\ UNCHANGED <<full, wireVars, scanner_connected, uiVars, healVars, clockVars, dataVars>>

\* start_scanning(SilentContinuous) follows; neither result is looked at.
HealInit ==
  /\ pc = "heal_init"
  /\ InitReturns
  /\ continuous_active' = TRUE
  /\ consecutive_failures' = 0
  /\ pc' = "poll"
  /\ UNCHANGED <<scanner_connected, uiVars, clockVars, dataVars>>

NoHeal ==
  /\ pc = "heal"
  /\ ~MustHeal
  /\ pc' = "poll"
  /\ UNCHANGED <<driverVars, wireVars, scanner_connected, uiVars, healVars, clockVars, dataVars>>

----------------------------------------------------------------------------
(* The scanner UART *)

Polled ==
  /\ pc = "poll"
  /\ pc' = "touch"
  /\ UNCHANGED <<connected, arrived, scanner_connected, in_settings, continuous_active,
                 clockVars, delivered>>

\* A result is on the screen: what arrives is thrown away, 100 bytes a pass.
PollDiscards ==
  /\ Polled
  /\ on_scan_result
  /\ \E n \in 0 .. Len(wire) : wire' \in LeftAfter(n)
  /\ UNCHANGED <<phase, full, auto_scan, on_scan_result, consecutive_failures,
                 last_scan_data, seen>>

\* data_ready() keeps the loop from calling try_read_scan, and only
\* try_read_scan would leave ScanComplete.
PollSkipped ==
  /\ Polled
  /\ ~on_scan_result
  /\ phase = "ScanComplete" \/ ~connected \/ wire = <<>>
  /\ UNCHANGED <<phase, full, wire, auto_scan, on_scan_result, consecutive_failures,
                 last_scan_data, seen>>

Reading == Polled /\ ~on_scan_result /\ phase # "ScanComplete" /\ connected

Naks(n) == \A i \in 1 .. n : kind(i) = "nak"

\* A lone NAK counts as no scan; the next read leaves ScanComplete again.
PollNaks ==
  /\ Reading
  /\ ~full
  /\ wire # <<>>
  /\ Naks(Len(wire))
  /\ wire' = <<>>
  /\ phase' = "Ready"
  /\ UNCHANGED <<full, auto_scan, on_scan_result, consecutive_failures, last_scan_data, seen>>

\* In the settings screen a scan is stored and nothing else.
PollScan ==
  /\ Reading
  /\ ~full
  /\ \E n \in 1 .. Len(wire) :
       /\ Naks(n - 1)
       /\ kind(n) = "code"
       /\ wire' = WireAfter(n)
       /\ last_scan_data' = number(n)
       /\ seen' = number(n)
  /\ phase' = "ScanComplete"
  /\ \/ /\ in_settings
        /\ UNCHANGED <<auto_scan, on_scan_result, consecutive_failures>>
     \/ /\ ~in_settings
        /\ on_scan_result' = TRUE
        /\ auto_scan' = FALSE
        /\ consecutive_failures' = 0
  /\ UNCHANGED full

\* The buffer is full, and stays so: each later byte fails again, up to the end
\* of the ring or of the 200 calls of a pass.
PollOverflows ==
  /\ Reading
  /\ \E n \in 1 .. Len(wire) :
       /\ full \/ (Naks(n - 1) /\ kind(n) = "long")
       /\ \E k \in n - 1 .. Len(wire) : wire' \in LeftAfter(k)
  /\ phase' = "Error"
  /\ full' = TRUE
  /\ UNCHANGED <<auto_scan, on_scan_result, consecutive_failures, last_scan_data, seen>>

----------------------------------------------------------------------------
(* Touch *)

PassEnds ==
  /\ pc = "touch"
  /\ pc' = "usb"
  /\ ticked' = FALSE
  /\ UNCHANGED <<driverVars, scanner_connected, healVars, elapsed, dataVars>>

NoTouch ==
  /\ PassEnds
  /\ UNCHANGED <<wireVars, uiVars>>

TouchDismisses ==
  /\ PassEnds
  /\ on_scan_result
  /\ on_scan_result' = FALSE
  /\ auto_scan' = scanner_connected
  /\ UNCHANGED <<wireVars, in_settings>>

TouchBack ==
  /\ PassEnds
  /\ ~on_scan_result
  /\ in_settings
  /\ in_settings' = FALSE
  /\ auto_scan' = scanner_connected
  /\ UNCHANGED <<wireVars, on_scan_result>>

TouchToggles ==
  /\ PassEnds
  /\ ~on_scan_result
  /\ in_settings
  /\ scanner_connected
  /\ CommandSent
  /\ UNCHANGED uiVars

SettingsEntered_KeepsAuto == in_settings' = TRUE /\ UNCHANGED <<auto_scan, on_scan_result>>
SettingsEntered == in_settings' = TRUE /\ auto_scan' = FALSE /\ UNCHANGED on_scan_result

TouchEnters ==
  /\ PassEnds
  /\ ~on_scan_result
  /\ ~in_settings
  /\ SettingsEntered
  /\ IF scanner_connected THEN CommandSent ELSE UNCHANGED wireVars

----------------------------------------------------------------------------
(* The module and the clock *)

LineArrives ==
  /\ arrived < MaxLines
  /\ arrived' = arrived + 1
  /\ \E k \in {"code", "nak", "long"} : wire' = Append(wire, <<k, arrived'>>)
  /\ UNCHANGED <<driverVars, pc, scanner_connected, uiVars, healVars, clockVars, dataVars>>

Tick ==
  /\ ~ticked
  /\ ticked' = TRUE
  /\ elapsed' = (elapsed + 1) % Wrap
  /\ UNCHANGED <<driverVars, wireVars, pc, scanner_connected, uiVars, healVars, dataVars>>

Loop ==
  \/ Boot \/ BootInit
  \/ NoFrame \/ HostQuery \/ HostDisplay \/ HostTrigger \/ HostData
  \/ HostFactoryReset \/ FactoryResetInit
  \/ AutoTrigger \/ NoTrigger
  \/ WatchdogFires \/ NoWatchdog
  \/ Heal \/ HealInit \/ NoHeal
  \/ PollDiscards \/ PollSkipped \/ PollNaks \/ PollScan \/ PollOverflows
  \/ NoTouch \/ TouchDismisses \/ TouchBack \/ TouchToggles \/ TouchEnters

Next == Loop \/ LineArrives \/ Tick

Spec == Init /\ [][Next]_vars

\* The loop never blocks for good, and the cycle counter runs.
FairSpec == Spec /\ WF_vars(Loop) /\ WF_vars(Tick)

----------------------------------------------------------------------------
(* Properties *)

SyncTypeOK ==
  /\ phase \in Driver!Phases
  /\ connected \in BOOLEAN /\ full \in BOOLEAN
  /\ wire \in Seq(Line) /\ Len(wire) <= arrived /\ arrived \in 0 .. MaxLines
  /\ pc \in {"boot", "boot_init", "usb", "usb_init", "trigger", "watchdog", "heal",
             "heal_init", "poll", "touch"}
  /\ scanner_connected \in BOOLEAN /\ (scanner_connected => connected)
  /\ auto_scan \in BOOLEAN /\ in_settings \in BOOLEAN /\ on_scan_result \in BOOLEAN
  /\ continuous_active \in BOOLEAN /\ consecutive_failures \in 0 .. MaxFailures
  /\ elapsed \in 0 .. Wrap - 1 /\ ticked \in BOOLEAN
  /\ {last_scan_data, seen, delivered} \subseteq 0 .. MaxLines

\* The firmware is in one mode at a time: a result on the screen, the settings
\* screen, and scanning on its own exclude each other, whatever touches and
\* host commands come in whatever order.
OneMode ==
  /\ ~(on_scan_result /\ in_settings)
  /\ ~(on_scan_result /\ auto_scan)
  /\ ~(in_settings /\ auto_scan)

\* The host is given the newest scan, and no scan twice: what is stored is the
\* newest one, unless the host has it already.
HostGetsNewestOnce == last_scan_data = IF delivered = seen THEN 0 ELSE seen

\* The watchdog is off in continuous mode, so no scan may be running there: it
\* could never time out.
ContinuousHasNoTimer == continuous_active => phase # "Scanning"

\* A scan that gets no answer is given up, also one the host triggered without
\* starting the watchdog anew.
StuckScanRecovers ==
  (phase = "Scanning" /\ ~continuous_active) ~> (phase # "Scanning" \/ continuous_active)

\* Once a result is dismissed, scanning resumes (the comment on dismissal in
\* the main loop; "ScanComplete --> Ready : try_read_scan()" in the README).
DismissalResumes ==
  (auto_scan /\ phase = "ScanComplete") ~> (~auto_scan \/ phase # "ScanComplete")

=============================================================================
