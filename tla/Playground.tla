----------------------------- MODULE Playground -----------------------------
(***************************************************************************)
(* The browser playground: the module simulator and virtual UART of        *)
(* lib.rs, the device task of ui.rs with its shared queues, and the page.  *)
(*                                                                         *)
(* Everything runs on one thread: a task is interrupted only where it      *)
(* awaits. Each press of Init makes a new UART, module and task; the       *)
(* earlier tasks go on and share the queues and the screen (lib.rs:328).   *)
(*                                                                         *)
(* A decoded code is its number; a command and its reply are one step at   *)
(* the write, after the drain in which a code may be injected.             *)
(***************************************************************************)
EXTENDS ScannerSettings, Sequences, SequencesExt, FiniteSets

CONSTANTS
  MaxInits,   \* bound: presses of Init
  MaxCodes,   \* bound: codes decoded by the page
  MaxQueue,   \* bound: taps and commands not yet taken when the user acts again
  TapYs,      \* heights the user taps at
  StartIdxs   \* policies the page's selector offers

ASSUME PlaygroundAssumption ==
  /\ {MaxInits, MaxCodes, MaxQueue} \subseteq Nat \ {0}
  /\ TapYs \subseteq 0 .. 799
  /\ StartIdxs \subseteq 0 .. 2

Device == 1 .. MaxInits

NoCode == 0
NoJob == [cmd |-> "none"]
BootSettings == 209  \* 0xD1

VARIABLES
  inits,       \* devices made so far: the last one is the page's
  pc, job,     \* each device task, and the command it is at
  full,        \* its driver's scan buffer is: nothing here ever clears it
  scanning, pending, register,  \* each module
  line,        \* codes each UART holds for its driver
  cmds, taps,  \* the shared queues
  policy,      \* POLICY_IDX
  screen,
  count,       \* codes decoded by the page
  cleared      \* history: codes a module had when it was told to stop

taskVars == <<pc, job, full>>
moduleVars == <<scanning, pending, register, line, cleared>>
pageVars == <<cmds, taps, policy>>
vars == <<inits, taskVars, moduleVars, pageVars, screen, count>>

Init ==
  /\ inits = 0
  /\ pc = [d \in Device |-> "off"]
  /\ job = [d \in Device |-> NoJob]
  /\ full = [d \in Device |-> FALSE]
  /\ scanning = [d \in Device |-> FALSE]
  /\ pending = [d \in Device |-> NoCode]
  /\ register = [d \in Device |-> BootSettings]
  /\ line = [d \in Device |-> <<>>]
  /\ cmds = <<>>
  /\ taps = <<>>
  /\ policy = 0
  /\ screen = "boot"
  /\ count = 0
  /\ cleared = {}

----------------------------------------------------------------------------
(* The module simulator: one register write, after the driver's drain *)

Codes(d) == ToSet(line[d]) \cup ({pending[d]} \ {NoCode})

WriteScanEnable_Keeps(d, on) ==
  /\ scanning' = [scanning EXCEPT ![d] = on]
  /\ line' = [line EXCEPT ![d] = IF on /\ pending[d] # NoCode THEN <<pending[d]>> ELSE <<>>]
  /\ pending' = [pending EXCEPT ![d] = IF on THEN NoCode ELSE @]
  /\ cleared' = IF on THEN cleared ELSE cleared \cup Codes(d)
  /\ UNCHANGED register
WriteScanEnable(d, on) ==
  /\ scanning' = [scanning EXCEPT ![d] = on]
  /\ line' = [line EXCEPT ![d] = IF on /\ pending[d] # NoCode THEN <<pending[d]>> ELSE <<>>]
  /\ pending' = [pending EXCEPT ![d] = NoCode]
  /\ cleared' = IF on THEN cleared ELSE cleared \cup Codes(d)
  /\ UNCHANGED register

\* The pending code is looked at after every write, whatever the register.
WriteSettings(d, value) ==
  /\ register' = [register EXCEPT ![d] = value]
  /\ line' = [line EXCEPT ![d] =
                IF scanning[d] /\ pending[d] # NoCode THEN <<pending[d]>> ELSE <<>>]
  /\ pending' = [pending EXCEPT ![d] = NoCode]
  /\ UNCHANGED <<scanning, cleared>>

\* inject_scan, into the page's device.
Inject ==
  /\ count < MaxCodes
  /\ inits # 0
  /\ count' = count + 1
  /\ \/ scanning[inits] /\ line' = [line EXCEPT ![inits] = Append(@, count')] /\ UNCHANGED pending
     \/ ~scanning[inits] /\ pending' = [pending EXCEPT ![inits] = count'] /\ UNCHANGED line
  /\ UNCHANGED <<inits, taskVars, scanning, register, cleared, pageVars, screen>>

----------------------------------------------------------------------------
(* The page *)

pg_init ==
  /\ inits < MaxInits
  /\ inits' = inits + 1
  /\ pc' = [pc EXCEPT ![inits'] = "boot"]
  /\ screen' = "boot"
  /\ UNCHANGED <<job, full, moduleVars, pageVars, count>>

StartScan(p) == [cmd |-> "start", policy |-> p]
StopScan == [cmd |-> "stop"]
ApplySettings(s) == [cmd |-> "settings", to |-> s]

\* Bound, for both queues together; with two devices they are all but empty.
QueueOpen == Len(cmds) + Len(taps) < IF inits = 1 THEN MaxQueue ELSE 1

pg_cmd_start(p) ==
  /\ QueueOpen
  /\ policy' = p
  /\ cmds' = Append(cmds, StartScan(p))
  /\ UNCHANGED <<inits, taskVars, moduleVars, taps, screen, count>>

pg_cmd_stop ==
  /\ QueueOpen
  /\ cmds' = Append(cmds, StopScan)
  /\ UNCHANGED <<inits, taskVars, moduleVars, taps, policy, screen, count>>

pg_lcd_tap(y) ==
  /\ QueueOpen
  /\ taps' = Append(taps, y)
  /\ UNCHANGED <<inits, taskVars, moduleVars, cmds, policy, screen, count>>

----------------------------------------------------------------------------
(* Taps: which row they hit depends on the screen when they are handled. *)

RowHeight == 64

rows_for(s) ==
  CASE s = "home"     -> [Start |-> 150, SettingsNav |-> 240]
    [] s = "scanning" -> [Stop |-> 150]
    [] s = "result"   -> [Back |-> 726]
    [] s = "settings" -> [Buzzer |-> 130, Aim |-> 210, Light |-> 290, Mode |-> 370, Back |-> 680]
    [] s = "boot"     -> <<>>

\* The one row hit, if any: rows of a screen do not overlap.
Hits(s, y) == {row \in DOMAIN rows_for(s) : y \in rows_for(s)[row] .. rows_for(s)[row] + RowHeight - 1}

\* handle_tap, on the screen and the commands so far.
handle_tap(ui, row, d) ==
  CASE row = "Start"       -> [ui EXCEPT !.cmds = Append(@, StartScan(policy))]
    [] row = "Stop"        -> [ui EXCEPT !.cmds = Append(@, StopScan)]
    [] row = "SettingsNav" -> [ui EXCEPT !.screen = "settings"]
    [] row = "Back"        -> [ui EXCEPT !.screen = "home"]
    [] OTHER               ->
         [ui EXCEPT !.cmds = Append(@, ApplySettings(cycle_row(from_bits(register[d]), row)))]

Tapped(ui, y, d) ==
  IF Hits(ui.screen, y) = {} THEN ui ELSE handle_tap(ui, CHOOSE row \in Hits(ui.screen, y) : TRUE, d)

----------------------------------------------------------------------------
(* The device task *)

\* init() writes registers, CMD_MODE among them, then reads the version and
\* saves: what is held for it goes with the last write at the latest.
Boot(d) ==
  /\ pc[d] = "boot"
  /\ pc' = [pc EXCEPT ![d] = "top"]
  /\ screen' = "home"
  /\ register' = [register EXCEPT ![d] = CMD_MODE]
  /\ pending' = [pending EXCEPT ![d] = NoCode] \/ UNCHANGED pending
  /\ UNCHANGED <<inits, job, full, scanning, line, cleared, pageVars, count>>

\* What the task awaits when no command is left.
Rests(d) == IF scanning[d] THEN "read" ELSE "wait"

\* The next command, or nothing left to do.
Proceed(d, queue) ==
  IF queue # <<>>
    THEN /\ pc' = [pc EXCEPT ![d] = IF Head(queue).cmd = "settings" THEN "settings" ELSE "stop"]
         /\ job' = [job EXCEPT ![d] = Head(queue)]
         /\ cmds' = Tail(queue)
    ELSE /\ pc' = [pc EXCEPT ![d] = Rests(d)]
         /\ job' = [job EXCEPT ![d] = NoJob]
         /\ cmds' = queue

\* All taps, each on what the one before it left.
Handled(d) ==
  LET ui[n \in 0 .. Len(taps)] ==
        IF n = 0 THEN [screen |-> screen, cmds |-> cmds] ELSE Tapped(ui[n - 1], taps[n], d)
  IN  ui[Len(taps)]

\* All taps, then the first command, without an await between.
Top(d) ==
  /\ pc[d] = "top"
  /\ screen' = Handled(d).screen
  /\ Proceed(d, Handled(d).cmds)
  /\ taps' = <<>>
  /\ UNCHANGED <<inits, full, moduleVars, policy, count>>

NextCommand(d) ==
  /\ pc[d] = "next"
  /\ Proceed(d, cmds)
  /\ UNCHANGED <<inits, full, moduleVars, taps, policy, screen, count>>

Continue(d, l) == pc' = [pc EXCEPT ![d] = l] /\ UNCHANGED <<job, full>>
Done(d) == pc' = [pc EXCEPT ![d] = "next"] /\ job' = [job EXCEPT ![d] = NoJob] /\ UNCHANGED full

\* StopScan, and the first of the three writes of start_scanning.
DoStop_NoScreen(d) ==
  /\ pc[d] = "stop"
  /\ WriteScanEnable(d, FALSE)
  /\ \/ job[d].cmd = "stop" /\ Done(d)
     \/ job[d].cmd = "start" /\ Continue(d, "settings")
  /\ UNCHANGED <<inits, pageVars, screen, count>>
DoStop(d) ==
  /\ pc[d] = "stop"
  /\ WriteScanEnable(d, FALSE)
  /\ \/ job[d].cmd = "stop" /\ Done(d) /\ screen' = "home"
     \/ job[d].cmd = "start" /\ Continue(d, "settings") /\ UNCHANGED screen
  /\ UNCHANGED <<inits, pageVars, count>>

PolicyOf(p) ==
  CASE p = 0 -> "SilentContinuous" [] p = 1 -> "BuzzingContinuous" [] OTHER -> "SilentCommand"

DoSettings(d) ==
  /\ pc[d] = "settings"
  /\ \/ /\ job[d].cmd = "settings"
        /\ WriteSettings(d, bits(job[d].to))
        /\ Done(d)
     \/ /\ job[d].cmd = "start"
        /\ WriteSettings(d, bits(policy_settings(PolicyOf(job[d].policy))))
        /\ Continue(d, "enable")
  /\ UNCHANGED <<inits, pageVars, screen, count>>

DoEnable(d) ==
  /\ pc[d] = "enable"
  /\ WriteScanEnable(d, TRUE)
  /\ Done(d)
  /\ screen' = "scanning"
  /\ UNCHANGED <<inits, pageVars, count>>

\* The standing read, up to 300 ms; taps and commands do not end it.
ReadScan(d) ==
  /\ pc[d] = "read" /\ ~full[d]
  /\ Continue(d, "top")
  /\ line[d] # <<>>
  /\ line' = [line EXCEPT ![d] = Tail(@)]
  /\ screen' = "result"
  /\ UNCHANGED <<inits, scanning, pending, register, cleared, pageVars, count>>

\* A line that does not fit: each read from its overflow on takes a byte of it,
\* or of a later line, and returns none. Start does not begin_scan().
ReadOverflows(d) ==
  /\ pc[d] = "read" /\ line[d] # <<>>
  /\ pc' = [pc EXCEPT ![d] = "top"]
  /\ full' = [full EXCEPT ![d] = TRUE]
  /\ line' \in {line, [line EXCEPT ![d] = Tail(@)]}
  /\ UNCHANGED <<inits, job, scanning, pending, register, cleared, pageVars, screen, count>>

\* It timed out, or the wait for input did or was woken.
RestEnds(d) ==
  /\ pc[d] = "wait" \/ (pc[d] = "read" /\ line[d] = <<>>)
  /\ Continue(d, "top")
  /\ UNCHANGED <<inits, moduleVars, pageVars, screen, count>>

Task(d) ==
  \/ Boot(d) \/ Top(d) \/ NextCommand(d)
  \/ DoStop(d) \/ DoSettings(d) \/ DoEnable(d)
  \/ ReadScan(d) \/ ReadOverflows(d) \/ RestEnds(d)

Next ==
  \/ pg_init
  \/ \E p \in StartIdxs : pg_cmd_start(p)
  \/ pg_cmd_stop
  \/ \E y \in TapYs : pg_lcd_tap(y)
  \/ Inject
  \/ \E d \in Device : Task(d)

Spec == Init /\ [][Next]_vars

----------------------------------------------------------------------------
(* Properties *)

\* The register always holds settings that a page can show.
PgTypeOK ==
  /\ inits \in 0 .. MaxInits
  /\ pc \in [Device -> {"off", "boot", "top", "next", "stop", "settings", "enable", "read", "wait"}]
  /\ \A d \in Device : pc[d] = "off" <=> d > inits
  /\ {scanning, full} \subseteq [Device -> BOOLEAN]
  /\ pending \in [Device -> 0 .. MaxCodes]
  /\ register \in [Device -> SettingsBytes]
  /\ \A d \in Device : line[d] \in Seq(1 .. MaxCodes)
  /\ screen \in {"boot", "home", "scanning", "result", "settings"}
  /\ policy \in 0 .. 2

\* A stop discards decodes, as on hardware (README, index.html): what the module
\* or the line had when it was told to stop never comes to the screen.
StopDiscards == \A d \in Device : Codes(d) \cap cleared = {}

\* With one device, the scanning screen is not shown over a module at rest,
\* except in the middle of a command.
ScanningScreenIsTrue ==
  inits = 1 /\ screen = "scanning" /\ pc[1] \in {"top", "read", "wait"} => scanning[1]

=============================================================================
