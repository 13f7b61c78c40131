---------------------------- MODULE ScannerInit ----------------------------
(***************************************************************************)
(* init() end to end: the InitAction machine of ScannerCore, the do_init   *)
(* loop of the drivers, the serial link, and the registers of the module.  *)
(*                                                                         *)
(* Replies carry a value and no register address, so the driver takes any  *)
(* well-formed reply for the answer to the command it just sent.  A reply  *)
(* that misses its timeout is discarded by the drain before the next       *)
(* command, unless it arrives after the drain has seen the line quiet.     *)
(* The link keeps order, so such a reply comes before the right one.       *)
(***************************************************************************)
EXTENDS ScannerCore

CONSTANTS
  AckOnly,       \* registers whose writes are acknowledged and not stored
  InitialRegs    \* register files the module may power up with

ASSUME InitAssumption ==
  /\ AckOnly \subseteq Register
  /\ InitialRegs \subseteq [Register -> 0 .. 255]

VARIABLES
  regs,      \* the module's registers
  nvm,       \* what it restores when it restarts
  late,      \* value of a reply that missed its timeout, or None
  tainted    \* history: since init_begin a stale reply was taken for an
             \* answer, or the module restarted

moduleVars == <<regs, nvm, late, tainted>>
initRunVars == <<vars, moduleVars>>

AckValue == 0    \* value field of the reply to a write or a save

RunInit ==
  /\ Init
  /\ regs \in InitialRegs
  /\ nvm = regs
  /\ late = None
  /\ tainted = FALSE

----------------------------------------------------------------------------
(* The module *)

\* The registers after the module executed a command, and its reply.
Executed(act) ==
  IF act.do = "Write" /\ act.reg \notin AckOnly
  THEN [regs EXCEPT ![act.reg] = act.val]
  ELSE regs

ReplyTo(act) == IF act.do = "Write" THEN AckValue ELSE regs[act.reg]

\* What get_setting and set_setting make of a reply with value v.
ResultOf(act, v) == IF act.do = "Write" THEN act.val ELSE v

ModuleRestarts ==
  /\ regs' = nvm
  /\ tainted' = TRUE
  /\ UNCHANGED <<vars, nvm, late>>

----------------------------------------------------------------------------
(* One command of do_init: what can happen between sending it and handing  *)
(* its outcome to the core.                                                *)

Answered ==
  /\ CommandPending
  /\ late = None
  /\ init_advance(ResultOf(pending, ReplyTo(pending)))
  /\ regs' = Executed(pending)
  /\ UNCHANGED <<nvm, late, tainted>>

CommandLost ==
  /\ CommandPending
  /\ init_advance(None)
  /\ UNCHANGED moduleVars

\* Executed, but the reply is lost or corrupt.
ReplyLost ==
  /\ CommandPending
  /\ late = None
  /\ init_advance(None)
  /\ regs' = Executed(pending)
  /\ UNCHANGED <<nvm, late, tainted>>

\* Executed, and the reply is still to come when the driver gives up.
ReplyLate ==
  /\ CommandPending
  /\ late = None
  /\ init_advance(None)
  /\ late' = ReplyTo(pending)
  /\ regs' = Executed(pending)
  /\ UNCHANGED <<nvm, tainted>>

\* drain_uart, which send_command runs first in every state but Scanning,
\* reads the late reply away.
LateReplyDrained ==
  /\ late # None
  /\ late' = None
  /\ UNCHANGED <<vars, regs, nvm, tainted>>

\* The late reply is taken for the answer; the answer is then late in turn.
StaleAnswer ==
  /\ CommandPending
  /\ late # None
  /\ init_advance(ResultOf(pending, late))
  /\ late' = ReplyTo(pending)
  /\ regs' = Executed(pending)
  /\ tainted' = TRUE
  /\ UNCHANGED nvm

----------------------------------------------------------------------------
(* The rest of do_init *)

BeginInit ==
  /\ InitCalled
  /\ tainted' = FALSE
  /\ UNCHANGED <<regs, nvm, late>>

\* Nothing is sent, or, built with defmt, a read whose result is only logged: its
\* reply may be lost, or late, or take the place of an earlier one that is late.
Verify ==
  /\ VerifyIgnored
  /\ late' \in {late, ReplyTo(pending)}
  /\ UNCHANGED <<regs, nvm, tainted>>

\* save_settings comes first; whether it worked, and whose answer it got, is
\* ignored, and its own answer may be late.
CompleteInit ==
  /\ InitReturnsOk
  /\ nvm' \in {nvm, regs}
  /\ late' \in {late, AckValue}
  /\ UNCHANGED <<regs, tainted>>

FailInit ==
  /\ InitReturnsErr
  /\ UNCHANGED moduleVars

RunNext ==
  \/ BeginInit
  \/ Answered
  \/ CommandLost
  \/ ReplyLost
  \/ ReplyLate
  \/ LateReplyDrained
  \/ StaleAnswer
  \/ Verify
  \/ CompleteInit
  \/ FailInit
  \/ ModuleRestarts

RunSpec == RunInit /\ [][RunNext]_initRunVars

----------------------------------------------------------------------------
(* Properties *)

SerialFixed(r) == ~serial_output_needs_fix(r["SerialOutput"]) \/ "SerialOutput" \in AckOnly

CommandMode(r) == r["Settings"] = CmdMode \/ "Settings" \in AckOnly

Applied(r, i) == r[ConfigReg[i]] = Target[i] \/ ConfigReg[i] \in AckOnly

Configured(r) ==
  /\ SerialFixed(r)
  /\ CommandMode(r)
  /\ \A i \in ConfigIndex : Applied(r, i)

InitSucceeded == Idle /\ init_step = "Complete"

\* When init() returns Ok the module is configured: every register of the
\* sequence has its target, the serial output is fixed and the module is in
\* command mode, however many commands and replies were lost on the way.
\* Excepted are an init that took a stale reply for an answer and a module
\* that restarted meanwhile, which the driver cannot tell apart.
OkMeansConfigured == InitSucceeded /\ ~tainted => Configured(regs)

\* An init that is going on never writes a register that is already right,
\* and writes RawMode only on the firmware that needs it.  Command mode alone
\* is written unconditionally.
WritesAreNeeded ==
  pending.do = "Write" /\ ~tainted =>
    /\ \A i \in ConfigIndex :
         pending.reg = ConfigReg[i] => regs[pending.reg] # Target[i]
    /\ pending.reg = "RawMode" =>
         regs["Version"] = VersionNeedsRaw /\ regs["RawMode"] # RawModeValue
    /\ pending.reg = "SerialOutput" =>
         /\ serial_output_needs_fix(regs["SerialOutput"])
         /\ ~serial_output_needs_fix(pending.val)

\* An init that goes wrong leaves no partial configuration in the module's
\* permanent memory: only a complete one is ever saved.
OnlyCompleteIsSaved ==
  [][nvm' # nvm /\ ~tainted => Configured(nvm')]_initRunVars

=============================================================================
