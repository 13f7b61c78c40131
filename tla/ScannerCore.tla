---------------------------- MODULE ScannerCore ----------------------------
(***************************************************************************)
(* The sans-IO core of the GM65 driver (scanner_core.rs) with its scan     *)
(* buffer (buffer.rs), driven as the sync and the async driver drive it:   *)
(* init() runs the InitAction machine to its end before any other call,    *)
(* and scan bytes are only fed to a scanner that was initialised.          *)
(*                                                                         *)
(* Register replies are unconstrained here: any command may be answered    *)
(* with any value or not at all.  ScannerInit closes the loop with a       *)
(* module that holds the registers.                                        *)
(*                                                                         *)
(* A definition whose name continues another one after an underscore and a *)
(* capital (has_eol_LfOnly) is that definition with a bug in it: no        *)
(* specification uses it, and the README tells which property finds it.    *)
(***************************************************************************)
EXTENDS Integers, Sequences

CONSTANTS
  MaxScan,   \* MAX_SCAN_SIZE: capacity of the scan buffer
  Payload,   \* byte values that are not line ends
  Value,     \* register values a reply can carry
  Target,    \* the configured value of each entry of init_config_sequence
  MaxFed     \* bound: bytes fed between two clearings of the buffer

CR == "CR"
LF == "LF"
EolBytes == {CR, LF}
ScanByte == Payload \cup EolBytes

\* The five entries of init_config_sequence, indexed from 0 as in the code.
ConfigIndex == 0 .. 4

ASSUME CoreAssumption ==
  /\ MaxScan \in Nat \ {0}
  /\ MaxFed \in Nat
  /\ Payload \cap EolBytes = {}
  /\ Value \subseteq 0 .. 255
  /\ Target \in [ConfigIndex -> 0 .. 255]

None == -1                 \* Option::None where Some carries a number
CmdMode == 145             \* config::CMD_MODE, 0x91
RawModeValue == 8          \* config::RAW_MODE_VALUE
VersionNeedsRaw == 105     \* config::VERSION_NEEDS_RAW, 0x69
MaxSerialReads == 3        \* bound on failed reads of SerialOutput

ConfigReg ==
  [i \in ConfigIndex |->
     <<"Timeout", "ScanInterval", "SameBarcodeDelay", "BarType", "QrEnable">>[i + 1]]

Register ==
  {"SerialOutput", "Settings", "Version", "RawMode"} \cup {ConfigReg[i] : i \in ConfigIndex}

ScannerError ==
  {"NotDetected", "BufferOverflow", "ConfigFailed", "UartError", "Cancelled"}

\* Error(e) is written as e, here and in init_step.
ScannerState ==
  {"Uninitialized", "Detecting", "Configuring", "Ready", "Scanning", "ScanComplete"}
    \cup ScannerError

InitStep ==
  {"Start", "Detecting", "ReadSerialOutput", "FixSerialOutput", "SetCommandMode",
   "ApplyConfig", "CheckVersion", "SaveSettings", "Complete"} \cup ScannerError

VARIABLES
  state,
  buffer,
  initialized,
  detected_model,
  last_scan_len,
  init_step,
  apply_index,       \* the index carried by InitStep::ApplyConfig
  init_retry_count,
  config_seq_index,
  pending,           \* the InitAction the driver has to perform, or NoAction
  scan_result,       \* the last ScanByteResult
  fed                \* history: bytes fed since the buffer was last cleared by a call

initVars == <<initialized, detected_model, init_step, apply_index,
              init_retry_count, config_seq_index, pending>>
scanVars == <<buffer, last_scan_len, scan_result, fed>>
vars == <<state, initVars, scanVars>>

----------------------------------------------------------------------------
(* Values *)

InitAction ==
  [do  : {"None", "DrainAndRead", "Read", "Write", "Verify", "Complete", "Fail"},
   reg : Register,
   val : 0 .. 255]

NoAction == [do |-> "None", reg |-> "Version", val |-> 0]
DrainAndRead(r) == [do |-> "DrainAndRead", reg |-> r, val |-> 0]
ReadRegister(r) == [do |-> "Read", reg |-> r, val |-> 0]
WriteRegister(r, v) == [do |-> "Write", reg |-> r, val |-> v]
VerifyRegister(r, v) == [do |-> "Verify", reg |-> r, val |-> v]
\* Complete and Fail name no register; the fields are filled with a constant.
InitDone == [do |-> "Complete", reg |-> "Version", val |-> 0]
InitFailed == [do |-> "Fail", reg |-> "Version", val |-> 0]

ScanByteResult ==
  [kind : {"NeedMore", "BufferOverflow", "Complete"}, data : Seq(ScanByte)]

NeedMore == [kind |-> "NeedMore", data |-> <<>>]
Overflowed == [kind |-> "BufferOverflow", data |-> <<>>]
Completed(d) == [kind |-> "Complete", data |-> d]

serial_output_needs_fix(v) == (v % 4) # 0
fix_serial_output(v) == v - (v % 4)
version_needs_raw_fix_Always(v) == TRUE
version_needs_raw_fix(v) == v = VersionNeedsRaw

has_eol_LfOnly(buf) == buf # <<>> /\ buf[Len(buf)] = LF
has_eol(buf) == buf # <<>> /\ buf[Len(buf)] \in EolBytes

\* At most one trailing LF and then one trailing CR are dropped.
data_without_eol(buf) ==
  LET n == Len(buf)
      lf == IF n > 0 /\ buf[n] = LF THEN n - 1 ELSE n
      cr == IF lf > 0 /\ buf[lf] = CR THEN lf - 1 ELSE lf
  IN  SubSeq(buf, 1, cr)

Init ==
  /\ state = "Uninitialized"
  /\ buffer = <<>>
  /\ initialized = FALSE
  /\ detected_model = "Unknown"
  /\ last_scan_len = None
  /\ init_step = "Start"
  /\ apply_index = 0
  /\ init_retry_count = 0
  /\ config_seq_index = 0
  /\ pending = NoAction
  /\ scan_result = NeedMore
  /\ fed = <<>>

----------------------------------------------------------------------------
(* The init machine *)

GoTo(step, act) ==
  /\ init_step' = step
  /\ pending' = act

fail_init(e) ==
  /\ state' = e
  /\ GoTo(e, InitFailed)

init_begin_KeepsIndex ==
  /\ init_retry_count' = 0
  /\ state' = "Detecting"
  /\ GoTo("Detecting", DrainAndRead("SerialOutput"))
  /\ UNCHANGED <<initialized, detected_model, apply_index, config_seq_index, scanVars>>

\* begin_init is part of it.  Neither `initialized` nor the buffer is touched.
init_begin ==
  /\ init_retry_count' = 0
  /\ config_seq_index' = 0
  /\ state' = "Detecting"
  /\ GoTo("Detecting", DrainAndRead("SerialOutput"))
  /\ UNCHANGED <<initialized, detected_model, apply_index, scanVars>>

AdvanceDetecting(res) ==
  /\ init_step = "Detecting"
  /\ \/ /\ res = None
        /\ fail_init("NotDetected")
        /\ UNCHANGED detected_model
     \/ /\ res # None
        /\ detected_model' = "Gm65"
        /\ state' = "Configuring"
        /\ GoTo("ReadSerialOutput", ReadRegister("SerialOutput"))
  /\ UNCHANGED <<apply_index, init_retry_count>>

\* The third failed read of SerialOutput ends init.
RetriesExhausted(n) == n >= MaxSerialReads

AdvanceReadSerialOutput(res) ==
  /\ init_step = "ReadSerialOutput"
  /\ \/ /\ res = None
        /\ init_retry_count' = init_retry_count + 1
        /\ \/ /\ RetriesExhausted(init_retry_count')
              /\ fail_init("ConfigFailed")
           \/ /\ ~RetriesExhausted(init_retry_count')
              /\ pending' = ReadRegister("SerialOutput")
              /\ UNCHANGED <<state, init_step>>
     \/ /\ res # None
        /\ IF serial_output_needs_fix(res)
           THEN GoTo("FixSerialOutput",
                     WriteRegister("SerialOutput", fix_serial_output(res)))
           ELSE GoTo("SetCommandMode", WriteRegister("Settings", CmdMode))
        /\ UNCHANGED <<state, init_retry_count>>
  /\ UNCHANGED <<detected_model, apply_index>>

AdvanceFixSerialOutput_Unchecked(res) ==
  /\ init_step = "FixSerialOutput"
  /\ GoTo("SetCommandMode", WriteRegister("Settings", CmdMode))
  /\ UNCHANGED <<state, detected_model, apply_index, init_retry_count>>

AdvanceFixSerialOutput(res) ==
  /\ init_step = "FixSerialOutput"
  /\ \/ res = None /\ fail_init("ConfigFailed")
     \/ /\ res # None
        /\ GoTo("SetCommandMode", WriteRegister("Settings", CmdMode))
        /\ UNCHANGED state
  /\ UNCHANGED <<detected_model, apply_index, init_retry_count>>

AdvanceSetCommandMode(res) ==
  /\ init_step = "SetCommandMode"
  /\ \/ /\ res = None
        /\ fail_init("ConfigFailed")
        /\ UNCHANGED apply_index
     \/ /\ res # None
        /\ GoTo("ApplyConfig", ReadRegister(ConfigReg[0]))
        /\ apply_index' = 0
        /\ UNCHANGED state
  /\ UNCHANGED <<detected_model, init_retry_count>>

\* A write comes back here as Some(target), and so counts as a value that is
\* already right: the register is not read again.
AdvanceApplyConfig(res) ==
  /\ init_step = "ApplyConfig"
  /\ \/ res = None /\ fail_init("ConfigFailed")
     \/ /\ res # None
        /\ res # Target[apply_index]
        /\ pending' = WriteRegister(ConfigReg[apply_index], Target[apply_index])
        /\ UNCHANGED <<state, init_step>>
     \/ /\ res # None
        /\ res = Target[apply_index]
        /\ pending' = VerifyRegister(ConfigReg[apply_index], Target[apply_index])
        /\ UNCHANGED <<state, init_step>>
  /\ UNCHANGED <<detected_model, apply_index, init_retry_count>>

AdvanceCheckVersion(res) ==
  /\ init_step = "CheckVersion"
  /\ IF res # None /\ version_needs_raw_fix(res)
     THEN GoTo("SaveSettings", ReadRegister("RawMode"))
     ELSE pending' = InitDone /\ UNCHANGED init_step
  /\ UNCHANGED <<state, detected_model, apply_index, init_retry_count>>

AdvanceSaveSettings(res) ==
  /\ init_step = "SaveSettings"
  /\ IF res # None /\ res # RawModeValue
     THEN GoTo("Complete", WriteRegister("RawMode", RawModeValue))
     ELSE pending' = InitDone /\ UNCHANGED init_step
  /\ UNCHANGED <<state, detected_model, apply_index, init_retry_count>>

\* The answer to the RawMode write does not matter.
AdvanceComplete ==
  /\ init_step = "Complete"
  /\ pending' = InitDone
  /\ UNCHANGED <<state, init_step, detected_model, apply_index, init_retry_count>>

\* The arms for Start and Failed are left out: a driver that follows the
\* actions never calls init_advance in those steps.
init_advance(res) ==
  /\ \/ AdvanceDetecting(res)
     \/ AdvanceReadSerialOutput(res)
     \/ AdvanceFixSerialOutput(res)
     \/ AdvanceSetCommandMode(res)
     \/ AdvanceApplyConfig(res)
     \/ AdvanceCheckVersion(res)
     \/ AdvanceSaveSettings(res)
     \/ AdvanceComplete
  /\ UNCHANGED <<initialized, config_seq_index, scanVars>>

ConfigLeft_SkipsLast(i) == i < 4
ConfigLeft(i) == i < 5

NextConfigIndex_Stuck == config_seq_index
NextConfigIndex == config_seq_index + 1

init_advance_verify ==
  /\ config_seq_index' = NextConfigIndex
  /\ \/ /\ ConfigLeft(config_seq_index')
        /\ apply_index' = config_seq_index'
        /\ GoTo("ApplyConfig", ReadRegister(ConfigReg[config_seq_index']))
     \/ /\ ~ConfigLeft(config_seq_index')
        /\ GoTo("CheckVersion", ReadRegister("Version"))
        /\ UNCHANGED apply_index
  /\ UNCHANGED <<state, initialized, detected_model, init_retry_count, scanVars>>

complete_init ==
  /\ state' = "Ready"
  /\ initialized' = TRUE
  /\ detected_model' = "Gm65"
  /\ GoTo("Complete", NoAction)
  /\ UNCHANGED <<apply_index, init_retry_count, config_seq_index, scanVars>>

----------------------------------------------------------------------------
(* Scan operations *)

ClearBuffer_KeepsBytes ==
  /\ fed' = <<>>
  /\ scan_result' = NeedMore
  /\ UNCHANGED buffer

\* Forget the bytes collected so far.
ClearBuffer ==
  /\ buffer' = <<>>
  /\ fed' = <<>>
  /\ scan_result' = NeedMore

begin_scan_Unchecked ==
  /\ state' = "Scanning"
  /\ ClearBuffer
  /\ UNCHANGED <<initVars, last_scan_len>>

\* Refused with NotInitialized, and without effect, before the first init.
begin_scan ==
  /\ initialized
  /\ state' = "Scanning"
  /\ ClearBuffer
  /\ UNCHANGED <<initVars, last_scan_len>>

BufferFull_OffByOne == Len(buffer) > MaxScan
BufferFull == Len(buffer) >= MaxScan

PushFails_Clears ==
  /\ BufferFull
  /\ state' = "BufferOverflow"
  /\ scan_result' = Overflowed
  /\ buffer' = <<>>
  /\ UNCHANGED last_scan_len

\* The buffer stays full, so every later byte fails too, a line end included.
PushFails ==
  /\ BufferFull
  /\ state' = "BufferOverflow"
  /\ scan_result' = Overflowed
  /\ UNCHANGED <<buffer, last_scan_len>>

\* The byte is stored and ends no payload; a line end on its own is dropped.
ByteStored(b) ==
  LET pushed == Append(buffer, b)
  IN  /\ ~BufferFull
      /\ \/ ~has_eol(pushed) /\ buffer' = pushed
         \/ has_eol(pushed) /\ data_without_eol(pushed) = <<>> /\ buffer' = <<>>
      /\ scan_result' = NeedMore
      /\ UNCHANGED <<state, last_scan_len>>

PayloadCompleted(b) ==
  LET pushed == Append(buffer, b)
      data   == data_without_eol(pushed)
  IN  /\ ~BufferFull
      /\ has_eol(pushed)
      /\ data # <<>>
      /\ last_scan_len' = Len(data)
      /\ state' = "ScanComplete"
      /\ buffer' = <<>>
      /\ scan_result' = Completed(data)

handle_scan_byte(b) ==
  /\ \/ PushFails
     \/ ByteStored(b)
     \/ PayloadCompleted(b)
  /\ fed' = Append(fed, b)
  /\ UNCHANGED initVars

\* Keeps the buffer: bytes of a cancelled read stay until begin_scan.
fail(e) ==
  /\ state' = e
  /\ UNCHANGED <<initVars, scanVars>>

clear_last_scan ==
  /\ last_scan_len' = None
  /\ UNCHANGED <<state, initVars, buffer, scan_result, fed>>

reset_to_ready ==
  /\ state' = "Ready"
  /\ last_scan_len' = None
  /\ ClearBuffer
  /\ UNCHANGED initVars

----------------------------------------------------------------------------
(* The driver around the core *)

Idle == pending = NoAction

InitCalled == Idle /\ init_begin

\* do_init performs the pending command and hands its outcome to the core; a
\* successful write is reported as the value written.
Outcomes(act) ==
  {None} \cup (IF act.do = "Write" THEN {act.val} ELSE Value)

CommandPending == pending.do \in {"DrainAndRead", "Read", "Write"}

CommandAnswered ==
  /\ CommandPending
  /\ \E res \in Outcomes(pending) : init_advance(res)

\* Built with defmt, the driver reads the register back here; what it reads is
\* logged only, and the core goes on.
VerifyIgnored == pending.do = "Verify" /\ init_advance_verify

InitReturnsOk == pending = InitDone /\ complete_init

InitReturnsErr ==
  /\ pending = InitFailed
  /\ pending' = NoAction
  /\ UNCHANGED <<state, initialized, detected_model, init_step, apply_index,
                 init_retry_count, config_seq_index, scanVars>>

InitProgress == CommandAnswered \/ VerifyIgnored \/ InitReturnsOk \/ InitReturnsErr

TriggerScan == Idle /\ begin_scan

\* A read path got a byte from the UART.
ScanByteRead ==
  /\ Idle
  /\ initialized
  /\ Len(fed) < MaxFed
  /\ \E b \in ScanByte : handle_scan_byte(b)

\* cancel_scan(), or a read that timed out (sync).
ScanCancelled == Idle /\ fail("Cancelled")

ReadFailed == Idle /\ initialized /\ fail("UartError")

ClearLastScan == Idle /\ clear_last_scan

ResetToReady == Idle /\ reset_to_ready

Next ==
  \/ InitCalled
  \/ InitProgress
  \/ TriggerScan
  \/ ScanByteRead
  \/ ScanCancelled
  \/ ReadFailed
  \/ ClearLastScan
  \/ ResetToReady

Spec == Init /\ [][Next]_vars

\* A command is answered or times out, and do_init is a plain loop.
FairSpec == Spec /\ WF_vars(InitProgress)

----------------------------------------------------------------------------
(* Properties *)

ScanTypeOK ==
  /\ buffer \in Seq(ScanByte)
  /\ Len(buffer) <= MaxScan
  /\ last_scan_len \in Nat \cup {None}
  /\ scan_result \in ScanByteResult
  /\ fed \in Seq(ScanByte)

InitTypeOK ==
  /\ initialized \in BOOLEAN
  /\ detected_model \in {"Unknown", "Gm65"}
  /\ init_step \in InitStep
  /\ apply_index \in ConfigIndex
  /\ init_retry_count \in 0 .. MaxSerialReads
  /\ config_seq_index \in 0 .. 5
  /\ pending \in InitAction

\* Every field has a value its Rust type and the code's bounds allow.
TypeOK ==
  /\ state \in ScannerState
  /\ ScanTypeOK
  /\ InitTypeOK

LineStartsAfter(i) == i = 0 \/ fed[i] \in EolBytes

NoEolIn(i, j) == \A k \in i .. j : fed[k] \notin EolBytes

\* Unless it is full, the buffer holds exactly the bytes fed since the last
\* line end: nothing of an earlier line, of an earlier scan, or lost between.
BufferIsOpenLine ==
  Len(buffer) < MaxScan =>
    \E i \in 0 .. Len(fed) :
      /\ LineStartsAfter(i)
      /\ NoEolIn(i + 1, Len(fed))
      /\ buffer = SubSeq(fed, i + 1, Len(fed))

\* A payload handed to the caller is one whole non-empty line of what was fed
\* since the buffer was cleared, without its line end, and its length is the
\* one status() reports.  A line that overflowed is never delivered in part.
PayloadIsWholeLine ==
  scan_result.kind = "Complete" =>
    /\ \E i \in 0 .. Len(fed) - 2 :
         /\ LineStartsAfter(i)
         /\ NoEolIn(i + 1, Len(fed) - 1)
         /\ fed[Len(fed)] \in EolBytes
         /\ scan_result.data = SubSeq(fed, i + 1, Len(fed) - 1)
    /\ last_scan_len \in {Len(scan_result.data), None}

\* A line that ended without filling the buffer has been handed over: the
\* line end of a non-empty line is never swallowed.
LineEndDelivers ==
  /\ Len(fed) >= 2
  /\ fed[Len(fed)] \in EolBytes
  /\ fed[Len(fed) - 1] \notin EolBytes
  /\ scan_result.kind # "BufferOverflow"
  => scan_result.kind = "Complete"

\* The two copies of the config index agree whenever the core is about to use
\* them, so config_seq[index] is in range and the register being compared is
\* the register that was read.
ConfigIndexAgrees ==
  (init_step = "ApplyConfig" /\ pending # NoAction) =>
    /\ apply_index = config_seq_index
    /\ pending.reg = ConfigReg[apply_index] \/ pending = InitFailed

\* The retry counter reaches its bound only in an init that gave up.
RetriesEndInit ==
  init_retry_count = MaxSerialReads => init_step = "ConfigFailed"

Session == INSTANCE ScanSession WITH
  phase     <- IF ~Idle THEN "Initialising"
               ELSE IF state \in ScannerError THEN "Error" ELSE state,
  connected <- initialized

\* The core, driven this way, keeps the lifecycle its callers rely on.
SessionSpec == Session!Spec

\* Whatever the module answers, init() returns.
InitReturns == ~Idle ~> Idle

=============================================================================
