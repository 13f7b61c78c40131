------------------------- MODULE ScannerCoreProofs -------------------------
(***************************************************************************)
(* Theorems about ScannerCore and ScannerInit, for every buffer size,      *)
(* every set of payload bytes and register values, every configuration,    *)
(* every register file of the module, and whatever the link loses.         *)
(***************************************************************************)
EXTENDS ScannerInit, SequenceTheorems, TLAPS

----------------------------------------------------------------------------
(* Helpers *)

LEMMA RegisterNames ==
  /\ \A i \in ConfigIndex : ConfigReg[i] \in Register
  /\ "SerialOutput" \in Register
  /\ "Settings" \in Register
  /\ "Version" \in Register
  /\ "RawMode" \in Register
BY DEF Register

LEMMA ActionsTyped ==
  /\ NoAction \in InitAction
  /\ InitDone \in InitAction
  /\ InitFailed \in InitAction
  /\ \A r \in Register :
       /\ DrainAndRead(r) \in InitAction
       /\ ReadRegister(r) \in InitAction
       /\ \A v \in 0 .. 255 :
            /\ WriteRegister(r, v) \in InitAction
            /\ VerifyRegister(r, v) \in InitAction
BY RegisterNames
DEF InitAction, NoAction, InitDone, InitFailed, DrainAndRead, ReadRegister,
    WriteRegister, VerifyRegister

LEMMA ResultsTyped ==
  /\ NeedMore \in ScanByteResult
  /\ Overflowed \in ScanByteResult
  /\ \A d \in Seq(ScanByte) : Completed(d) \in ScanByteResult
BY DEF NeedMore, Overflowed, Completed, ScanByteResult

LEMMA EmptySequence == <<>> \in Seq(ScanByte) /\ Len(<<>>) = 0
OBVIOUS

\* What is left of a buffer without its line end is a prefix of it.
LEMMA DataWithoutEol ==
  ASSUME NEW buf \in Seq(ScanByte)
  PROVE  /\ data_without_eol(buf) \in Seq(ScanByte)
         /\ \E n \in 0 .. Len(buf) : data_without_eol(buf) = SubSeq(buf, 1, n)
BY DEF data_without_eol

----------------------------------------------------------------------------
(* The inductive invariant of the init machine *)

\* What is pending in each step: this is what keeps the index and the retry
\* counter in range.
PendingFitsStep ==
  /\ CommandPending \/ pending.do \in {"Verify", "Complete"} =>
       /\ init_step \in {"Detecting", "ReadSerialOutput", "FixSerialOutput",
                         "SetCommandMode", "ApplyConfig", "CheckVersion",
                         "SaveSettings", "Complete"}
       /\ init_step = "ReadSerialOutput" => init_retry_count < MaxSerialReads
       /\ init_step \in {"Detecting", "ReadSerialOutput", "FixSerialOutput",
                         "SetCommandMode"} => config_seq_index = 0
  /\ pending.do = "Verify" => init_step = "ApplyConfig"
  /\ pending.do = "None" => pending = NoAction
  /\ pending.do = "Fail" => pending = InitFailed
  /\ pending = InitFailed => init_step \in ScannerError

InitInv ==
  /\ InitTypeOK
  /\ PendingFitsStep
  /\ ConfigIndexAgrees
  /\ RetriesEndInit

LEMMA InitInvInit == Init => InitInv
<1> SUFFICES ASSUME Init PROVE InitInv
  OBVIOUS
<1>1. InitTypeOK
  <2>1. initialized \in BOOLEAN
    BY DEF Init
  <2>2. QED
    BY <2>1, ActionsTyped DEF Init, InitTypeOK, InitStep, ConfigIndex, MaxSerialReads
<1>2. QED
  BY <1>1 DEF Init, InitInv, PendingFitsStep, CommandPending, ConfigIndexAgrees,
     RetriesEndInit, NoAction, InitFailed, MaxSerialReads


\* A step that leaves the init variables alone keeps InitInv.
LEMMA InitInvUnchanged == InitInv /\ UNCHANGED initVars => InitInv'
<1> SUFFICES ASSUME InitInv, UNCHANGED initVars PROVE InitInv'
  OBVIOUS
<1>1. InitTypeOK'
  <2>1. initialized' \in BOOLEAN
    BY DEF InitInv, InitTypeOK, initVars
  <2>2. QED
    BY <2>1 DEF InitInv, InitTypeOK, initVars
<1>2. QED
  BY <1>1 DEF InitInv, initVars, PendingFitsStep, CommandPending, ConfigIndexAgrees,
     RetriesEndInit

\* The heart of the argument: one proof step per arm of init_advance.
LEMMA InitInvAdvance ==
  ASSUME InitInv, CommandPending,
         NEW res \in 0 .. 255 \cup {None}, init_advance(res)
  PROVE  InitInv' /\ state' \in ScannerState \cup {state}
<1> USE DEF MaxSerialReads, GoTo, fail_init
<1>0. /\ initialized' \in BOOLEAN
      /\ config_seq_index' = config_seq_index
      /\ init_retry_count \in 0 .. 2
      /\ apply_index \in ConfigIndex
      /\ Target[apply_index] \in 0 .. 255
      /\ init_step = "ApplyConfig" => apply_index = config_seq_index
      /\ init_step \in {"Detecting", "ReadSerialOutput", "FixSerialOutput",
                        "SetCommandMode"} => config_seq_index = 0
  BY CoreAssumption DEF CoreAssumption, init_advance, InitInv, InitTypeOK, PendingFitsStep,
     CommandPending, RetriesEndInit, ConfigIndexAgrees, NoAction
<1>1. CASE AdvanceDetecting(res)
  <2>1. InitTypeOK'
    BY <1>0, <1>1, ActionsTyped, RegisterNames DEF AdvanceDetecting, InitInv, InitTypeOK, InitStep, ScannerError, ConfigIndex
  <2>2. PendingFitsStep'
    BY <1>0, <1>1 DEF AdvanceDetecting, PendingFitsStep, CommandPending, ScannerError, NoAction,
       InitFailed, ReadRegister
  <2>3. ConfigIndexAgrees'
    BY <1>0, <1>1 DEF AdvanceDetecting, ConfigIndexAgrees, ScannerError, NoAction,
       InitFailed, ReadRegister
  <2>4. RetriesEndInit'
    BY <1>0, <1>1 DEF AdvanceDetecting, RetriesEndInit
  <2>5. state' \in ScannerState \cup {state}
    BY <1>1 DEF AdvanceDetecting, ScannerState, ScannerError
  <2>6. QED
    BY <2>1, <2>2, <2>3, <2>4, <2>5 DEF InitInv
<1>2. CASE AdvanceReadSerialOutput(res)
  <2>1. InitTypeOK'
    <3>1. CmdMode \in 0 .. 255 /\ (res # None => fix_serial_output(res) \in 0 .. 255)
      BY DEF CmdMode, None, fix_serial_output
    <3>2. pending' \in InitAction
      BY <1>2, <3>1, ActionsTyped, RegisterNames DEF AdvanceReadSerialOutput
    <3>3. init_step' \in InitStep
      BY <1>2 DEF AdvanceReadSerialOutput, InitInv, InitTypeOK, InitStep, ScannerError
    <3>4. init_retry_count' \in 0 .. 3
      BY <1>0, <1>2 DEF AdvanceReadSerialOutput
    <3>5. QED
      BY <1>0, <1>2, <3>2, <3>3, <3>4 DEF AdvanceReadSerialOutput, InitInv, InitTypeOK
  <2>2. PendingFitsStep'
    BY <1>0, <1>2 DEF AdvanceReadSerialOutput, PendingFitsStep, CommandPending, ScannerError, NoAction,
       InitFailed, ReadRegister, WriteRegister, RetriesExhausted
  <2>3. ConfigIndexAgrees'
    BY <1>0, <1>2 DEF AdvanceReadSerialOutput, ConfigIndexAgrees, ScannerError, NoAction,
       InitFailed, ReadRegister, WriteRegister, RetriesExhausted
  <2>4. RetriesEndInit'
    BY <1>0, <1>2 DEF AdvanceReadSerialOutput, RetriesEndInit, RetriesExhausted
  <2>5. state' \in ScannerState \cup {state}
    BY <1>2 DEF AdvanceReadSerialOutput, ScannerState, ScannerError
  <2>6. QED
    BY <2>1, <2>2, <2>3, <2>4, <2>5 DEF InitInv
<1>3. CASE AdvanceFixSerialOutput(res)
  <2>1. InitTypeOK'
    BY <1>0, <1>3, ActionsTyped, RegisterNames DEF AdvanceFixSerialOutput, InitInv, InitTypeOK, InitStep, ScannerError, ConfigIndex, CmdMode
  <2>2. PendingFitsStep'
    BY <1>0, <1>3 DEF AdvanceFixSerialOutput, PendingFitsStep, CommandPending, ScannerError, NoAction,
       InitFailed, WriteRegister
  <2>3. ConfigIndexAgrees'
    BY <1>0, <1>3 DEF AdvanceFixSerialOutput, ConfigIndexAgrees, ScannerError, NoAction,
       InitFailed, WriteRegister
  <2>4. RetriesEndInit'
    BY <1>0, <1>3 DEF AdvanceFixSerialOutput, RetriesEndInit
  <2>5. state' \in ScannerState \cup {state}
    BY <1>3 DEF AdvanceFixSerialOutput, ScannerState, ScannerError
  <2>6. QED
    BY <2>1, <2>2, <2>3, <2>4, <2>5 DEF InitInv
<1>4. CASE AdvanceSetCommandMode(res)
  <2>1. InitTypeOK'
    BY <1>0, <1>4, ActionsTyped, RegisterNames DEF AdvanceSetCommandMode, InitInv, InitTypeOK, InitStep, ScannerError, ConfigIndex, CmdMode
  <2>2. PendingFitsStep'
    BY <1>0, <1>4 DEF AdvanceSetCommandMode, PendingFitsStep, CommandPending, ScannerError, NoAction,
       InitFailed, ReadRegister
  <2>3. ConfigIndexAgrees'
    BY <1>0, <1>4 DEF AdvanceSetCommandMode, ConfigIndexAgrees, ScannerError, NoAction,
       InitFailed, ReadRegister
  <2>4. RetriesEndInit'
    BY <1>0, <1>4 DEF AdvanceSetCommandMode, RetriesEndInit
  <2>5. state' \in ScannerState \cup {state}
    BY <1>4 DEF AdvanceSetCommandMode, ScannerState, ScannerError
  <2>6. QED
    BY <2>1, <2>2, <2>3, <2>4, <2>5 DEF InitInv
<1>5. CASE AdvanceApplyConfig(res)
  <2>1. InitTypeOK'
    <3>1. ConfigReg[apply_index] \in Register
      BY <1>0, RegisterNames
    <3>2. pending' \in InitAction
      BY <1>0, <1>5, <3>1, ActionsTyped DEF AdvanceApplyConfig
    <3>3. init_step' \in InitStep
      BY <1>5 DEF AdvanceApplyConfig, InitInv, InitTypeOK, InitStep, ScannerError
    <3>4. QED
      BY <1>0, <1>5, <3>2, <3>3 DEF AdvanceApplyConfig, InitInv, InitTypeOK
  <2>2. PendingFitsStep'
    BY <1>0, <1>5 DEF AdvanceApplyConfig, PendingFitsStep, CommandPending, ScannerError, NoAction,
       InitFailed, WriteRegister, VerifyRegister
  <2>3. ConfigIndexAgrees'
    BY <1>0, <1>5 DEF AdvanceApplyConfig, ConfigIndexAgrees, ScannerError, NoAction,
       InitFailed, WriteRegister, VerifyRegister
  <2>4. RetriesEndInit'
    BY <1>0, <1>5 DEF AdvanceApplyConfig, RetriesEndInit
  <2>5. state' \in ScannerState \cup {state}
    BY <1>5 DEF AdvanceApplyConfig, ScannerState, ScannerError
  <2>6. QED
    BY <2>1, <2>2, <2>3, <2>4, <2>5 DEF InitInv
<1>6. CASE AdvanceCheckVersion(res)
  <2>1. InitTypeOK'
    BY <1>0, <1>6, ActionsTyped, RegisterNames DEF AdvanceCheckVersion, InitInv, InitTypeOK, InitStep, ScannerError, ConfigIndex
  <2>2. PendingFitsStep'
    BY <1>0, <1>6 DEF AdvanceCheckVersion, PendingFitsStep, CommandPending, ScannerError, NoAction,
       InitDone, InitFailed, ReadRegister
  <2>3. ConfigIndexAgrees'
    BY <1>0, <1>6 DEF AdvanceCheckVersion, ConfigIndexAgrees, ScannerError, NoAction,
       InitDone, InitFailed, ReadRegister
  <2>4. RetriesEndInit'
    BY <1>0, <1>6 DEF AdvanceCheckVersion, RetriesEndInit
  <2>5. state' \in ScannerState \cup {state}
    BY <1>6 DEF AdvanceCheckVersion, ScannerState, ScannerError
  <2>6. QED
    BY <2>1, <2>2, <2>3, <2>4, <2>5 DEF InitInv
<1>7. CASE AdvanceSaveSettings(res)
  <2>1. InitTypeOK'
    BY <1>0, <1>7, ActionsTyped, RegisterNames DEF AdvanceSaveSettings, InitInv, InitTypeOK, InitStep, ScannerError, ConfigIndex, RawModeValue
  <2>2. PendingFitsStep'
    BY <1>0, <1>7 DEF AdvanceSaveSettings, PendingFitsStep, CommandPending, ScannerError, NoAction,
       InitDone, InitFailed, WriteRegister
  <2>3. ConfigIndexAgrees'
    BY <1>0, <1>7 DEF AdvanceSaveSettings, ConfigIndexAgrees, ScannerError, NoAction,
       InitDone, InitFailed, WriteRegister
  <2>4. RetriesEndInit'
    BY <1>0, <1>7 DEF AdvanceSaveSettings, RetriesEndInit
  <2>5. state' \in ScannerState \cup {state}
    BY <1>7 DEF AdvanceSaveSettings, ScannerState, ScannerError
  <2>6. QED
    BY <2>1, <2>2, <2>3, <2>4, <2>5 DEF InitInv
<1>8. CASE AdvanceComplete
  <2>1. InitTypeOK'
    BY <1>0, <1>8, ActionsTyped, RegisterNames DEF AdvanceComplete, InitInv, InitTypeOK, InitStep, ScannerError, ConfigIndex
  <2>2. PendingFitsStep'
    BY <1>0, <1>8 DEF AdvanceComplete, PendingFitsStep, CommandPending, ScannerError, NoAction,
       InitDone, InitFailed
  <2>3. ConfigIndexAgrees'
    BY <1>0, <1>8 DEF AdvanceComplete, ConfigIndexAgrees, ScannerError, NoAction,
       InitDone, InitFailed
  <2>4. RetriesEndInit'
    BY <1>0, <1>8 DEF AdvanceComplete, RetriesEndInit
  <2>5. state' \in ScannerState \cup {state}
    BY <1>8 DEF AdvanceComplete, ScannerState, ScannerError
  <2>6. QED
    BY <2>1, <2>2, <2>3, <2>4, <2>5 DEF InitInv
<1>9. QED
  BY <1>1, <1>2, <1>3, <1>4, <1>5, <1>6, <1>7, <1>8 DEF init_advance


LEMMA InitInvVerify ==
  ASSUME InitInv, VerifyIgnored
  PROVE  InitInv' /\ state' = state
<1> USE DEF VerifyIgnored, init_advance_verify, GoTo
<1>0. /\ apply_index \in ConfigIndex
      /\ config_seq_index = apply_index
      /\ init_step = "ApplyConfig"
      /\ init_retry_count \in 0 .. 2
  BY DEF InitInv, InitTypeOK, PendingFitsStep, ConfigIndexAgrees, NoAction,
     RetriesEndInit, MaxSerialReads
<1>1. InitTypeOK'
  <2>1. initialized' \in BOOLEAN
    BY DEF InitInv, InitTypeOK
  <2>2. config_seq_index' \in 1 .. 5 /\ apply_index' \in ConfigIndex
    BY <1>0 DEF ConfigIndex, ConfigLeft, NextConfigIndex
  <2>3. pending' \in InitAction
    BY <1>0, <2>2, ActionsTyped, RegisterNames DEF ConfigIndex, ConfigLeft
  <2>4. QED
    BY <2>1, <2>2, <2>3 DEF InitInv, InitTypeOK, InitStep
<1>2. PendingFitsStep'
  BY DEF PendingFitsStep, CommandPending, ReadRegister, NoAction, InitFailed
<1>3. ConfigIndexAgrees'
  BY DEF ConfigIndexAgrees, ReadRegister, NoAction
<1>4. RetriesEndInit'
  BY <1>0 DEF RetriesEndInit, MaxSerialReads
<1>5. QED
  BY <1>1, <1>2, <1>3, <1>4 DEF InitInv

LEMMA InitInvBegin ==
  ASSUME InitInv, InitCalled
  PROVE  InitInv' /\ state' = "Detecting"
<1> USE DEF InitCalled, init_begin, GoTo
<1>1. InitTypeOK'
  <2>1. initialized' \in BOOLEAN
    BY DEF InitInv, InitTypeOK
  <2>2. QED
    BY <2>1, ActionsTyped, RegisterNames DEF InitInv, InitTypeOK, InitStep, MaxSerialReads
<1>2. PendingFitsStep'
  BY DEF PendingFitsStep, CommandPending, DrainAndRead, NoAction, InitFailed
<1>3. ConfigIndexAgrees' /\ RetriesEndInit'
  BY DEF ConfigIndexAgrees, RetriesEndInit, MaxSerialReads
<1>4. QED
  BY <1>1, <1>2, <1>3 DEF InitInv

LEMMA InitInvReturn ==
  ASSUME InitInv, InitReturnsOk \/ InitReturnsErr
  PROVE  InitInv' /\ state' \in {"Ready", state}
<1>1. InitTypeOK'
  <2>1. initialized' \in BOOLEAN
    BY DEF InitInv, InitTypeOK, InitReturnsOk, InitReturnsErr, complete_init
  <2>2. QED
    BY <2>1, ActionsTyped
    DEF InitInv, InitTypeOK, InitStep, InitReturnsOk, InitReturnsErr, complete_init, GoTo
<1>2. PendingFitsStep' /\ ConfigIndexAgrees'
  BY DEF InitReturnsOk, InitReturnsErr, complete_init, GoTo, PendingFitsStep,
     CommandPending, ConfigIndexAgrees, NoAction, InitFailed
<1>3. RetriesEndInit'
  BY DEF InitInv, RetriesEndInit, PendingFitsStep, InitReturnsOk, InitReturnsErr,
     complete_init, GoTo, InitDone, CommandPending, InitTypeOK, MaxSerialReads
<1>4. QED
  BY <1>1, <1>2, <1>3 DEF InitInv, InitReturnsOk, InitReturnsErr, complete_init


\* What a command may be answered with is a byte, or nothing.
LEMMA AnswersTyped ==
  ASSUME NEW act \in InitAction, NEW res \in Outcomes(act)
  PROVE  res \in 0 .. 255 \cup {None}
<1>1. Value \subseteq 0 .. 255
  BY CoreAssumption
<1>2. act.val \in 0 .. 255
  BY DEF InitAction
<1>3. res = None \/ res \in Value \/ res = act.val
  BY DEF Outcomes
<1>4. QED
  BY <1>1, <1>2, <1>3

LEMMA InitInvNext == InitInv /\ [Next]_vars => InitInv'
<1> SUFFICES ASSUME InitInv, [Next]_vars PROVE InitInv'
  OBVIOUS
<1>1. CASE InitCalled
  BY <1>1, InitInvBegin
<1>2. CASE InitProgress
  <2>1. CASE CommandAnswered
    <3>1. CommandPending
      BY <2>1 DEF CommandAnswered
    <3>2. PICK res \in Outcomes(pending) : init_advance(res)
      BY <2>1 DEF CommandAnswered
    <3>3. res \in 0 .. 255 \cup {None}
      BY <3>2, AnswersTyped DEF InitInv, InitTypeOK
    <3>4. QED
      BY <3>1, <3>2, <3>3, InitInvAdvance
  <2>2. QED
    BY <1>2, <2>1, InitInvVerify, InitInvReturn DEF InitProgress
<1>3. CASE TriggerScan \/ ScanByteRead \/ ScanCancelled \/ ReadFailed \/ ClearLastScan
           \/ ResetToReady \/ UNCHANGED vars
  <2>1. UNCHANGED initVars
    BY <1>3 DEF TriggerScan, begin_scan, ScanByteRead, handle_scan_byte, ScanCancelled,
       ReadFailed, fail, ClearLastScan, clear_last_scan, ResetToReady, reset_to_ready, vars
  <2>2. QED
    BY <2>1, InitInvUnchanged
<1>4. QED
  BY <1>1, <1>2, <1>3 DEF Next

\* The init machine keeps its index and its retry counter in range, for every
\* configuration and whatever the module answers.
THEOREM InitMachineSafe == Spec => [](ConfigIndexAgrees /\ RetriesEndInit)
<1>1. InitInv => ConfigIndexAgrees /\ RetriesEndInit
  BY DEF InitInv
<1>2. QED
  BY InitInvInit, InitInvNext, <1>1, PTL DEF Spec

----------------------------------------------------------------------------
(* The scan buffer *)

LEMMA ScanTypeInit == Init => ScanTypeOK
BY ResultsTyped, CoreAssumption DEF Init, ScanTypeOK, CoreAssumption, None

LEMMA ScanTypeByte ==
  ASSUME ScanTypeOK, NEW b \in ScanByte, handle_scan_byte(b)
  PROVE  ScanTypeOK'
<1>0. Append(buffer, b) \in Seq(ScanByte) /\ fed' \in Seq(ScanByte)
  BY DEF ScanTypeOK, handle_scan_byte
<1>1. CASE PushFails
  BY <1>0, <1>1, ResultsTyped DEF ScanTypeOK, PushFails
<1>2. CASE ByteStored(b)
  <2>1. buffer \in Seq(ScanByte) /\ Len(Append(buffer, b)) = Len(buffer) + 1
    BY DEF ScanTypeOK
  <2>2. buffer' \in Seq(ScanByte) /\ Len(buffer') <= MaxScan
    <3>1. Len(buffer) < MaxScan /\ Len(buffer) \in Nat /\ MaxScan \in Nat
      BY <1>2, <2>1, CoreAssumption DEF ByteStored, BufferFull, CoreAssumption
    <3>2. buffer' = Append(buffer, b) \/ buffer' = <<>>
      BY <1>2 DEF ByteStored
    <3>3. CASE buffer' = Append(buffer, b)
      BY <1>0, <2>1, <3>1, <3>3
    <3>4. CASE buffer' = <<>>
      BY <3>1, <3>4, EmptySequence
    <3>5. QED
      BY <3>2, <3>3, <3>4
  <2>3. last_scan_len' = last_scan_len /\ scan_result' \in ScanByteResult
    BY <1>2, ResultsTyped DEF ByteStored
  <2>4. QED
    BY <1>0, <2>2, <2>3 DEF ScanTypeOK
<1>3. CASE PayloadCompleted(b)
  <2>1. data_without_eol(Append(buffer, b)) \in Seq(ScanByte)
    BY <1>0, DataWithoutEol
  <2>2. QED
    BY <1>0, <1>3, <2>1, ResultsTyped, CoreAssumption
    DEF ScanTypeOK, PayloadCompleted, CoreAssumption
<1>4. QED
  BY <1>1, <1>2, <1>3 DEF handle_scan_byte

LEMMA ScanTypeNext == InitInv /\ ScanTypeOK /\ [Next]_vars => ScanTypeOK'
<1> SUFFICES ASSUME InitInv, ScanTypeOK, [Next]_vars PROVE ScanTypeOK'
  OBVIOUS
<1>1. CASE ScanByteRead
  BY <1>1, ScanTypeByte DEF ScanByteRead
<1>2. CASE InitCalled \/ InitProgress \/ ScanCancelled \/ ReadFailed \/ UNCHANGED vars
  <2>1. UNCHANGED scanVars
    BY <1>2 DEF InitCalled, init_begin, InitProgress, CommandAnswered, init_advance,
       VerifyIgnored, init_advance_verify, InitReturnsOk, complete_init, InitReturnsErr,
       ScanCancelled, ReadFailed, fail, vars
  <2>2. QED
    BY <2>1 DEF ScanTypeOK, scanVars
<1>3. CASE TriggerScan \/ ClearLastScan \/ ResetToReady
  <2>1. last_scan_len' \in {last_scan_len, None}
    BY <1>3 DEF TriggerScan, begin_scan, ClearLastScan, clear_last_scan, ResetToReady,
       reset_to_ready
  <2>2. \/ UNCHANGED <<buffer, fed, scan_result>>
        \/ buffer' = <<>> /\ fed' = <<>> /\ scan_result' = NeedMore
    BY <1>3 DEF TriggerScan, begin_scan, ClearLastScan, clear_last_scan, ResetToReady,
       reset_to_ready, ClearBuffer
  <2>3. NeedMore \in ScanByteResult /\ MaxScan \in Nat
    BY ResultsTyped, CoreAssumption DEF CoreAssumption
  <2>4. CASE UNCHANGED <<buffer, fed, scan_result>>
    BY <2>1, <2>4 DEF ScanTypeOK
  <2>5. CASE buffer' = <<>> /\ fed' = <<>> /\ scan_result' = NeedMore
    BY <2>1, <2>3, <2>5, EmptySequence DEF ScanTypeOK
  <2>6. QED
    BY <2>2, <2>4, <2>5
<1>4. QED
  BY <1>1, <1>2, <1>3 DEF Next

LEMMA StateNext ==
  InitInv /\ state \in ScannerState /\ [Next]_vars => state' \in ScannerState
<1> SUFFICES ASSUME InitInv, state \in ScannerState, [Next]_vars
             PROVE  state' \in ScannerState
  OBVIOUS
<1>1. CASE InitCalled
  BY <1>1, InitInvBegin DEF ScannerState
<1>2. CASE InitProgress
  <2>1. CASE CommandAnswered
    <3>1. CommandPending
      BY <2>1 DEF CommandAnswered
    <3>2. PICK res \in Outcomes(pending) : init_advance(res)
      BY <2>1 DEF CommandAnswered
    <3>3. res \in 0 .. 255 \cup {None}
      BY <3>2, AnswersTyped DEF InitInv, InitTypeOK
    <3>4. QED
      BY <3>1, <3>2, <3>3, InitInvAdvance
  <2>2. QED
    BY <1>2, <2>1, InitInvVerify, InitInvReturn DEF InitProgress, ScannerState
<1>3. CASE ScanByteRead
  BY <1>3 DEF ScanByteRead, handle_scan_byte, PushFails, ByteStored, PayloadCompleted,
     ScannerState, ScannerError
<1>4. CASE TriggerScan \/ ScanCancelled \/ ReadFailed \/ ClearLastScan \/ ResetToReady
           \/ UNCHANGED vars
  BY <1>4 DEF TriggerScan, begin_scan, ScanCancelled, ReadFailed, fail, ClearLastScan,
     clear_last_scan, ResetToReady, reset_to_ready, vars, ScannerState, ScannerError
<1>5. QED
  BY <1>1, <1>2, <1>3, <1>4 DEF Next

\* Every field keeps a value that its type and the code's bounds allow; above
\* all, the buffer never exceeds MAX_SCAN_SIZE and the config index never
\* leaves the sequence by more than one.
THEOREM CoreTypeOK == Spec => []TypeOK
<1> DEFINE IInv == InitInv /\ ScanTypeOK /\ state \in ScannerState
<1>1. Init => IInv
  BY InitInvInit, ScanTypeInit DEF Init, ScannerState
<1>2. IInv /\ [Next]_vars => IInv'
  BY InitInvNext, ScanTypeNext, StateNext
<1>3. IInv => TypeOK
  BY DEF TypeOK, InitInv
<1>4. QED
  BY <1>1, <1>2, <1>3, PTL DEF Spec

----------------------------------------------------------------------------
(* The lifecycle *)

\* A failing init has left an error behind, which init() returns with.
FailureIsError == pending = InitFailed => state \in ScannerError

LEMMA FailureIsErrorNext == InitInv /\ FailureIsError /\ [Next]_vars => FailureIsError'
<1> SUFFICES ASSUME InitInv, FailureIsError, [Next]_vars PROVE FailureIsError'
  OBVIOUS
<1> USE DEF FailureIsError
<1>1. CASE InitCalled
  BY <1>1 DEF InitCalled, init_begin, GoTo, DrainAndRead, InitFailed
<1>2. CASE CommandAnswered
  <2>1. PICK res : init_advance(res)
    BY <1>2 DEF CommandAnswered
  <2>2. QED
    BY <2>1 DEF init_advance, AdvanceDetecting, AdvanceReadSerialOutput,
       AdvanceFixSerialOutput, AdvanceSetCommandMode, AdvanceApplyConfig,
       AdvanceCheckVersion, AdvanceSaveSettings, AdvanceComplete, fail_init, GoTo,
       ScannerError, InitFailed, InitDone, ReadRegister, WriteRegister, VerifyRegister
<1>3. CASE VerifyIgnored \/ InitReturnsOk \/ InitReturnsErr
  BY <1>3 DEF VerifyIgnored, init_advance_verify, InitReturnsOk, complete_init,
     InitReturnsErr, GoTo, InitFailed, ReadRegister, NoAction
<1>4. CASE TriggerScan \/ ScanByteRead \/ ScanCancelled \/ ReadFailed \/ ClearLastScan
           \/ ResetToReady
  <2>1. Idle /\ pending' = pending
    BY <1>4 DEF TriggerScan, begin_scan, ScanByteRead, handle_scan_byte, ScanCancelled,
       ReadFailed, fail, ClearLastScan, clear_last_scan, ResetToReady, reset_to_ready,
       initVars
  <2>2. QED
    BY <2>1 DEF Idle, NoAction, InitFailed
<1>5. CASE UNCHANGED vars
  BY <1>5 DEF vars, initVars
<1>6. QED
  BY <1>1, <1>2, <1>3, <1>4, <1>5 DEF Next, InitProgress

LEMMA SessionInit == Init => Session!Init
BY DEF Init, Session!Init, Idle, ScannerError

LEMMA SessionStep ==
  InitInv /\ state \in ScannerState /\ FailureIsError /\ [Next]_vars
    => [Session!Next]_(Session!vars)
<1> SUFFICES ASSUME InitInv, state \in ScannerState, FailureIsError, [Next]_vars
             PROVE  Session!Next \/ UNCHANGED Session!vars
  OBVIOUS
<1> USE DEF Idle, ScannerState, ScannerError, NoAction
<1>1. CASE InitCalled
  <2>1. Idle /\ ~Idle' /\ initialized' = initialized
    BY <1>1 DEF InitCalled, init_begin, GoTo, DrainAndRead
  <2>2. Session!StartInit
    BY <2>1 DEF Session!StartInit, Session!Idle
  <2>3. QED
    BY <2>2 DEF Session!Next
<1>2. CASE CommandAnswered \/ VerifyIgnored
  <2>1. ~Idle /\ ~Idle' /\ initialized' = initialized
    <3>1. CASE CommandAnswered
      <4>1. PICK res : init_advance(res)
        BY <3>1 DEF CommandAnswered
      <4>2. ~Idle
        BY <3>1 DEF CommandAnswered, CommandPending
      <4>3. pending' # NoAction
        BY <4>1 DEF init_advance, AdvanceDetecting, AdvanceReadSerialOutput,
           AdvanceFixSerialOutput, AdvanceSetCommandMode, AdvanceApplyConfig,
           AdvanceCheckVersion, AdvanceSaveSettings, AdvanceComplete, fail_init, GoTo,
           InitFailed, InitDone, ReadRegister, WriteRegister, VerifyRegister
      <4>4. QED
        BY <4>1, <4>2, <4>3 DEF init_advance
    <3>2. CASE VerifyIgnored
      BY <3>2 DEF VerifyIgnored, init_advance_verify, GoTo, ReadRegister
    <3>3. QED
      BY <1>2, <3>1, <3>2
  <2>2. QED
    BY <2>1 DEF Session!vars
<1>3. CASE InitReturnsOk
  <2>1. ~Idle /\ Idle' /\ state' = "Ready" /\ initialized' = TRUE
    BY <1>3 DEF InitReturnsOk, complete_init, GoTo, InitDone
  <2>2. Session!InitOk
    BY <2>1 DEF Session!InitOk
  <2>3. QED
    BY <2>2 DEF Session!Next
<1>4. CASE InitReturnsErr
  <2>1. ~Idle /\ Idle' /\ state' \in ScannerError /\ initialized' = initialized
    BY <1>4 DEF InitReturnsErr, InitFailed, FailureIsError
  <2>2. Session!InitErr
    BY <2>1 DEF Session!InitErr
  <2>3. QED
    BY <2>2 DEF Session!Next
<1>5. CASE TriggerScan
  <2>1. Idle /\ Idle' /\ initialized /\ initialized' = initialized /\ state' = "Scanning"
    BY <1>5 DEF TriggerScan, begin_scan, initVars
  <2>2. Session!Trigger
    BY <2>1 DEF Session!Trigger, Session!Idle
  <2>3. QED
    BY <2>2 DEF Session!Next
<1>6. CASE ScanByteRead
  <2>1. /\ Idle /\ Idle' /\ initialized /\ initialized' = initialized
        /\ state' \in {"BufferOverflow", "ScanComplete", state}
    BY <1>6 DEF ScanByteRead, handle_scan_byte, PushFails, ByteStored, PayloadCompleted,
       initVars
  <2>2. CASE state' = state
    BY <2>1, <2>2 DEF Session!vars
  <2>3. CASE state' = "BufferOverflow"
    BY <2>1, <2>3 DEF Session!Next, Session!Fail, Session!Idle
  <2>4. CASE state' = "ScanComplete"
    BY <2>1, <2>4 DEF Session!Next, Session!Complete, Session!Idle
  <2>5. QED
    BY <2>1, <2>2, <2>3, <2>4
<1>7. CASE ScanCancelled \/ ReadFailed
  <2>1. Idle /\ Idle' /\ initialized' = initialized /\ state' \in ScannerError
    BY <1>7 DEF ScanCancelled, ReadFailed, fail, initVars
  <2>2. Session!Fail
    BY <2>1 DEF Session!Fail, Session!Idle
  <2>3. QED
    BY <2>2 DEF Session!Next
<1>8. CASE ResetToReady
  <2>1. Idle /\ Idle' /\ initialized' = initialized /\ state' = "Ready"
    BY <1>8 DEF ResetToReady, reset_to_ready, initVars
  <2>2. Session!Reset
    BY <2>1 DEF Session!Reset, Session!Idle
  <2>3. QED
    BY <2>2 DEF Session!Next
<1>9. CASE ClearLastScan \/ UNCHANGED vars
  BY <1>9 DEF ClearLastScan, clear_last_scan, vars, initVars, Session!vars
<1>10. QED
  BY <1>1, <1>2, <1>3, <1>4, <1>5, <1>6, <1>7, <1>8, <1>9 DEF Next, InitProgress

\* The core implements the lifecycle: an observer of state() and status() sees
\* only the steps of ScanSession.
THEOREM CoreImplementsSession == Spec => SessionSpec
<1> DEFINE IInv == InitInv /\ state \in ScannerState /\ FailureIsError
<1>1. Init => IInv
  BY InitInvInit DEF Init, ScannerState, FailureIsError, NoAction, InitFailed
<1>2. IInv /\ [Next]_vars => IInv'
  BY InitInvNext, StateNext, FailureIsErrorNext
<1>3. IInv /\ [Next]_vars => [Session!Next]_(Session!vars)
  BY SessionStep
<1>4. QED
  BY <1>1, <1>2, <1>3, SessionInit, PTL DEF Spec, SessionSpec, Session!Spec

----------------------------------------------------------------------------
(* The scan buffer delivers whole lines: what begin_scan, the byte handler *)
(* and reset_to_ready leave in the buffer is the open line, and a payload  *)
(* is a whole line.                                                        *)

OpenLineAt(i) ==
  /\ i \in 0 .. Len(fed)
  /\ LineStartsAfter(i)
  /\ NoEolIn(i + 1, Len(fed))
  /\ buffer = SubSeq(fed, i + 1, Len(fed))

FramingInv ==
  /\ ScanTypeOK
  /\ BufferIsOpenLine
  /\ PayloadIsWholeLine
  /\ LineEndDelivers

----------------------------------------------------------------------------
(* Sequences *)

LEMMA AppendFacts ==
  ASSUME NEW S, NEW s \in Seq(S), NEW e \in S
  PROVE  /\ Append(s, e) \in Seq(S)
         /\ Len(Append(s, e)) = Len(s) + 1
         /\ Append(s, e)[Len(s) + 1] = e
         /\ \A k \in 1 .. Len(s) : Append(s, e)[k] = s[k]
OBVIOUS

\* A byte that is not a line end lengthens the open line by itself.
LEMMA SubSeqAppend ==
  ASSUME NEW S, NEW s \in Seq(S), NEW e \in S, NEW i \in 0 .. Len(s)
  PROVE  /\ SubSeq(Append(s, e), i + 1, Len(s) + 1) = Append(SubSeq(s, i + 1, Len(s)), e)
         /\ SubSeq(Append(s, e), i + 1, Len(s)) = SubSeq(s, i + 1, Len(s))
<1> DEFINE p == SubSeq(Append(s, e), i + 1, Len(s) + 1)
           q == Append(SubSeq(s, i + 1, Len(s)), e)
           n == Len(s) - i
<1>0. n \in Nat /\ Len(s) \in Nat /\ Len(s) = n + i
  OBVIOUS
<1>1. p = q
  <2>1. /\ p \in Seq(S) /\ Len(p) = n + 1
        /\ \A k \in 1 .. n + 1 : p[k] = Append(s, e)[i + k]
    BY <1>0
  <2>2. /\ q \in Seq(S) /\ Len(q) = n + 1
        /\ q[n + 1] = e
        /\ \A k \in 1 .. n : q[k] = s[i + k]
    BY <1>0
  <2>3. ASSUME NEW k \in 1 .. n + 1 PROVE p[k] = q[k]
    BY <1>0, <2>1, <2>2, AppendFacts
  <2>4. QED
    BY <2>1, <2>2, <2>3, SeqEqual
<1>2. SubSeq(Append(s, e), i + 1, Len(s)) = SubSeq(s, i + 1, Len(s))
  OBVIOUS
<1>3. QED
  BY <1>1, <1>2

LEMMA EmptySubSeq ==
  ASSUME NEW S, NEW s \in Seq(S)
  PROVE  SubSeq(s, Len(s) + 1, Len(s)) = <<>>
OBVIOUS

LEMMA WholeSubSeq ==
  ASSUME NEW S, NEW s \in Seq(S)
  PROVE  SubSeq(s, 1, Len(s)) = s
OBVIOUS

\* Of a line that holds no line end, nothing but the line end is dropped.
LEMMA DataOfLine ==
  ASSUME NEW s \in Seq(ScanByte), NEW b \in EolBytes,
         \A k \in 1 .. Len(s) : s[k] \notin EolBytes
  PROVE  data_without_eol(Append(s, b)) = s
<1> DEFINE p == Append(s, b)
<1>1. /\ p \in Seq(ScanByte) /\ Len(p) = Len(s) + 1 /\ p[Len(s) + 1] = b
      /\ \A k \in 1 .. Len(s) : p[k] = s[k]
  BY AppendFacts DEF ScanByte
<1>2. Len(s) \in Nat /\ CR # LF /\ CR \in EolBytes /\ LF \in EolBytes
  BY DEF CR, LF, EolBytes
<1>3. Len(s) > 0 => p[Len(s)] # CR
  BY <1>1, <1>2
<1>4. data_without_eol(p) = SubSeq(p, 1, Len(s))
  <2>1. CASE b = LF
    BY <1>1, <1>2, <1>3, <2>1 DEF data_without_eol
  <2>2. CASE b = CR
    BY <1>1, <1>2, <2>2 DEF data_without_eol
  <2>3. QED
    BY <2>1, <2>2 DEF EolBytes
<1>5. SubSeq(p, 1, Len(s)) = s
  BY SubSeqAppend, WholeSubSeq DEF ScanByte
<1>6. QED
  BY <1>4, <1>5

LEMMA HasEolAppend ==
  ASSUME NEW s \in Seq(ScanByte), NEW b \in ScanByte
  PROVE  has_eol(Append(s, b)) <=> b \in EolBytes
<1>1. Append(s, b) # <<>> /\ Len(Append(s, b)) = Len(s) + 1 /\ Append(s, b)[Len(s) + 1] = b
  BY AppendFacts, EmptySequence
<1>2. QED
  BY <1>1 DEF has_eol

----------------------------------------------------------------------------
(* Framing *)

\* The open line after one more byte: longer, or started anew.
LEMMA OpenLineNext ==
  ASSUME fed \in Seq(ScanByte), NEW b \in ScanByte, fed' = Append(fed, b),
         NEW i \in 0 .. Len(fed), OpenLineAt(i),
         NEW m \in Nat, m = Len(fed) + 1
  PROVE  /\ b \notin EolBytes /\ buffer' = Append(buffer, b) => OpenLineAt(i)'
         /\ b \in EolBytes /\ buffer' = <<>> => OpenLineAt(m)'
<1>1. /\ fed' \in Seq(ScanByte) /\ Len(fed') = Len(fed) + 1 /\ fed'[Len(fed) + 1] = b
      /\ \A k \in 1 .. Len(fed) : fed'[k] = fed[k]
  BY AppendFacts
<1>2. Len(fed) \in Nat
  OBVIOUS
<1>3. ASSUME b \notin EolBytes, buffer' = Append(buffer, b) PROVE OpenLineAt(i)'
  <2>1. LineStartsAfter(i)'
    BY <1>1, <1>2 DEF OpenLineAt, LineStartsAfter, EolBytes, CR, LF
  <2>2. NoEolIn(i + 1, Len(fed))'
    BY <1>1, <1>2, <1>3 DEF OpenLineAt, NoEolIn, EolBytes, CR, LF
  <2>3. buffer' = SubSeq(fed', i + 1, Len(fed'))
    BY <1>1, <1>2, <1>3, SubSeqAppend DEF OpenLineAt
  <2>4. QED
    BY <1>1, <1>2, <2>1, <2>2, <2>3 DEF OpenLineAt
<1>4. ASSUME b \in EolBytes, buffer' = <<>> PROVE OpenLineAt(m)'
  <2>1. LineStartsAfter(m)'
    BY <1>1, <1>2, <1>4 DEF LineStartsAfter, EolBytes, CR, LF
  <2>2. NoEolIn(m + 1, Len(fed))'
    BY <1>1, <1>2 DEF NoEolIn
  <2>3. buffer' = SubSeq(fed', m + 1, Len(fed'))
    BY <1>1, <1>4, EmptySubSeq
  <2>4. QED
    BY <1>1, <1>2, <2>1, <2>2, <2>3 DEF OpenLineAt
<1>5. QED
  BY <1>3, <1>4

LEMMA FramingByte ==
  ASSUME FramingInv, NEW b \in ScanByte, handle_scan_byte(b)
  PROVE  FramingInv'
<1>0. /\ ScanTypeOK' /\ fed \in Seq(ScanByte) /\ fed' = Append(fed, b)
      /\ buffer \in Seq(ScanByte) /\ MaxScan \in Nat /\ Len(buffer) <= MaxScan
  BY ScanTypeByte, CoreAssumption
  DEF FramingInv, ScanTypeOK, handle_scan_byte, CoreAssumption
<1>1. /\ fed' \in Seq(ScanByte) /\ Len(fed') = Len(fed) + 1 /\ fed'[Len(fed) + 1] = b
      /\ Len(fed) \in Nat
      /\ \A k \in 1 .. Len(fed) : fed'[k] = fed[k]
  BY <1>0, AppendFacts
<1>2. PICK m \in Nat : m = Len(fed) + 1
  BY <1>1
<1>3. CASE BufferFull
  <2>1. PushFails
    BY <1>3 DEF handle_scan_byte, ByteStored, PayloadCompleted
  <2>2. Len(buffer') = MaxScan /\ scan_result'.kind = "BufferOverflow"
    BY <1>0, <1>3, <2>1 DEF PushFails, BufferFull, Overflowed
  <2>3. QED
    BY <1>0, <2>2 DEF FramingInv, BufferIsOpenLine, PayloadIsWholeLine, LineEndDelivers
<1>4. CASE ~BufferFull
  <2>1. PICK i \in 0 .. Len(fed) : OpenLineAt(i)
    BY <1>0, <1>4 DEF FramingInv, BufferIsOpenLine, BufferFull, OpenLineAt
  <2>2. has_eol(Append(buffer, b)) <=> b \in EolBytes
    BY <1>0, HasEolAppend
  <2>3. CASE b \notin EolBytes
    <3>1. buffer' = Append(buffer, b) /\ scan_result' = NeedMore
      BY <1>4, <2>2, <2>3 DEF handle_scan_byte, PushFails, ByteStored, PayloadCompleted
    <3>2. OpenLineAt(i)'
      BY <1>0, <1>2, <2>1, <2>3, <3>1, OpenLineNext
    <3>3. QED
      BY <1>0, <1>1, <2>3, <3>1, <3>2
      DEF FramingInv, BufferIsOpenLine, PayloadIsWholeLine, LineEndDelivers, OpenLineAt,
          NeedMore
  <2>4. CASE b \in EolBytes
    <3>1. buffer' = <<>>
      BY <1>4, <2>2, <2>4 DEF handle_scan_byte, PushFails, ByteStored, PayloadCompleted
    <3>2. OpenLineAt(m)'
      BY <1>0, <1>2, <2>1, <2>4, <3>1, OpenLineNext
    <3>3. BufferIsOpenLine'
      BY <3>2 DEF BufferIsOpenLine, OpenLineAt
    <3>4. /\ Len(buffer) = Len(fed) - i
          /\ \A k \in 1 .. Len(buffer) : buffer[k] = fed[i + k]
      BY <1>0, <1>1, <2>1, SubSeqProperties, ElementOfSeq DEF OpenLineAt
    <3>5. \A k \in 1 .. Len(buffer) : buffer[k] \notin EolBytes
      BY <1>1, <2>1, <3>4 DEF OpenLineAt, NoEolIn
    <3>6. data_without_eol(Append(buffer, b)) = buffer
      BY <1>0, <2>4, <3>5, DataOfLine
    <3>7. CASE buffer = <<>>
      <4>1. scan_result' = NeedMore
        BY <1>4, <2>2, <2>4, <3>6, <3>7
        DEF handle_scan_byte, PushFails, ByteStored, PayloadCompleted
      <4>2. i = Len(fed)
        BY <1>1, <2>1, <3>4, <3>7, EmptySequence
      <4>3. LineEndDelivers'
        BY <1>1, <2>1, <4>2 DEF LineEndDelivers, OpenLineAt, LineStartsAfter
      <4>4. QED
        BY <1>0, <3>3, <4>1, <4>3 DEF FramingInv, PayloadIsWholeLine, NeedMore
    <3>8. CASE buffer # <<>>
      <4>1. /\ scan_result' = Completed(buffer)
            /\ last_scan_len' = Len(buffer)
        BY <1>4, <2>2, <2>4, <3>6, <3>8
        DEF handle_scan_byte, PushFails, ByteStored, PayloadCompleted
      <4>2. i \in 0 .. Len(fed') - 2
        BY <1>0, <1>1, <2>1, <3>4, <3>8, EmptySeq
      <4>3. LineStartsAfter(i)'
        BY <1>1, <2>1 DEF OpenLineAt, LineStartsAfter
      <4>4. NoEolIn(i + 1, Len(fed) - 1)'
        BY <1>1, <2>1 DEF OpenLineAt, NoEolIn
      <4>5. buffer = SubSeq(fed', i + 1, Len(fed') - 1)
        BY <1>0, <1>1, <2>1, SubSeqAppend DEF OpenLineAt
      <4>6. PayloadIsWholeLine'
        BY <1>1, <2>4, <4>1, <4>2, <4>3, <4>4, <4>5 DEF PayloadIsWholeLine, Completed
      <4>7. LineEndDelivers'
        BY <4>1 DEF LineEndDelivers, Completed
      <4>8. QED
        BY <1>0, <3>3, <4>6, <4>7 DEF FramingInv
    <3>9. QED
      BY <3>7, <3>8
  <2>5. QED
    BY <2>3, <2>4
<1>5. QED
  BY <1>3, <1>4

NothingCollected == buffer = <<>> /\ fed = <<>> /\ scan_result = NeedMore

LEMMA FramingEmpty ==
  NothingCollected => BufferIsOpenLine /\ PayloadIsWholeLine /\ LineEndDelivers
<1> SUFFICES ASSUME NothingCollected
             PROVE  BufferIsOpenLine /\ PayloadIsWholeLine /\ LineEndDelivers
  OBVIOUS
<1> USE DEF NothingCollected
<1>1. /\ Len(fed) = 0
      /\ SubSeq(fed, 1, 0) = <<>>
  BY EmptySequence, SubSeqEmpty
<1>2. LineStartsAfter(0) /\ NoEolIn(1, Len(fed))
  BY <1>1 DEF LineStartsAfter, NoEolIn
<1>3. BufferIsOpenLine
  BY <1>1, <1>2 DEF BufferIsOpenLine
<1>4. PayloadIsWholeLine /\ LineEndDelivers
  BY <1>1 DEF PayloadIsWholeLine, LineEndDelivers, NeedMore
<1>5. QED
  BY <1>3, <1>4

LEMMA FramingNext == InitInv /\ FramingInv /\ [Next]_vars => FramingInv'
<1> SUFFICES ASSUME InitInv, FramingInv, [Next]_vars PROVE FramingInv'
  OBVIOUS
<1>0. ScanTypeOK'
  BY ScanTypeNext DEF FramingInv
<1>1. CASE ScanByteRead
  BY <1>1, FramingByte DEF ScanByteRead
<1>2. CASE TriggerScan \/ ResetToReady
  <2>1. NothingCollected'
    BY <1>2
    DEF TriggerScan, begin_scan, ResetToReady, reset_to_ready, ClearBuffer, NothingCollected
  <2>2. (BufferIsOpenLine /\ PayloadIsWholeLine /\ LineEndDelivers)'
    BY <2>1, FramingEmpty, PTL
  <2>3. QED
    BY <1>0, <2>2 DEF FramingInv
<1>3. CASE InitCalled \/ InitProgress \/ ScanCancelled \/ ReadFailed \/ ClearLastScan
           \/ UNCHANGED vars
  <2>1. UNCHANGED <<buffer, fed, scan_result>> /\ last_scan_len' \in {last_scan_len, None}
    BY <1>3 DEF InitCalled, init_begin, InitProgress, CommandAnswered, init_advance,
       VerifyIgnored, init_advance_verify, InitReturnsOk, complete_init, InitReturnsErr,
       ScanCancelled, ReadFailed, fail, ClearLastScan, clear_last_scan, vars, scanVars
  <2>2. QED
    BY <1>0, <2>1 DEF FramingInv, BufferIsOpenLine, PayloadIsWholeLine, LineEndDelivers,
       LineStartsAfter, NoEolIn
<1>4. QED
  BY <1>1, <1>2, <1>3 DEF Next

\* However bytes arrive and scans are cancelled, a payload is exactly one whole
\* line of the bytes read since the buffer was cleared, no line that fitted is
\* withheld, and the buffer holds the open line and nothing else.
THEOREM FramingSafe ==
  Spec => [](BufferIsOpenLine /\ PayloadIsWholeLine /\ LineEndDelivers)
<1> DEFINE IInv == InitInv /\ FramingInv
<1>1. Init => IInv
  <2>1. Init => BufferIsOpenLine /\ PayloadIsWholeLine /\ LineEndDelivers
    BY FramingEmpty DEF Init, NothingCollected
  <2>2. QED
    BY <2>1, InitInvInit, ScanTypeInit DEF FramingInv
<1>2. IInv /\ [Next]_vars => IInv'
  BY InitInvNext, FramingNext
<1>3. IInv => BufferIsOpenLine /\ PayloadIsWholeLine /\ LineEndDelivers
  BY DEF FramingInv
<1>4. QED
  BY <1>1, <1>2, <1>3, PTL DEF Spec

\* The buffer holds the bytes behind the last line end and no other.
COROLLARY OpenLineKept == Spec => []BufferIsOpenLine
BY FramingSafe, PTL

\* A line end that finds bytes in the buffer hands them over.
COROLLARY LineEndsDeliver == Spec => []LineEndDelivers
BY FramingSafe, PTL

----------------------------------------------------------------------------
(* ScannerInit: what an init() does to a module *)

----------------------------------------------------------------------------
(* Registers *)

LEMMA ConfigRegsApart ==
  /\ \A i \in ConfigIndex :
       ConfigReg[i] \notin {"SerialOutput", "Settings", "Version", "RawMode"}
  /\ \A i, j \in ConfigIndex : ConfigReg[i] = ConfigReg[j] => i = j
<1>1. /\ ConfigReg[0] = "Timeout" /\ ConfigReg[1] = "ScanInterval"
      /\ ConfigReg[2] = "SameBarcodeDelay" /\ ConfigReg[3] = "BarType"
      /\ ConfigReg[4] = "QrEnable"
  BY DEF ConfigReg, ConfigIndex
<1>2. ConfigIndex = {0, 1, 2, 3, 4}
  BY DEF ConfigIndex
<1>3. QED
  BY <1>1, <1>2

LEMMA FixedNeedsNoFix ==
  ASSUME NEW v \in 0 .. 255
  PROVE  fix_serial_output(v) \in 0 .. 255 /\ ~serial_output_needs_fix(fix_serial_output(v))
BY DEF fix_serial_output, serial_output_needs_fix

RunTypes ==
  /\ regs \in [Register -> 0 .. 255]
  /\ nvm \in [Register -> 0 .. 255]
  /\ late \in 0 .. 255 \cup {None}
  /\ tainted \in BOOLEAN

\* What the module makes of a command.
LEMMA CommandDone ==
  ASSUME RunTypes, pending \in InitAction
  PROVE  /\ Executed(pending) \in [Register -> 0 .. 255]
         /\ \A r \in Register : r # pending.reg => Executed(pending)[r] = regs[r]
         /\ pending.do # "Write" => Executed(pending) = regs
         /\ pending.do = "Write" =>
              Executed(pending)[pending.reg] = pending.val \/ pending.reg \in AckOnly
         /\ ReplyTo(pending) \in 0 .. 255
         /\ \A v \in 0 .. 255 : ResultOf(pending, v) \in 0 .. 255
<1>1. pending.reg \in Register /\ pending.val \in 0 .. 255
  BY DEF InitAction
<1>2. regs \in [Register -> 0 .. 255]
  BY DEF RunTypes
<1>3. Executed(pending) \in [Register -> 0 .. 255]
  BY <1>1, <1>2 DEF Executed
<1>4. \A r \in Register : r # pending.reg => Executed(pending)[r] = regs[r]
  BY <1>1, <1>2 DEF Executed
<1>5. pending.do # "Write" => Executed(pending) = regs
  BY DEF Executed
<1>6. pending.do = "Write" =>
        Executed(pending)[pending.reg] = pending.val \/ pending.reg \in AckOnly
  BY <1>1, <1>2 DEF Executed
<1>7. ReplyTo(pending) \in 0 .. 255
  <2>1. regs[pending.reg] \in 0 .. 255
    BY <1>1, <1>2
  <2>2. QED
    BY <2>1 DEF ReplyTo, AckValue
<1>8. \A v \in 0 .. 255 : ResultOf(pending, v) \in 0 .. 255
  BY <1>1 DEF ResultOf
<1>9. QED
  BY <1>3, <1>4, <1>5, <1>6, <1>7, <1>8

LEMMA TypesNext == RunTypes /\ InitInv /\ [RunNext]_initRunVars => RunTypes'
<1> SUFFICES ASSUME RunTypes, InitInv, [RunNext]_initRunVars PROVE RunTypes'
  OBVIOUS
<1>1. /\ Executed(pending) \in [Register -> 0 .. 255]
      /\ ReplyTo(pending) \in 0 .. 255
  <2>1. pending \in InitAction
    BY DEF InitInv, InitTypeOK
  <2>2. QED
    BY <2>1, CommandDone
<1>2. /\ regs \in [Register -> 0 .. 255] /\ nvm \in [Register -> 0 .. 255]
      /\ late \in 0 .. 255 \cup {None} /\ AckValue \in 0 .. 255
  BY DEF RunTypes, AckValue
<1>3. tainted' \in {tainted, TRUE, FALSE}
  BY DEF RunNext, BeginInit, Answered, CommandLost, ReplyLost, ReplyLate,
      LateReplyDrained, StaleAnswer, Verify, CompleteInit, FailInit, ModuleRestarts,
      moduleVars, initRunVars
<1>4. tainted' \in BOOLEAN
  BY <1>3 DEF RunTypes
<1>5. /\ regs' \in {regs, nvm, Executed(pending)}
      /\ nvm' \in {nvm, regs}
      /\ late' \in {late, None, AckValue, ReplyTo(pending)}
  BY DEF RunNext, BeginInit, Answered, CommandLost, ReplyLost, ReplyLate,
      LateReplyDrained, StaleAnswer, Verify, CompleteInit, FailInit, ModuleRestarts,
      moduleVars, initRunVars
<1>6. QED
  BY <1>1, <1>2, <1>4, <1>5 DEF RunTypes

\* Every step is one of the init machine, or none of it.
LEMMA CoreNext == RunTypes /\ InitInv /\ [RunNext]_initRunVars => InitInv'
<1> SUFFICES ASSUME RunTypes, InitInv, [RunNext]_initRunVars PROVE InitInv'
  OBVIOUS
<1>1. CASE BeginInit
  BY <1>1, InitInvBegin DEF BeginInit
<1>2. CASE Answered \/ CommandLost \/ ReplyLost \/ ReplyLate \/ StaleAnswer
  <2>1. /\ ReplyTo(pending) \in 0 .. 255 /\ \A v \in 0 .. 255 : ResultOf(pending, v) \in 0 .. 255
    BY CommandDone DEF InitInv, InitTypeOK
  <2>2. CommandPending /\ \E res \in 0 .. 255 \cup {None} : init_advance(res)
    BY <1>2, <2>1 DEF Answered, CommandLost, ReplyLost, ReplyLate, StaleAnswer, RunTypes
  <2>3. QED
    BY <2>2, InitInvAdvance
<1>3. CASE Verify
  BY <1>3, InitInvVerify DEF Verify
<1>4. CASE CompleteInit \/ FailInit
  BY <1>4, InitInvReturn DEF CompleteInit, FailInit
<1>5. CASE LateReplyDrained \/ ModuleRestarts \/ UNCHANGED initRunVars
  BY <1>5, InitInvUnchanged DEF LateReplyDrained, ModuleRestarts, initRunVars, vars
<1>6. QED
  BY <1>1, <1>2, <1>3, <1>4, <1>5 DEF RunNext

----------------------------------------------------------------------------
(* What is pending in each step *)

PendingIs ==
  /\ init_step = "Start" => pending = NoAction
  /\ init_step = "Detecting" => pending = DrainAndRead("SerialOutput")
  /\ init_step = "ReadSerialOutput" => pending = ReadRegister("SerialOutput")
  /\ init_step = "FixSerialOutput" => pending.do = "Write" /\ pending.reg = "SerialOutput"
  /\ init_step = "SetCommandMode" => pending = WriteRegister("Settings", CmdMode)
  /\ init_step = "ApplyConfig" =>
       pending \in {ReadRegister(ConfigReg[apply_index]),
                    WriteRegister(ConfigReg[apply_index], Target[apply_index]),
                    VerifyRegister(ConfigReg[apply_index], Target[apply_index])}
  /\ init_step = "CheckVersion" => pending \in {ReadRegister("Version"), InitDone}
  /\ init_step = "SaveSettings" => pending \in {ReadRegister("RawMode"), InitDone}
  /\ init_step = "Complete" =>
       pending \in {WriteRegister("RawMode", RawModeValue), InitDone, NoAction}
  /\ init_step \in ScannerError => pending \in {InitFailed, NoAction}

LEMMA PendingNext ==
  ASSUME InitInv, PendingIs, [RunNext]_initRunVars
  PROVE  PendingIs'
<1> USE DEF GoTo, fail_init, ScannerError
<1>1. ASSUME NEW res, CommandPending, init_advance(res) PROVE PendingIs'
  <2>1. CASE AdvanceDetecting(res)
    BY <2>1 DEF AdvanceDetecting, PendingIs
  <2>2. CASE AdvanceReadSerialOutput(res)
    BY <2>2 DEF AdvanceReadSerialOutput, PendingIs, WriteRegister
  <2>3. CASE AdvanceFixSerialOutput(res)
    BY <2>3 DEF AdvanceFixSerialOutput, PendingIs
  <2>4. CASE AdvanceSetCommandMode(res)
    BY <2>4 DEF AdvanceSetCommandMode, PendingIs
  <2>5. CASE AdvanceApplyConfig(res)
    BY <2>5 DEF AdvanceApplyConfig, PendingIs
  <2>6. CASE AdvanceCheckVersion(res)
    BY <2>6 DEF AdvanceCheckVersion, PendingIs
  <2>7. CASE AdvanceSaveSettings(res)
    BY <2>7 DEF AdvanceSaveSettings, PendingIs
  <2>8. CASE AdvanceComplete
    BY <2>8 DEF AdvanceComplete, PendingIs
  <2>9. QED
    BY <1>1, <2>1, <2>2, <2>3, <2>4, <2>5, <2>6, <2>7, <2>8 DEF init_advance
<1>2. CASE BeginInit
  BY <1>2 DEF BeginInit, InitCalled, init_begin, PendingIs
<1>3. CASE Answered \/ CommandLost \/ ReplyLost \/ ReplyLate \/ StaleAnswer
  BY <1>1, <1>3 DEF Answered, CommandLost, ReplyLost, ReplyLate, StaleAnswer
<1>4. CASE Verify
  BY <1>4 DEF Verify, VerifyIgnored, init_advance_verify, PendingIs
<1>5. CASE CompleteInit
  BY <1>5 DEF CompleteInit, InitReturnsOk, complete_init, PendingIs
<1>6. CASE FailInit
  <2>1. init_step \in ScannerError /\ init_step' = init_step /\ pending' = NoAction
    BY <1>6 DEF FailInit, InitReturnsErr, InitInv, PendingFitsStep
  <2>2. QED
    BY <2>1 DEF PendingIs
<1>7. CASE LateReplyDrained \/ ModuleRestarts \/ UNCHANGED initRunVars
  BY <1>7
  DEF LateReplyDrained, ModuleRestarts, initRunVars, vars, initVars, PendingIs
<1>8. QED
  BY <1>2, <1>3, <1>4, <1>5, <1>6, <1>7 DEF RunNext

----------------------------------------------------------------------------
(* What is right in the module in each step *)

\* The steps behind the configuration sequence.
Behind == {"CheckVersion", "SaveSettings", "Complete"}

Progress ==
  /\ init_step = "FixSerialOutput" =>
       /\ serial_output_needs_fix(regs["SerialOutput"])
       /\ pending.val = fix_serial_output(regs["SerialOutput"])
  /\ init_step \in {"SetCommandMode", "ApplyConfig"} \cup Behind => SerialFixed(regs)
  /\ init_step \in {"ApplyConfig"} \cup Behind => CommandMode(regs)
  /\ init_step = "ApplyConfig" =>
       /\ \A i \in ConfigIndex : i < apply_index => Applied(regs, i)
       /\ pending.do = "Write" => regs[ConfigReg[apply_index]] # Target[apply_index]
       /\ pending.do = "Verify" => Applied(regs, apply_index)
  /\ init_step \in Behind => \A i \in ConfigIndex : Applied(regs, i)
  /\ init_step = "SaveSettings" => regs["Version"] = VersionNeedsRaw
  /\ init_step = "Complete" /\ pending.do = "Write" =>
       regs["Version"] = VersionNeedsRaw /\ regs["RawMode"] # RawModeValue

RunInv ==
  /\ RunTypes /\ InitInv /\ PendingIs
  /\ ~tainted => Progress

\* A command that was carried out and answered, or failed, carried out or not.
LEMMA CommandProgress ==
  ASSUME RunInv, ~tainted, CommandPending, NEW res, init_advance(res),
         \/ res = None /\ regs' \in {regs, Executed(pending)}
         \/ res = ResultOf(pending, ReplyTo(pending)) /\ regs' = Executed(pending)
  PROVE  Progress'
<1> DEFINE reg == pending.reg
<1>0. /\ PendingIs /\ Progress /\ apply_index \in ConfigIndex
      /\ pending \in InitAction /\ regs \in [Register -> 0 .. 255]
  BY DEF RunInv, RunTypes, InitInv, InitTypeOK
<1>1. /\ \A r \in Register : r # reg => regs'[r] = regs[r]
      /\ pending.do # "Write" => regs' = regs
      /\ pending.do = "Write" /\ res # None =>
           res = pending.val /\ (regs'[reg] = pending.val \/ reg \in AckOnly)
      /\ pending.do # "Write" /\ res # None => res = regs[reg]
      /\ \A r \in Register : regs[r] \in 0 .. 255
  <2>1. /\ \A r \in Register : r # reg => Executed(pending)[r] = regs[r]
        /\ pending.do # "Write" => Executed(pending) = regs
        /\ pending.do = "Write" =>
             Executed(pending)[reg] = pending.val \/ reg \in AckOnly
    BY <1>0, CommandDone DEF RunInv
  <2>2. ReplyTo(pending) \in 0 .. 255
    BY <1>0, CommandDone DEF RunInv
  <2>3. QED
    BY <1>0, <2>1, <2>2 DEF ResultOf, ReplyTo
<1>2. reg \in Register
  BY <1>0 DEF InitAction
<1> USE DEF GoTo, fail_init, Behind
<1>3. CASE AdvanceDetecting(res)
  BY <1>3 DEF AdvanceDetecting, Progress, ScannerError
<1>4. CASE AdvanceReadSerialOutput(res)
  <2>1. pending = ReadRegister("SerialOutput")
    BY <1>0, <1>4 DEF AdvanceReadSerialOutput, PendingIs
  <2>2. regs' = regs /\ (res # None => res = regs["SerialOutput"])
    BY <1>1, <2>1 DEF ReadRegister
  <2>3. QED
    BY <1>4, <2>2
    DEF AdvanceReadSerialOutput, Progress, ScannerError, WriteRegister, SerialFixed
<1>5. CASE AdvanceFixSerialOutput(res)
  <2>1. CASE res = None
    BY <1>5, <2>1 DEF AdvanceFixSerialOutput, Progress, ScannerError
  <2>2. CASE res # None
    <3>1. /\ pending.do = "Write" /\ reg = "SerialOutput"
          /\ pending.val = fix_serial_output(regs["SerialOutput"])
      BY <1>0, <1>5 DEF AdvanceFixSerialOutput, PendingIs, Progress
    <3>2. regs["SerialOutput"] \in 0 .. 255
      BY <1>1, RegisterNames
    <3>3. ~serial_output_needs_fix(pending.val)
      BY <3>1, <3>2, FixedNeedsNoFix
    <3>4. regs'["SerialOutput"] = pending.val \/ "SerialOutput" \in AckOnly
      BY <1>1, <2>2, <3>1
    <3>5. SerialFixed(regs')
      BY <3>3, <3>4 DEF SerialFixed
    <3>6. QED
      BY <1>5, <2>2, <3>5 DEF AdvanceFixSerialOutput, Progress, SerialFixed
  <2>3. QED
    BY <2>1, <2>2
<1>6. CASE AdvanceSetCommandMode(res)
  <2>1. CASE res = None
    BY <1>6, <2>1 DEF AdvanceSetCommandMode, Progress, ScannerError
  <2>2. CASE res # None
    <3>1. pending.do = "Write" /\ reg = "Settings" /\ pending.val = CmdMode
      BY <1>0, <1>6 DEF AdvanceSetCommandMode, PendingIs, WriteRegister
    <3>2. regs'["SerialOutput"] = regs["SerialOutput"]
      BY <1>1, <3>1, RegisterNames
    <3>3. SerialFixed(regs') /\ CommandMode(regs')
      BY <1>0, <1>1, <1>6, <2>2, <3>1, <3>2
      DEF AdvanceSetCommandMode, Progress, SerialFixed, CommandMode
    <3>4. \A i \in ConfigIndex : ~(i < 0)
      BY DEF ConfigIndex
    <3>5. QED
      BY <1>6, <2>2, <3>3, <3>4
      DEF AdvanceSetCommandMode, Progress, ReadRegister, SerialFixed, CommandMode
  <2>3. QED
    BY <2>1, <2>2
<1>7. CASE AdvanceApplyConfig(res)
  <2>1. CASE res = None
    BY <1>7, <2>1 DEF AdvanceApplyConfig, Progress, ScannerError
  <2>2. CASE res # None
    <3>1. /\ init_step = "ApplyConfig" /\ reg = ConfigReg[apply_index]
          /\ pending.do \in {"Read", "Write"}
          /\ pending.do = "Write" => pending.val = Target[apply_index]
      BY <1>0, <1>7
      DEF AdvanceApplyConfig, PendingIs, CommandPending, ReadRegister, WriteRegister,
          VerifyRegister
    <3>2. /\ regs'["SerialOutput"] = regs["SerialOutput"]
          /\ regs'["Settings"] = regs["Settings"]
          /\ \A i \in ConfigIndex :
               i # apply_index => regs'[ConfigReg[i]] = regs[ConfigReg[i]]
      BY <1>0, <1>1, <3>1, RegisterNames, ConfigRegsApart
    <3>3. SerialFixed(regs') /\ CommandMode(regs')
      BY <1>0, <3>1, <3>2 DEF Progress, SerialFixed, CommandMode
    <3>4. \A i \in ConfigIndex : i < apply_index => Applied(regs', i)
      BY <1>0, <3>1, <3>2 DEF Progress, Applied, ConfigIndex
    <3>5. /\ init_step' = "ApplyConfig" /\ apply_index' = apply_index
          /\ \/ pending'.do = "Write" /\ res # Target[apply_index]
             \/ pending'.do = "Verify" /\ res = Target[apply_index]
      BY <1>7, <2>2, <3>1 DEF AdvanceApplyConfig, WriteRegister, VerifyRegister
    <3>6. CASE pending.do = "Read"
      <4>1. regs' = regs /\ res = regs[ConfigReg[apply_index]]
        BY <1>1, <2>2, <3>1, <3>6
      <4>2. QED
        BY <3>3, <3>4, <3>5, <4>1 DEF Progress, SerialFixed, CommandMode, Applied
    <3>7. CASE pending.do = "Write"
      <4>1. res = Target[apply_index] /\ Applied(regs', apply_index)
        BY <1>1, <2>2, <3>1, <3>7 DEF Applied
      <4>2. QED
        BY <3>3, <3>4, <3>5, <4>1 DEF Progress, SerialFixed, CommandMode, Applied
    <3>8. QED
      BY <3>1, <3>6, <3>7
  <2>3. QED
    BY <2>1, <2>2
<1>8. CASE AdvanceCheckVersion(res)
  <2>1. pending = ReadRegister("Version")
    BY <1>0, <1>8 DEF AdvanceCheckVersion, PendingIs, CommandPending, InitDone
  <2>2. regs' = regs /\ (res # None => res = regs["Version"])
    BY <1>1, <2>1 DEF ReadRegister
  <2>3. QED
    BY <1>0, <1>8, <2>2
    DEF AdvanceCheckVersion, Progress, InitDone, ReadRegister, version_needs_raw_fix,
        SerialFixed, CommandMode, Applied
<1>9. CASE AdvanceSaveSettings(res)
  <2>1. pending = ReadRegister("RawMode")
    BY <1>0, <1>9 DEF AdvanceSaveSettings, PendingIs, CommandPending, InitDone
  <2>2. regs' = regs /\ (res # None => res = regs["RawMode"])
    BY <1>1, <2>1 DEF ReadRegister
  <2>3. QED
    BY <1>0, <1>9, <2>2
    DEF AdvanceSaveSettings, Progress, InitDone, WriteRegister, SerialFixed, CommandMode,
        Applied
<1>10. CASE AdvanceComplete
  <2>1. pending = WriteRegister("RawMode", RawModeValue)
    BY <1>0, <1>10
    DEF AdvanceComplete, PendingIs, CommandPending, InitDone, NoAction
  <2>2. \A r \in Register : r # "RawMode" => regs'[r] = regs[r]
    BY <1>1, <2>1 DEF WriteRegister
  <2>3. /\ regs'["SerialOutput"] = regs["SerialOutput"]
        /\ regs'["Settings"] = regs["Settings"]
        /\ \A i \in ConfigIndex : regs'[ConfigReg[i]] = regs[ConfigReg[i]]
    BY <2>2, RegisterNames, ConfigRegsApart
  <2>4. QED
    BY <1>0, <1>10, <2>3
    DEF AdvanceComplete, Progress, InitDone, SerialFixed, CommandMode, Applied
<1>11. QED
  BY <1>3, <1>4, <1>5, <1>6, <1>7, <1>8, <1>9, <1>10 DEF init_advance

LEMMA ProgressVerify ==
  ASSUME RunInv, ~tainted, Verify
  PROVE  Progress'
<1> USE DEF GoTo, Behind
<1>1. /\ Progress /\ regs' = regs /\ init_advance_verify
      /\ init_step = "ApplyConfig" /\ pending.do = "Verify"
      /\ apply_index = config_seq_index /\ apply_index \in ConfigIndex
  BY DEF RunInv, Verify, VerifyIgnored, moduleVars, InitInv, InitTypeOK, PendingFitsStep,
      ConfigIndexAgrees, NoAction
<1>2. /\ SerialFixed(regs') /\ CommandMode(regs')
      /\ \A i \in ConfigIndex : i < apply_index + 1 => Applied(regs', i)
  BY <1>1 DEF Progress, SerialFixed, CommandMode, Applied, ConfigIndex
<1>3. CASE ConfigLeft(config_seq_index')
  <2>1. /\ init_step' = "ApplyConfig" /\ apply_index' = apply_index + 1
        /\ pending'.do = "Read"
    BY <1>1, <1>3
    DEF init_advance_verify, NextConfigIndex, ConfigLeft, ReadRegister, ConfigIndex
  <2>2. QED
    BY <1>2, <2>1 DEF Progress, SerialFixed, CommandMode, Applied
<1>4. CASE ~ConfigLeft(config_seq_index')
  <2>1. init_step' = "CheckVersion" /\ apply_index = 4
    BY <1>1, <1>4 DEF init_advance_verify, NextConfigIndex, ConfigLeft, ConfigIndex
  <2>2. \A i \in ConfigIndex : i < apply_index + 1
    BY <2>1 DEF ConfigIndex
  <2>3. QED
    BY <1>2, <2>1, <2>2 DEF Progress, SerialFixed, CommandMode, Applied
<1>5. QED
  BY <1>3, <1>4

\* The core is done only behind the configuration sequence.
LEMMA DoneIsBehind == InitInv /\ PendingIs /\ pending = InitDone => init_step \in Behind
BY DEF InitInv, InitTypeOK, InitStep, PendingIs, InitDone, NoAction, InitFailed,
    DrainAndRead, ReadRegister, WriteRegister, VerifyRegister, Behind

LEMMA ProgressNext ==
  ASSUME RunInv, [RunNext]_initRunVars, ~tainted'
  PROVE  Progress'
<1> USE DEF Behind
<1>1. CASE BeginInit
  BY <1>1 DEF BeginInit, InitCalled, init_begin, GoTo, Progress
<1>2. CASE Answered
  BY <1>2, CommandProgress DEF Answered
<1>3. CASE CommandLost
  BY <1>3, CommandProgress DEF CommandLost, moduleVars
<1>4. CASE ReplyLost
  BY <1>4, CommandProgress DEF ReplyLost
<1>5. CASE ReplyLate
  BY <1>5, CommandProgress DEF ReplyLate
<1>6. CASE StaleAnswer \/ ModuleRestarts
  BY <1>6 DEF StaleAnswer, ModuleRestarts
<1>7. CASE LateReplyDrained \/ UNCHANGED initRunVars
  <2>1. UNCHANGED <<init_step, pending, apply_index, regs, tainted>>
    BY <1>7 DEF LateReplyDrained, initRunVars, moduleVars, vars, initVars
  <2>2. QED
    BY <2>1 DEF RunInv, Progress, SerialFixed, CommandMode, Applied
<1>8. CASE Verify
  BY <1>8, ProgressVerify DEF Verify, moduleVars
<1>9. CASE CompleteInit
  <2>1. init_step \in Behind /\ Progress /\ regs' = regs
    BY <1>9, DoneIsBehind DEF CompleteInit, InitReturnsOk, RunInv
  <2>2. init_step' = "Complete" /\ pending' = NoAction
    BY <1>9 DEF CompleteInit, InitReturnsOk, complete_init, GoTo
  <2>3. QED
    BY <2>1, <2>2 DEF Progress, SerialFixed, CommandMode, Applied, NoAction
<1>10. CASE FailInit
  <2>1. init_step' \in ScannerError
    BY <1>10 DEF FailInit, InitReturnsErr, RunInv, InitInv, PendingFitsStep
  <2>2. QED
    BY <2>1 DEF Progress, ScannerError
<1>11. QED
  BY <1>1, <1>2, <1>3, <1>4, <1>5, <1>6, <1>7, <1>8, <1>9, <1>10 DEF RunNext

----------------------------------------------------------------------------
(* The theorems *)

LEMMA RunInvInit == RunInit => RunInv
<1> SUFFICES ASSUME RunInit PROVE RunInv
  OBVIOUS
<1>1. InitInv /\ init_step = "Start" /\ pending = NoAction
  BY InitInvInit DEF RunInit, Init
<1>2. RunTypes
  BY InitAssumption DEF RunInit, RunTypes
<1>3. PendingIs /\ Progress
  BY <1>1 DEF PendingIs, Progress, ScannerError, Behind
<1>4. QED
  BY <1>1, <1>2, <1>3 DEF RunInv

LEMMA RunInvNext == RunInv /\ [RunNext]_initRunVars => RunInv'
<1> SUFFICES ASSUME RunInv, [RunNext]_initRunVars PROVE RunInv'
  OBVIOUS
<1>1. RunTypes' /\ InitInv' /\ PendingIs'
  BY TypesNext, CoreNext, PendingNext DEF RunInv
<1>2. ~tainted' => Progress'
  BY ProgressNext
<1>3. QED
  BY <1>1, <1>2 DEF RunInv

LEMMA RunInvAlways == RunSpec => []RunInv
BY RunInvInit, RunInvNext, PTL DEF RunSpec

LEMMA BehindIsConfigured == Progress /\ init_step \in Behind => Configured(regs)
BY DEF Progress, Behind, Configured

\* Whatever the registers held, whatever the targets are, and however many
\* commands and replies the link lost: an init() that returns Ok leaves the
\* module configured, stale replies and restarts excepted.
THEOREM OkIsConfigured == RunSpec => []OkMeansConfigured
<1>1. RunInv => OkMeansConfigured
  BY BehindIsConfigured DEF RunInv, OkMeansConfigured, InitSucceeded, Behind
<1>2. QED
  BY <1>1, RunInvAlways, PTL

\* init() never rewrites a register that is already right: a module that was
\* configured before goes through init() with no write but the one that sets
\* command mode, which is unconditional.
THEOREM OnlyNeededWrites == RunSpec => []WritesAreNeeded
<1>1. RunInv => WritesAreNeeded
  <2> SUFFICES ASSUME RunInv, pending.do = "Write", ~tainted PROVE WritesAreNeeded
    BY DEF WritesAreNeeded
  <2>1. /\ PendingIs /\ Progress /\ regs \in [Register -> 0 .. 255]
        /\ apply_index \in ConfigIndex /\ init_step \in InitStep
    BY DEF RunInv, RunTypes, InitInv, InitTypeOK
  <2>2. init_step \in {"FixSerialOutput", "SetCommandMode", "ApplyConfig", "Complete"}
    BY <2>1 DEF InitStep, PendingIs, NoAction, DrainAndRead, ReadRegister, InitDone, InitFailed
  <2>3. CASE init_step = "FixSerialOutput"
    <3>1. /\ pending.reg = "SerialOutput"
          /\ serial_output_needs_fix(regs["SerialOutput"])
          /\ pending.val = fix_serial_output(regs["SerialOutput"])
      BY <2>1, <2>3 DEF PendingIs, Progress
    <3>2. ~serial_output_needs_fix(pending.val)
      BY <2>1, <3>1, RegisterNames, FixedNeedsNoFix
    <3>3. QED
      BY <3>1, <3>2, ConfigRegsApart DEF WritesAreNeeded
  <2>4. CASE init_step = "SetCommandMode"
    BY <2>1, <2>4, ConfigRegsApart DEF WritesAreNeeded, PendingIs, WriteRegister
  <2>5. CASE init_step = "ApplyConfig"
    <3>1. /\ pending.reg = ConfigReg[apply_index]
          /\ regs[ConfigReg[apply_index]] # Target[apply_index]
      BY <2>1, <2>5
      DEF PendingIs, Progress, ReadRegister, WriteRegister, VerifyRegister
    <3>2. QED
      BY <2>1, <3>1, ConfigRegsApart DEF WritesAreNeeded
  <2>6. CASE init_step = "Complete"
    <3>1. /\ pending.reg = "RawMode"
          /\ regs["Version"] = VersionNeedsRaw /\ regs["RawMode"] # RawModeValue
      BY <2>1, <2>6 DEF PendingIs, Progress, WriteRegister, InitDone, NoAction
    <3>2. QED
      BY <3>1, ConfigRegsApart DEF WritesAreNeeded
  <2>7. QED
    BY <2>2, <2>3, <2>4, <2>5, <2>6
<1>2. QED
  BY <1>1, RunInvAlways, PTL

\* The save that changes the module's permanent memory comes behind the
\* configuration sequence, so no init that went wrong half way is ever saved.
THEOREM SavedIsComplete == RunSpec => OnlyCompleteIsSaved
<1>1. RunInv /\ [RunNext]_initRunVars
        => [nvm' # nvm /\ ~tainted => Configured(nvm')]_initRunVars
  <2> SUFFICES ASSUME RunInv, RunNext, nvm' # nvm, ~tainted PROVE Configured(nvm')
    OBVIOUS
  <2>1. CompleteInit
    BY DEF RunNext, BeginInit, Answered, CommandLost, ReplyLost, ReplyLate,
        LateReplyDrained, StaleAnswer, Verify, FailInit, ModuleRestarts, moduleVars
  <2>2. nvm' = regs /\ pending = InitDone
    BY <2>1 DEF CompleteInit, InitReturnsOk
  <2>3. Configured(regs)
    BY <2>2, DoneIsBehind, BehindIsConfigured DEF RunInv
  <2>4. QED
    BY <2>2, <2>3
<1>2. QED
  BY <1>1, RunInvAlways, PTL DEF RunSpec, OnlyCompleteIsSaved

=============================================================================
