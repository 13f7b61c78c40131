---------------------------- MODULE ScanSession ----------------------------
(***************************************************************************)
(* What a scanner driver promises to the firmware above it: the lifecycle  *)
(* a host can observe through state() and status().                        *)
(*                                                                         *)
(* The Detecting and Configuring states of the driver are one phase here,  *)
(* and every Error(e) is one phase, because no caller tells them apart.    *)
(* ScannerCore implements this specification; the firmware modules are     *)
(* built on its actions.                                                   *)
(***************************************************************************)

VARIABLES
  phase,      \* ScannerState, with the init states and the errors merged
  connected   \* ScannerStatus.connected

vars == <<phase, connected>>

Phases ==
  {"Uninitialized", "Initialising", "Ready", "Scanning", "ScanComplete", "Error"}

Idle == phase # "Initialising"

Init ==
  /\ phase = "Uninitialized"
  /\ connected = FALSE

----------------------------------------------------------------------------

\* init() has been called: legal from every phase, and it forgets nothing
\* about an earlier success.
StartInit ==
  /\ Idle
  /\ phase' = "Initialising"
  /\ UNCHANGED connected

InitOk ==
  /\ phase = "Initialising"
  /\ phase' = "Ready"
  /\ connected' = TRUE

InitErr ==
  /\ phase = "Initialising"
  /\ phase' = "Error"
  /\ UNCHANGED connected

\* trigger_scan() of a scanner that was initialised once.
Trigger ==
  /\ Idle
  /\ connected
  /\ phase' = "Scanning"
  /\ UNCHANGED connected

\* A line end completed a payload.  Unsolicited bytes complete one too: the
\* driver does not ask what phase it is in when a byte arrives.
Complete ==
  /\ Idle
  /\ connected
  /\ phase' = "ScanComplete"
  /\ UNCHANGED connected

\* A cancelled or timed out read, a UART error, a full buffer.
Fail ==
  /\ Idle
  /\ phase' = "Error"
  /\ UNCHANGED connected

\* reset_to_ready(): unconditional.
Reset ==
  /\ Idle
  /\ phase' = "Ready"
  /\ UNCHANGED connected

Next ==
  \/ StartInit
  \/ InitOk
  \/ InitErr
  \/ Trigger
  \/ Complete
  \/ Fail
  \/ Reset

Spec == Init /\ [][Next]_vars

=============================================================================
