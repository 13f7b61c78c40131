----------------------------- MODULE BaudLadder -----------------------------
(***************************************************************************)
(* The baud rates of the host UART and of the module, and the four         *)
(* programs that bring them together: init_multi_baud (async_.rs), its     *)
(* sibling init_scanner_multi_baud, which owns the UART (baud.rs), the     *)
(* baud dance of the firmware's FactoryReset command (main.rs) and the     *)
(* bench program baud_probe.rs.                                            *)
(*                                                                         *)
(* A whole init() or command is one step here (ScannerInit has its         *)
(* insides): it is heard when both sides are at one rate and the line      *)
(* loses nothing.                                                          *)
(***************************************************************************)
EXTENDS Integers, Sequences, SequencesExt

CONSTANTS ModuleRates  \* rates the module may be found at

Operating == 115200
Factory == 9600

\* The rungs under the operating rate.
Ladder == <<9600, 57600>>
BenchRates == <<9600, 19200, 38400, 57600, 115200>>

ASSUME BaudAssumption == {Factory, Operating} \subseteq ModuleRates /\ ModuleRates \subseteq ToSet(BenchRates)

Laddered == {"ladder", "owned", "fixed"}
Programs == Laddered \cup {"dance", "bench"}

VARIABLES
  host, module,  \* rates
  configured,    \* the module has the settings of init()
  pc,
  prog,          \* the program that runs, or ran last
  rung,          \* index of the rate probed, 0 for the rate found
  result,
  from,          \* history: the rates when the program started
  mishaps        \* history: what went wrong since then: replies lost, rates refused

vars == <<host, module, configured, pc, prog, rung, result, from, mishaps>>
rateVars == <<host, module, configured>>

Init ==
  /\ host = Operating
  /\ module \in ModuleRates
  /\ configured \in BOOLEAN
  /\ pc = "idle"
  /\ prog = "ladder"
  /\ rung = 0
  /\ result = "None"
  /\ from = [host |-> host, module |-> module]
  /\ mishaps = {}

Goto(l) == pc' = l /\ UNCHANGED <<prog, result, from>>
Return(r) == pc' = "idle" /\ result' = r /\ UNCHANGED <<prog, rung, from>>

----------------------------------------------------------------------------
(* The line and the host's UART *)

ReplyLost == 0  \* among the mishaps, which are rates otherwise

Heard == host = module /\ UNCHANGED mishaps
Lost == host = module /\ mishaps' = mishaps \cup {ReplyLost}
Unheard == Lost \/ (host # module /\ UNCHANGED mishaps)

\* BaudSwitch::set_baud, true and false. NoBaudSwitch always says false.
Switched(rate) == prog # "fixed" /\ host' = rate /\ UNCHANGED <<module, configured, mishaps>>
Refused(rate) ==
  /\ mishaps' = mishaps \cup {rate}
  /\ UNCHANGED rateVars

\* ScannerDriver::init: a module that answered may still lose a later reply.
InitEnds(r) ==
  \/ /\ r = "Ok"
     /\ Heard
     /\ configured' = TRUE
     /\ UNCHANGED <<host, module>>
  \/ /\ r = "NotDetected"
     /\ Unheard
     /\ UNCHANGED rateVars
  \/ /\ r = "ConfigFailed"
     /\ Lost
     /\ UNCHANGED rateVars

\* Neither command's reply is relied on.
set_baud_115200 ==
  /\ \/ Heard /\ module' = Operating
     \/ Unheard /\ UNCHANGED module
  /\ UNCHANGED <<host, configured>>

\* A reset may restore the factory rate, its comment says.
factory_reset ==
  /\ \/ Heard /\ module' \in {Factory, module} /\ configured' = FALSE
     \/ Unheard /\ UNCHANGED <<module, configured>>
  /\ UNCHANGED host

----------------------------------------------------------------------------
(* The callers *)

FirstStep(p) ==
  CASE p = "dance" -> "reset"
    [] p = "bench" -> "bench_try"
    [] OTHER -> "init"

Call(p) ==
  /\ pc = "idle"
  /\ prog' = p
  /\ pc' = FirstStep(p)
  /\ rung' = IF p = "bench" THEN 1 ELSE 0
  /\ result' = "None"
  /\ from' = [host |-> host, module |-> module]
  /\ mishaps' = {}
  /\ UNCHANGED rateVars

\* The consumer resets the module and does not look for it afterwards.
ConsumerResets ==
  /\ pc = "idle"
  /\ factory_reset
  /\ result' = "None"
  /\ UNCHANGED <<pc, prog, rung, from>>

\* Another firmware is started on the board: its UART is set up anew.
Restart ==
  /\ pc \in {"idle", "halted"}
  /\ host' = Operating
  /\ pc' = "idle"
  /\ result' = "None"
  /\ UNCHANGED mishaps
  /\ UNCHANGED <<module, configured, prog, rung, from>>

----------------------------------------------------------------------------
(* init_multi_baud and init_scanner_multi_baud *)

InitSucceeds ==
  /\ InitEnds("Ok")
  /\ \/ rung = 0 /\ Return("Ok")
     \/ rung # 0 /\ Goto("move") /\ UNCHANGED rung

InitNotDetected_FactoryOnly ==
  /\ InitEnds("NotDetected")
  /\ \/ rung = 0 /\ Goto("down") /\ rung' = 1
     \/ rung # 0 /\ pc' = "restore" /\ result' = "NotDetected"
        /\ UNCHANGED <<prog, rung, from>>
InitNotDetected ==
  /\ InitEnds("NotDetected")
  /\ \/ rung < Len(Ladder) /\ Goto("down") /\ rung' = rung + 1
     \/ rung = Len(Ladder) /\ pc' = "restore" /\ result' = "NotDetected"
        /\ UNCHANGED <<prog, rung, from>>

\* At a rung, init_multi_baud restores the host's rate, its sibling does not.
InitFaulty ==
  /\ InitEnds("ConfigFailed")
  /\ \/ (rung = 0 \/ prog = "owned") /\ Return("ConfigFailed")
     \/ /\ rung # 0 /\ prog # "owned"
        /\ pc' = "restore" /\ result' = "ConfigFailed"
        /\ UNCHANGED <<prog, rung, from>>

LadderInit == pc = "init" /\ (InitSucceeds \/ InitNotDetected \/ InitFaulty)

Down ==
  /\ pc = "down"
  /\ UNCHANGED rung
  /\ \/ Switched(Ladder[rung]) /\ Goto("init")
     \/ Refused(Ladder[rung]) /\ pc' = "restore" /\ result' = "NotDetected" /\ UNCHANGED <<prog, from>>

Restore_Nothing == pc = "restore" /\ UNCHANGED <<rateVars, mishaps>> /\ Return(result)
Restore == pc = "restore" /\ (Switched(Operating) \/ Refused(Operating)) /\ Return(result)

Move == pc = "move" /\ set_baud_115200 /\ Goto("up") /\ UNCHANGED rung

Up_Unverified ==
  /\ pc = "up"
  /\ \/ Switched(Operating) /\ Return("Ok")
     \/ Refused(Operating) /\ Return("UartError")
Up ==
  /\ pc = "up"
  /\ \/ Switched(Operating) /\ Goto("verify") /\ UNCHANGED rung
     \/ Refused(Operating) /\ Return("UartError")

Verify == pc = "verify" /\ \E r \in {"Ok", "NotDetected", "ConfigFailed"} : InitEnds(r) /\ Return(r)

LadderStep == LadderInit \/ Down \/ Restore \/ Move \/ Up \/ Verify

----------------------------------------------------------------------------
(* The dance of FactoryReset: it scales the divisor it finds. *)

Scaled(rate) ==
  host' = rate /\ UNCHANGED <<module, configured, mishaps, rung>>

DanceReset == pc = "reset" /\ factory_reset /\ Goto("dance_down") /\ UNCHANGED rung
DanceDown == pc = "dance_down" /\ Scaled(host \div 12) /\ Goto("dance_set")
DanceSet == pc = "dance_set" /\ set_baud_115200 /\ Goto("dance_up") /\ UNCHANGED rung
DanceUp == pc = "dance_up" /\ Scaled(host * 12) /\ Goto("verify")

DanceStep == DanceReset \/ DanceDown \/ DanceSet \/ DanceUp

----------------------------------------------------------------------------
(* baud_probe.rs: it blinks forever at its end. *)

Halt(r) == pc' = "halted" /\ result' = r /\ UNCHANGED <<prog, rung, from>>

NextRate ==
  IF rung < Len(BenchRates)
    THEN Goto("bench_try") /\ rung' = rung + 1
    ELSE Halt("NotDetected")

BenchTry ==
  /\ pc = "bench_try"
  /\ \/ Switched(BenchRates[rung]) /\ Goto("bench_ask") /\ UNCHANGED rung
     \/ Refused(BenchRates[rung]) /\ NextRate

\* probe_current_baud
BenchAsk ==
  /\ pc = "bench_ask"
  /\ UNCHANGED rateVars
  /\ \/ /\ Heard
        /\ \/ host = Operating /\ Halt("Ok")
           \/ host # Operating /\ Goto("bench_move") /\ UNCHANGED rung
     \/ Unheard /\ NextRate

BenchMove == pc = "bench_move" /\ set_baud_115200 /\ Goto("bench_up") /\ UNCHANGED rung

BenchUp ==
  /\ pc = "bench_up"
  /\ \/ Switched(Operating) /\ Goto("bench_verify") /\ UNCHANGED rung
     \/ Refused(Operating) /\ Halt("UartError")

BenchVerify ==
  /\ pc = "bench_verify"
  /\ UNCHANGED rateVars
  /\ \/ Heard /\ Halt("Ok")
     \/ Unheard /\ Halt("NotDetected")

BenchStep == BenchTry \/ BenchAsk \/ BenchMove \/ BenchUp \/ BenchVerify

Next ==
  \/ \E p \in Programs : Call(p)
  \/ ConsumerResets
  \/ Restart
  \/ LadderStep
  \/ DanceStep
  \/ BenchStep

Spec == Init /\ [][Next]_vars

----------------------------------------------------------------------------
(* Properties *)

Ended == pc \in {"idle", "halted"} /\ result # "None"

\* A ladder that ends with an error leaves the host at the operating rate, where
\* the next call starts, unless the host refused that rate or was found at
\* another and never left it. The sibling that owns the UART does not, after a
\* fault on a rung (baud.rs:84).
ErrorRestoresHost ==
  Ended /\ prog \in Laddered /\ result # "Ok" =>
    \/ host = Operating
    \/ Operating \in mishaps
    \/ rung = 0 /\ host = from.host
    \/ prog = "owned" /\ result = "ConfigFailed"

\* When nothing is lost or refused, one call from the operating rate reaches the
\* module; from any other rate the call may miss it, but ends at the operating
\* rate. So whatever a failed call left behind, two clean calls are enough.
\* The dance needs a module at the factory or the operating rate, and also
\* makes up for an earlier dance whose baud command was lost.
Reached == result = "Ok" /\ host = module
CleanCallReaches ==
  Ended /\ mishaps = {} =>
    \/ Reached
    \/ prog \in {"ladder", "owned"} /\ host = Operating
         /\ (from.host # Operating \/ from.module \notin ToSet(Ladder) \cup {Operating})
    \/ prog = "dance" /\ (from.host # Operating \/ from.module \notin {Factory, Operating})

\* Ok is never said of a module that cannot be heard or was not set up, however
\* many replies were lost on the way.
OkMeansReachable ==
  [][Ended' /\ ~Ended /\ result' = "Ok" =>
       host' = module' /\ (prog # "bench" => configured')]_vars

=============================================================================
