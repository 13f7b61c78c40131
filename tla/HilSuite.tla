----------------------------- MODULE HilSuite -----------------------------
(***************************************************************************)
(* The on-device tests of both drivers (the hil_tests modules of sync.rs   *)
(* and async_.rs) and the programs that run them (hil_test_sync.rs,        *)
(* hil_test_async.rs), as one more client of the line of ScanLink.         *)
(*                                                                         *)
(* A test is a list of driver calls and a verdict.  Calls run one after    *)
(* the other; what one leaves on the line, in the ring or in the core is   *)
(* there for the next.  init is a few register accesses: ScannerInit has   *)
(* them all.                                                               *)
(***************************************************************************)
EXTENDS ScanLink

CONSTANTS
  InitCommands,   \* bound: register accesses of an init
  RapidTriggers,  \* bound: triggers of rapid_triggers, 5 in the code
  QrTries         \* bound: tries of the sync QR test, 50 in the code

ASSUME SuiteAssumption == {InitCommands, RapidTriggers, QrTries} \subseteq Nat \ {0}

VARIABLES
  suite,    \* calls left to make; empty for another client, too
  due,      \* the test to judge when the running call returns
  verdict,  \* of each test so far
  answers,  \* whether the commands of the last call got a reply that parsed
  result,   \* of the last read: a code, "failed" for None, "none" for a timeout
  unheard,  \* history: commands whose reply was missed, or was not one
  faulty    \* history: a read met a UART error

suiteVars == <<suite, due, verdict, answers, result, unheard, faulty>>

CoreTest ==
  {"init_detects_scanner", "ping_after_init", "trigger_and_stop", "read_scan_timeout",
   "state_transitions"}
ExtendedTest == {"cancel_then_rescan", "rapid_triggers", "read_idle_no_trigger"}
Test == CoreTest \cup ExtendedTest \cup {"qr"}

----------------------------------------------------------------------------
(* The tests: calls, and the test whose verdict is due when a call returns *)

Do(call) == [call |-> call, when |-> "always", judge |-> "none"]
DoWhen(when, call) == [call |-> call, when |-> when, judge |-> "none"]
Judge(call, test) == [call |-> call, when |-> "always", judge |-> test]
HaltUnless(tests) == [call |-> "gate", tests |-> tests]

Times(n, steps) == [i \in 1 .. n * Len(steps) |-> steps[((i - 1) % Len(steps)) + 1]]

test_init == <<Judge("init", "init_detects_scanner")>>
test_ping == <<Judge("access", "ping_after_init")>>
test_trigger_stop == <<Do("trigger"), Judge("stop", "trigger_and_stop")>>
test_read_scan_timeout ==
  <<Do("trigger"), Do("read"), DoWhen("timed out", "cancel"), Judge("stop", "read_scan_timeout")>>
test_state_transitions == <<Judge("init", "state_transitions")>>

test_cancel_then_rescan ==
  <<Do("trigger"), Do("read"), Do("cancel"), Do("stop"),
    Do("trigger"), Do("read"), Judge("stop", "cancel_then_rescan")>>
test_rapid_triggers ==
  Times(RapidTriggers, <<Do("trigger"), Do("stop")>>)
    \o <<Do("read"), Do("cancel"), Judge("stop", "rapid_triggers")>>
test_read_idle_no_trigger == <<Judge("read", "read_idle_no_trigger")>>

run_extended_hil_tests ==
  test_cancel_then_rescan \o test_rapid_triggers \o test_read_idle_no_trigger

run_hil_tests ==
  test_init \o <<HaltUnless({"init_detects_scanner"})>>
    \o test_ping \o test_trigger_stop \o test_read_scan_timeout \o test_state_transitions

\* The sync program tries again while nothing was read.
run_hil_test_with_qr ==
  <<Do("trigger"), Do("read")>>
    \o IF driver = "sync"
         THEN Times(QrTries - 1, <<DoWhen("unread", "trigger"), DoWhen("unread", "read")>>)
         ELSE <<>>

\* The async run_hil_tests runs the extended tests, too, without looking at
\* them; its program runs them again.
main ==
  run_hil_tests
    \o (IF driver = "async" THEN run_extended_hil_tests ELSE <<>>)
    \o <<HaltUnless(CoreTest)>>
    \o (IF driver = "async"
          THEN run_extended_hil_tests \o <<HaltUnless(ExtendedTest)>> ELSE <<>>)
    \o <<Do("access")>> \o run_hil_test_with_qr \o <<Judge("access", "qr")>>

\* The line is for the firmware's calls or for the suite's.
SuiteInit ==
  /\ Init
  /\ suite \in {<<>>, main}
  /\ due = "none"
  /\ verdict = [t \in Test |-> "none"]
  /\ answers = {}
  /\ result = "none"
  /\ unheard = 0
  /\ faulty = FALSE

----------------------------------------------------------------------------
(* The suite makes a call *)

init ==
  /\ state' = "Detecting"
  /\ Call([i \in 1 .. InitCommands |-> Sends("other")])
  /\ own' = FALSE
  /\ cut' = (cut \/ buffer # <<>>)
  /\ UNCHANGED buffer

Makes(call) ==
  \/ /\ \/ call = "init" /\ init
        \/ call = "access" /\ access_register
        \/ call = "stop" /\ stop_scan
     /\ answers' = {}
     /\ UNCHANGED <<calls, result>>
  \/ call = "trigger" /\ trigger_scan /\ answers' = {} /\ result' = "none" /\ UNCHANGED calls
  \/ call = "read" /\ StartRead("read_scan") /\ result' = "none" /\ UNCHANGED answers
  \/ call = "cancel" /\ cancel_scan /\ UNCHANGED <<answers, result>>

Wanted(step) ==
  CASE step.when = "always"    -> TRUE
    [] step.when = "unread"    -> result # "code"
    [] step.when = "timed out" -> result = "none" /\ driver = "async"

Ready == pc = "idle" /\ due = "none" /\ suite # <<>>

MakeCall ==
  /\ Ready
  /\ Head(suite).call # "gate"
  /\ suite' = Tail(suite)
  /\ IF Wanted(Head(suite))
       THEN Makes(Head(suite).call) /\ due' = Head(suite).judge
       ELSE UNCHANGED <<vars, due, answers, result>>
  /\ UNCHANGED <<verdict, unheard, faulty>>

Gate ==
  /\ Ready
  /\ Head(suite).call = "gate"
  /\ suite' = IF \A t \in Head(suite).tests : verdict[t] = "pass" THEN Tail(suite) ELSE <<>>
  /\ UNCHANGED <<vars, due, verdict, answers, result, unheard, faulty>>

----------------------------------------------------------------------------
(* A call runs as in ScanLink; the suite sees what it returns. *)

Missed == answers' = answers \cup {FALSE} /\ unheard' = unheard + 1

\* A command that is not written, or not answered in time, has no reply.
Commanding ==
  /\ \/ SendCommand /\ IF pc' = "reply" THEN UNCHANGED <<answers, unheard>> ELSE Missed
     \/ ReadReply /\ IF IsReply(SubSeq(ring, 1, RespLen))
                       THEN answers' = answers \cup {TRUE} /\ UNCHANGED unheard
                       ELSE Missed
     \/ ReplyTimeout /\ Missed
  /\ UNCHANGED <<suite, due, verdict, result, faulty>>

Reading ==
  /\ \/ /\ ReadByte
        /\ result' = CASE pc' # "idle" -> "none"
                       [] PushFails -> "failed"
                       [] OTHER -> "code"
        /\ UNCHANGED faulty
     \/ ReadEnds /\ result' = "none" /\ UNCHANGED faulty
     \/ ReadFails /\ result' = "failed" /\ faulty' = TRUE
  /\ UNCHANGED <<suite, due, verdict, answers, unheard>>

\* A timeout leaves Cancelled.  The async test asks whether its time was up, so
\* it takes a read that failed for one that read; the sync test asks for a code.
ReadOrTimedOut ==
  \/ result = "code"
  \/ result = "failed" /\ driver = "async"
  \/ state = "Cancelled"

\* Some of init's replies may be missed, which ones is for ScannerInit.
Outcomes(test) ==
  CASE test \in {"init_detects_scanner", "state_transitions"} -> answers
    [] test \in {"ping_after_init", "trigger_and_stop"} -> {answers = {TRUE}}
    [] test = "read_scan_timeout" -> {ReadOrTimedOut}
    [] test = "cancel_then_rescan" -> {TRUE}
    [] test = "rapid_triggers" -> {state \in {"Ready", "Cancelled"}}
    [] test = "read_idle_no_trigger" -> {result = "none"}
    [] test = "qr" -> {result = "code"}

JudgeTest ==
  /\ pc = "idle" /\ due \in Test
  /\ \E ok \in Outcomes(due) :
       /\ verdict' = [verdict EXCEPT ![due] = IF ok THEN "pass" ELSE "fail"]
       /\ state' = IF state # "Detecting" THEN state ELSE IF ok THEN "Ready" ELSE "InitFailed"
  /\ due' = "none"
  /\ UNCHANGED <<callVars, todo, pc, buffer, ring, moduleVars, histVars, suite, answers, result,
                 unheard, faulty>>

\* The program ends in a loop that waits for ever.
Halted ==
  /\ pc = "idle" /\ due = "none" /\ suite = <<>>
  /\ UNCHANGED <<vars, suiteVars>>

SuiteStep == MakeCall \/ Gate \/ Commanding \/ Reading \/ JudgeTest \/ Halted

\* Only a suite has verdicts: the firmware's line never has any.
Firmware == suite = <<>> /\ due = "none" /\ \A t \in Test : verdict[t] = "none"

SuiteNext ==
  \/ ModuleStep /\ UNCHANGED suiteVars
  \/ ~Firmware /\ SuiteStep
  \/ /\ Firmware
     /\ \/ CallStarts \/ CallProgress
        \/ StartRead("read_scan")
        \/ driver = "sync" /\ StartRead("try_read_scan")
        \/ ReadByte \/ ReadEnds \/ ReadFails
        \/ poll_uart \/ cancel_scan \/ reset_to_ready
     /\ UNCHANGED suiteVars

SuiteSpec == SuiteInit /\ [][SuiteNext]_<<vars, suiteVars>>

----------------------------------------------------------------------------
(* Properties *)

\* On a bench where no code is in view, every command is answered in time and
\* the UART works, no test fails because of what an earlier one left behind
\* (README.md:204, 218).
QuietBenchPasses ==
  unheard = 0 /\ codes = 0 /\ ~faulty => \A t \in Test \ {"qr"} : verdict[t] # "fail"

\* An ambient code is no failure of a timeout test (README.md:511), save one that
\* does not fit the scan buffer together with the replies that came too late: as
\* long as the link loses nothing, only that makes read_scan_timeout fail, and
\* only the sync one.
LateBytes == unheard * RespLen
Overfull == LateBytes > MaxScan \/ \E id \in 1 .. codes : FrameLen(id) + LateBytes > MaxScan
AmbientTolerated ==
  ~lost /\ ~faulty /\ verdict["read_scan_timeout"] = "fail" => driver = "sync" /\ Overfull

=============================================================================
