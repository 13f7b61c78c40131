------------------------- MODULE SyncFirmwareProofs -------------------------
(***************************************************************************)
(* Theorems about the sync firmware's loop, for any number of lines and    *)
(* any clock.                                                              *)
(***************************************************************************)
EXTENDS SyncFirmware, SequenceTheorems, TLAPS

----------------------------------------------------------------------------
(* Modes *)

\* Before the first init() has returned, nothing has been shown yet.
BootShowsNothing == pc \in {"boot", "boot_init"} => ~in_settings /\ ~on_scan_result

ModeInv ==
  /\ auto_scan \in BOOLEAN
  /\ scanner_connected \in BOOLEAN
  /\ BootShowsNothing
  /\ OneMode
  /\ ContinuousHasNoTimer

LEMMA ModeInit == Init => ModeInv
BY DEF Init, ModeInv, BootShowsNothing, OneMode, ContinuousHasNoTimer

LEMMA ModeHost ==
  ASSUME ModeInv,
         HostQuery \/ HostDisplay \/ HostTrigger \/ HostData \/ HostFactoryReset
  PROVE  ModeInv'
<1>1. FrameTaken /\ pc' \in {"trigger", "usb_init"} /\ scanner_connected' = scanner_connected
  BY DEF HostQuery, HostDisplay, HostTrigger, HostData, HostFactoryReset, Handled
<1>2. QED
  BY <1>1 DEF FrameTaken, LeaveContinuous, ModeInv, BootShowsNothing, OneMode,
     ContinuousHasNoTimer

LEMMA ModeTouch ==
  ASSUME ModeInv,
         NoTouch \/ TouchDismisses \/ TouchBack \/ TouchToggles \/ TouchEnters
  PROVE  ModeInv'
<1>1. /\ pc' = "usb" /\ scanner_connected' = scanner_connected
      /\ phase' = phase /\ continuous_active' = continuous_active
  BY DEF NoTouch, TouchDismisses, TouchBack, TouchToggles, TouchEnters, PassEnds,
     driverVars, healVars
<1>2. ContinuousHasNoTimer' /\ BootShowsNothing'
  BY <1>1 DEF ModeInv, ContinuousHasNoTimer, BootShowsNothing
<1>3. auto_scan' \in BOOLEAN /\ OneMode'
  <2>1. CASE NoTouch \/ TouchToggles
    BY <2>1 DEF NoTouch, TouchToggles, uiVars, ModeInv, OneMode
  <2>2. CASE TouchDismisses
    BY <2>2 DEF TouchDismisses, ModeInv, OneMode
  <2>3. CASE TouchBack
    BY <2>3 DEF TouchBack, ModeInv, OneMode
  <2>4. CASE TouchEnters
    BY <2>4 DEF TouchEnters, SettingsEntered, ModeInv, OneMode
  <2>5. QED
    BY <2>1, <2>2, <2>3, <2>4
<1>4. QED
  BY <1>1, <1>2, <1>3 DEF ModeInv

LEMMA ModePoll ==
  ASSUME ModeInv,
         PollDiscards \/ PollSkipped \/ PollNaks \/ PollScan \/ PollOverflows
  PROVE  ModeInv'
<1>1. /\ pc' = "touch" /\ scanner_connected' = scanner_connected
      /\ in_settings' = in_settings /\ continuous_active' = continuous_active
      /\ phase' \in {phase, "Ready", "ScanComplete", "Error"}
      /\ \/ UNCHANGED <<auto_scan, on_scan_result>>
         \/ ~in_settings /\ on_scan_result' = TRUE /\ auto_scan' = FALSE
  BY DEF PollDiscards, PollSkipped, PollNaks, PollScan, PollOverflows, Reading, Polled
<1>2. BootShowsNothing' /\ ContinuousHasNoTimer'
  BY <1>1 DEF ModeInv, ContinuousHasNoTimer, BootShowsNothing
<1>3. auto_scan' \in BOOLEAN /\ OneMode'
  <2>1. CASE UNCHANGED <<auto_scan, on_scan_result>>
    BY <1>1, <2>1 DEF ModeInv, OneMode
  <2>2. CASE ~in_settings /\ on_scan_result' = TRUE /\ auto_scan' = FALSE
    BY <1>1, <2>2 DEF OneMode
  <2>3. QED
    BY <1>1, <2>1, <2>2
<1>4. QED
  BY <1>1, <1>2, <1>3 DEF ModeInv

LEMMA ModeInits ==
  ASSUME ModeInv,
         BootInit \/ FactoryResetInit \/ HealInit
  PROVE  ModeInv'
<1>1. phase' \in {"Ready", "Error"}
  BY DEF BootInit, FactoryResetInit, HealInit, InitReturns, Driver!InitOk, Driver!InitErr
<1>2. CASE BootInit
  BY <1>1, <1>2
  DEF BootInit, FirstInitOk, healVars, ModeInv, OneMode, ContinuousHasNoTimer,
      BootShowsNothing
<1>3. CASE FactoryResetInit \/ HealInit
  <2>1. pc' \in {"trigger", "poll"} /\ UNCHANGED <<scanner_connected, uiVars>>
    BY <1>3 DEF FactoryResetInit, HealInit
  <2>2. QED
    BY <1>1, <2>1 DEF uiVars, ModeInv, OneMode, ContinuousHasNoTimer, BootShowsNothing
<1>4. QED
  BY <1>2, <1>3

LEMMA ModeNext == ModeInv /\ [Next]_vars => ModeInv'
<1> SUFFICES ASSUME ModeInv, [Next]_vars PROVE ModeInv'
  OBVIOUS
<1>1. CASE HostQuery \/ HostDisplay \/ HostTrigger \/ HostData \/ HostFactoryReset
  BY <1>1, ModeHost
<1>2. CASE NoTouch \/ TouchDismisses \/ TouchBack \/ TouchToggles \/ TouchEnters
  BY <1>2, ModeTouch
<1>3. CASE PollDiscards \/ PollSkipped \/ PollNaks \/ PollScan \/ PollOverflows
  BY <1>3, ModePoll
<1>4. CASE BootInit \/ FactoryResetInit \/ HealInit
  BY <1>4, ModeInits
<1>5. CASE AutoTrigger
  BY <1>5 DEF AutoTrigger, MayTrigger, uiVars, healVars, ModeInv, OneMode,
     ContinuousHasNoTimer, BootShowsNothing
<1>6. CASE WatchdogFires \/ Heal \/ Boot
  <2>1. /\ phase' \in {"Ready", "Initialising"}
        /\ pc' \in {"boot_init", "heal", "heal_init"}
        /\ pc' = "boot_init" => pc = "boot"
        /\ UNCHANGED <<scanner_connected, uiVars, continuous_active>>
    BY <1>6 DEF WatchdogFires, WatchdogResets, reset_to_ready, Driver!Reset, Heal, Boot,
       Driver!StartInit, healVars
  <2>2. QED
    BY <2>1 DEF uiVars, ModeInv, OneMode, ContinuousHasNoTimer, BootShowsNothing
<1>7. CASE NoFrame \/ NoTrigger \/ NoWatchdog \/ NoHeal \/ LineArrives \/ Tick
           \/ UNCHANGED vars
  <2>1. /\ UNCHANGED <<scanner_connected, uiVars, healVars, phase>>
        /\ pc' \in {pc, "trigger", "watchdog", "heal", "poll"}
    BY <1>7 DEF NoFrame, NoTrigger, NoWatchdog, NoHeal, LineArrives, Tick, vars, driverVars
  <2>2. QED
    BY <2>1 DEF uiVars, healVars, ModeInv, OneMode, ContinuousHasNoTimer, BootShowsNothing
<1>8. QED
  BY <1>1, <1>2, <1>3, <1>4, <1>5, <1>6, <1>7 DEF Next, Loop

\* A result on the screen, the settings screen and scanning on its own exclude
\* each other, and no scan runs while the watchdog is off.
THEOREM ModesExclude == Spec => [](OneMode /\ ContinuousHasNoTimer)
<1>1. ModeInv => OneMode /\ ContinuousHasNoTimer
  BY DEF ModeInv
<1>2. QED
  BY ModeInit, ModeNext, <1>1, PTL DEF Spec

----------------------------------------------------------------------------
(* What the host is given *)

\* The lines in the ring are newer than every scan read so far, in order.
WireIsNewer ==
  /\ wire \in Seq(Line)
  /\ arrived \in 0 .. MaxLines
  /\ seen \in 0 .. arrived
  /\ delivered \in 0 .. seen
  /\ \A i \in 1 .. Len(wire) : number(i) > seen /\ number(i) <= arrived
  /\ \A i, j \in 1 .. Len(wire) : i < j => number(i) < number(j)

DataInv == WireIsNewer /\ HostGetsNewestOnce

LEMMA DataInit == Init => DataInv
<1> SUFFICES ASSUME Init PROVE DataInv
  OBVIOUS
<1>1. /\ wire \in Seq(Line) /\ Len(wire) = 0 /\ MaxLines \in Nat
  BY EmptySeq, SyncAssumption DEF Init, SyncAssumption
<1>2. QED
  BY <1>1 DEF Init, DataInv, WireIsNewer, HostGetsNewestOnce

\* What is left of the ring after n lines have gone.
LEMMA WireAfterFacts ==
  ASSUME wire \in Seq(Line), NEW n \in 0 .. Len(wire)
  PROVE  /\ WireAfter(n) \in Seq(Line)
         /\ Len(WireAfter(n)) = Len(wire) - n
         /\ \A i \in 1 .. Len(wire) - n : WireAfter(n)[i] = wire[n + i]
<1>1. /\ Len(wire) \in Nat
      /\ \A i \in n + 1 .. Len(wire) : wire[i] \in Line
  OBVIOUS
<1>2. QED
  BY <1>1, SubSeqProperties DEF WireAfter

\* A line of which a part is gone keeps its number.
LEMMA LeftAfterFacts ==
  ASSUME wire \in Seq(Line), NEW n \in 0 .. Len(wire), NEW w \in LeftAfter(n)
  PROVE  /\ w \in Seq(Line)
         /\ Len(w) = Len(wire) - n
         /\ \A i \in 1 .. Len(wire) - n : w[i][2] = number(n + i)
<1> DEFINE s == WireAfter(n)
<1>1. /\ s \in Seq(Line) /\ Len(s) = Len(wire) - n /\ Len(wire) \in Nat
      /\ \A i \in 1 .. Len(wire) - n : s[i] = wire[n + i]
  BY WireAfterFacts
<1>2. CASE w = s
  BY <1>1, <1>2 DEF number
<1>3. CASE n < Len(wire) /\ w = [s EXCEPT ![1] = <<"code", number(n + 1)>>]
  <2>1. wire[n + 1] \in Line /\ 1 \in 1 .. Len(s)
    BY <1>1, <1>3, ElementOfSeq
  <2>2. <<"code", number(n + 1)>> \in Line
    BY <2>1 DEF Line, number
  <2> HIDE DEF s
  <2>3. /\ w \in Seq(Line) /\ Len(w) = Len(s)
        /\ \A i \in 1 .. Len(s) : w[i] = IF i = 1 THEN <<"code", number(n + 1)>> ELSE s[i]
    BY <1>1, <1>3, <2>1, <2>2, ExceptSeq
  <2>4. QED
    BY <1>1, <2>3 DEF number
<1>4. QED
  BY <1>2, <1>3 DEF LeftAfter

EmptyWire == wire' = <<>>
ShorterWire == \E n \in 0 .. Len(wire) : wire' \in LeftAfter(n)

LEMMA WireShrinks ==
  ASSUME WireIsNewer, EmptyWire \/ ShorterWire, UNCHANGED <<arrived, seen>>,
         delivered' \in 0 .. seen'
  PROVE  WireIsNewer'
<1>1. CASE EmptyWire
  <2>1. wire' \in Seq(Line) /\ Len(wire') = 0
    BY <1>1, EmptySeq DEF EmptyWire
  <2>2. QED
    BY <2>1 DEF WireIsNewer
<1>2. CASE ShorterWire
  <2>1. PICK n \in 0 .. Len(wire) : wire' \in LeftAfter(n)
    BY <1>2 DEF ShorterWire
  <2>2. /\ wire' \in Seq(Line) /\ Len(wire') = Len(wire) - n
        /\ \A i \in 1 .. Len(wire) - n : wire'[i][2] = number(n + i)
    BY <2>1, LeftAfterFacts DEF WireIsNewer
  <2>3. wire' \in Seq(Line) /\ Len(wire') = Len(wire) - n /\ Len(wire) \in Nat
    BY <2>2 DEF WireIsNewer
  <2>4. ASSUME NEW i \in 1 .. Len(wire')
        PROVE  n + i \in 1 .. Len(wire) /\ number(i)' = number(n + i)
    BY <2>1, <2>2, <2>3 DEF number
  <2>5. \A i \in 1 .. Len(wire') : number(i)' > seen' /\ number(i)' <= arrived'
    BY <2>4 DEF WireIsNewer
  <2>6. ASSUME NEW i \in 1 .. Len(wire'), NEW j \in 1 .. Len(wire'), i < j
        PROVE  number(i)' < number(j)'
    <3>1. n + i < n + j /\ n + i \in 1 .. Len(wire) /\ n + j \in 1 .. Len(wire)
      BY <2>3, <2>4, <2>6
    <3>2. QED
      BY <2>4, <3>1 DEF WireIsNewer
  <2>7. QED
    BY <2>3, <2>5, <2>6 DEF WireIsNewer
<1>3. QED
  BY <1>1, <1>2

LEMMA DataArrives == ASSUME DataInv, LineArrives PROVE DataInv'
<1>1. PICK k \in {"code", "nak", "long"} : wire' = Append(wire, <<k, arrived'>>)
  BY DEF LineArrives
<1>2. /\ arrived' = arrived + 1 /\ arrived' \in 1 .. MaxLines
      /\ UNCHANGED <<last_scan_data, seen, delivered>>
      /\ wire \in Seq(Line) /\ Len(wire) \in Nat /\ seen \in Nat
  BY SyncAssumption DEF LineArrives, DataInv, WireIsNewer, dataVars, SyncAssumption
<1>3. <<k, arrived'>> \in Line
  BY <1>2 DEF Line
<1>4. /\ wire' \in Seq(Line) /\ Len(wire') = Len(wire) + 1
      /\ wire'[Len(wire) + 1] = <<k, arrived'>>
      /\ \A i \in 1 .. Len(wire) : wire'[i] = wire[i]
  BY <1>1, <1>2, <1>3
<1>5. /\ \A i \in 1 .. Len(wire') :
           number(i)' = IF i <= Len(wire) THEN number(i) ELSE arrived'
      /\ arrived \in Nat /\ seen <= arrived /\ arrived < arrived'
  BY <1>2, <1>4 DEF number, DataInv, WireIsNewer
<1>6. \A i \in 1 .. Len(wire) : number(i) \in Nat
  BY <1>2, ElementOfSeq DEF number, Line
<1>7. \A i \in 1 .. Len(wire') : number(i)' > seen /\ number(i)' <= arrived'
  BY <1>2, <1>4, <1>5, <1>6 DEF DataInv, WireIsNewer
<1>8. \A i, j \in 1 .. Len(wire') : i < j => number(i)' < number(j)'
  BY <1>2, <1>4, <1>5, <1>6 DEF DataInv, WireIsNewer
<1>9. WireIsNewer'
  BY <1>2, <1>4, <1>5, <1>7, <1>8 DEF DataInv, WireIsNewer
<1>10. QED
  BY <1>2, <1>9 DEF DataInv, HostGetsNewestOnce

\* The lines read are older than those left, so what is stored becomes the
\* newest scan, and one that the host does not have.
LEMMA DataScanned == ASSUME DataInv, PollScan PROVE DataInv'
<1>1. PICK n \in 1 .. Len(wire) : /\ wire' = WireAfter(n)
                                  /\ last_scan_data' = number(n)
                                  /\ seen' = number(n)
  BY DEF PollScan
<1>2. /\ UNCHANGED <<arrived, delivered>> /\ wire \in Seq(Line) /\ Len(wire) \in Nat
      /\ delivered <= seen /\ seen \in Nat /\ delivered \in Nat /\ arrived \in 0 .. MaxLines
  BY SyncAssumption
  DEF PollScan, Reading, Polled, DataInv, WireIsNewer, SyncAssumption
<1>3. /\ number(n) \in Nat /\ number(n) > seen /\ number(n) <= arrived
  BY <1>2, ElementOfSeq DEF DataInv, WireIsNewer, number, Line
<1>4. /\ wire' \in Seq(Line) /\ Len(wire') = Len(wire) - n
      /\ \A i \in 1 .. Len(wire') :
           n + i \in 1 .. Len(wire) /\ number(i)' = number(n + i)
  <2>1. /\ WireAfter(n) \in Seq(Line) /\ Len(WireAfter(n)) = Len(wire) - n
        /\ \A i \in 1 .. Len(wire) - n : WireAfter(n)[i] = wire[n + i]
    <3>1. n \in 0 .. Len(wire)
      BY <1>2
    <3>2. QED
      BY <1>2, <3>1, WireAfterFacts
  <2>2. wire' \in Seq(Line) /\ Len(wire') = Len(wire) - n
    BY <1>1, <2>1
  <2>3. ASSUME NEW i \in 1 .. Len(wire')
        PROVE  n + i \in 1 .. Len(wire) /\ number(i)' = number(n + i)
    BY <1>1, <1>2, <2>1, <2>2 DEF number
  <2>4. QED
    BY <2>2, <2>3
<1>5. ASSUME NEW i \in 1 .. Len(wire')
      PROVE  number(i)' > number(n) /\ number(i)' <= arrived
  <2>1. n < n + i /\ n + i \in 1 .. Len(wire)
    BY <1>2, <1>4
  <2>2. number(n) < number(n + i) /\ number(n + i) <= arrived
    BY <2>1 DEF DataInv, WireIsNewer
  <2>3. wire[n + i] \in Line
    BY <1>2, <2>1, ElementOfSeq
  <2>4. number(n + i) \in Nat
    BY <2>3 DEF number, Line
  <2>5. QED
    BY <1>3, <1>4, <2>2, <2>4
<1>6. ASSUME NEW i \in 1 .. Len(wire'), NEW j \in 1 .. Len(wire'), i < j
      PROVE  number(i)' < number(j)'
  <2>1. n + i < n + j /\ n + i \in 1 .. Len(wire) /\ n + j \in 1 .. Len(wire)
    BY <1>2, <1>4, <1>6
  <2>2. QED
    BY <1>4, <2>1 DEF DataInv, WireIsNewer
<1>7. WireIsNewer'
  BY <1>1, <1>2, <1>3, <1>4, <1>5, <1>6 DEF WireIsNewer
<1>8. HostGetsNewestOnce'
  BY <1>1, <1>2, <1>3 DEF HostGetsNewestOnce
<1>9. QED
  BY <1>7, <1>8 DEF DataInv

LEMMA DataTaken == ASSUME DataInv, HostData PROVE DataInv'
<1>1. /\ UNCHANGED <<arrived, seen>>
      /\ last_scan_data' = 0
      /\ delivered' = IF last_scan_data = 0 THEN delivered ELSE last_scan_data
  BY DEF HostData, TakeScanData, QuietFrame
<1>2. delivered' = seen
  BY <1>1 DEF DataInv, HostGetsNewestOnce, WireIsNewer
<1>3. WireIsNewer'
  <2>1. wire' = wire \/ EmptyWire \/ ShorterWire
    BY DEF HostData, QuietFrame, CommandSent, EmptyWire, ShorterWire
  <2>2. seen \in Nat
    BY SyncAssumption DEF DataInv, WireIsNewer, SyncAssumption
  <2>3. delivered' \in 0 .. seen'
    BY <1>1, <1>2, <2>2
  <2>4. CASE wire' = wire
    BY <1>1, <2>3, <2>4 DEF DataInv, WireIsNewer, number
  <2>5. QED
    BY <1>1, <2>1, <2>3, <2>4, WireShrinks DEF DataInv
<1>4. QED
  BY <1>1, <1>2, <1>3 DEF DataInv, HostGetsNewestOnce

LEMMA DataKept ==
  ASSUME DataInv, wire' = wire \/ EmptyWire \/ ShorterWire,
         UNCHANGED <<arrived, seen, delivered, last_scan_data>>
  PROVE  DataInv'
<1>1. WireIsNewer'
  <2>1. CASE wire' = wire
    BY <2>1 DEF DataInv, WireIsNewer, number
  <2>2. QED
    <3>1. delivered' \in 0 .. seen'
      BY DEF DataInv, WireIsNewer
    <3>2. QED
      BY <2>1, <3>1, WireShrinks DEF DataInv
<1>2. QED
  BY <1>1 DEF DataInv, HostGetsNewestOnce

LEMMA OverflowShortens == ASSUME wire \in Seq(Line), PollOverflows PROVE ShorterWire
<1>1. PICK n \in 1 .. Len(wire) : \E k \in n - 1 .. Len(wire) : wire' \in LeftAfter(k)
  BY DEF PollOverflows
<1>2. PICK k \in n - 1 .. Len(wire) : wire' \in LeftAfter(k)
  BY <1>1
<1>3. k \in 0 .. Len(wire)
  <2>1. Len(wire) \in Nat
    OBVIOUS
  <2>2. QED
    BY <2>1
<1>4. QED
  BY <1>2, <1>3 DEF ShorterWire

LEMMA ScanShortens == ASSUME wire \in Seq(Line), PollScan PROVE ShorterWire
<1>1. PICK n \in 1 .. Len(wire) : wire' = WireAfter(n)
  BY DEF PollScan
<1>2. n \in 0 .. Len(wire) /\ wire' \in LeftAfter(n)
  BY <1>1 DEF LeftAfter
<1>3. QED
  BY <1>2 DEF ShorterWire

LEMMA DataNext == DataInv /\ [Next]_vars => DataInv'
<1> SUFFICES ASSUME DataInv, [Next]_vars PROVE DataInv'
  OBVIOUS
<1>1. CASE LineArrives
  BY <1>1, DataArrives
<1>2. CASE PollScan
  BY <1>2, DataScanned
<1>3. CASE HostData
  BY <1>3, DataTaken
<1>4. CASE \/ Boot \/ NoFrame \/ HostFactoryReset \/ NoTrigger \/ NoWatchdog
           \/ Heal \/ NoHeal \/ PollSkipped \/ NoTouch \/ TouchDismisses \/ TouchBack
           \/ Tick \/ UNCHANGED vars
  <2>1. UNCHANGED <<wire, arrived, seen, delivered, last_scan_data>>
    BY <1>4 DEF Boot, NoFrame, HostFactoryReset, NoTrigger, NoWatchdog, Heal, NoHeal,
       PollSkipped, Polled, NoTouch, TouchDismisses, TouchBack, PassEnds, Tick, vars,
       wireVars, dataVars
  <2>2. QED
    BY <2>1, DataKept
<1>5. CASE BootInit \/ FactoryResetInit \/ HealInit \/ PollNaks
  <2>1. wire' = wire \/ EmptyWire
    BY <1>5 DEF BootInit, FactoryResetInit, HealInit, InitReturns, PollNaks,
       EmptyWire
  <2>2. UNCHANGED <<arrived, seen, delivered, last_scan_data>>
    BY <1>5 DEF BootInit, FactoryResetInit, HealInit, InitReturns, PollNaks,
       Reading, Polled, dataVars
  <2>3. QED
    BY <2>1, <2>2, DataKept
<1>6. CASE \/ HostQuery \/ HostDisplay \/ HostTrigger \/ AutoTrigger \/ WatchdogFires
           \/ PollDiscards \/ PollOverflows \/ TouchToggles \/ TouchEnters
  <2>1. wire' = wire \/ EmptyWire \/ ShorterWire
    BY <1>6, OverflowShortens DEF DataInv, WireIsNewer, HostQuery, HostDisplay, QuietFrame, HostTrigger, AutoTrigger, WatchdogFires, PollDiscards,
       TouchToggles, TouchEnters, CommandSent, trigger_scan, TriggerRefused,
       wireVars, EmptyWire, ShorterWire
  <2>2. UNCHANGED <<arrived, seen, delivered, last_scan_data>>
    BY <1>6 DEF HostQuery, HostDisplay, QuietFrame, HostTrigger, AutoTrigger, WatchdogFires, PollDiscards,
       PollOverflows, Reading, Polled, TouchToggles, TouchEnters, PassEnds, CommandSent,
       trigger_scan, TriggerRefused, wireVars, dataVars
  <2>3. QED
    BY <2>1, <2>2, DataKept
<1>7. QED
  BY <1>1, <1>2, <1>3, <1>4, <1>5, <1>6 DEF Next, Loop

\* ScannerData never gives the host a scan twice nor an older one after a newer
\* one, and never forgets the newest one before the host has it.
THEOREM HostDataSafe == Spec => []HostGetsNewestOnce
<1>1. DataInv => HostGetsNewestOnce
  BY DEF DataInv
<1>2. QED
  BY DataInit, DataNext, <1>1, PTL DEF Spec

----------------------------------------------------------------------------
(* Types *)

FlagTypes ==
  /\ full \in BOOLEAN /\ ticked \in BOOLEAN
  /\ auto_scan \in BOOLEAN /\ in_settings \in BOOLEAN /\ on_scan_result \in BOOLEAN
  /\ continuous_active \in BOOLEAN

LoopTypes ==
  /\ phase \in Driver!Phases
  /\ pc \in {"boot", "boot_init", "usb", "usb_init", "trigger", "watchdog", "heal",
             "heal_init", "poll", "touch"}
  /\ consecutive_failures \in 0 .. MaxFailures
  /\ elapsed \in 0 .. Wrap - 1

\* What boot found out about the scanner stays true: no init() that fails
\* makes the driver forget one that succeeded.
ConnectedStays ==
  /\ connected \in BOOLEAN
  /\ scanner_connected \in BOOLEAN
  /\ scanner_connected => connected

LEMMA TypesInit == Init => FlagTypes /\ LoopTypes /\ ConnectedStays /\ Len(wire) <= arrived
<1> SUFFICES ASSUME Init PROVE FlagTypes /\ LoopTypes /\ ConnectedStays /\ Len(wire) <= arrived
  OBVIOUS
<1>1. FlagTypes
  BY DEF Init, FlagTypes
<1>2. LoopTypes
  BY SyncAssumption DEF Init, LoopTypes, Driver!Init, Driver!Phases, SyncAssumption
<1>3. ConnectedStays
  BY DEF Init, ConnectedStays, Driver!Init
<1>4. Len(wire) <= arrived
  BY EmptySeq DEF Init
<1>5. QED
  BY <1>1, <1>2, <1>3, <1>4

LEMMA FlagsNext == FlagTypes /\ ConnectedStays /\ [Next]_vars => FlagTypes'
<1> SUFFICES ASSUME FlagTypes, ConnectedStays, [Next]_vars PROVE FlagTypes'
  OBVIOUS
<1> USE DEF FlagTypes, driverVars, uiVars, healVars, clockVars
<1>1. CASE HostQuery \/ HostDisplay \/ HostTrigger \/ HostData \/ HostFactoryReset
  <2>1. FrameTaken /\ UNCHANGED ticked /\ full' \in {full, FALSE}
    BY <1>1 DEF HostQuery, HostDisplay, HostTrigger, HostData, HostFactoryReset, Handled,
       trigger_scan, TriggerRefused
  <2>2. QED
    BY <2>1 DEF FrameTaken, LeaveContinuous, ConnectedStays
<1>2. CASE NoTouch \/ TouchDismisses \/ TouchBack \/ TouchToggles \/ TouchEnters
  BY <1>2 DEF NoTouch, TouchDismisses, TouchBack, TouchToggles, TouchEnters, PassEnds,
     SettingsEntered, ConnectedStays
<1>3. CASE PollDiscards \/ PollSkipped \/ PollNaks \/ PollScan \/ PollOverflows
  BY <1>3 DEF PollDiscards, PollSkipped, PollNaks, PollScan, PollOverflows, Reading, Polled
<1>4. CASE BootInit \/ FactoryResetInit \/ HealInit
  BY <1>4 DEF BootInit, FactoryResetInit, HealInit, InitReturns, FirstInitOk
<1>5. CASE \/ Boot \/ NoFrame \/ AutoTrigger \/ NoTrigger \/ WatchdogFires \/ NoWatchdog
           \/ Heal \/ NoHeal \/ LineArrives \/ Tick \/ UNCHANGED vars
  BY <1>5 DEF Boot, NoFrame, AutoTrigger, trigger_scan, NoTrigger, WatchdogFires,
     WatchdogResets, reset_to_ready, NoWatchdog, Heal, NoHeal, LineArrives, Tick, vars
<1>6. QED
  BY <1>1, <1>2, <1>3, <1>4, <1>5 DEF Next, Loop

LEMMA LoopTypesNext == LoopTypes /\ [Next]_vars => LoopTypes'
<1> SUFFICES ASSUME LoopTypes, [Next]_vars PROVE LoopTypes'
  OBVIOUS
<1>1. phase' \in {phase, "Ready", "Initialising", "Scanning", "ScanComplete", "Error"}
  BY DEF Next, Loop, vars, driverVars, Boot, BootInit, NoFrame, HostQuery, HostDisplay,
     HostTrigger, HostData, HostFactoryReset, FactoryResetInit, AutoTrigger, NoTrigger,
     WatchdogFires, NoWatchdog, Heal, HealInit, NoHeal, PollDiscards, PollSkipped, PollNaks,
     PollScan, PollOverflows, NoTouch, TouchDismisses, TouchBack, TouchToggles, TouchEnters,
     PassEnds, LineArrives, Tick, InitReturns, trigger_scan, TriggerRefused, WatchdogResets,
     reset_to_ready, Driver!StartInit, Driver!InitOk, Driver!InitErr, Driver!Trigger,
     Driver!Reset
<1>2. pc' \in {pc, "boot_init", "usb", "usb_init", "trigger", "watchdog", "heal",
               "heal_init", "poll", "touch"}
  BY DEF Next, Loop, vars, Boot, BootInit, NoFrame, HostQuery, HostDisplay, Handled,
     HostTrigger, HostData, HostFactoryReset, FactoryResetInit, AutoTrigger, NoTrigger,
     WatchdogFires, NoWatchdog, Heal, HealInit, NoHeal, PollDiscards, PollSkipped, PollNaks,
     PollScan, PollOverflows, Reading, Polled, NoTouch, TouchDismisses, TouchBack,
     TouchToggles, TouchEnters, PassEnds, LineArrives, Tick
<1>3. \/ consecutive_failures' \in {consecutive_failures, 0}
      \/ /\ consecutive_failures < MaxFailures
         /\ consecutive_failures' = consecutive_failures + 1
  BY DEF Next, Loop, vars, healVars, Boot, BootInit, NoFrame, HostQuery, HostDisplay, Handled,
     FrameTaken, HostTrigger, HostData, HostFactoryReset, FactoryResetInit, AutoTrigger,
     NoTrigger, WatchdogFires, NoWatchdog, Heal, HealInit, NoHeal, PollDiscards, PollSkipped,
     PollNaks, PollScan, PollOverflows, NoTouch, TouchDismisses, TouchBack,
     TouchToggles, TouchEnters, PassEnds, LineArrives, Tick
<1>4. elapsed' \in {elapsed, 0, (elapsed + 1) % Wrap}
  BY DEF Next, Loop, vars, clockVars, Boot, BootInit, NoFrame, HostQuery, HostDisplay, Handled,
     HostTrigger, HostData, HostFactoryReset, FactoryResetInit, AutoTrigger,
     NoTrigger, WatchdogFires, NoWatchdog, Heal, HealInit, NoHeal, PollDiscards, PollSkipped,
     PollNaks, PollScan, PollOverflows, Reading, Polled, NoTouch, TouchDismisses, TouchBack,
     TouchToggles, TouchEnters, PassEnds, LineArrives, Tick
<1>5. phase' \in Driver!Phases
  BY <1>1 DEF LoopTypes, Driver!Phases
<1>6. consecutive_failures' \in 0 .. MaxFailures
  BY <1>3, SyncAssumption DEF LoopTypes, SyncAssumption
<1>7. elapsed' \in 0 .. Wrap - 1
  BY <1>4, SyncAssumption DEF LoopTypes, SyncAssumption
<1>8. QED
  BY <1>2, <1>5, <1>6, <1>7 DEF LoopTypes

LEMMA ConnectedStaysNext == ConnectedStays /\ [Next]_vars => ConnectedStays'
<1> SUFFICES ASSUME ConnectedStays, [Next]_vars PROVE ConnectedStays'
  OBVIOUS
<1>1. CASE BootInit
  BY <1>1 DEF BootInit, FirstInitOk, InitReturns, Driver!InitOk, Driver!InitErr, ConnectedStays
<1>2. CASE ~BootInit
  <2>1. scanner_connected' = scanner_connected
    BY <1>2 DEF Next, Loop, vars, Boot, NoFrame, HostQuery, HostDisplay, Handled,
       HostTrigger, HostData, HostFactoryReset, FactoryResetInit, AutoTrigger, NoTrigger,
       WatchdogFires, NoWatchdog, Heal, HealInit, NoHeal, PollDiscards, PollSkipped, PollNaks,
       PollScan, PollOverflows, Reading, Polled, NoTouch, TouchDismisses, TouchBack,
       TouchToggles, TouchEnters, PassEnds, LineArrives, Tick
  <2>2. connected' \in {connected, TRUE}
    BY <1>2 DEF Next, Loop, vars, driverVars, Boot, NoFrame, HostQuery, HostDisplay,
       HostTrigger, HostData, HostFactoryReset, FactoryResetInit, AutoTrigger, NoTrigger,
       WatchdogFires, NoWatchdog, Heal, HealInit, NoHeal, PollDiscards, PollSkipped, PollNaks,
       PollScan, PollOverflows, Reading, Polled, NoTouch, TouchDismisses, TouchBack,
       TouchToggles, TouchEnters, PassEnds, LineArrives, Tick, InitReturns, trigger_scan,
       TriggerRefused, WatchdogResets, reset_to_ready, Driver!StartInit, Driver!InitOk,
       Driver!InitErr, Driver!Trigger, Driver!Reset
  <2>3. QED
    BY <2>1, <2>2 DEF ConnectedStays
<1>3. QED
  BY <1>1, <1>2

LEMMA WireCountNext == DataInv /\ Len(wire) <= arrived /\ [Next]_vars => Len(wire)' <= arrived'
<1> SUFFICES ASSUME DataInv, Len(wire) <= arrived, [Next]_vars PROVE Len(wire') <= arrived'
  OBVIOUS
<1>1. wire \in Seq(Line) /\ Len(wire) \in Nat /\ arrived \in Nat
  BY SyncAssumption DEF DataInv, WireIsNewer, SyncAssumption
<1>2. CASE LineArrives
  <2>1. PICK k \in {"code", "nak", "long"} : wire' = Append(wire, <<k, arrived'>>)
    BY <1>2 DEF LineArrives
  <2>2. arrived' = arrived + 1 /\ arrived' \in 1 .. MaxLines
    BY <1>1, <1>2, SyncAssumption DEF LineArrives, SyncAssumption
  <2>3. <<k, arrived'>> \in Line
    BY <2>2 DEF Line
  <2>4. QED
    BY <1>1, <2>1, <2>2, <2>3
<1>3. CASE ~LineArrives
  <2>1. arrived' = arrived
    BY <1>3 DEF Next, Loop, vars, wireVars, Boot, BootInit, NoFrame, HostQuery, HostDisplay,
       QuietFrame, HostTrigger, HostData, HostFactoryReset, FactoryResetInit, AutoTrigger,
       NoTrigger, WatchdogFires, NoWatchdog, Heal, HealInit, NoHeal, PollDiscards, PollSkipped,
       PollNaks, PollScan, PollOverflows, Reading, Polled, NoTouch, TouchDismisses, TouchBack,
       TouchToggles, TouchEnters, PassEnds, Tick, InitReturns, trigger_scan, CommandSent
  <2>2. wire' = wire \/ EmptyWire \/ ShorterWire
    BY <1>1, <1>3, OverflowShortens, ScanShortens
       DEF Next, Loop, vars, wireVars, Boot, BootInit, NoFrame, HostQuery, HostDisplay,
       QuietFrame, HostTrigger, HostData, HostFactoryReset, FactoryResetInit, AutoTrigger,
       NoTrigger, WatchdogFires, NoWatchdog, Heal, HealInit, NoHeal, PollDiscards, PollSkipped,
       PollNaks, NoTouch, TouchDismisses, TouchBack,
       TouchToggles, TouchEnters, PassEnds, Tick, InitReturns, trigger_scan, CommandSent,
       EmptyWire, ShorterWire
  <2>3. Len(wire') <= Len(wire)
    BY <1>1, <2>2, LeftAfterFacts, EmptySeq DEF EmptyWire, ShorterWire
  <2>4. QED
    BY <1>1, <2>1, <2>3
<1>4. QED
  BY <1>2, <1>3

\* Every variable of the loop stays in its range; with it, that the scanner
\* the loop believes to be there is one that was initialised.
THEOREM LoopTyped == Spec => []SyncTypeOK
<1> DEFINE Inv == DataInv /\ FlagTypes /\ LoopTypes /\ ConnectedStays /\ Len(wire) <= arrived
<1>1. Init => Inv
  BY DataInit, TypesInit
<1>2. Inv /\ [Next]_vars => Inv'
  BY DataNext, FlagsNext, LoopTypesNext, ConnectedStaysNext, WireCountNext
<1>3. Inv => SyncTypeOK
  <2> SUFFICES ASSUME Inv PROVE SyncTypeOK
    OBVIOUS
  <2>1. {last_scan_data, seen, delivered} \subseteq 0 .. MaxLines
    BY SyncAssumption DEF DataInv, WireIsNewer, HostGetsNewestOnce, SyncAssumption
  <2>2. QED
    BY <2>1 DEF SyncTypeOK, DataInv, WireIsNewer, FlagTypes, LoopTypes, ConnectedStays
<1>4. QED
  BY <1>1, <1>2, <1>3, PTL DEF Spec

=============================================================================
