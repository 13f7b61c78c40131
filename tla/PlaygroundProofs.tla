-------------------------- MODULE PlaygroundProofs --------------------------
(***************************************************************************)
(* The SETTINGS register and the browser playground that writes it: what   *)
(* its conversions keep for every byte, and the playground's invariants    *)
(* for any number of devices, codes and taps.                              *)
(*                                                                         *)
(* The taps of one pass are a recursive function (Handled). What it keeps  *)
(* is proved by induction on sets of numbers, from the least number that   *)
(* is not in the set.                                                      *)
(***************************************************************************)
EXTENDS Playground, SequenceTheorems, WellFoundedInduction, TLAPS

----------------------------------------------------------------------------
(* The SETTINGS register: what its two conversions keep, for all bytes and   *)
(* all settings                                                              *)

USE DEF Level, Mode

\* Each two-bit field of a byte is where from_bits looks for it.
LEMMA FieldsApart ==
  ASSUME NEW a \in {0, 1}, NEW b \in {0, 1}, NEW c \in 0 .. 3, NEW d \in 0 .. 3, NEW e \in 0 .. 3,
         NEW raw, raw = 128 * a + 64 * b + 16 * c + 4 * d + e
  PROVE  /\ raw \in Byte
         /\ raw \div 128 = a
         /\ (raw \div 64) % 2 = b
         /\ (raw \div 16) % 4 = c
         /\ (raw \div 4) % 4 = d
         /\ raw % 4 = e
  BY DEF Byte

\* What a consumer writes is what it reads back (settings.rs bits, from_bits):
\* no field spills into another.
THEOREM SettingsRoundTrip ==
  \A s \in Settings : bits(s) \in Byte /\ from_bits(bits(s)) = s
<1> SUFFICES ASSUME NEW s \in Settings
             PROVE  bits(s) \in Byte /\ from_bits(bits(s)) = s
  OBVIOUS
<1>1. /\ s.always_on \in {0, 1} /\ s.buzzer \in {0, 1}
      /\ s.aim \in 0 .. 3 /\ s.light \in 0 .. 3 /\ s.read_mode \in 0 .. 3
      /\ s.aim # 3 /\ s.light # 3
  BY DEF Settings
<1>2. /\ bits(s) \in Byte
      /\ bits(s) \div 128 = s.always_on
      /\ (bits(s) \div 64) % 2 = s.buzzer
      /\ (bits(s) \div 16) % 4 = s.aim
      /\ (bits(s) \div 4) % 4 = s.light
      /\ bits(s) % 4 = s.read_mode
  BY <1>1, FieldsApart DEF bits
<1>3. from_bits(bits(s)) =
        [always_on |-> s.always_on, buzzer |-> s.buzzer, aim |-> s.aim, light |-> s.light,
         read_mode |-> s.read_mode]
  BY <1>1, <1>2 DEF from_bits, LevelOf
<1>4. s = [always_on |-> s.always_on, buzzer |-> s.buzzer, aim |-> s.aim, light |-> s.light,
           read_mode |-> s.read_mode]
  BY DEF Settings
<1> QED
  BY <1>2, <1>3, <1>4

\* Whatever byte the module answers, from_bits finds settings in it.
LEMMA FromBitsTyped == \A raw \in Byte : from_bits(raw) \in Settings
  BY DEF Byte, from_bits, LevelOf, Settings

\* The default is the byte that init() writes, as its comment demands
\* (settings.rs:97), and each policy is a setting.
THEOREM BlessedSettings ==
  /\ bits(Default) = CMD_MODE
  /\ \A p \in Policies : policy_settings(p) \in Settings
<1>1. bits(Default) = CMD_MODE
  BY DEF bits, Default, CMD_MODE
<1> DEFINE continuous == [Default EXCEPT !.read_mode = 2]
<1>2. Default \in Settings /\ continuous \in Settings
  BY DEF Default, Settings
<1>3. [continuous EXCEPT !.buzzer = 1] \in Settings
  BY <1>2 DEF Settings
<1>4. /\ policy_settings("SilentContinuous") = continuous
      /\ policy_settings("BuzzingContinuous") = [continuous EXCEPT !.buzzer = 1]
      /\ policy_settings("SilentCommand") = Default
  BY DEF policy_settings
<1> QED
  BY <1>1, <1>2, <1>3, <1>4 DEF Policies

\* No row of either page leaves the settings, whatever the module held before.
THEOREM RowsStayInSettings ==
  \A s \in Settings :
    /\ \A row \in Nat : toggle_settings_row(s, row) \in Settings
    /\ \A row \in {"Buzzer", "Aim", "Light", "Mode"} : cycle_row(s, row) \in Settings
  BY DEF Settings, toggle_settings_row, Flip, cycle_row

----------------------------------------------------------------------------
(* Recursion over the taps *)

Below == {mn \in Nat \X Nat : mn[1] < mn[2]}

LEMMA BelowIsWellFounded == IsWellFoundedOn(Below, Nat)
  BY NatLessThanWellFounded DEF OpToRel, Below

\* A set with 0 that goes on from each number has all numbers up to T.
LEMMA Upwards ==
  ASSUME NEW S, NEW T \in Nat, 0 \in S, \A n \in 0 .. T - 1 : n \in S => n + 1 \in S
  PROVE  0 .. T \subseteq S
  <1> DEFINE M == {n \in 0 .. T : n \notin S}
  <1> SUFFICES ASSUME M # {} PROVE FALSE
    OBVIOUS
  <1>1. M \subseteq Nat /\ M # {}
    OBVIOUS
  <1>2. PICK x \in M : \A y \in M : <<y, x>> \notin Below
    <2> HIDE DEF M
    <2> QED
      BY ONLY <1>1, BelowIsWellFounded, WFMin
  <1>3. x \in 1 .. T /\ x \notin S
    BY <1>2
  <1>4. x - 1 \in M /\ <<x - 1, x>> \in Below
    BY <1>3 DEF Below
  <1> QED
    BY <1>2, <1>4

Screens == {"boot", "home", "scanning", "result", "settings"}
Cmd == {StartScan(p) : p \in 0 .. 2} \cup {StopScan} \cup {ApplySettings(s) : s \in Settings}
Ui == [screen : Screens, cmds : Seq(Cmd)]
Shown == [screen |-> screen, cmds |-> cmds]

\* f is what the first n taps leave, step by step.
Passes(f, n, d) ==
  f = [k \in 0 .. n |-> IF k = 0 THEN Shown ELSE Tapped(f[k - 1], taps[k], d)]

LEMMA PassesExist ==
  ASSUME NEW T \in Nat, NEW d
  PROVE  \E f : Passes(f, T, d)
  <1> DEFINE S == {n \in 0 .. T : \E f : Passes(f, n, d)}
  <1>1. 0 \in S
    <2> DEFINE f == [k \in 0 .. 0 |-> Shown]
    <2>1. Passes(f, 0, d)
      BY DEF Passes
    <2> QED
      BY <2>1
  <1>2. ASSUME NEW n \in 0 .. T - 1, n \in S PROVE n + 1 \in S
    <2>1. PICK f : Passes(f, n, d)
      BY <1>2
    <2> DEFINE g == [k \in 0 .. n + 1 |-> IF k = n + 1 THEN Tapped(f[n], taps[n + 1], d) ELSE f[k]]
    <2>2. \A k \in 0 .. n : g[k] = f[k] /\ k # n + 1
      OBVIOUS
    <2>3. \A k \in 0 .. n : f[k] = IF k = 0 THEN Shown ELSE Tapped(f[k - 1], taps[k], d)
      BY <2>1 DEF Passes
    <2>4. \A k \in 1 .. n + 1 : k - 1 \in 0 .. n /\ (k = n + 1 => k - 1 = n)
      OBVIOUS
    <2>5. \A k \in 0 .. n + 1 : g[k] = IF k = 0 THEN Shown ELSE Tapped(g[k - 1], taps[k], d)
      <3> TAKE k \in 0 .. n + 1
      <3>1. CASE k = n + 1
        <4>1. g[k] = Tapped(f[n], taps[k], d) /\ k # 0 /\ g[k - 1] = f[n]
          BY <3>1, <2>2
        <4> QED
          BY <4>1
      <3>2. CASE k \in 0 .. n
        <4>1. k # 0 => g[k - 1] = f[k - 1]
          BY <3>2, <2>2, <2>4
        <4> QED
          BY <3>2, <4>1, <2>2, <2>3
      <3> QED
        BY <3>1, <3>2
    <2>6. g = [k \in 0 .. n + 1 |-> g[k]]
      OBVIOUS
    <2> HIDE DEF g
    <2>7. Passes(g, n + 1, d)
      BY <2>5, <2>6 DEF Passes
    <2> QED
      BY <2>7
  <1> HIDE DEF S
  <1>3. 0 .. T \subseteq S
    BY <1>1, <1>2, Upwards
  <1>4. T \in S
    BY <1>3
  <1> QED
    BY <1>4 DEF S

\* The recursive definition is one of them.
LEMMA HandledPasses ==
  ASSUME NEW d, Len(taps) \in Nat
  PROVE  \E f : Passes(f, Len(taps), d) /\ Handled(d) = f[Len(taps)]
  <1>1. \E f : Passes(f, Len(taps), d)
    BY PassesExist
  <1> QED
    BY <1>1 DEF Passes, Handled, Shown

----------------------------------------------------------------------------
(* What the taps of a pass do *)

\* A row of a screen, by its name.
RowName == {"Start", "Stop", "SettingsNav", "Back", "Buzzer", "Aim", "Light", "Mode"}

LEMMA RowsNamed ==
  ASSUME NEW s \in Screens
  PROVE  DOMAIN rows_for(s) \subseteq RowName
  <1>1. rows_for("home") = [Start |-> 150, SettingsNav |-> 240]
    BY DEF rows_for
  <1>2. rows_for("scanning") = [Stop |-> 150]
    BY DEF rows_for
  <1>3. rows_for("result") = [Back |-> 726]
    BY DEF rows_for
  <1>4. rows_for("settings") =
          [Buzzer |-> 130, Aim |-> 210, Light |-> 290, Mode |-> 370, Back |-> 680]
    BY DEF rows_for
  <1>5. rows_for("boot") = <<>>
    BY DEF rows_for
  <1>6. DOMAIN rows_for("boot") = {}
    BY <1>5
  <1> QED
    BY <1>1, <1>2, <1>3, <1>4, <1>6 DEF Screens, RowName

LEMMA BytesAreSettings ==
  ASSUME NEW b \in SettingsBytes
  PROVE  from_bits(b) \in Settings
  BY SettingsRoundTrip DEF SettingsBytes

\* A tap leaves a screen and commands, and never brings the scanning screen.
LEMMA TapKeepsUi ==
  ASSUME NEW u \in Ui, NEW y, NEW d, register[d] \in SettingsBytes, policy \in 0 .. 2
  PROVE  /\ Tapped(u, y, d) \in Ui
         /\ Tapped(u, y, d).screen = "scanning" => u.screen = "scanning"
  <1>1. CASE Hits(u.screen, y) = {}
    BY <1>1 DEF Tapped
  <1>2. ASSUME NEW row \in RowName
        PROVE  /\ handle_tap(u, row, d) \in Ui
               /\ handle_tap(u, row, d).screen = "scanning" => u.screen = "scanning"
    <2>1. ASSUME NEW c \in Cmd
          PROVE  /\ [u EXCEPT !.cmds = Append(@, c)] \in Ui
                 /\ [u EXCEPT !.cmds = Append(@, c)].screen = u.screen
      <3>1. u.cmds \in Seq(Cmd) /\ Append(u.cmds, c) \in Seq(Cmd)
        BY AppendProperties DEF Ui
      <3> QED
        BY <3>1 DEF Ui
    <2>2. CASE row = "Start"
      <3>1. StartScan(policy) \in Cmd
        BY DEF Cmd
      <3> QED
        BY <2>1, <2>2, <3>1 DEF handle_tap
    <2>3. CASE row = "Stop"
      <3>1. StopScan \in Cmd
        BY DEF Cmd
      <3> QED
        BY <2>1, <2>3, <3>1 DEF handle_tap
    <2>4. CASE row = "SettingsNav" \/ row = "Back"
      BY <2>4 DEF handle_tap, Ui, Screens
    <2>5. CASE row \in {"Buzzer", "Aim", "Light", "Mode"}
      <3> DEFINE s == cycle_row(from_bits(register[d]), row)
      <3>1. s \in Settings
        BY <2>5, BytesAreSettings, RowsStayInSettings
      <3>2. handle_tap(u, row, d) = [u EXCEPT !.cmds = Append(@, ApplySettings(s))]
        BY <2>5 DEF handle_tap
      <3> HIDE DEF s
      <3>3. ApplySettings(s) \in Cmd
        BY <3>1 DEF Cmd
      <3> QED
        BY <2>1, <3>2, <3>3
    <2> QED
      BY <2>2, <2>3, <2>4, <2>5 DEF RowName
  <1>3. CASE Hits(u.screen, y) # {}
    <2> DEFINE row == CHOOSE r \in Hits(u.screen, y) : TRUE
    <2>1. row \in Hits(u.screen, y)
      BY <1>3
    <2>2. row \in RowName
      BY <2>1, RowsNamed DEF Hits, Ui
    <2>3. Tapped(u, y, d) = handle_tap(u, row, d)
      BY <1>3 DEF Tapped
    <2> HIDE DEF row
    <2> QED
      BY <1>2, <2>2, <2>3
  <1> QED
    BY <1>1, <1>3

\* So do all taps of a pass.
LEMMA HandledTyped ==
  ASSUME NEW d, register[d] \in SettingsBytes, policy \in 0 .. 2,
         screen \in Screens, cmds \in Seq(Cmd), Len(taps) \in Nat
  PROVE  /\ Handled(d) \in Ui
         /\ Handled(d).screen = "scanning" => screen = "scanning"
  <1>1. PICK f : Passes(f, Len(taps), d) /\ Handled(d) = f[Len(taps)]
    BY HandledPasses
  <1> DEFINE T == Len(taps)
             S == {n \in 0 .. T : f[n] \in Ui /\ (f[n].screen = "scanning" => screen = "scanning")}
  <1>2. \A n \in 0 .. T : f[n] = IF n = 0 THEN Shown ELSE Tapped(f[n - 1], taps[n], d)
    BY <1>1 DEF Passes
  <1>3. 0 \in S
    BY <1>2 DEF Shown, Ui
  <1>4. ASSUME NEW n \in 0 .. T - 1, n \in S PROVE n + 1 \in S
    <2>1. n + 1 \in 0 .. T /\ n + 1 # 0 /\ (n + 1) - 1 = n
      OBVIOUS
    <2>2. f[n + 1] = Tapped(f[n], taps[n + 1], d)
      BY <1>2, <2>1
    <2>3. /\ Tapped(f[n], taps[n + 1], d) \in Ui
          /\ Tapped(f[n], taps[n + 1], d).screen = "scanning" => f[n].screen = "scanning"
      BY <1>4, TapKeepsUi
    <2> QED
      BY <1>4, <2>1, <2>2, <2>3
  <1> HIDE DEF S
  <1>5. 0 .. T \subseteq S
    BY <1>3, <1>4, Upwards
  <1>6. T \in S
    BY <1>5
  <1> QED
    BY <1>1, <1>6 DEF S

----------------------------------------------------------------------------
(* The invariants *)

\* What the type invariant leaves open: the queues, and what a task is at.
QueuesTyped ==
  /\ line \in [Device -> Seq(1 .. MaxCodes)]
  /\ job \in [Device -> Cmd \cup {NoJob}]
  /\ cmds \in Seq(Cmd)
  /\ taps \in Seq(TapYs)
  /\ count \in 0 .. MaxCodes

\* Every code is one that was decoded, and is held at most once.
CodesApart ==
  /\ \A d \in Device : Codes(d) \subseteq 1 .. count
  /\ cleared \subseteq 1 .. count
  /\ \A d, e \in Device : d # e => Codes(d) \cap Codes(e) = {}

\* Where the only device is not in the middle of a start or stop.
Settled == pc[1] \in {"top", "next", "read", "wait"} \/ (pc[1] = "settings" /\ job[1].cmd = "settings")
SettledIsTrue == inits = 1 /\ screen = "scanning" /\ Settled => scanning[1]

PgInv == PgTypeOK /\ QueuesTyped /\ CodesApart /\ StopDiscards /\ SettledIsTrue

Constants == MaxInits \in Nat \ {0} /\ MaxCodes \in Nat \ {0} /\ Device \subseteq Nat
LEMMA ConstantsTyped == Constants
  BY PlaygroundAssumption DEF Constants, Device

LEMMA SettingsBytesTyped ==
  /\ BootSettings \in SettingsBytes /\ CMD_MODE \in SettingsBytes
  /\ \A s \in Settings : bits(s) \in SettingsBytes
  /\ \A p : policy_settings(PolicyOf(p)) \in Settings
  <1>1. \A s \in Settings : bits(s) \in SettingsBytes
    BY DEF SettingsBytes
  <1>2. BootSettings \in SettingsBytes
    <2> DEFINE s == [always_on |-> 1, buzzer |-> 1, aim |-> 1, light |-> 0, read_mode |-> 1]
    <2>1. s \in Settings /\ bits(s) = BootSettings
      BY DEF Settings, bits, BootSettings
    <2> QED
      BY <1>1, <2>1
  <1>3. CMD_MODE \in SettingsBytes
    <2>1. Default \in Settings
      BY DEF Default, Settings
    <2> QED
      BY <1>1, <2>1, BlessedSettings
  <1>4. \A p : policy_settings(PolicyOf(p)) \in Settings
    <2>1. \A p : PolicyOf(p) \in Policies
      BY DEF PolicyOf, Policies
    <2> QED
      BY <2>1, BlessedSettings
  <1> QED
    BY <1>1, <1>2, <1>3, <1>4

----------------------------------------------------------------------------
(* Types *)

LEMMA TypedInit == Init => PgTypeOK /\ QueuesTyped
  <1> SUFFICES ASSUME Init PROVE PgTypeOK /\ QueuesTyped
    OBVIOUS
  <1>1. /\ <<>> \in Seq(Cmd) /\ <<>> \in Seq(TapYs) /\ <<>> \in Seq(1 .. MaxCodes)
    BY EmptySeq
  <1>2. \A d \in Device : d > 0
    BY DEF Device
  <1>3. PgTypeOK
    BY <1>1, <1>2, ConstantsTyped, SettingsBytesTyped DEF Init, PgTypeOK, Constants, NoCode
  <1>4. QueuesTyped
    BY <1>1, ConstantsTyped DEF Init, QueuesTyped, Constants
  <1> QED
    BY <1>3, <1>4

\* What a task leaves of a command, or of the taps.
LEMMA ProceedTyped ==
  ASSUME PgTypeOK, QueuesTyped, NEW d \in Device, NEW queue \in Seq(Cmd), Proceed(d, queue)
  PROVE  /\ \E l \in {"settings", "stop", "read", "wait"} :
              pc' = [pc EXCEPT ![d] = l]
         /\ job' \in [Device -> Cmd \cup {NoJob}]
         /\ cmds' \in Seq(Cmd)
  <1>1. CASE queue # <<>>
    <2>1. Head(queue) \in Cmd /\ Tail(queue) \in Seq(Cmd)
      BY <1>1, HeadTailProperties
    <2> QED
      BY <1>1, <2>1 DEF Proceed, QueuesTyped
  <1>2. CASE queue = <<>>
    BY <1>2 DEF Proceed, QueuesTyped, Rests
  <1> QED
    BY <1>1, <1>2

Pcs == {"off", "boot", "top", "next", "stop", "settings", "enable", "read", "wait"}

\* A task that runs goes on to somewhere.
LEMMA PcMoves ==
  ASSUME PgTypeOK, NEW d \in Device, pc[d] # "off", NEW l \in Pcs \ {"off"},
         pc' = [pc EXCEPT ![d] = l], UNCHANGED inits
  PROVE  /\ inits' \in 0 .. MaxInits
         /\ pc' \in [Device -> Pcs]
         /\ \A e \in Device : pc'[e] = "off" <=> e > inits'
  BY DEF PgTypeOK, Pcs

\* A register write leaves codes on the line that were there or pending.
LEMMA WritesTyped ==
  ASSUME PgTypeOK, QueuesTyped, NEW d \in Device
  PROVE  /\ <<>> \in Seq(1 .. MaxCodes)
         /\ pending[d] # NoCode => <<pending[d]>> \in Seq(1 .. MaxCodes)
  <1>1. pending[d] \in 0 .. MaxCodes /\ MaxCodes \in Nat
    BY ConstantsTyped DEF PgTypeOK, Constants
  <1>2. pending[d] # NoCode => pending[d] \in 1 .. MaxCodes
    BY <1>1 DEF NoCode
  <1>3. \A x \in 1 .. MaxCodes : <<x>> \in Seq(1 .. MaxCodes)
    OBVIOUS
  <1> QED
    BY <1>2, <1>3, EmptySeq

LEMMA WriteTyped ==
  ASSUME PgTypeOK, QueuesTyped, NEW d \in Device, NEW on,
         line' = [line EXCEPT ![d] = IF on /\ pending[d] # NoCode THEN <<pending[d]>> ELSE <<>>],
         pending' = [pending EXCEPT ![d] = NoCode]
  PROVE  line' \in [Device -> Seq(1 .. MaxCodes)] /\ pending' \in [Device -> 0 .. MaxCodes]
  <1> DEFINE v == IF on /\ pending[d] # NoCode THEN <<pending[d]>> ELSE <<>>
  <1>1. v \in Seq(1 .. MaxCodes)
    BY WritesTyped
  <1>2. line' = [line EXCEPT ![d] = v]
    OBVIOUS
  <1> HIDE DEF v
  <1>3. line' \in [Device -> Seq(1 .. MaxCodes)]
    BY <1>1, <1>2 DEF QueuesTyped
  <1>4. pending' \in [Device -> 0 .. MaxCodes]
    BY ConstantsTyped DEF PgTypeOK, Constants, NoCode
  <1> QED
    BY <1>3, <1>4

LEMMA TypedStep ==
  ASSUME PgTypeOK, QueuesTyped, [Next]_vars
  PROVE  PgTypeOK' /\ QueuesTyped'
  <1> USE DEF Pcs
  <1>0. /\ inits \in 0 .. MaxInits /\ MaxInits \in Nat /\ MaxCodes \in Nat
        /\ pc \in [Device -> Pcs] /\ scanning \in [Device -> BOOLEAN]
        /\ pending \in [Device -> 0 .. MaxCodes] /\ register \in [Device -> SettingsBytes]
        /\ line \in [Device -> Seq(1 .. MaxCodes)] /\ screen \in Screens /\ policy \in 0 .. 2
        /\ job \in [Device -> Cmd \cup {NoJob}] /\ cmds \in Seq(Cmd) /\ taps \in Seq(TapYs)
        /\ count \in 0 .. MaxCodes /\ Len(taps) \in Nat
    BY ConstantsTyped, LenProperties DEF PgTypeOK, QueuesTyped, Constants, Screens
  <1>f. full' \in [Device -> BOOLEAN]
    <2>0. full \in [Device -> BOOLEAN]
      BY DEF PgTypeOK
    <2>1. ASSUME NEW d \in Device, ReadOverflows(d) PROVE full' \in [Device -> BOOLEAN]
      BY <2>0, <2>1 DEF ReadOverflows
    <2>2. CASE pg_init \/ (\E p \in StartIdxs : pg_cmd_start(p)) \/ pg_cmd_stop
                 \/ (\E y \in TapYs : pg_lcd_tap(y)) \/ Inject \/ UNCHANGED vars
      BY <2>0, <2>2 DEF pg_init, pg_cmd_start, pg_cmd_stop, pg_lcd_tap, Inject, taskVars, vars
    <2>3. ASSUME NEW d \in Device,
                 \/ Boot(d) \/ Top(d) \/ NextCommand(d)
                 \/ DoStop(d) \/ DoSettings(d) \/ DoEnable(d)
                 \/ ReadScan(d) \/ RestEnds(d)
          PROVE  full' \in [Device -> BOOLEAN]
      BY <2>0, <2>3 DEF Boot, Top, NextCommand, DoStop, DoSettings, DoEnable, ReadScan, RestEnds,
         Continue, Done
    <2> QED
      BY <2>1, <2>2, <2>3 DEF Next, Task
  <1>s. ASSUME inits' \in 0 .. MaxInits, pc' \in [Device -> Pcs],
               \A e \in Device : pc'[e] = "off" <=> e > inits',
               scanning' \in [Device -> BOOLEAN], pending' \in [Device -> 0 .. MaxCodes],
               register' \in [Device -> SettingsBytes], line' \in [Device -> Seq(1 .. MaxCodes)],
               screen' \in Screens, policy' \in 0 .. 2, job' \in [Device -> Cmd \cup {NoJob}],
               cmds' \in Seq(Cmd), taps' \in Seq(TapYs), count' \in 0 .. MaxCodes
        PROVE  PgTypeOK' /\ QueuesTyped'
    BY <1>f, <1>s DEF PgTypeOK, QueuesTyped, Screens
  <1>o. \A e \in Device : pc[e] = "off" <=> e > inits
    BY DEF PgTypeOK
  <1>1. CASE pg_init
    <2>1. inits' = inits + 1 /\ inits' \in 0 .. MaxInits /\ inits' \in Device
      BY <1>0, <1>1 DEF pg_init, Device
    <2>2. \A e \in Device : e > inits' <=> e > inits /\ e # inits'
      BY <1>0, <2>1 DEF Device
    <2>3. pc' = [pc EXCEPT ![inits'] = "boot"] /\ screen' \in Screens
          /\ UNCHANGED <<job, moduleVars, pageVars, count>>
      BY <1>1 DEF pg_init, Screens
    <2>4. \A e \in Device : pc'[e] = "off" <=> e > inits'
      BY <1>0, <1>o, <2>1, <2>2, <2>3
    <2> QED
      BY <1>0, <1>s, <2>1, <2>3, <2>4 DEF moduleVars, pageVars
  <1>2. ASSUME NEW p \in StartIdxs, pg_cmd_start(p) PROVE PgTypeOK' /\ QueuesTyped'
    <2>1. p \in 0 .. 2
      BY PlaygroundAssumption
    <2>2. StartScan(p) \in Cmd
      BY <2>1 DEF Cmd
    <2>3. cmds' \in Seq(Cmd)
      BY <1>0, <1>2, <2>2, AppendProperties DEF pg_cmd_start
    <2> QED
      BY <1>0, <1>o, <1>s, <1>2, <2>1, <2>3 DEF pg_cmd_start, taskVars, moduleVars
  <1>3. CASE pg_cmd_stop
    <2>1. StopScan \in Cmd
      BY DEF Cmd
    <2>2. cmds' \in Seq(Cmd)
      BY <1>0, <1>3, <2>1, AppendProperties DEF pg_cmd_stop
    <2> QED
      BY <1>0, <1>o, <1>s, <1>3, <2>2 DEF pg_cmd_stop, taskVars, moduleVars
  <1>4. ASSUME NEW y \in TapYs, pg_lcd_tap(y) PROVE PgTypeOK' /\ QueuesTyped'
    <2>1. taps' \in Seq(TapYs)
      BY <1>0, <1>4, AppendProperties DEF pg_lcd_tap
    <2> QED
      BY <1>0, <1>o, <1>s, <1>4, <2>1 DEF pg_lcd_tap, taskVars, moduleVars
  <1>5. CASE Inject
    <2>1. count' \in 1 .. MaxCodes /\ inits \in Device
      BY <1>0, <1>5 DEF Inject, Device
    <2>2. line[inits] \in Seq(1 .. MaxCodes) /\ Append(line[inits], count') \in Seq(1 .. MaxCodes)
      BY <1>0, <2>1, AppendProperties
    <2>3. line' \in [Device -> Seq(1 .. MaxCodes)] /\ pending' \in [Device -> 0 .. MaxCodes]
      <3>1. CASE line' = [line EXCEPT ![inits] = Append(@, count')] /\ UNCHANGED pending
        <4>1. line' = [line EXCEPT ![inits] = Append(line[inits], count')]
          BY <3>1
        <4> QED
          BY <1>0, <3>1, <4>1, <2>1, <2>2
      <3>2. CASE pending' = [pending EXCEPT ![inits] = count'] /\ UNCHANGED line
        BY <1>0, <3>2, <2>1
      <3> QED
        BY <1>5, <3>1, <3>2 DEF Inject
    <2>4. UNCHANGED <<inits, pc, job, scanning, register, cmds, taps, policy, screen>>
      BY <1>5 DEF Inject, taskVars, pageVars
    <2>5. count' \in 0 .. MaxCodes
      BY <2>1
    <2> QED
      BY <1>0, <1>o, <1>s, <2>3, <2>4, <2>5
  <1>6. ASSUME NEW d \in Device, Boot(d) PROVE PgTypeOK' /\ QueuesTyped'
    <2>1. /\ inits' \in 0 .. MaxInits /\ pc' \in [Device -> Pcs]
          /\ \A e \in Device : pc'[e] = "off" <=> e > inits'
      BY <1>6, PcMoves DEF Boot
    <2>2. register' \in [Device -> SettingsBytes] /\ pending' \in [Device -> 0 .. MaxCodes]
      BY <1>0, <1>6, SettingsBytesTyped DEF Boot, NoCode
    <2>3. /\ screen' \in Screens
          /\ UNCHANGED <<job, scanning, line, cmds, taps, policy, count>>
      BY <1>6 DEF Boot, pageVars, Screens
    <2> QED
      BY <1>0, <1>s, <2>1, <2>2, <2>3
  <1>7. ASSUME NEW d \in Device, NEW queue \in Seq(Cmd), Proceed(d, queue), pc[d] # "off",
               UNCHANGED <<inits, moduleVars, policy, count>>, screen' \in Screens,
               taps' \in Seq(TapYs)
        PROVE  PgTypeOK' /\ QueuesTyped'
    <2>1. PICK l \in {"settings", "stop", "read", "wait"} : pc' = [pc EXCEPT ![d] = l]
      BY <1>7, ProceedTyped
    <2>2. /\ inits' \in 0 .. MaxInits /\ pc' \in [Device -> Pcs]
          /\ \A e \in Device : pc'[e] = "off" <=> e > inits'
      BY <1>7, <2>1, PcMoves
    <2>3. job' \in [Device -> Cmd \cup {NoJob}] /\ cmds' \in Seq(Cmd)
      BY <1>7, ProceedTyped
    <2> QED
      BY <1>0, <1>s, <1>7, <2>2, <2>3 DEF moduleVars
  <1>8. ASSUME NEW d \in Device, Top(d) PROVE PgTypeOK' /\ QueuesTyped'
    <2>1. Handled(d) \in Ui
      BY <1>0, HandledTyped
    <2>2. Handled(d).cmds \in Seq(Cmd) /\ Handled(d).screen \in Screens
      BY <2>1 DEF Ui
    <2>3. taps' \in Seq(TapYs)
      BY <1>8, EmptySeq DEF Top
    <2> QED
      BY <1>7, <1>8, <2>2, <2>3 DEF Top
  <1>9. ASSUME NEW d \in Device, NextCommand(d) PROVE PgTypeOK' /\ QueuesTyped'
    BY <1>0, <1>7, <1>9 DEF NextCommand
  <1>10. ASSUME NEW d \in Device, DoStop(d) PROVE PgTypeOK' /\ QueuesTyped'
    <2>1. PICK l \in {"next", "settings"} : pc' = [pc EXCEPT ![d] = l]
      BY <1>10 DEF DoStop, Done, Continue
    <2>2. /\ inits' \in 0 .. MaxInits /\ pc' \in [Device -> Pcs]
          /\ \A e \in Device : pc'[e] = "off" <=> e > inits'
      BY <1>10, <2>1, PcMoves DEF DoStop
    <2>3. job' \in [Device -> Cmd \cup {NoJob}] /\ screen' \in Screens
      BY <1>0, <1>10 DEF DoStop, Done, Continue, Screens
    <2>4. WriteScanEnable(d, FALSE) /\ UNCHANGED <<cmds, taps, policy, count>>
      BY <1>10 DEF DoStop, pageVars
    <2>5. /\ scanning' \in [Device -> BOOLEAN] /\ pending' \in [Device -> 0 .. MaxCodes]
          /\ line' \in [Device -> Seq(1 .. MaxCodes)] /\ UNCHANGED register
      BY <1>0, <2>4, WriteTyped DEF WriteScanEnable
    <2> QED
      BY <1>0, <1>s, <2>2, <2>3, <2>4, <2>5
  <1>11. ASSUME NEW d \in Device, DoSettings(d) PROVE PgTypeOK' /\ QueuesTyped'
    <2>1. PICK l \in {"next", "enable"} : pc' = [pc EXCEPT ![d] = l]
      BY <1>11 DEF DoSettings, Done, Continue
    <2>2. /\ inits' \in 0 .. MaxInits /\ pc' \in [Device -> Pcs]
          /\ \A e \in Device : pc'[e] = "off" <=> e > inits'
      BY <1>11, <2>1, PcMoves DEF DoSettings
    <2>3. job' \in [Device -> Cmd \cup {NoJob}] /\ UNCHANGED <<cmds, taps, policy, count, screen>>
      BY <1>0, <1>11 DEF DoSettings, Done, Continue, pageVars
    <2>4. PICK b \in SettingsBytes : WriteSettings(d, b)
      <3>1. CASE job[d].cmd = "settings" /\ WriteSettings(d, bits(job[d].to))
        <4>1. job[d] \in Cmd \cup {NoJob}
          BY <1>0
        <4>2. PICK s \in Settings : job[d] = ApplySettings(s)
          BY <3>1, <4>1 DEF Cmd, StartScan, StopScan, NoJob
        <4>3. job[d].to = s
          BY <4>2 DEF ApplySettings
        <4> QED
          BY <3>1, <4>3, SettingsBytesTyped
      <3>2. CASE WriteSettings(d, bits(policy_settings(PolicyOf(job[d].policy))))
        BY <3>2, SettingsBytesTyped
      <3> QED
        BY <1>11, <3>1, <3>2 DEF DoSettings
    <2>5. /\ pending' \in [Device -> 0 .. MaxCodes] /\ register' \in [Device -> SettingsBytes]
          /\ line' \in [Device -> Seq(1 .. MaxCodes)] /\ UNCHANGED scanning
      <3>1. line' = [line EXCEPT ![d] =
                       IF scanning[d] /\ pending[d] # NoCode THEN <<pending[d]>> ELSE <<>>]
        BY <2>4 DEF WriteSettings
      <3>2. pending' = [pending EXCEPT ![d] = NoCode] /\ UNCHANGED scanning
            /\ register' = [register EXCEPT ![d] = b]
        BY <2>4 DEF WriteSettings
      <3>3. register' \in [Device -> SettingsBytes]
        BY <1>0, <3>2
      <3>4. line' \in [Device -> Seq(1 .. MaxCodes)] /\ pending' \in [Device -> 0 .. MaxCodes]
        BY <3>1, <3>2, WriteTyped
      <3> QED
        BY <3>2, <3>3, <3>4
    <2> QED
      BY <1>0, <1>s, <2>2, <2>3, <2>5
  <1>12. ASSUME NEW d \in Device, DoEnable(d) PROVE PgTypeOK' /\ QueuesTyped'
    <2>1. /\ inits' \in 0 .. MaxInits /\ pc' \in [Device -> Pcs]
          /\ \A e \in Device : pc'[e] = "off" <=> e > inits'
      BY <1>12, PcMoves DEF DoEnable, Done
    <2>2. /\ job' \in [Device -> Cmd \cup {NoJob}] /\ screen' \in Screens
          /\ UNCHANGED <<cmds, taps, policy, count>> /\ WriteScanEnable(d, TRUE)
      BY <1>0, <1>12 DEF DoEnable, Done, pageVars, Screens
    <2>3. /\ scanning' \in [Device -> BOOLEAN] /\ pending' \in [Device -> 0 .. MaxCodes]
          /\ line' \in [Device -> Seq(1 .. MaxCodes)] /\ UNCHANGED register
      BY <1>0, <2>2, WriteTyped DEF WriteScanEnable
    <2> QED
      BY <1>0, <1>s, <2>1, <2>2, <2>3
  <1>13. ASSUME NEW d \in Device, ReadScan(d) PROVE PgTypeOK' /\ QueuesTyped'
    <2>1. /\ inits' \in 0 .. MaxInits /\ pc' \in [Device -> Pcs]
          /\ \A e \in Device : pc'[e] = "off" <=> e > inits'
      BY <1>13, PcMoves DEF ReadScan, Continue
    <2>2. Tail(line[d]) \in Seq(1 .. MaxCodes)
      BY <1>0, <1>13, HeadTailProperties DEF ReadScan
    <2>3. line' \in [Device -> Seq(1 .. MaxCodes)]
      BY <1>0, <1>13, <2>2 DEF ReadScan
    <2> QED
      BY <1>0, <1>s, <1>13, <2>1, <2>3 DEF ReadScan, Continue, pageVars, Screens
  <1>14. ASSUME NEW d \in Device, RestEnds(d) PROVE PgTypeOK' /\ QueuesTyped'
    <2>1. /\ inits' \in 0 .. MaxInits /\ pc' \in [Device -> Pcs]
          /\ \A e \in Device : pc'[e] = "off" <=> e > inits'
      BY <1>14, PcMoves DEF RestEnds, Continue
    <2> QED
      BY <1>0, <1>s, <1>14, <2>1 DEF RestEnds, Continue, moduleVars, pageVars
  <1>15. CASE UNCHANGED vars
    BY <1>15 DEF vars, taskVars, moduleVars, pageVars, PgTypeOK, QueuesTyped
  <1>16. ASSUME NEW d \in Device, ReadOverflows(d) PROVE PgTypeOK' /\ QueuesTyped'
    <2>1. /\ inits' \in 0 .. MaxInits /\ pc' \in [Device -> Pcs]
          /\ \A e \in Device : pc'[e] = "off" <=> e > inits'
      BY <1>16, PcMoves DEF ReadOverflows
    <2>2. Tail(line[d]) \in Seq(1 .. MaxCodes)
      BY <1>0, <1>16, HeadTailProperties DEF ReadOverflows
    <2>3. line' \in [Device -> Seq(1 .. MaxCodes)]
      BY <1>0, <1>16, <2>2 DEF ReadOverflows
    <2> QED
      BY <1>0, <1>s, <1>16, <2>1, <2>3 DEF ReadOverflows, pageVars
  <1> QED
    BY <1>1, <1>2, <1>3, <1>4, <1>5, <1>6, <1>8, <1>9, <1>10, <1>11, <1>12, <1>13, <1>14, <1>15,
       <1>16 DEF Next, Task

----------------------------------------------------------------------------
(* Codes that were cleared do not come back *)

\* The elements of a line, as it is written, added to and read.
LEMMA LineCodes ==
  ASSUME NEW s \in Seq(1 .. MaxCodes), NEW x
  PROVE  /\ ToSet(<<>>) = {} /\ ToSet(<<x>>) = {x}
         /\ ToSet(Append(s, x)) \subseteq ToSet(s) \cup {x}
         /\ s # <<>> => ToSet(Tail(s)) \subseteq ToSet(s)
  <1>1. ToSet(<<>>) = {} /\ ToSet(<<x>>) = {x}
    BY DEF ToSet
  <1>2. ToSet(Append(s, x)) \subseteq ToSet(s) \cup {x}
    BY DEF ToSet
  <1>3. s # <<>> => ToSet(Tail(s)) \subseteq ToSet(s)
    <2> SUFFICES ASSUME s # <<>> PROVE ToSet(Tail(s)) \subseteq ToSet(s)
      OBVIOUS
    <2>1. /\ Len(s) \in Nat \ {0} /\ DOMAIN s = 1 .. Len(s)
          /\ DOMAIN Tail(s) = 1 .. Len(s) - 1
          /\ \A i \in 1 .. Len(s) - 1 : Tail(s)[i] = s[i + 1] /\ i + 1 \in 1 .. Len(s)
      OBVIOUS
    <2> QED
      BY <2>1 DEF ToSet
  <1> QED
    BY <1>1, <1>2, <1>3

\* A step after which no device has more codes than before.
LEMMA NothingAdded ==
  ASSUME CodesApart, StopDiscards, UNCHANGED <<count, cleared>>,
         \A d \in Device : Codes(d)' \subseteq Codes(d)
  PROVE  CodesApart' /\ StopDiscards'
  BY DEF CodesApart, StopDiscards

\* A register write takes what the line held.
LEMMA WriteTakes ==
  ASSUME PgTypeOK, QueuesTyped, NEW d \in Device, NEW on,
         line' = [line EXCEPT ![d] = IF on /\ pending[d] # NoCode THEN <<pending[d]>> ELSE <<>>],
         pending' = [pending EXCEPT ![d] = NoCode]
  PROVE  /\ \A e \in Device : Codes(e)' \subseteq Codes(e)
         /\ ~on => Codes(d)' = {}
         /\ \A e \in Device : e # d => Codes(e)' = Codes(e)
  <1>1. line \in [Device -> Seq(1 .. MaxCodes)] /\ pending \in [Device -> 0 .. MaxCodes]
    BY DEF PgTypeOK, QueuesTyped
  <1>2. \A e \in Device : e # d => line'[e] = line[e] /\ pending'[e] = pending[e]
    BY <1>1
  <1>3. \A e \in Device : e # d => Codes(e)' = Codes(e)
    BY <1>2 DEF Codes
  <1>4. pending'[d] = NoCode
    BY <1>1
  <1>5. line'[d] = IF on /\ pending[d] # NoCode THEN <<pending[d]>> ELSE <<>>
    BY <1>1
  <1>6. Codes(d)' = ToSet(line'[d])
    BY <1>4 DEF Codes
  <1>7. ToSet(line'[d]) = IF on /\ pending[d] # NoCode THEN {pending[d]} ELSE {}
    BY <1>1, <1>5, LineCodes
  <1>8. Codes(d)' \subseteq Codes(d) /\ (~on => Codes(d)' = {})
    BY <1>6, <1>7 DEF Codes
  <1> QED
    BY <1>3, <1>8

LEMMA CodesInit == Init => CodesApart /\ StopDiscards
  <1> SUFFICES ASSUME Init PROVE CodesApart /\ StopDiscards
    OBVIOUS
  <1>1. <<>> \in Seq(1 .. MaxCodes)
    BY EmptySeq
  <1>2. ToSet(<<>>) = {}
    BY <1>1, LineCodes
  <1>3. \A d \in Device : Codes(d) = {}
    BY <1>2 DEF Init, Codes
  <1> QED
    BY <1>3 DEF Init, CodesApart, StopDiscards

LEMMA CodesStep ==
  ASSUME PgTypeOK, QueuesTyped, CodesApart, StopDiscards, [Next]_vars
  PROVE  CodesApart' /\ StopDiscards'
  <1>0. /\ line \in [Device -> Seq(1 .. MaxCodes)] /\ pending \in [Device -> 0 .. MaxCodes]
        /\ count \in Nat /\ MaxCodes \in Nat
    BY ConstantsTyped DEF PgTypeOK, QueuesTyped, Constants
  <1>1. CASE UNCHANGED <<line, pending, cleared, count>>
    <2>1. \A d \in Device : Codes(d)' = Codes(d)
      BY <1>1 DEF Codes
    <2> QED
      BY <1>1, <2>1, NothingAdded
  <1>2. CASE Inject
    <2>1. count' = count + 1 /\ UNCHANGED cleared
      BY <1>2 DEF Inject
    <2>0. PICK n \in Device : n = inits
      BY <1>2 DEF Inject, PgTypeOK, Device
    <2>2. Codes(n)' \subseteq Codes(n) \cup {count'}
      <3>1. CASE line' = [line EXCEPT ![inits] = Append(@, count')] /\ UNCHANGED pending
        <4>1. line'[n] = Append(line[n], count') /\ pending'[n] = pending[n]
          BY <1>0, <2>0, <3>1
        <4>2. ToSet(line'[n]) \subseteq ToSet(line[n]) \cup {count'}
          BY <1>0, <2>1, <4>1, LineCodes
        <4> QED
          BY <4>1, <4>2, <2>1 DEF Codes
      <3>2. CASE pending' = [pending EXCEPT ![inits] = count'] /\ UNCHANGED line
        <4>1. line'[n] = line[n] /\ pending'[n] = count'
          BY <1>0, <2>0, <3>2
        <4> QED
          BY <4>1, <2>1 DEF Codes
      <3> QED
        BY <1>2, <3>1, <3>2 DEF Inject
    <2>3. \A d \in Device : d # n => Codes(d)' = Codes(d)
      <3> TAKE d \in Device
      <3> HAVE d # n
      <3>1. line'[d] = line[d] /\ pending'[d] = pending[d]
        BY <1>0, <1>2, <2>0 DEF Inject
      <3> QED
        BY <3>1 DEF Codes
    <2>4. /\ count' \notin 1 .. count /\ count' \in 1 .. count'
          /\ 1 .. count \subseteq 1 .. count'
      BY <1>0, <2>1
    <2>5. \A d \in Device : Codes(d)' \subseteq Codes(d) \cup {count'} /\ Codes(d) \subseteq 1 .. count
      BY <2>2, <2>3 DEF CodesApart
    <2>6. cleared' \subseteq 1 .. count
      BY <2>1 DEF CodesApart
    <2>7. StopDiscards'
      BY <2>1, <2>4, <2>5, <2>6 DEF StopDiscards
    <2>8. \A d, e \in Device : d # e => Codes(d)' \cap Codes(e)' = {}
      BY <2>2, <2>3, <2>4, <2>5 DEF CodesApart
    <2> QED
      BY <2>4, <2>5, <2>6, <2>7, <2>8 DEF CodesApart
  <1>3. ASSUME NEW d \in Device, Boot(d) PROVE CodesApart' /\ StopDiscards'
    <2>1. \A e \in Device : line'[e] = line[e] /\ pending'[e] \in {pending[e], NoCode}
      BY <1>0, <1>3 DEF Boot
    <2>2. \A e \in Device : Codes(e)' \subseteq Codes(e)
      BY <2>1 DEF Codes
    <2> QED
      BY <1>3, <2>2, NothingAdded DEF Boot
  <1>4. ASSUME NEW d \in Device, DoStop(d) PROVE CodesApart' /\ StopDiscards'
    <2>1. /\ \A e \in Device : Codes(e)' \subseteq Codes(e)
          /\ Codes(d)' = {} /\ cleared' = cleared \cup Codes(d) /\ UNCHANGED count
      <3>1. WriteScanEnable(d, FALSE) /\ UNCHANGED count
        BY <1>4 DEF DoStop
      <3> QED
        BY <3>1, WriteTakes DEF WriteScanEnable
    <2> QED
      BY <2>1 DEF CodesApart, StopDiscards
  <1>5. ASSUME NEW d \in Device, DoSettings(d) PROVE CodesApart' /\ StopDiscards'
    <2>1. (\E b : WriteSettings(d, b)) /\ UNCHANGED count
      BY <1>5 DEF DoSettings
    <2>2. /\ line' = [line EXCEPT ![d] =
                        IF scanning[d] /\ pending[d] # NoCode THEN <<pending[d]>> ELSE <<>>]
          /\ pending' = [pending EXCEPT ![d] = NoCode] /\ UNCHANGED cleared
      BY <2>1 DEF WriteSettings
    <2>3. \A e \in Device : Codes(e)' \subseteq Codes(e)
      BY <2>2, WriteTakes
    <2> QED
      BY <2>1, <2>2, <2>3, NothingAdded
  <1>6. ASSUME NEW d \in Device, DoEnable(d) PROVE CodesApart' /\ StopDiscards'
    <2>1. WriteScanEnable(d, TRUE) /\ UNCHANGED count
      BY <1>6 DEF DoEnable
    <2>2. (\A e \in Device : Codes(e)' \subseteq Codes(e)) /\ UNCHANGED cleared
      BY <2>1, WriteTakes DEF WriteScanEnable
    <2> QED
      BY <2>1, <2>2, NothingAdded
  <1>7. ASSUME NEW d \in Device, ReadScan(d) PROVE CodesApart' /\ StopDiscards'
    <2>1. /\ line[d] # <<>> /\ line'[d] = Tail(line[d]) /\ UNCHANGED <<pending, count, cleared>>
          /\ \A e \in Device : e # d => line'[e] = line[e]
      BY <1>0, <1>7 DEF ReadScan
    <2>2. ToSet(line'[d]) \subseteq ToSet(line[d])
      BY <1>0, <2>1, LineCodes
    <2>3. \A e \in Device : Codes(e)' \subseteq Codes(e)
      BY <2>1, <2>2 DEF Codes
    <2> QED
      BY <2>1, <2>3, NothingAdded
  <1>9. ASSUME NEW d \in Device, ReadOverflows(d) PROVE CodesApart' /\ StopDiscards'
    <2>1. /\ line[d] # <<>> /\ line'[d] \in {line[d], Tail(line[d])}
          /\ UNCHANGED <<pending, count, cleared>>
          /\ \A e \in Device : e # d => line'[e] = line[e]
      BY <1>0, <1>9 DEF ReadOverflows
    <2>2. ToSet(line'[d]) \subseteq ToSet(line[d])
      BY <1>0, <2>1, LineCodes
    <2>3. \A e \in Device : Codes(e)' \subseteq Codes(e)
      BY <2>1, <2>2 DEF Codes
    <2> QED
      BY <2>1, <2>3, NothingAdded
  <1>8. CASE pg_init \/ (\E p \in StartIdxs : pg_cmd_start(p)) \/ pg_cmd_stop
               \/ (\E y \in TapYs : pg_lcd_tap(y)) \/ UNCHANGED vars
               \/ \E d \in Device : Top(d) \/ NextCommand(d) \/ RestEnds(d)
    <2>1. UNCHANGED <<line, pending, cleared, count>>
      BY <1>8 DEF pg_init, pg_cmd_start, pg_cmd_stop, pg_lcd_tap, Top, NextCommand, RestEnds,
         moduleVars, vars
    <2> QED
      BY <1>1, <2>1
  <1> QED
    BY <1>2, <1>3, <1>4, <1>5, <1>6, <1>7, <1>8, <1>9 DEF Next, Task

----------------------------------------------------------------------------
(* The scanning screen *)

LEMMA SettledInit == Init => SettledIsTrue
  BY DEF Init, SettledIsTrue

LEMMA SettledStep ==
  ASSUME PgTypeOK, QueuesTyped, SettledIsTrue, [Next]_vars
  PROVE  SettledIsTrue'
  <1> SUFFICES ASSUME inits' = 1, screen' = "scanning", Settled' PROVE scanning'[1]
    BY DEF SettledIsTrue
  <1>0. /\ 1 \in Device /\ pc \in [Device -> Pcs] /\ scanning \in [Device -> BOOLEAN]
        /\ job \in [Device -> Cmd \cup {NoJob}]
        /\ \A e \in Device : pc[e] = "off" <=> e > inits
    BY ConstantsTyped DEF PgTypeOK, QueuesTyped, Constants, Device, Pcs
  <1>1. ~pg_init
    BY DEF pg_init
  <1>2. UNCHANGED inits
    BY <1>1 DEF Next, Task, pg_cmd_start, pg_cmd_stop, pg_lcd_tap, Inject, Boot, Top, NextCommand,
       DoStop, DoSettings, DoEnable, ReadScan, ReadOverflows, RestEnds, vars
  <1>3. \A d \in Device : d # 1 => pc[d] = "off"
    BY <1>0, <1>2 DEF Device
  <1>4. CASE UNCHANGED <<pc, job, screen, scanning>>
    BY <1>2, <1>4 DEF SettledIsTrue, Settled
  <1>5. CASE (\E p \in StartIdxs : pg_cmd_start(p)) \/ pg_cmd_stop
               \/ (\E y \in TapYs : pg_lcd_tap(y)) \/ Inject \/ UNCHANGED vars
    <2>1. UNCHANGED <<pc, job, screen, scanning>>
      BY <1>5 DEF pg_cmd_start, pg_cmd_stop, pg_lcd_tap, Inject, taskVars, moduleVars, vars
    <2> QED
      BY <1>4, <2>1
  <1>6. ASSUME NEW d \in Device, Task(d) PROVE scanning'[1]
    <2>1. d = 1
      BY <1>3, <1>6 DEF Task, Boot, Top, NextCommand, DoStop, DoSettings, DoEnable, ReadScan,
         ReadOverflows, RestEnds
    <2>2. ~Boot(1) /\ ~ReadScan(1)
      BY DEF Boot, ReadScan
    <2>3. CASE Top(1)
      <3>1. screen = "scanning" /\ Settled /\ UNCHANGED scanning
        <4>1. Handled(1).screen = "scanning" => screen = "scanning"
          BY <1>0, HandledTyped, LenProperties DEF PgTypeOK, QueuesTyped, Screens
        <4> QED
          BY <2>3, <4>1 DEF Top, Settled, moduleVars
      <3> QED
        BY <1>2, <3>1 DEF SettledIsTrue
    <2>4. CASE NextCommand(1) \/ RestEnds(1) \/ ReadOverflows(1)
      BY <1>2, <2>4 DEF NextCommand, RestEnds, ReadOverflows, Settled, SettledIsTrue, moduleVars,
         pageVars
    <2>5. ~DoStop(1)
      <3> SUFFICES ASSUME DoStop(1) PROVE FALSE
        OBVIOUS
      <3>1. job[1].cmd = "start" /\ Continue(1, "settings")
        BY DEF DoStop
      <3>2. pc'[1] = "settings" /\ job'[1].cmd = "start"
        BY <1>0, <3>1 DEF Continue
      <3> QED
        BY <3>2 DEF Settled
    <2>6. CASE DoSettings(1)
      <3>1. UNCHANGED <<scanning, screen>>
        BY <2>6 DEF DoSettings, WriteSettings
      <3>2. CASE job[1].cmd = "settings"
        BY <1>2, <2>6, <3>1, <3>2 DEF DoSettings, Settled, SettledIsTrue
      <3>3. CASE Continue(1, "enable")
        <4>1. pc'[1] = "enable"
          BY <1>0, <3>3 DEF Continue
        <4> QED
          BY <4>1 DEF Settled
      <3> QED
        BY <2>6, <3>2, <3>3 DEF DoSettings
    <2>7. CASE DoEnable(1)
      BY <1>0, <2>7 DEF DoEnable, WriteScanEnable
    <2> QED
      BY <1>6, <2>1, <2>2, <2>3, <2>4, <2>5, <2>6, <2>7 DEF Task
  <1> QED
    BY <1>1, <1>5, <1>6 DEF Next

----------------------------------------------------------------------------
(* The theorems *)

LEMMA PgInvAlways == Spec => []PgInv
  <1>1. Init => PgInv
    BY TypedInit, CodesInit, SettledInit DEF PgInv
  <1>2. PgInv /\ [Next]_vars => PgInv'
    BY TypedStep, CodesStep, SettledStep DEF PgInv
  <1> QED
    BY <1>1, <1>2, PTL DEF Spec

\* The registers always hold settings that a page can show, whatever was tapped
\* and started, for any number of devices, codes and taps.
THEOREM PlaygroundTyped == Spec => []PgTypeOK
  <1>1. PgInv => PgTypeOK
    BY DEF PgInv
  <1> QED
    BY <1>1, PgInvAlways, PTL

\* What a module or its line had when it was told to stop never comes back to
\* either: a read finds only codes that were decoded later.
THEOREM StoppedCodesStayAway == Spec => []StopDiscards
  <1>1. PgInv => StopDiscards
    BY DEF PgInv
  <1> QED
    BY <1>1, PgInvAlways, PTL

\* With one device, whatever the taps of a pass were, the scanning screen is
\* shown between commands only over a module that scans.
THEOREM ScanningScreenTrue == Spec => []ScanningScreenIsTrue
  <1>1. PgInv => ScanningScreenIsTrue
    BY DEF PgInv, SettledIsTrue, Settled, ScanningScreenIsTrue
  <1> QED
    BY <1>1, PgInvAlways, PTL

=============================================================================
