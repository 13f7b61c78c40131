-------------------------- MODULE ScannerSettings --------------------------
(***************************************************************************)
(* The SETTINGS register (settings.rs), the scan policies that write it    *)
(* (policy.rs) and the settings pages that edit it: the firmware's         *)
(* (scanner_utils.rs) and the playground's (ui.rs).                        *)
(***************************************************************************)
EXTENDS Integers

Level == [Off |-> 0, Reading |-> 1, Always |-> 2]
Mode == [Manual |-> 0, Command |-> 1, Continuous |-> 2, Induction |-> 3]

Settings ==
  [always_on : {0, 1}, buzzer : {0, 1}, aim : 0 .. 2, light : 0 .. 2, read_mode : 0 .. 3]

Byte == 0 .. 255

bits(s) ==
  128 * s.always_on + 64 * s.buzzer + 16 * s.aim + 4 * s.light + s.read_mode

\* Of the four values of two bits, two mean "always".
LevelOf(two) == IF two = 3 THEN Level.Always ELSE two

from_bits(raw) ==
  [always_on |-> raw \div 128,
   buzzer    |-> (raw \div 64) % 2,
   aim       |-> LevelOf((raw \div 16) % 4),
   light     |-> LevelOf((raw \div 4) % 4),
   read_mode |-> raw % 4]

SettingsBytes == {bits(s) : s \in Settings}

Default ==
  [always_on |-> 1, buzzer |-> 0, aim |-> Level.Reading, light |-> Level.Off,
   read_mode |-> Mode.Command]

CMD_MODE == 145  \* 0x91

Policies == {"SilentContinuous", "BuzzingContinuous", "SilentCommand"}

policy_settings(policy) ==
  LET continuous == [Default EXCEPT !.read_mode = Mode.Continuous] IN
  CASE policy = "SilentContinuous"  -> continuous
    [] policy = "BuzzingContinuous" -> [continuous EXCEPT !.buzzer = 1]
    [] policy = "SilentCommand"     -> Default

\* toggle_settings_row: the rows of the firmware's page flip between two values.
Flip(level) == IF level = Level.Reading THEN Level.Off ELSE Level.Reading

toggle_settings_row(s, row) ==
  CASE row = 0 -> [s EXCEPT !.buzzer = 1 - @]
    [] row = 1 -> [s EXCEPT !.aim = Flip(@)]
    [] row = 2 -> [s EXCEPT !.light = Flip(@)]
    [] row = 3 -> [s EXCEPT !.read_mode =
                     IF @ = Mode.Command THEN Mode.Continuous ELSE Mode.Command]
    [] OTHER   -> s

\* handle_tap: the playground's rows go round all values.
cycle_row_NoWrap(s, row) ==
  CASE row = "Buzzer" -> [s EXCEPT !.buzzer = 1 - @]
    [] row = "Aim"    -> [s EXCEPT !.aim = @ + 1]
    [] row = "Light"  -> [s EXCEPT !.light = @ + 1]
    [] row = "Mode"   -> [s EXCEPT !.read_mode = (@ + 1) % 4]
cycle_row(s, row) ==
  CASE row = "Buzzer" -> [s EXCEPT !.buzzer = 1 - @]
    [] row = "Aim"    -> [s EXCEPT !.aim = (@ + 1) % 3]
    [] row = "Light"  -> [s EXCEPT !.light = (@ + 1) % 3]
    [] row = "Mode"   -> [s EXCEPT !.read_mode = (@ + 1) % 4]

=============================================================================
