------------------------------ MODULE Protocol ------------------------------
(***************************************************************************)
(* The frames of the GM65 (protocol.rs), byte by byte, and the two parsers *)
(* that cut a stream into them: the drivers', for replies, and the         *)
(* playground's simulated module, for commands (playground-wasm lib.rs).   *)
(* The other modules take from here that a frame has a kind, a register    *)
(* and a value, and nothing else.                                          *)
(***************************************************************************)
EXTENDS ScannerSettings, Sequences

HEADER == <<126, 0>>                    \* 7E 00
CRC_NO_CHECKSUM == <<171, 205>>         \* AB CD
SAVE_SENTINEL == <<222, 200>>           \* DE C8
RESPONSE_PREFIX == <<2, 0, 0, 1>>
FIND_BAUD_PREFIX == <<2, 0, 0, 2>>
RESPONSE_LEN == 7

CMD_GET_PARAM == 7
CMD_SET_PARAM == 8
CMD_SAVE == 9

CR == 13
LF == 10
Eol == {CR, LF}

Register ==
  [Settings |-> 0, ScanEnable |-> 2, ScanInterval |-> 5, Timeout |-> 6, SerialOutput |-> 13,
   SameBarcodeDelay |-> 19, BaudRate |-> 42, BarType |-> 44, QrEnable |-> 63, RawMode |-> 188,
   FactoryReset |-> 217, Version |-> 226]

Word == 0 .. 256 * 256 - 1
Address == Byte \X Byte
address_bytes(register) == <<register \div 256, register % 256>>
AddressOf(bytes) == 256 * bytes[1] + bytes[2]

----------------------------------------------------------------------------
(* Baud rates *)

BaudRate == {9600, 19200, 38400, 57600, 115200}

value(rate) ==
  CASE rate = 9600   -> 0
    [] rate = 19200  -> 1
    [] rate = 38400  -> 2
    [] rate = 57600  -> 3
    [] rate = 115200 -> 26

\* The zone-bit code of a rate in the reply to find-baud.
ZoneCode(rate) ==
  CASE rate = 9600   -> 313
    [] rate = 19200  -> 156
    [] rate = 38400  -> 78
    [] rate = 57600  -> 52
    [] rate = 115200 -> 26

None == [no |-> "value"]
Some(v) == [some |-> v]

from_find_baud_code(code) ==
  IF \E rate \in BaudRate : ZoneCode(rate) = code
    THEN Some(CHOOSE rate \in BaudRate : ZoneCode(rate) = code)
    ELSE None

----------------------------------------------------------------------------
(* Commands: one byte of length stands for the value's bytes, whatever the *)
(* module's documents say it counts.                                       *)

Short(type, addr, val, end) ==
  <<HEADER[1], HEADER[2], type, 1, addr[1], addr[2], val, end[1], end[2]>>

build_get_setting(addr) == Short(CMD_GET_PARAM, addr, 1, CRC_NO_CHECKSUM)
build_set_setting(addr, val) == Short(CMD_SET_PARAM, addr, val, CRC_NO_CHECKSUM)
build_set_setting_2byte(addr, val) ==
  <<HEADER[1], HEADER[2], CMD_SET_PARAM, 2, addr[1], addr[2], val[1], val[2],
    CRC_NO_CHECKSUM[1], CRC_NO_CHECKSUM[2]>>
build_save_settings == Short(CMD_SAVE, <<0, 0>>, 0, SAVE_SENTINEL)
build_factory_reset == build_set_setting(address_bytes(Register.FactoryReset), 85)
build_trigger_scan == build_set_setting(address_bytes(Register.ScanEnable), 1)
build_find_baud ==
  Short(CMD_GET_PARAM, address_bytes(Register.BaudRate), 2, <<216, 15>>)  \* D8 0F

set_baud_rate(rate) ==
  build_set_setting_2byte(address_bytes(Register.BaudRate), <<value(rate), 0>>)

Commands ==
  {build_get_setting(addr) : addr \in Address}
    \cup {build_set_setting(addr, val) : addr \in Address, val \in Byte}
    \cup {build_set_setting_2byte(addr, val) : addr \in Address, val \in Byte \X Byte}
    \cup {build_save_settings, build_find_baud}

----------------------------------------------------------------------------
(* Replies *)

ack(v) == <<2, 0, 0, 1, v, 51, 49>>

\* The 8-byte echo, with any two bytes at its end.
FindBaudEcho(code, end) == <<2, 0, 0, 2, code % 256, code \div 256, end[1], end[2]>>

StartsWith(data, prefix) ==
  Len(data) >= Len(prefix) /\ \A k \in DOMAIN prefix : data[k] = prefix[k]

\* Gm65Response::parse: Invalid is None here. The suffix is not looked at.
parse(data) ==
  IF Len(data) = RESPONSE_LEN /\ StartsWith(data, RESPONSE_PREFIX) THEN Some(data[5]) ELSE None

parse_find_baud_response(data) ==
  IF Len(data) >= 6 /\ StartsWith(data, FIND_BAUD_PREFIX)
    THEN Some(data[5] + 256 * data[6]) ELSE None

\* What find_baud_rate makes of the eight bytes it read.
find_baud_rate(data) ==
  LET code == parse_find_baud_response(data)
  IN  IF code = None THEN None ELSE from_find_baud_code(code.some)

----------------------------------------------------------------------------
(* feed_byte of the simulated module: bytes outside a frame are skipped, a *)
(* frame ends where its length says, two bytes before the end of a command *)

Total(frame) == 4 + frame[4] + 2

Collects(frame) == [frame |-> frame, taken |-> <<>>]

feed_byte(frame, b) ==
  LET grown == Append(frame, b)
      stray == frame = <<>> /\ b # HEADER[1]
      broken == Len(grown) = 2 /\ b # HEADER[2]
  IN  IF stray \/ broken THEN Collects(<<>>)
      ELSE IF Len(grown) < 4 \/ Len(grown) < Total(grown) THEN Collects(grown)
      ELSE [frame |-> <<>>, taken |-> grown]

\* What the module does with a frame it has taken.
Meaning(taken) ==
  [type  |-> taken[3],
   addr  |-> AddressOf(<<taken[5], taken[6]>>),
   value |-> IF Len(taken) >= 7 THEN taken[7] ELSE 0]

=============================================================================
