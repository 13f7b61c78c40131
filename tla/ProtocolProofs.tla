--------------------------- MODULE ProtocolProofs ---------------------------
(***************************************************************************)
(* What the frames of the GM65 promise, for every register, value and      *)
(* rate, and the programs that bring host and module to one baud rate, for *)
(* every set of rates a module may be found at.                            *)
(***************************************************************************)
EXTENDS Protocol, BaudLadder, TLAPS

----------------------------------------------------------------------------
(* Commands *)

\* Two bytes of a command are not counted, and they cannot begin a frame.
Delimited(f) ==
  /\ f \in Seq(Byte)
  /\ Len(f) >= 8
  /\ f[1] = HEADER[1] /\ f[2] = HEADER[2]
  /\ Total(f) = Len(f) - 2
  /\ f[Len(f) - 1] # HEADER[1] /\ f[Len(f)] # HEADER[1]

LEMMA WordsTyped == \A w \in Word : w \in Nat /\ w < 256 * 256
<1>1. ASSUME NEW n \in Nat, NEW w \in 0 .. n - 1 PROVE w \in Nat /\ w < n
  OBVIOUS
<1>2. 256 * 256 \in Nat
  OBVIOUS
<1> QED
  BY <1>1, <1>2, Zenon DEF Word

LEMMA AddressesAreBytes ==
  \A register \in Word :
    /\ address_bytes(register) \in Address
    /\ AddressOf(address_bytes(register)) = register
<1> SUFFICES ASSUME NEW register \in Word
             PROVE  /\ address_bytes(register) \in Address
                    /\ AddressOf(address_bytes(register)) = register
  OBVIOUS
<1>1. /\ register \div 256 \in Byte /\ register % 256 \in Byte
      /\ 256 * (register \div 256) + (register % 256) = register
  <2>1. register \in Nat /\ register < 256 * 256
    BY WordsTyped
  <2>2. register % 256 \in Byte
    BY <2>1 DEF Byte
  <2>3. register \div 256 \in Byte
    BY <2>1 DEF Byte
  <2>4. 256 * (register \div 256) + (register % 256) = register
    BY <2>1
  <2> QED
    BY <2>2, <2>3, <2>4
<1>2. address_bytes(register) \in Address
  BY <1>1, Zenon DEF address_bytes, Address
<1>3. /\ address_bytes(register)[1] = register \div 256
      /\ address_bytes(register)[2] = register % 256
  BY DEF address_bytes
<1> QED
  BY <1>1, <1>2, <1>3 DEF AddressOf

LEMMA EndsAreBytes ==
  /\ CRC_NO_CHECKSUM \in Address /\ CRC_NO_CHECKSUM[1] # 126 /\ CRC_NO_CHECKSUM[2] # 126
  /\ SAVE_SENTINEL \in Address /\ SAVE_SENTINEL[1] # 126 /\ SAVE_SENTINEL[2] # 126
  /\ <<216, 15>> \in Address /\ <<0, 0>> \in Address
  /\ {0, 1, 2, CMD_GET_PARAM, CMD_SET_PARAM, CMD_SAVE} \subseteq Byte
  BY DEF CRC_NO_CHECKSUM, SAVE_SENTINEL, Address, Byte, CMD_GET_PARAM, CMD_SET_PARAM, CMD_SAVE

LEMMA ShortDelimited ==
  ASSUME NEW type \in Byte, NEW addr \in Address, NEW val \in Byte,
         NEW end \in Address, end[1] # 126, end[2] # 126
  PROVE  Delimited(Short(type, addr, val, end))
<1> DEFINE f == Short(type, addr, val, end)
<1>1. addr[1] \in Byte /\ addr[2] \in Byte /\ end[1] \in Byte /\ end[2] \in Byte
  BY DEF Address
<1>2. f \in Seq(Byte) /\ Len(f) = 9
  BY <1>1 DEF Short, Byte, HEADER
<1>3. f[1] = 126 /\ f[2] = 0 /\ f[4] = 1 /\ f[8] = end[1] /\ f[9] = end[2]
  BY DEF Short, HEADER
<1> HIDE DEF f
<1>4. Delimited(f)
  BY <1>2, <1>3 DEF Delimited, Total, HEADER
<1> QED
  BY <1>4 DEF f

LEMMA CommandsDelimited == \A f \in Commands : Delimited(f)
<1>1. \A addr \in Address : Delimited(build_get_setting(addr))
  BY ShortDelimited, EndsAreBytes DEF build_get_setting
<1>2. \A addr \in Address, val \in Byte : Delimited(build_set_setting(addr, val))
  BY ShortDelimited, EndsAreBytes DEF build_set_setting
<1>3. ASSUME NEW addr \in Address, NEW val \in Byte \X Byte
      PROVE  Delimited(build_set_setting_2byte(addr, val))
  <2> DEFINE f == build_set_setting_2byte(addr, val)
  <2>1. addr[1] \in Byte /\ addr[2] \in Byte /\ val[1] \in Byte /\ val[2] \in Byte
    BY DEF Address
  <2>2. f \in Seq(Byte) /\ Len(f) = 10
    BY <2>1 DEF build_set_setting_2byte, Byte, HEADER, CRC_NO_CHECKSUM, CMD_SET_PARAM
  <2>3. f[1] = 126 /\ f[2] = 0 /\ f[4] = 2 /\ f[9] = 171 /\ f[10] = 205
    BY DEF build_set_setting_2byte, HEADER, CRC_NO_CHECKSUM
  <2> HIDE DEF f
  <2>4. Delimited(f)
    BY <2>2, <2>3 DEF Delimited, Total, HEADER
  <2> QED
    BY <2>4 DEF f
<1>4. Delimited(build_save_settings)
  BY ShortDelimited, EndsAreBytes DEF build_save_settings
<1>5. Delimited(build_find_baud)
  <2>1. address_bytes(Register.BaudRate) \in Address
    <3>1. Register.BaudRate = 42
      BY DEF Register
    <3>2. 42 \in Word
      BY DEF Word
    <3> QED
      BY <3>1, <3>2, AddressesAreBytes
  <2>2. <<216, 15>>[1] # 126 /\ <<216, 15>>[2] # 126
    OBVIOUS
  <2> QED
    BY <2>1, <2>2, ShortDelimited, EndsAreBytes DEF build_find_baud
<1> QED
  BY <1>1, <1>2, <1>3, <1>4, <1>5 DEF Commands

LEMMA FeedCases ==
  ASSUME NEW frame, NEW b, NEW grown, grown = Append(frame, b),
         ~(frame = <<>> /\ b # HEADER[1]), ~(Len(grown) = 2 /\ b # HEADER[2])
  PROVE  /\ (Len(grown) < 4 \/ Len(grown) < Total(grown)) => feed_byte(frame, b) = Collects(grown)
         /\ ~(Len(grown) < 4 \/ Len(grown) < Total(grown)) =>
              feed_byte(frame, b) = [frame |-> <<>>, taken |-> grown]
  BY Zenon DEF feed_byte

\* What the module holds of a command after its first k bytes.
Held(f, k) == IF k < Len(f) - 2 THEN SubSeq(f, 1, k) ELSE <<>>

\* A module between two frames takes every command once and whole, whatever
\* its address and value, and is between two frames again when its last byte
\* has come (lib.rs:89): the sentinels of protocol.rs:39, 45, which no length
\* counts, are skipped.
THEOREM CommandsAreTakenWhole ==
  \A f \in Commands :
    /\ Held(f, 0) = <<>> /\ Held(f, Len(f)) = <<>>
    /\ \A k \in 1 .. Len(f) :
         feed_byte(Held(f, k - 1), f[k]) =
           [frame |-> Held(f, k),
            taken |-> IF k = Len(f) - 2 THEN SubSeq(f, 1, k) ELSE <<>>]
<1> SUFFICES ASSUME NEW f \in Commands
             PROVE  /\ Held(f, 0) = <<>> /\ Held(f, Len(f)) = <<>>
                    /\ \A k \in 1 .. Len(f) :
                         feed_byte(Held(f, k - 1), f[k]) =
                           [frame |-> Held(f, k),
                            taken |-> IF k = Len(f) - 2 THEN SubSeq(f, 1, k) ELSE <<>>]
  OBVIOUS
<1>1. Delimited(f)
  BY CommandsDelimited
<1>2. f \in Seq(Byte) /\ Len(f) \in Nat /\ Len(f) >= 8
  BY <1>1 DEF Delimited
<1>3. Held(f, 0) = <<>> /\ Held(f, Len(f)) = <<>>
  BY <1>2 DEF Held
<1>4. ASSUME NEW k \in 1 .. Len(f)
      PROVE  feed_byte(Held(f, k - 1), f[k]) =
               [frame |-> Held(f, k),
                taken |-> IF k = Len(f) - 2 THEN SubSeq(f, 1, k) ELSE <<>>]
  <2>1. CASE k <= Len(f) - 2
    <3> DEFINE grown == SubSeq(f, 1, k)
    <3>1. Held(f, k - 1) = SubSeq(f, 1, k - 1)
      BY <2>1, <1>2 DEF Held
    <3>2. Append(Held(f, k - 1), f[k]) = grown /\ Len(grown) = k
      BY <3>1, <1>2
    <3>3. Held(f, k - 1) = <<>> => k = 1
      BY <3>1, <1>2
    <3>4. k >= 4 => Total(grown) = Len(f) - 2
      BY <1>1, <1>2 DEF Delimited, Total
    <3>5. (k = 1 => f[k] = HEADER[1]) /\ (k = 2 => f[k] = HEADER[2])
      BY <1>1 DEF Delimited
    <3> HIDE DEF grown
    <3>6. CASE k = Len(f) - 2
      <4>1. feed_byte(Held(f, k - 1), f[k]) = [frame |-> <<>>, taken |-> grown]
        <5>1. k # 1 /\ k # 2 /\ ~(k < 4 \/ k < Total(grown))
          BY <3>4, <3>6, <1>2
        <5> QED
          BY <5>1, <3>2, <3>3, FeedCases
      <4>2. Held(f, k) = <<>>
        BY <3>6, <1>2 DEF Held
      <4> QED
        BY <4>1, <4>2, <3>6 DEF grown
    <3>7. CASE k < Len(f) - 2
      <4>1. feed_byte(Held(f, k - 1), f[k]) = Collects(grown)
        <5>1. k < 4 \/ k < Total(grown)
          BY <3>4, <3>7, <1>2
        <5>2. ~(Held(f, k - 1) = <<>> /\ f[k] # HEADER[1])
          BY <3>3, <3>5
        <5>3. ~(Len(grown) = 2 /\ f[k] # HEADER[2])
          BY <3>2, <3>5
        <5> QED
          BY <5>1, <5>2, <5>3, <3>2, FeedCases
      <4>2. Held(f, k) = grown /\ k # Len(f) - 2
        BY <3>7, <1>2 DEF Held, grown
      <4> QED
        BY <4>1, <4>2 DEF Collects
    <3> QED
      BY <3>6, <3>7, <2>1, <1>2
  <2>2. CASE k > Len(f) - 2
    <3>1. Held(f, k - 1) = <<>> /\ Held(f, k) = <<>> /\ k # Len(f) - 2
      BY <2>2, <1>2 DEF Held
    <3>2. f[k] # HEADER[1]
      BY <2>2, <1>1, <1>2 DEF Delimited
    <3> QED
      BY <3>1, <3>2 DEF feed_byte, Collects
  <2> QED
    BY <2>1, <2>2, <1>2
<1> QED
  BY <1>3, <1>4

\* What is taken of a command is what the driver meant: the register and its
\* value (protocol.rs:207, 222).
THEOREM CommandsMeanWhatTheySay ==
  \A register \in Word, v \in Byte :
    /\ Meaning(SubSeq(build_get_setting(address_bytes(register)), 1, 7)) =
         [type |-> CMD_GET_PARAM, addr |-> register, value |-> 1]
    /\ Meaning(SubSeq(build_set_setting(address_bytes(register), v), 1, 7)) =
         [type |-> CMD_SET_PARAM, addr |-> register, value |-> v]
<1> SUFFICES ASSUME NEW register \in Word, NEW v \in Byte
             PROVE  /\ Meaning(SubSeq(build_get_setting(address_bytes(register)), 1, 7)) =
                         [type |-> CMD_GET_PARAM, addr |-> register, value |-> 1]
                    /\ Meaning(SubSeq(build_set_setting(address_bytes(register), v), 1, 7)) =
                         [type |-> CMD_SET_PARAM, addr |-> register, value |-> v]
  OBVIOUS
<1> DEFINE addr == address_bytes(register)
<1>1. addr \in Address /\ AddressOf(addr) = register
  BY AddressesAreBytes
<1>2. addr = <<addr[1], addr[2]>> /\ addr[1] \in Byte /\ addr[2] \in Byte
  BY <1>1 DEF Address
<1> HIDE DEF addr
<1>3. ASSUME NEW type \in Byte, NEW val \in Byte
      PROVE  Meaning(SubSeq(Short(type, addr, val, CRC_NO_CHECKSUM), 1, 7)) =
               [type |-> type, addr |-> register, value |-> val]
  <2> DEFINE f == Short(type, addr, val, CRC_NO_CHECKSUM)
  <2>1. f \in Seq(Byte) /\ Len(f) = 9
    BY <1>2 DEF Short, Byte, HEADER, CRC_NO_CHECKSUM
  <2>2. f[3] = type /\ f[5] = addr[1] /\ f[6] = addr[2] /\ f[7] = val
    BY DEF Short
  <2> HIDE DEF f
  <2>3. LET taken == SubSeq(f, 1, 7)
        IN  /\ Len(taken) = 7
            /\ taken[3] = type /\ taken[5] = addr[1] /\ taken[6] = addr[2] /\ taken[7] = val
    BY <2>1, <2>2
  <2>4. Meaning(SubSeq(f, 1, 7)) = [type |-> type, addr |-> AddressOf(<<addr[1], addr[2]>>), value |-> val]
    BY <2>3 DEF Meaning
  <2> QED
    BY <2>4, <1>1, <1>2 DEF f
<1>4. CMD_GET_PARAM \in Byte /\ CMD_SET_PARAM \in Byte /\ 1 \in Byte
  BY EndsAreBytes
<1>5. /\ build_get_setting(addr) = Short(CMD_GET_PARAM, addr, 1, CRC_NO_CHECKSUM)
      /\ build_set_setting(addr, v) = Short(CMD_SET_PARAM, addr, v, CRC_NO_CHECKSUM)
  BY DEF build_get_setting, build_set_setting
<1> QED
  BY <1>3, <1>4, <1>5 DEF addr

----------------------------------------------------------------------------
(* Replies and rates *)

\* Of the two kinds of reply that share the line, neither parser takes the
\* other's, and each gives back what was sent (protocol.rs:195, 309).
THEOREM RepliesToldApart ==
  /\ \A v \in Byte :
       parse(ack(v)) = Some(v) /\ parse_find_baud_response(ack(v)) = None
  /\ \A code \in Word, end \in Byte \X Byte :
       /\ parse_find_baud_response(FindBaudEcho(code, end)) = Some(code)
       /\ parse(FindBaudEcho(code, end)) = None
<1>1. ASSUME NEW v \in Byte
      PROVE  parse(ack(v)) = Some(v) /\ parse_find_baud_response(ack(v)) = None
  <2> DEFINE a == <<2, 0, 0, 1, v, 51, 49>>
  <2>1. Len(a) = 7 /\ a[4] = 1 /\ a[5] = v
    OBVIOUS
  <2>2. StartsWith(a, RESPONSE_PREFIX)
    BY DEF StartsWith, RESPONSE_PREFIX
  <2>3. ~StartsWith(a, FIND_BAUD_PREFIX)
    BY DEF StartsWith, FIND_BAUD_PREFIX
  <2> HIDE DEF a
  <2>4. parse(a) = Some(v) /\ parse_find_baud_response(a) = None
    BY <2>1, <2>2, <2>3 DEF parse, parse_find_baud_response, RESPONSE_LEN
  <2> QED
    BY <2>4 DEF a, ack
<1>2. ASSUME NEW code \in Word, NEW end \in Byte \X Byte
      PROVE  /\ parse_find_baud_response(FindBaudEcho(code, end)) = Some(code)
             /\ parse(FindBaudEcho(code, end)) = None
  <2> DEFINE e == <<2, 0, 0, 2, code % 256, code \div 256, end[1], end[2]>>
  <2>1. Len(e) = 8 /\ e[5] = code % 256 /\ e[6] = code \div 256
    OBVIOUS
  <2>2. StartsWith(e, FIND_BAUD_PREFIX)
    BY DEF StartsWith, FIND_BAUD_PREFIX
  <2>3. (code % 256) + 256 * (code \div 256) = code
    BY WordsTyped
  <2> HIDE DEF e
  <2>4. parse_find_baud_response(e) = Some(code) /\ parse(e) = None
    BY <2>1, <2>2, <2>3 DEF parse, parse_find_baud_response, RESPONSE_LEN
  <2> QED
    BY <2>4 DEF e, FindBaudEcho
<1> QED
  BY <1>1, <1>2

\* The two codes of a rate agree for 115200 alone (protocol.rs:132), and the
\* code of every rate leads back to it (protocol.rs:149).
THEOREM RatesAndCodes ==
  \A rate \in BaudRate :
    /\ ZoneCode(rate) = value(rate) <=> rate = 115200
    /\ from_find_baud_code(ZoneCode(rate)) = Some(rate)
<1>1. \A rate \in BaudRate : ZoneCode(rate) = value(rate) <=> rate = 115200
  BY DEF BaudRate, ZoneCode, value
<1>2. \A rate, other \in BaudRate : ZoneCode(rate) = ZoneCode(other) => rate = other
  BY DEF BaudRate, ZoneCode
<1>3. ASSUME NEW rate \in BaudRate
      PROVE  from_find_baud_code(ZoneCode(rate)) = Some(rate)
  <2> DEFINE found == CHOOSE r \in BaudRate : ZoneCode(r) = ZoneCode(rate)
  <2>1. found \in BaudRate /\ ZoneCode(found) = ZoneCode(rate)
    OBVIOUS
  <2>2. found = rate
    BY <2>1, <1>2
  <2> QED
    BY <2>2 DEF from_find_baud_code
<1> QED
  BY <1>1, <1>3

\* A leaked reply is cut in the middle, where it can no longer be stripped
\* (scanner_core.rs:31), exactly when its value byte is a line end. No settings
\* byte that keeps the module on is one, so none of the policies'.
THEOREM LeaksCutOnlyByValue ==
  /\ \A v \in Byte : (\E k \in 1 .. RESPONSE_LEN : ack(v)[k] \in Eol) <=> v \in Eol
  /\ \A s \in Settings : s.always_on = 1 => bits(s) \notin Eol
<1>1. ASSUME NEW v \in Byte
      PROVE  (\E k \in 1 .. RESPONSE_LEN : ack(v)[k] \in Eol) <=> v \in Eol
  <2> DEFINE a == <<2, 0, 0, 1, v, 51, 49>>
  <2>1. /\ a[1] = 2 /\ a[2] = 0 /\ a[3] = 0 /\ a[4] = 1 /\ a[5] = v /\ a[6] = 51 /\ a[7] = 49
    OBVIOUS
  <2> HIDE DEF a
  <2>2. (\E k \in 1 .. 7 : a[k] \in Eol) <=> v \in Eol
    BY <2>1 DEF Eol, CR, LF
  <2> QED
    BY <2>2 DEF a, ack, RESPONSE_LEN
<1>2. ASSUME NEW s \in Settings, s.always_on = 1
      PROVE  bits(s) \notin Eol
  <2>1. s.buzzer \in 0 .. 1 /\ s.aim \in 0 .. 2 /\ s.light \in 0 .. 2 /\ s.read_mode \in 0 .. 3
    BY DEF Settings
  <2>2. bits(s) >= 128
    BY <1>2, <2>1 DEF bits
  <2> QED
    BY <2>2 DEF Eol, CR, LF
<1> QED
  BY <1>1, <1>2

----------------------------------------------------------------------------
(* The baud searches *)

LadderPcs == {"init", "down", "restore", "move", "up"}
DancePcs == {"reset", "dance_down", "dance_set", "dance_up"}
BenchPcs == {"bench_try", "bench_ask", "bench_move", "bench_up", "bench_verify"}

\* Which program is where.
ProgramAt ==
  /\ pc \in {"idle", "halted", "verify"} \cup LadderPcs \cup DancePcs \cup BenchPcs
  /\ prog \in Programs
  /\ pc \in LadderPcs => prog \in Laddered
  /\ pc \in DancePcs => prog = "dance"
  /\ pc \in BenchPcs \cup {"halted"} => prog = "bench"
  /\ pc = "verify" => prog \in Laddered \cup {"dance"}
  /\ rung \in Nat
  /\ prog \in Laddered => rung <= 2
  /\ pc \in {"down", "move"} => rung # 0
  /\ pc = "restore" => result \in {"NotDetected", "ConfigFailed"}

USE DEF LadderPcs, DancePcs, BenchPcs, Laddered, Programs, Operating, Factory

LEMMA LadderFacts == Len(Ladder) = 2 /\ Ladder[1] = 9600 /\ Ladder[2] = 57600
BY DEF Ladder

LEMMA BenchFacts ==
  /\ Len(BenchRates) = 5
  /\ BenchRates[1] = 9600 /\ BenchRates[2] = 19200 /\ BenchRates[3] = 38400
  /\ BenchRates[4] = 57600 /\ BenchRates[5] = 115200
BY DEF BenchRates

LEMMA RateSets ==
  /\ ToSet(Ladder) = {9600, 57600}
  /\ ToSet(BenchRates) = {9600, 19200, 38400, 57600, 115200}
BY DEF ToSet, Ladder, BenchRates

LEMMA ProgramInit == Init => ProgramAt
BY DEF Init, ProgramAt

LEMMA ProgramNext == ProgramAt /\ [Next]_vars => ProgramAt'
<1> SUFFICES ASSUME ProgramAt, [Next]_vars PROVE ProgramAt'
  OBVIOUS
<1> USE DEF ProgramAt, Goto, Return
<1>1. ASSUME NEW p \in Programs, Call(p) PROVE ProgramAt'
  BY <1>1 DEF Call, FirstStep
<1>2. CASE ConsumerResets
  BY <1>2 DEF ConsumerResets
<1>3. CASE Restart
  BY <1>3 DEF Restart
<1>4. CASE LadderInit
  <2>1. CASE InitSucceeds
    BY <1>4, <2>1 DEF LadderInit, InitSucceeds
  <2>2. CASE InitNotDetected
    BY <1>4, <2>2, LadderFacts DEF LadderInit, InitNotDetected
  <2>3. CASE InitFaulty
    BY <1>4, <2>3 DEF LadderInit, InitFaulty
  <2>4. QED
    BY <1>4, <2>1, <2>2, <2>3 DEF LadderInit
<1>5. CASE Down \/ Restore \/ Move \/ Up \/ Verify
  BY <1>5 DEF Down, Restore, Move, Up, Verify
<1>6. CASE DanceStep
  BY <1>6 DEF DanceStep, DanceReset, DanceDown, DanceSet, DanceUp, Scaled
<1>7. CASE BenchStep
  BY <1>7 DEF BenchStep, BenchTry, BenchAsk, BenchMove, BenchUp, BenchVerify, NextRate, Halt
<1>8. CASE UNCHANGED vars
  BY <1>8 DEF vars
<1>9. QED
  BY <1>1, <1>2, <1>3, <1>4, <1>5, <1>6, <1>7, <1>8 DEF Next, LadderStep

----------------------------------------------------------------------------
(* What an error leaves behind *)

\* The first init() runs at the rate found, the last at the operating rate.
ErrorInv ==
  /\ ProgramAt
  /\ pc = "init" /\ rung = 0 => host = from.host
  /\ pc = "verify" /\ prog \in Laddered => host = Operating
  /\ ErrorRestoresHost

LEMMA ErrorInit == Init => ErrorInv
BY ProgramInit DEF Init, ErrorInv, ErrorRestoresHost, Ended

LEMMA ErrorNext == ErrorInv /\ [Next]_vars => ErrorInv'
<1> SUFFICES ASSUME ErrorInv, [Next]_vars PROVE ErrorInv'
  OBVIOUS
<1>0. ProgramAt /\ ProgramAt'
  BY ProgramNext DEF ErrorInv
<1> USE <1>0 DEF ErrorInv, ErrorRestoresHost, Ended, Goto, Return
<1>1. ASSUME NEW p \in Programs, Call(p) PROVE ErrorInv'
  BY <1>1 DEF Call, FirstStep, rateVars
<1>2. CASE ConsumerResets \/ Restart
  BY <1>2 DEF ConsumerResets, Restart
<1>3. CASE LadderInit
  <2>1. CASE InitSucceeds
    BY <1>3, <2>1 DEF LadderInit, InitSucceeds
  <2>2. CASE InitNotDetected
    BY <1>3, <2>2, LadderFacts DEF LadderInit, InitNotDetected, ProgramAt
  <2>3. CASE InitFaulty
    BY <1>3, <2>3 DEF LadderInit, InitFaulty, InitEnds, rateVars
  <2>4. QED
    BY <1>3, <2>1, <2>2, <2>3 DEF LadderInit
<1>4. CASE Down
  BY <1>4 DEF Down, ProgramAt
<1>5. CASE Restore
  BY <1>5 DEF Restore, Switched, Refused
<1>6. CASE Move
  BY <1>6 DEF Move
<1>7. CASE Up
  BY <1>7 DEF Up, Switched, Refused
<1>8. CASE Verify
  BY <1>8 DEF Verify, InitEnds, rateVars
<1>9. CASE DanceStep
  BY <1>9 DEF DanceStep, DanceReset, DanceDown, DanceSet, DanceUp, Scaled, ProgramAt
<1>10. CASE BenchStep
  BY <1>10
  DEF BenchStep, BenchTry, BenchAsk, BenchMove, BenchUp, BenchVerify, NextRate, Halt, ProgramAt
<1>11. CASE UNCHANGED vars
  BY <1>11 DEF vars
<1>12. QED
  BY <1>1, <1>2, <1>3, <1>4, <1>5, <1>6, <1>7, <1>8, <1>9, <1>10, <1>11 DEF Next, LadderStep

\* Whatever is lost and refused, and from whatever rates: an init that fails
\* leaves the host at the operating rate, or where it was found, unless the
\* host itself refused to go there.
THEOREM FailedInitRestores == Spec => []ErrorRestoresHost
<1>1. ErrorInv => ErrorRestoresHost
  BY DEF ErrorInv
<1>2. QED
  BY ErrorInit, ErrorNext, <1>1, PTL DEF Spec

----------------------------------------------------------------------------
(* What Ok means *)

LEMMA OkStep ==
  ASSUME ProgramAt, [Next]_vars, Ended', ~Ended, result' = "Ok"
  PROVE  host' = module' /\ (prog # "bench" => configured')
<1> USE DEF Ended, Goto, Return
<1>1. ASSUME NEW p \in Programs, Call(p) PROVE FALSE
  BY <1>1 DEF Call
<1>2. CASE ConsumerResets \/ Restart
  BY <1>2 DEF ConsumerResets, Restart
<1>3. CASE LadderInit
  BY <1>3
  DEF LadderInit, InitSucceeds, InitNotDetected, InitFaulty, InitEnds, Heard
<1>4. CASE Down \/ Restore \/ Move \/ Up
  BY <1>4 DEF Down, Restore, Move, Up, ProgramAt
<1>5. CASE Verify
  BY <1>5 DEF Verify, InitEnds, Heard
<1>6. CASE DanceStep
  BY <1>6 DEF DanceStep, DanceReset, DanceDown, DanceSet, DanceUp
<1>7. CASE BenchStep
  BY <1>7
  DEF BenchStep, BenchTry, BenchAsk, BenchMove, BenchUp, BenchVerify, NextRate, Halt, Heard,
      ProgramAt, rateVars
<1>8. CASE UNCHANGED vars
  BY <1>8 DEF vars
<1>9. QED
  BY <1>1, <1>2, <1>3, <1>4, <1>5, <1>6, <1>7, <1>8 DEF Next, LadderStep

\* However many replies were lost on the way, no program says Ok of a module that
\* it does not hear, and only the bench program of one that was not set up.
THEOREM OkIsReachable == Spec => OkMeansReachable
<1>1. ProgramAt /\ [Next]_vars =>
        [Ended' /\ ~Ended /\ result' = "Ok" =>
           host' = module' /\ (prog # "bench" => configured')]_vars
  BY OkStep
<1>2. QED
  BY ProgramInit, ProgramNext, <1>1, PTL DEF Spec, OkMeansReachable

----------------------------------------------------------------------------
(* A call in which nothing goes wrong *)

\* The module is where the ladder, or the dance, can find it.
LadderFinds == from.host = 115200 /\ from.module \in {9600, 57600, 115200}
DanceFinds == from.host = 115200 /\ from.module \in {9600, 115200}

\* The rates that were tried before this rung.
Missed == module # from.host /\ (rung = 2 => module # 9600)

\* Rates are tried until the one at which the module is.
CleanLadder ==
  prog \in Laddered /\ mishaps = {} =>
    /\ pc \in {"init", "down"} => module = from.module
    /\ pc = "init" /\ rung = 0 => host = from.host
    /\ pc = "init" /\ rung # 0 => host = Ladder[rung] /\ Missed
    /\ pc = "down" => Missed
    /\ pc = "move" => host = module
    /\ pc = "up" => module = Operating
    /\ pc = "verify" => host = Operating /\ module = Operating
    /\ pc = "restore" => ~LadderFinds
    /\ prog = "fixed" => pc \in {"idle", "down"} \/ (pc = "init" /\ rung = 0)

\* The module is at the factory rate, where the dance goes, or already at the
\* operating rate, where it stays.
CleanDance ==
  prog = "dance" /\ mishaps = {} /\ DanceFinds =>
    /\ pc = "reset" => host = 115200 /\ module \in {9600, 115200}
    /\ pc = "dance_down" => host = 115200 /\ module \in {9600, 115200}
    /\ pc = "dance_set" => host = 9600 /\ module \in {9600, 115200}
    /\ pc = "dance_up" => host = 9600 /\ module = 115200
    /\ pc = "verify" => host = 115200 /\ module = 115200

Behind(n) == {r \in ToSet(BenchRates) : \E i \in 1 .. n - 1 : BenchRates[i] = r}

CleanBench ==
  prog = "bench" /\ mishaps = {} =>
    /\ pc \in {"bench_try", "bench_ask"} => rung \in 1 .. 5 /\ module \notin Behind(rung)
    /\ pc = "bench_ask" => host = BenchRates[rung]
    /\ pc = "bench_move" => host = module
    /\ pc = "bench_up" => module = Operating
    /\ pc = "bench_verify" => host = Operating /\ module = Operating

CleanInv ==
  /\ ProgramAt
  /\ module \in ModuleRates
  /\ CleanLadder /\ CleanDance /\ CleanBench
  /\ CleanCallReaches

LEMMA CleanInit == Init => CleanInv
BY ProgramInit
DEF Init, CleanInv, CleanLadder, CleanDance, CleanBench, CleanCallReaches, Ended

LEMMA ModuleStays == CleanInv /\ [Next]_vars => module' \in ModuleRates
<1> SUFFICES ASSUME module \in ModuleRates, [Next]_vars PROVE module' \in ModuleRates
  BY DEF CleanInv
<1> USE BaudAssumption DEF BaudAssumption, rateVars
<1>1. ASSUME NEW p \in Programs, Call(p) PROVE module' \in ModuleRates
  BY <1>1 DEF Call
<1>2. CASE ConsumerResets \/ Restart
  BY <1>2 DEF ConsumerResets, Restart, factory_reset
<1>3. CASE LadderInit
  BY <1>3 DEF LadderInit, InitSucceeds, InitNotDetected, InitFaulty, InitEnds
<1>4. CASE Down \/ Restore \/ Move \/ Up \/ Verify
  BY <1>4 DEF Down, Restore, Move, Up, Verify, Switched, Refused, set_baud_115200, InitEnds
<1>5. CASE DanceStep
  BY <1>5
  DEF DanceStep, DanceReset, DanceDown, DanceSet, DanceUp, Scaled, factory_reset,
      set_baud_115200
<1>6. CASE BenchStep
  BY <1>6
  DEF BenchStep, BenchTry, BenchAsk, BenchMove, BenchUp, BenchVerify, Switched, Refused,
      set_baud_115200
<1>7. CASE UNCHANGED vars
  BY <1>7 DEF vars
<1>8. QED
  BY <1>1, <1>2, <1>3, <1>4, <1>5, <1>6, <1>7 DEF Next, LadderStep

LEMMA CallsClean ==
  ASSUME CleanInv, NEW p \in Programs, Call(p)
  PROVE  CleanLadder' /\ CleanDance' /\ CleanBench' /\ CleanCallReaches'
<1>0. ProgramAt
  BY DEF CleanInv
<1>1. /\ prog' = p /\ pc' = FirstStep(p) /\ rung' = (IF p = "bench" THEN 1 ELSE 0)
      /\ result' = "None" /\ from' = [host |-> host, module |-> module]
      /\ UNCHANGED <<host, module>>
  BY DEF Call, rateVars
<1>2. p \in Laddered => pc' = "init" /\ rung' = 0
  BY <1>1 DEF FirstStep
<1>3. p = "dance" => pc' = "reset"
  BY <1>1 DEF FirstStep
<1>4. p = "bench" => pc' = "bench_try" /\ rung' = 1
  BY <1>1 DEF FirstStep
<1>5. CleanLadder'
  BY <1>1, <1>2 DEF CleanLadder
<1>6. CleanDance'
  BY <1>1, <1>3 DEF CleanDance, DanceFinds
<1>7. CleanBench'
  BY <1>1, <1>4 DEF CleanBench, Behind
<1>8. CleanCallReaches'
  BY <1>1 DEF CleanCallReaches, Ended
<1>9. QED
  BY <1>5, <1>6, <1>7, <1>8

LEMMA LaddersClean ==
  ASSUME CleanInv, LadderStep
  PROVE  CleanLadder' /\ CleanDance' /\ CleanBench' /\ CleanCallReaches'
<1>0. ProgramAt /\ CleanLadder /\ CleanDance
  BY DEF CleanInv
<1>1. /\ UNCHANGED <<prog, from>>
      /\ pc' \in {"idle", "init", "down", "restore", "move", "up", "verify"}
      /\ mishaps' = {} => mishaps = {}
      /\ prog # "bench"
  BY <1>0
  DEF LadderStep, LadderInit, InitSucceeds, InitNotDetected, InitFaulty, Down, Restore, Move, Up,
      Verify, InitEnds, Heard, Unheard, Lost, Switched, Refused, set_baud_115200, Goto, Return,
      ProgramAt
<1>2. CleanBench'
  BY <1>1 DEF CleanBench
<1> USE <1>0 DEF CleanLadder, ProgramAt, Goto, Return
<1>3. SUFFICES ASSUME mishaps' = {} PROVE CleanLadder' /\ CleanDance' /\ CleanCallReaches'
  BY <1>2 DEF CleanLadder, CleanDance, CleanCallReaches
<1>4. mishaps = {}
  BY <1>1, <1>3
<1>5. CASE LadderInit
  <2>1. prog \in Laddered /\ UNCHANGED <<host, module>>
    BY <1>5 DEF LadderInit, InitSucceeds, InitNotDetected, InitFaulty, InitEnds, rateVars
  <2>2. CleanDance'
    BY <1>1, <2>1 DEF CleanDance
  <2>3. CASE InitSucceeds
    <3>1. host = module /\ UNCHANGED rung
      BY <2>3 DEF InitSucceeds, InitEnds, Heard
    <3>2. CASE rung = 0
      BY <1>1, <1>4, <2>1, <2>2, <2>3, <3>1, <3>2
      DEF InitSucceeds, CleanCallReaches, Ended, Reached
    <3>3. CASE rung # 0
      BY <1>1, <1>4, <1>5, <2>1, <2>2, <2>3, <3>1, <3>3
      DEF LadderInit, InitSucceeds, CleanCallReaches, Ended
    <3>4. QED
      BY <3>2, <3>3
  <2>4. CASE InitNotDetected
    <3>1. host # module
      BY <1>3, <2>4 DEF InitNotDetected, InitEnds, Unheard, Lost
    <3>2. CASE rung < Len(Ladder)
      <4>1. pc' = "down" /\ rung' = rung + 1
        BY <2>4, <3>2 DEF InitNotDetected
      <4>2. Missed'
        BY <1>1, <1>4, <1>5, <2>1, <3>1, <3>2, <4>1, LadderFacts DEF Missed, LadderInit
      <4>3. QED
        BY <1>1, <1>4, <1>5, <2>1, <2>2, <4>1, <4>2 DEF CleanCallReaches, Ended, LadderInit
    <3>3. CASE rung = Len(Ladder)
      <4>1. pc' = "restore" /\ rung = 2 /\ host = 57600 /\ pc = "init"
        BY <1>4, <1>5, <2>1, <2>4, <3>3, LadderFacts DEF InitNotDetected, LadderInit
      <4>2. ~LadderFinds
        BY <1>4, <2>1, <3>1, <4>1 DEF Missed, LadderFinds
      <4>3. QED
        BY <1>1, <1>4, <2>1, <2>2, <4>1, <4>2 DEF CleanCallReaches, Ended, LadderFinds
    <3>4. QED
      BY <2>4, <3>2, <3>3 DEF InitNotDetected
  <2>5. CASE InitFaulty
    BY <1>3, <2>5 DEF InitFaulty, InitEnds, Lost
  <2>6. QED
    BY <1>5, <2>3, <2>4, <2>5 DEF LadderInit
<1>6. CASE Down
  <2>1. /\ prog \in Laddered /\ Switched(Ladder[rung]) /\ pc' = "init" /\ UNCHANGED rung
        /\ rung # 0
    BY <1>3, <1>6 DEF Down, Refused
  <2>2. QED
    BY <1>1, <1>4, <1>6, <2>1 DEF Down, Switched, Missed, CleanDance, CleanCallReaches, Ended
<1>7. CASE Restore
  <2>1. prog \in {"ladder", "owned"} /\ Switched(Operating) /\ ~LadderFinds /\ pc' = "idle"
    BY <1>3, <1>4, <1>7 DEF Restore, Refused
  <2>2. QED
    BY <1>1, <1>4, <1>7, <2>1, RateSets
    DEF Restore, Switched, CleanDance, CleanCallReaches, Ended, LadderFinds
<1>8. CASE Move
  <2>1. host = module /\ prog \in Laddered
    BY <1>4, <1>8 DEF Move
  <2>2. module' = Operating /\ pc' = "up"
    BY <1>3, <1>8, <2>1 DEF Move, set_baud_115200, Unheard, Lost
  <2>3. QED
    BY <1>1, <1>4, <1>8, <2>1, <2>2 DEF Move, CleanDance, CleanCallReaches, Ended
<1>9. CASE Up
  <2>1. prog \in Laddered /\ Switched(Operating) /\ pc' = "verify"
    BY <1>3, <1>9 DEF Up, Refused
  <2>2. QED
    BY <1>1, <1>4, <1>9, <2>1 DEF Up, Switched, CleanDance, CleanCallReaches, Ended
<1>10. CASE Verify
  <2>1. pc' = "idle" /\ UNCHANGED <<host, module>>
    BY <1>10 DEF Verify, InitEnds, rateVars
  <2>2. CASE prog \in Laddered
    <3>1. host = module /\ result' = "Ok"
      BY <1>3, <1>4, <1>10, <2>2 DEF Verify, InitEnds, Unheard, Lost
    <3>2. QED
      BY <1>1, <1>4, <1>10, <2>1, <2>2, <3>1 DEF Verify, CleanDance, CleanCallReaches, Reached
  <2>3. CASE prog = "dance"
    <3>1. DanceFinds => host = module /\ result' = "Ok"
      BY <1>3, <1>4, <1>10, <2>3 DEF Verify, InitEnds, Unheard, Lost, CleanDance
    <3>2. ~DanceFinds => from.host # Operating \/ from.module \notin {Factory, Operating}
      BY DEF DanceFinds
    <3>3. QED
      BY <1>1, <1>4, <2>1, <2>3, <3>1, <3>2 DEF CleanDance, CleanCallReaches, Reached
  <2>4. QED
    BY <1>10, <2>2, <2>3 DEF Verify
<1>11. QED
  BY <1>5, <1>6, <1>7, <1>8, <1>9, <1>10 DEF LadderStep

LEMMA DancesClean ==
  ASSUME CleanInv, DanceStep
  PROVE  CleanLadder' /\ CleanDance' /\ CleanBench' /\ CleanCallReaches'
<1>0. prog = "dance" /\ UNCHANGED <<prog, from>> /\ CleanDance
  BY DEF CleanInv, ProgramAt, DanceStep, DanceReset, DanceDown, DanceSet, DanceUp, Goto
<1>1. pc' \in {"dance_down", "dance_set", "dance_up", "verify"}
  BY DEF DanceStep, DanceReset, DanceDown, DanceSet, DanceUp, Goto
<1>2. CleanLadder' /\ CleanBench' /\ CleanCallReaches'
  BY <1>0, <1>1 DEF CleanLadder, CleanBench, CleanCallReaches, Ended
<1>3. ASSUME mishaps' = {}, DanceFinds' PROVE CleanDance'
  <2> USE <1>0, <1>3 DEF CleanDance, DanceFinds, Goto
  <2>1. CASE DanceReset
    BY <2>1 DEF DanceReset, factory_reset, Heard, Unheard, Lost
  <2>2. CASE DanceDown
    BY <2>2 DEF DanceDown, Scaled
  <2>3. CASE DanceSet
    BY <2>3 DEF DanceSet, set_baud_115200, Heard, Unheard, Lost
  <2>4. CASE DanceUp
    BY <2>4 DEF DanceUp, Scaled
  <2>5. QED
    BY <2>1, <2>2, <2>3, <2>4 DEF DanceStep
<1>4. CleanDance'
  BY <1>3 DEF CleanDance
<1>5. QED
  BY <1>2, <1>4

\* Every rate a module may be at is behind the last rung of the bench program.
LEMMA NothingBehind == CleanInv => module \in Behind(6)
BY BaudAssumption, RateSets, BenchFacts DEF CleanInv, Behind, BaudAssumption

LEMMA OneMoreBehind ==
  ASSUME NEW n \in 1 .. 5, NEW r, r \notin Behind(n), r # BenchRates[n]
  PROVE  r \notin Behind(n + 1)
<1>1. SUFFICES ASSUME NEW i \in 1 .. (n + 1) - 1, BenchRates[i] = r, r \in ToSet(BenchRates)
               PROVE  FALSE
  BY DEF Behind
<1>2. i \in 1 .. n - 1 \/ i = n
  OBVIOUS
<1>3. QED
  BY <1>1, <1>2 DEF Behind

LEMMA BenchesClean ==
  ASSUME CleanInv, BenchStep
  PROVE  CleanLadder' /\ CleanDance' /\ CleanBench' /\ CleanCallReaches'
<1>0. ProgramAt /\ prog = "bench" /\ UNCHANGED <<prog, from>> /\ CleanBench
  BY DEF CleanInv, ProgramAt, BenchStep, BenchTry, BenchAsk, BenchMove, BenchUp, BenchVerify,
     NextRate, Halt, Goto
<1>1. CleanLadder' /\ CleanDance'
  BY <1>0 DEF CleanLadder, CleanDance
<1>2. SUFFICES ASSUME mishaps' = {} PROVE CleanBench' /\ CleanCallReaches'
  BY <1>1 DEF CleanBench, CleanCallReaches
<1>3. mishaps = {}
  BY <1>2
  DEF BenchStep, BenchTry, BenchAsk, BenchMove, BenchUp, BenchVerify, Switched, Refused,
      set_baud_115200, Heard, Unheard, Lost
<1> USE <1>0, <1>2, <1>3 DEF CleanBench, Goto
<1>4. CASE BenchTry
  <2>1. Switched(BenchRates[rung]) /\ pc' = "bench_ask" /\ UNCHANGED rung /\ pc = "bench_try"
    BY <1>4 DEF BenchTry, Refused
  <2>2. QED
    BY <2>1 DEF Switched, CleanCallReaches, Ended, Behind
<1>5. CASE BenchAsk
  <2>1. UNCHANGED <<host, module>> /\ pc = "bench_ask"
    BY <1>5 DEF BenchAsk, rateVars
  <2>2. CASE Heard
    <3>1. host = module
      BY <2>2 DEF Heard
    <3>2. CASE Halt("Ok")
      BY <2>1, <3>1, <3>2 DEF Halt, CleanCallReaches, Reached
    <3>3. CASE pc' = "bench_move"
      BY <2>1, <3>1, <3>3 DEF CleanCallReaches, Ended
    <3>4. CASE NextRate
      BY <1>5, <2>1, <2>2, <3>1, <3>2, <3>3, <3>4 DEF BenchAsk, Unheard, Lost, Heard
    <3>5. QED
      BY <1>5, <3>2, <3>3, <3>4 DEF BenchAsk
  <2>3. CASE Unheard /\ NextRate
    <3>1. host # module
      BY <2>3 DEF Unheard, Lost
    <3>2. rung \in 1 .. 5 /\ module \notin Behind(rung) /\ module # BenchRates[rung]
      BY <2>1, <3>1
    <3>3. module \notin Behind(rung + 1)
      BY <3>2, OneMoreBehind
    <3>4. rung # 5
      BY <3>3, NothingBehind
    <3>5. pc' = "bench_try" /\ rung' = rung + 1
      BY <2>3, <3>2, <3>4, BenchFacts DEF NextRate
    <3>6. module' \notin Behind(rung')
      BY <2>1, <3>3, <3>5
    <3>7. QED
      BY <2>1, <3>2, <3>4, <3>5, <3>6 DEF CleanCallReaches, Ended
  <2>4. QED
    BY <1>5, <2>2, <2>3 DEF BenchAsk
<1>6. CASE BenchMove
  BY <1>6 DEF BenchMove, set_baud_115200, Unheard, Lost, CleanCallReaches, Ended
<1>7. CASE BenchUp
  <2>1. Switched(Operating) /\ pc' = "bench_verify" /\ pc = "bench_up"
    BY <1>7 DEF BenchUp, Refused
  <2>2. QED
    BY <2>1 DEF Switched, CleanCallReaches, Ended
<1>8. CASE BenchVerify
  <2>1. UNCHANGED <<host, module>> /\ host = module /\ pc' = "halted" /\ result' = "Ok"
    BY <1>8 DEF BenchVerify, rateVars, Unheard, Lost, Halt
  <2>2. QED
    BY <2>1 DEF CleanCallReaches, Reached
<1>9. QED
  BY <1>4, <1>5, <1>6, <1>7, <1>8 DEF BenchStep

LEMMA CleanNext == CleanInv /\ [Next]_vars => CleanInv'
<1> SUFFICES ASSUME CleanInv, [Next]_vars PROVE CleanInv'
  OBVIOUS
<1>1. ProgramAt' /\ module' \in ModuleRates
  BY ProgramNext, ModuleStays DEF CleanInv
<1>2. SUFFICES CleanLadder' /\ CleanDance' /\ CleanBench' /\ CleanCallReaches'
  BY <1>1 DEF CleanInv
<1>3. ASSUME NEW p \in Programs, Call(p)
      PROVE  CleanLadder' /\ CleanDance' /\ CleanBench' /\ CleanCallReaches'
  BY <1>3, CallsClean
<1>4. CASE ConsumerResets \/ Restart
  BY <1>4
  DEF ConsumerResets, Restart, CleanLadder, CleanDance, CleanBench, CleanCallReaches, Ended
<1>5. CASE LadderStep
  BY <1>5, LaddersClean
<1>6. CASE DanceStep
  BY <1>6, DancesClean
<1>7. CASE BenchStep
  BY <1>7, BenchesClean
<1>8. CASE UNCHANGED vars
  BY <1>8
  DEF vars, CleanInv, CleanLadder, CleanDance, CleanBench, CleanCallReaches, Ended, Reached,
      LadderFinds, DanceFinds, Missed
<1>9. QED
  BY <1>3, <1>4, <1>5, <1>6, <1>7, <1>8 DEF Next

\* When nothing is lost or refused, a program that starts at the operating rate
\* with the module where it looks ends with both at one rate, and a ladder that
\* finds nothing ends at the operating rate: a second call then finds the module.
THEOREM CleanCallsReach == Spec => []CleanCallReaches
<1>1. CleanInv => CleanCallReaches
  BY DEF CleanInv
<1>2. QED
  BY CleanInit, CleanNext, <1>1, PTL DEF Spec

=============================================================================
