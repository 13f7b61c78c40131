# gm65-scanner: models, checks and proofs

TLA+ models of gm65-scanner: a Rust driver for the GM65 family of barcode and
QR scanner modules, and the firmware for an STM32F469 board built on it. Paths
below are relative to the repository, given as `src/...` in `PROJECT.json`;
`driver` stands for `crates/gm65-scanner/src`, `firmware` for
`examples/stm32f469i-disco/src`.

## 1. The system

    host --USB CDC--> cdc.rs --> main.rs / async_firmware.rs --> Gm65Scanner[Async]
                                   |  touch, display, LED          |  ScannerCore
                                   +-- settings, auto-scan         |  ScanBuffer
                                                                   v
                              module <---UART (scanner_uart.rs)--- protocol.rs

| Part | State it keeps | Operations | What makes it correct |
|------|----------------|------------|-----------------------|
| `driver/scanner_core.rs`, `buffer.rs`: core without I/O | state, scan buffer, `initialized`, init step, retry counter, two copies of the configuration index, last scan length | the init dialogue (`init_begin`, `init_advance`, `init_advance_verify`, `complete_init`), `begin_scan`, `handle_scan_byte`, `fail`, `reset_to_ready`, `clear_last_scan` | a payload is one whole line; init ends and writes the right registers; no scan before a successful init |
| `driver/driver/sync.rs`, `async_.rs`: drivers | the core and the UART | `init`, `trigger_scan`, `stop_scan`, `read_scan`, `try_read_scan`, `cancel_scan`, settings, heal commands | replies are matched to commands as far as a protocol without addresses allows; `Ok` from init means a configured module |
| `driver/driver/baud.rs` | rates of host and module | ladder of rates at init | both ends agree at the end, or the caller is told |
| `driver/protocol.rs`, `settings.rs`, `policy.rs` | none | framing, parsing, bit flags | encoders and parsers agree |
| `driver/decoder.rs`, `display_util.rs` | fragments of a multi-part code | `UrDecoder::process`, classification | a result is assembled from the parts of one code only |
| `firmware/main.rs`: sync firmware | `auto_scan`, `in_settings`, `on_scan_result`, `continuous_active`, failure counter, the last scan, watchdog start | one loop: USB, auto trigger, watchdog, self-healing, polling, touch | one mode at a time; each scan goes to the host once; no scan waits for ever |
| `firmware/scanner_uart.rs` | a ring of 511 usable bytes filled by the interrupt | enqueue, dequeue | bytes in order; loss only when full |
| `firmware/cdc.rs` | decoder state | `decode`, `send_response` | frames in, frames out, never out of step |
| `firmware/bin/async_firmware.rs` | channels, signals, a mutex, six tasks | the same product on Embassy | an answer belongs to its question; no lost wake-up |
| `driver` `hil_tests`, `firmware/bin/hil_test_*.rs`: on-device tests | verdicts; and what a test leaves on the line and in the core | driver calls one after the other | a test fails for what it tests only |
| `crates/playground-wasm`: browser playground | a simulated module, its line, two shared queues, the screen; a task per press of Init | register writes, decodes, taps, host commands | what a stop discards stays discarded; the screen tells the truth |
| `bin/baud_probe.rs`: bench program | rates of host and module | finds a module, moves it to 115200 | as the ladder |
| display, board self test, bench scripts, QR target | nothing that outlives a call | drawing, tests | not modelled, see section 7 |

**How the parts interact.** The firmware owns the driver and calls it; the
driver blocks (sync) or awaits (async) on the UART. The module sends what it
reads and what it answers over the same wire, with no address in an answer. The
host polls with CDC frames. Touches and host commands write the same flags.

**What is hard.** A reply that is lost or late is indistinguishable from the
next one; the module may restart; a code may be as long as the buffer or longer
and end in CR, LF or both; flags are changed by scans, touches and frames in any
order; the watchdog's clock is not reset on every path; a state that one path
leaves is one that another path waits for. `PROJECT.json` lists each hazard at
the line where it bites, with the property that covers it or the reason why none
does.

## 2. Modules

| Module | Models | Extends / instances |
|--------|--------|---------------------|
| `ScanSession` | what a scanner promises its callers: the lifecycle diagram of the README as a state machine (`phase`, `connected`) | - |
| `ScannerCore` | `scanner_core.rs` and `buffer.rs`, under every order of driver calls | instances `ScanSession` for the refinement |
| `ScannerInit` | `do_init` against a module with registers, over a link that loses and delays | extends `ScannerCore` |
| `ScanLink` | the bytes between module and drivers: `send_command`, `read_scan`, `try_read_scan`, `poll_uart`, the receive ring | - |
| `HilSuite` | the on-device tests as one more client of that line | extends `ScanLink` |
| `BaudLadder` | `baud.rs`, the ladder in `async_.rs`, the dance of FactoryReset, `baud_probe.rs` | - |
| `Protocol` | `protocol.rs` byte by byte, and the simulated module that takes its frames | extends `ScannerSettings` |
| `ScannerSettings` | `settings.rs`, `policy.rs`, the rows of both settings pages | - |
| `SyncFirmware` | `main.rs`: the loop, on top of the scan session | instances `ScanSession` as its driver |
| `AsyncFirmware` | `async_firmware.rs`: four tasks, four channels and the shared record | - |
| `CdcFrame` | `cdc.rs`: the decoder of host frames, under every cut into USB packets | - |
| `CdcExchange` | the answers to them: `send_response`, the async firmware's `write_cdc_response` and texts, and the host of `tools/hil/rig.py` | extends `CdcFrame` |
| `UrAssembly` | what the assembly of multi-part codes promises | - |
| `UrDecoder` | `decoder.rs`: `parse_ur_fragment` and `UrDecoder` | instances `UrAssembly` for the refinement |
| `Playground` | `playground-wasm`: simulator, device tasks, page | extends `ScannerSettings` |
| `...Proofs` | theorems | extend the modules above |
| `MC...` | constants and constraints for TLC | extend the modules above |

The composition is by promise: `ScannerCore` is shown to implement
`ScanSession`, and `SyncFirmware` is built from `ScanSession`'s actions, so the
firmware's properties do not depend on how the core works inside. `ScannerInit`,
`BaudLadder` and `ScanLink` look at the same drivers at three grains: a register
access, a whole init, a byte.

### ScannerCore
`state`, `buffer`, `initialized`, `init_step`, `init_retry_count` and
`config_seq_index` are the fields of `struct ScannerCore`; `apply_index` is the
value `InitStep::ApplyConfig` carries and `pending` the `InitAction` the driver
has still to perform. `fed` is a history variable: the bytes fed since a call
last emptied the buffer. Each arm of `init_advance` is an operator (`Advance...`), each
public method an action. `strip_leaked_responses` is applied by the drivers and
is in `ScanLink`. The arms of `init_advance` for `Start` and `Failed` are
unreachable for a driver that follows the actions, and left out.

### ScannerInit
The module's registers (`regs`), what it restores on a restart (`nvm`) and at
most one reply that missed its timeout (`late`). `late` models one thing only:
because an answer has no address, the answer to a command that timed out may be
taken for the answer to the next one, if it comes after `drain_uart` found the
line quiet. `tainted` records that this happened, or that the module restarted,
since the last `init_begin`. `AckOnly` are registers whose writes the module
acknowledges and does not store. A step that verifies a register asks nothing of the module,
except with the feature `defmt`, which reads it to log it (`sync.rs:304-319`): the model lets
either happen (`Verify`), so the answer to that read, too, may come late for the next command.

### ScanLink
`line` are the bytes on their way, in order, `ring` what the interrupt has received
(a ring of `RingSize` slots holds one less; what finds it full is dropped). A
call is a list `todo` of commands, and `pc` is what the driver waits for: to send the
next one (after a drain), its reply, or the bytes of a code. A reply is wrong,
late or missing, and a read ends without a code, whenever the code could see it so. A read ends
in one of four ways: with a code (`Completes`), with its time up (`ReadEnds`: `Cancelled`), at a byte
the scan buffer of `MaxScan` has no room for (`PushFails`: `BufferOverflow`; the buffer stays full
until a call clears it) or with an error of the UART (`ReadFails`: `UartError`). A reply is
`RespLen` numbered bytes, code `id` has `CodeLen[id]` and its CR: what is told apart is of
which frame a byte is and where in it. The one assumption on time: a driver that waits
for silence (`drain_uart`) does not take the gap between two bytes of one frame for it.

### HilSuite
A test is a list of calls, some on a condition, and a verdict due when a call
returns; the programs are lists of tests, with the points (`Gate`) at which a failure
halts them. The actions of `ScanLink` carry out the calls, so what one test leaves in
the ring, on the line or in the core is there for the next. Under the same
specification the line also has its other client, the firmware with its calls in
any order. `unheard` counts replies that were missed, `faulty` says that a read met a UART
error. The two timeout tests differ: the async one fails only when its time was up and the state is
not `Cancelled`, the sync one whenever there was no code and the state is not `Cancelled`
(`ReadOrTimedOut`). So an overflow or a UART error passes the one and fails the other.

### BaudLadder
`host` and `module` are the rates, `pc`, `prog` and `rung` the program that runs and
where it is. A whole `init` or command is one step, heard only at the same rate. `mishaps`
is history: replies lost (`ReplyLost`) and rates the host's UART refused. The dance
scales the divisor it finds by 12, so it starts from any host rate in the model as well. A
factory reset may or may not bring the module back to 9600 (`async_.rs:204`).

### SyncFirmware
`pc` is the part of the loop that runs next. What the module sends is a queue
`wire` of lines (a code, a lone NAK, or a line longer than the buffer) that may
arrive at any time. Every `send_command` drains the queue, except while a scan
runs, when it may eat lines in place of its reply: so any suffix may be left, and it may begin
in the middle of a line (`LeftAfter`), as it may where the loop throws bytes away behind a result.
`Handled` and `FrameTaken` are what all host commands share (dismissal, leaving
continuous mode, suspending auto-scan); the commands then differ in what they do
to driver and ring. `elapsed` is `DWT::cycle_count() - scan_start_cycles` in ticks
and wraps like the 32-bit counter. `seen` and `delivered` are history.

### AsyncFirmware
`scanner` and `cdc` are where the two larger tasks stand between awaits; a step
is what a task does from one await that may suspend it to the next. The channels
are sequences with a capacity; `try_send` to a full one drops the message (`Sent`),
`send` waits. A command carries the number of the host's request it serves, a response
that of its command: numbers the code does not have, to say whose answer it is. `given` are
the codes that answers (`AnswerWith`) brought to the host. One
setting stands for all (`settings` in the shared record, `register` in the module).
`Stop`, `ShowSettings`, `ShowHome` and `DisplayQr` are sent by no task and left out.

### CdcFrame
The variables `state` to `payload` are `struct FrameDecoder`; the array keeps the
bytes of earlier frames, as in the code. The host (`tools/hil/rig.py`, `send_recv`)
writes a frame and waits for its answer or a timeout, so one frame is on its way
at a time: `read` and `got` are how many of its bytes were read from USB and how
many `decode` went past. Each arm of `decode` is an action for one byte of a
packet; a `return` drops the rest of the packet. `payload[payload_idx]` behind the
end of the array is a panic, and a panic is the end (`panicked`).

A frame with an unknown command leaves the decoder where it is (`?` returns before
`reset`, `firmware/cdc.rs:208,222`), and what follows is taken for its payload. No
document says otherwise, so the model has this behaviour and the properties speak
of the behaviours in which only known commands, at most `MaxPayload` long, were
sent (`OnlyLegalSent`). `CHECK_DEADLOCK` is off: the hosts may have no more to send.

### CdcExchange
`reply` is what the firmware has still to write, `pipe` what the host has still to
read, `host` where it is in `send_recv`. `firmware` is chosen at the start: the sync one
writes in parts and may give up half way, its answers say their length in two bytes; the async one
says it in one, and sends a text of its own before it waits for the next packet (`Waits`). A code's
text is followed, a pause later, by its type byte (`SendType`); while that is `owed` the host may
give up or drain, and the firmware reads nothing. Each byte
carries which answer it is of and its place there, so what a host reads out of step is seen. `size`, `cut` and
`instep` are history; `instep` is what a host could know: it did not time out while
the firmware was still answering, no text came, or it has drained since, with nothing under way. An answer with a length that
does not fit its byte ends it as well: that is `LengthsTrue`, section 5.

### UrDecoder
A fragment is a record of what its text says (`ur`, `index`, `total`, `hash`, `data`), well
formed or not; `parse_ur_fragment` is the conditions under which it is taken, `feed` the whole
method. `fed` is history. `UrAssembly` knows no vector and no counter: a set of
parts, the first for each place, and a payload as soon as there is one for each. It says what the
code does where a reader may expect more: totals are not compared after the first fragment, and
each part that comes after the last returns the payload again (section 5).

### Playground
Each press of Init makes a UART, a module and a device task; tasks of earlier
presses go on, and all share the queues of commands and taps and the screen. `pc`
and `job` are indexed by device. A code injected while a module scans waits in it
(`pending`) or goes to its line. A line that is too long fills the scan buffer
(`ReadOverflows`), and since only `trigger_scan` would clear it and Start is not one
(`start_scanning`), a task whose buffer is `full` reads no code again. Everything is on one thread: a task is interrupted only where it
awaits. `ScanningScreenIsTrue` is stated of one device. With two it fails: both
tasks draw the one screen and either takes a command from the queue. The code's
own comment has "one device task owns the driver" (`lib.rs:296`), while `lib.rs:328` starts
another on every call of `pg_init`; no text says what a second press should do.

### ScannerSettings and Protocol
Operators without variables, made to be proved about; `Playground` runs those of
`ScannerSettings`. `Protocol` has every frame builder and parser of
`protocol.rs` as sequences of bytes, and the parser of the playground's simulated
module (`feed_byte`) as a fold over the bytes.

## 3. Runs

| Run | Instance | Shows |
|-----|----------|-------|
| `core` | buffer of 3, six bytes between clearings, replies 0, 3, 8, 0x69 or none | `BufferIsOpenLine`, `PayloadIsWholeLine`, `LineEndDelivers`: framing is right at every fill level and line end. `ConfigIndexAgrees`: the init dialogue keeps its two indices together. `InitReturns`: init always returns. `SessionSpec`: the core implements `ScanSession` |
| `init` | 16 register files at power-up, one register that only acknowledges | `OkMeansConfigured`, `WritesAreNeeded`, `OnlyCompleteIsSaved`, whatever is lost or late, until a reply is taken for another command's or the module restarts |
| `link` | replies of two bytes, a code of two and one of seven (and a CR), a scan buffer of 7, a ring of 3, two calls in any order or any test program, two missed replies or broken reads | `LateRepliesHarmless`: `read_scan` strips every late reply from a code. `OneSource`: no code is pieced together from two. `QuietBenchPasses`, `AmbientTolerated`: no test fails for what an earlier one left, or, when the link loses nothing, for an ambient code, save the sync timeout test on a code that does not fit the scan buffer |
| `baud` | a module at 9600, 19200, 57600 or 115200 | `ErrorRestoresHost`, `CleanCallReaches`, `OkMeansReachable`: what each program leaves behind is found again by two calls that lose nothing, and `Ok` means a module that is heard and set up |
| `sync_firmware` | three lines of each kind, every host command and touch in every pass | `OneMode`, `HostGetsNewestOnce`; `StuckScanRecovers` under fairness |
| `sync_rearm` | two lines | expected violation of `DismissalResumes`, section 5 |
| `async_firmware` | channels of one slot, two for responses, two requests, two codes, a tap | `AnswersInOrder`, `CleanSession`: late answers shift, never swap, and without a timeout each request has its own. `DataInOrderOnce`, `SettingsAgree`: each code is given once and none after a newer one, and the optimistic toggle and the readback settle. `CommandsRun`, `RequestsEnd`, `QuietInSettings`: no command, request or read is left for ever |
| `async_resume` | two taps | expected violation of `AutoScanResumes`, section 5 |
| `cdc` | byte values 0 to 2, payload limit 3, packets of up to 4 bytes, two frames, one payload over the limit, one unknown command, one text of two bytes | `FramesComeOutAsSent`, `LegalNeverPanics`: allowed frames are decoded as sent; `FramesGetThrough`: all of them, at the limit too. `AnswersAreOwn`: an answer given up half way, a text or a timeout does not put a host out of step for longer than its next drain |
| `cdc_length` | the same | expected violation of `LengthsTrue`, section 5 |
| `ur` | two hashes, two payloads, totals up to 4, well formed or not, resets | `PromiseSpec`: `UrDecoder` implements `UrAssembly`; `PartsComplete`: a code shown again and again is read |
| `playground` | two presses of Init, two decodes, queues of 2, three tap heights, one policy | `StopDiscards`, `ScanningScreenIsTrue` |

Besides, most runs check the type invariant of their module.

**Bounds.** A buffer of three bytes has an empty, a partial and a full state and
room for `x CR LF`; six bytes are two lines, or a line twice the buffer. Reply
values are one for each branch: low bits set or not, the version that needs raw
mode, equal to a target or not. Five configuration entries are the code's. Three
lines are one stored, one on the wire and one to come; `MaxFailures = 3` is the
threshold of the self-healing, the counter is not read beyond it. A tick is the
watchdog's six seconds (`Timeout = 1`); the real counter wraps after 3.98 ticks,
here after 3. A length of 3 needs both length bytes when there are three byte values, as
256 does; a packet of 4 holds a header and a byte. Two frames are one that leaves something behind and one that finds it: in the decoder,
in the pipe or in the host. A pass of the loop is assumed to take less than a tick (`ticked`).

A frame of two bytes can be cut in the middle and found shifted by one; two codes
are enough for one to be taken for the other. The ring holds two bytes of
a three byte code, so it fills up; since nothing is promised of a link that lost
bytes, `Bounded` ends a behaviour there. It also ends a test program after more than
`MaxMishaps = 2` missed replies and broken reads, and the firmware's behaviour once a code was cut and no trigger is
left to begin a new one: until then the two claims about codes are silent. A scan buffer of 7 takes the
first code behind two late replies, and never the second with its line end. `InboxCap = 1` is the
command the module has not come to yet. `RapidTriggers` is 2 of 5 and `QrTries` 2 of 50:
what a second one finds is what a third would. `InitCommands = 2` stands for init's
dialogue, which `ScannerInit` has in full. In `baud` nothing is bounded: the rates are the code's, and
19200 is a rate no rung has. Channels of one slot (8 and 16 in the code)
are full after one message; the responses have two slots, so that a late answer can wait there
with one of the next request behind it; two requests are one that times out and one that
meets its late answer, and two codes an older and a newer one. Four parts have a first, a last
and two between that may come in either order; totals up to 4 with
two messages have every kind of conflict between fragments, other totals included. In the playground
`MaxQueue = 2` bounds what the user does ahead of the tasks.

**Fairness.** `InitProgress` is weakly fair: `do_init` is a loop that performs
each action, and every command ends by reply or timeout (`send_command` counts
attempts). The main loop (`Loop`) and the clock (`Tick`) are weakly fair: the loop
has no wait that does not end and the cycle counter runs. The decoder and USB reads are weakly fair together:
the main loop polls for ever and `decode` is a loop over one packet; so are handling a frame and
writing its answer, which ends by success or by `MAX_USB_WRITE_RETRIES`. In `AsyncFirmware` the
executor polls every task that can go on and timers fire, so the scanner task, the
CDC task's own steps and the display task are weakly fair (`Fairness`). The liveness properties of
`async_firmware` are checked from a part of that, the scanner task and the end of each wait for a
response (`NeededFairness`); `async_resume` has all of it. In `UrDecoder` the sender is: an
animated code shows each of its parts again and again. Nothing else is assumed of
the module, of the host or of touches. `ScannerInit`, `ScanLink`, `HilSuite`, `BaudLadder` and
`Playground` are checked for safety only.

**Mutants.** A definition whose name continues that of another after an
underscore and a capital is that definition with a plausible bug (`BufferFull` and
`BufferFull_OffByOne`). `PROJECT.json` pairs each with the property that finds it;
no specification uses them.

## 4. Proofs

All for every value of the constants allowed by the modules' assumptions
(`CoreAssumption`, `InitAssumption`, `SyncAssumption`, `CdcAssumption`, `ExchangeAssumption`, `BaudAssumption`, `UrAssumption`,
`AsyncAssumption`, `LinkAssumption`, `SuiteAssumption`, `PlaygroundAssumption`). They say little more than which
constants are numbers and which are not 0; the bounds of section 3 are among these constants,
so the theorems hold whatever the bounds are. Every safety property of a passing run is stated by a
theorem. The invariants in the last column were checked by TLC on the instances before they were proved.

| Theorem | Establishes | Argument |
|---------|-------------|----------|
| `CoreTypeOK` | `[]TypeOK` | `TypeOK` with the init invariant below is inductive: the configuration index stays in range only because the step that raises it checks it, and the two copies agree |
| `InitMachineSafe` | `[](ConfigIndexAgrees /\ RetriesEndInit)` | inductive invariant relating `init_step`, `pending`, `apply_index`, `config_seq_index` and the retry counter; neither property is inductive alone, since what `init_advance` may be called with depends on the action that is out |
| `CoreImplementsSession` | `Spec => SessionSpec` | each action maps to one of `ScanSession`'s or to a stutter; the mapping hides the whole init dialogue behind the phase `Initialising` |
| `FramingSafe`, with `OpenLineKept` and `LineEndsDeliver` | `[](BufferIsOpenLine /\ PayloadIsWholeLine /\ LineEndDelivers)` | invariant by a witness: the position in `fed` at which the open line starts; on a push it stays, on a line end it moves behind it; a full buffer needs no witness until it is cleared |
| `OkIsConfigured`, `OnlyNeededWrites`, `SavedIsComplete` | `[]OkMeansConfigured`, `[]WritesAreNeeded`, `OnlyCompleteIsSaved` | which command is pending in each step of the machine, and which registers of the module are right by then; a command that is carried out but not answered may leave a register right too early, never wrong; nothing is said while a stale reply was taken or the module restarted |
| `ModesExclude` | `[](OneMode /\ ContinuousHasNoTimer)` | inductive with the fact that nothing is shown during boot; a lemma for each kind of step (host, touch, polling, inits) |
| `HostDataSafe` | `[]HostGetsNewestOnce` | inductive with: the lines on the wire are in order and all newer than every scan read |
| `LoopTyped` | `[]SyncTypeOK` | with the invariant of `HostDataSafe` for the ring and the scans; `connected` is never withdrawn, so what boot found out about the scanner stays true |
| `FramesSafe`, with `NoLegalPanic` | `[](FramesComeOutAsSent /\ LegalNeverPanics)` | for each decoder state, how many bytes of the frame it has seen and what it has kept of them; the payload index is below the length, and the length below the limit only because `LenLow` checks it |
| `ExchangeDecodes` | `ExchangeSpec` implements `CdcFrame`'s `Spec`, so the above holds of it | each of its steps is one of the decoder's, or leaves the decoder alone |
| `FailedInitRestores`, `OkIsReachable` | `[]ErrorRestoresHost`, `OkMeansReachable` | which program may be at which `pc`; the first `init` runs at the rate found, the last at 115200, and `Ok` is never what a restore returns |
| `CleanCallsReach` | `[]CleanCallReaches` | while nothing has gone wrong: which rates the module cannot be at any more when a rung is tried, where the dance is when it sends each command, and that no rate is left behind the bench program's last |
| `OwnReplies` | `ExchangeSpec => []AnswersAreOwn` | in step no type byte is owed (`OwedIsElse`), and `answer`, `pipe` and `reply` are three neighbouring parts of the one reply the firmware owes (`InTurn`), less what it gave up; out of step the property says nothing, so how a host comes back into step, by a drain with nothing under way, is part of the invariant |
| `WholeCodesRead`, `NeverTwoCodes` | `LinkSpec => []LateRepliesHarmless` and `[]OneSource`, with `LinkTyped` and `SuiteLinkTyped` | a byte carries its frame and its place, so "a stream with nothing lost" can be said place by place (`Framed`): each frame is whole but for the first, which may be without its beginning. `LinkInv` says so of ring and line, and of buffer, ring and line together; after a clean start the buffer is some replies and the beginning of one more frame (`Shaped`) |
| `QuietBench`, `AmbientCodes` | `SuiteSpec => []QuietBenchPasses` and `[]AmbientTolerated` | every step of the suite is one of the link's or leaves it alone, so the link's types carry over; `Placed` says how far the calls of a test have come when its verdict is due, `NothingSeen` that without a code nothing on the line is one. The programs depend on `RapidTriggers` and `QrTries`; that they are well made (`WellMade`: a verdict is due after the calls it asks for) is proved for every number of them. `read_scan_timeout` may fail in two ways only: its read ended neither with a code nor in `Cancelled`, and then the buffer was full; what fills it is one code and the late replies, which `LateBytes` counts |
| `TasksTyped` | `[]AsyncTypeOK` | one lemma for each channel, since every task sends to several; a channel is never above its capacity because `Sent` looks first |
| `LateAnswersShift`, `OwnAnswerWhileClean` | `[]AnswersInOrder`, `[]CleanSession` | `InOrder`: answers waiting, request served and requests waiting have rising numbers, in this order, all at most `asked`; `OnTheWay`: undisturbed, exactly one request is in these three places while the CDC task waits, and none otherwise. `Takes`, `Responded`, `Asks` and `Toggles` are the only ways a step moves a request |
| `CodesGivenOnce` | `[]DataInOrderOnce` | `CodesInOrder`: a code leaves the shared record when it is given; the codes given, those in answers under way and the one kept are, in this order, newer and newer |
| `SettingsSettle` | `[]SettingsAgree` | inductive with the types; each step makes the two agree, forgets what it knew, or leaves a write pending |
| `DecoderTyped` | `[]UrTypeOK` | with the count below: that `received` is not above `total` holds only because it counts places |
| `DecoderCounts` | `[]PartsCounted` | a part is counted when its place was empty, so `received` is the number of places taken, and these are the indices fed; finite-set lemmas for the step from one to the next |
| `DecoderKeepsPromise` | `Spec => PromiseSpec` | `received = total` exactly when no place is empty, that is, when `UrAssembly` has a part for each index; what a place holds is the first part fed for it, because a taken place is never written |
| `SettingsRoundTrip`, `BlessedSettings`, `RowsStayInSettings` | `bits` and `from_bits` are inverse, the policies are settings, no row of a page leaves them | arithmetic on the fields of the byte |
| `PlaygroundTyped` | `[]PgTypeOK` | with the types of the queues; the taps that wait are handled in one step by a recursive function, and `HandledTyped` is by induction over their number |
| `StoppedCodesStayAway` | `[]StopDiscards` | `CodesApart`: a code is held by one device at most, in one place, and is one that was counted, so a new one is none of those discarded |
| `ScanningScreenTrue` | `[]ScanningScreenIsTrue` | `SettledIsTrue` is the property strengthened by the points between two commands and by a settings command under way; the induction over the taps shows that no tap brings the scanning screen, so only the write that enables the module does |
| `CommandsAreTakenWhole` | a module that cuts frames by their length byte takes each command once and whole | a lemma on a fold over a concatenation, and one on each kind of frame |
| `CommandsMeanWhatTheySay`, `RepliesToldApart`, `RatesAndCodes` | builders and parsers are inverse; the two kinds of replies exclude each other; the zone codes lead back to the rates | the bytes of each frame |
| `LeaksCutOnlyByValue` | the line-end rule cuts a leaked reply only at its value byte | no constant byte of a reply is a CR or LF, nor is the settings byte of a module that stays on |

The theorems use sequences by length and index; the library's lemmas on
`SubSeq` and `Append` carry the arithmetic.

Only model-checked: what is live (`InitReturns`, `StuckScanRecovers`, `FramesGetThrough`, `CommandsRun`,
`RequestsEnd`, `QuietInSettings`, `PartsComplete`). Liveness under fairness, and `ENABLED`, are out
of the prover's reach. So are `RECURSIVE` operators, which no module here has, and the library's
induction rules, which take an operator as parameter. Where a proof needs induction
(the taps of the playground), it is done on a set of numbers: a set with 0 that goes
on from each number below `T` has all of `0 .. T` (`Upwards`, from the well-foundedness of `<`).

## 5. Disagreements found

`DismissalResumes`: once a result is dismissed and auto-scan is on again, the
firmware leaves `ScanComplete`. It does not. The loop calls `try_read_scan` only if
`!data_ready()` (`firmware/main.rs:459`), `data_ready()` is the state `ScanComplete`, and
only `try_read_scan` itself would leave that state; the auto trigger wants `Ready`
(`main.rs:421-425`), the watchdog wants `Scanning`. After the first scan the loop
therefore neither triggers nor reads until the host sends a trigger or a factory
reset. The comment at `main.rs:378-382` says the dismissal exists to avoid exactly
this "one-shot-until-touch"; `README.md:111` has the edge `ScanComplete --> Ready :
try_read_scan()`. The run checks it under fairness of loop and clock; its
counterexample dismisses a result and then goes round the loop for ever.

`AutoScanResumes`: in the async firmware the scanner task sleeps on the command
channel alone while `auto_scan` is off (`async_firmware.rs:708-712`). Back on the
settings page and the Home event set `auto_scan` (`:1160-1162`, `:1067-1068`) and send nothing,
so the task sleeps on until the host sends a command. `TESTING_SESSION.md:112` says of Back
"Home screen displayed, auto-scan resumes".

`LengthsTrue`: the async firmware answers ScannerData with the type and up to `MAX_PAYLOAD_COPY = 255` bytes
of the code, and with the header `[Ok, 0, (copy_len + 1) as u8]` (`async_firmware.rs:811-825`). A code of
255 bytes or more makes that 256, which is written as 0: the host reads an empty answer, and
the 256 bytes as the answers to its next requests. The sync firmware writes both bytes of the
length (`cdc.rs:146-147`), and the host reads both (`tools/hil/rig.py:258`).

Noted in reading, without a run: the comment at `scanner_core.rs:27-28` says that both drivers strip leaked
replies in their read paths and "consumers never see the leak". The sync
`try_read_scan` does not (`sync.rs:108`), and the sync firmware reads its codes with it;
`SelfTest` compares with `diag.settings_raw`, which is
never assigned (`main.rs:622`); `README.md:511` has the on-device tests "tolerate ambient
detection as a pass condition", which the sync timeout test does not for an ambient code longer than the scan
buffer (`sync.rs:673-677` asks for `Error(Cancelled)`, the read left `Error(BufferOverflow)`), while the async one does;
the comment of `UrDecoder::feed` says "Duplicate fragments are ignored" (`decoder.rs:209`), but a duplicate
that comes when the payload is complete returns it once more, and a fragment of another total is taken
like any other (`decoder.rs:224-231`; the test `mismatched_total_ignored` at 463-469 means the total, not the
fragment); the comment at `ui.rs:266` says that "any decode reaches the LCD", but after one that is longer
than the scan buffer none does until the next Init, because the playground never calls
`trigger_scan`, the only call of its driver that empties a full buffer; the comment at `protocol.rs:14` counts the address into
the length of a frame, while the builders write the length of the value alone (1 for a
register of one byte), as the simulated module expects.

## 6. Plan

Done: all modules of section 2 with their runs, and a theorem for each safety property of a
passing run. To come:

1. `OneMode` and `HostGetsNewestOnce` over the core itself: `SyncFirmware`'s driver is
   `ScanSession`, and `CoreImplementsSession` is the other half; a theorem that puts
   `ScannerCore` in its place would join the two.
2. The safety half of what is live: for `StuckScanRecovers`, `RequestsEnd` and
   `InitReturns`, the measure that falls with each fair step, so that only the
   rule for fairness is left to TLC.
3. Of the hazards without a property, those that are about one step: they can be
   stated as lemmas on that action.

## 7. Not modelled

Drawing, fonts and the screens' layout, QR encoding and classification of payloads
(stateless); the I/O adapter (no state of its own); clock, SDRAM, panel and USB
bring-up (hardware); the board self test (records of results and their drawing); the bench
and host scripts and the QR display target (test equipment outside the product; of the scripts
only the client's `send_recv` and `drain` are modelled, in `CdcExchange`). The async firmware's heartbeat task only blinks. The
firmware's diagnostic counters are left out because nothing but their report reads
them. `current_settings` in the main loop and the module's own settings are left
out of `SyncFirmware`: the settings screen shows what was read last.
`CdcExchange` leaves what a command does to `SyncFirmware` and `AsyncFirmware`. Register values are
left out of `ScanLink`; where they matter to framing is proved in `ProtocolProofs`.
