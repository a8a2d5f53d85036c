# Formal models of spi-flash-programmer

The program writes SPI flash chips through a microcontroller. `flashutil` runs
on the host; a firmware (Arduino or Raspberry Pi Pico) runs one SPI burst per
request. The two speak a small framed protocol over a serial line. This
directory holds TLA+ models of that system, TLC configurations that check them
on small instances, and proofs that TLAPS checks for every instance.

## Running

    tlc -config PacketDecoder.cfg MCPacketDecoder.tla
    tlapm PacketDecoder_proofs.tla

Every run and every theorem is listed in `PROJECT.json`, with the source lines
each definition stands for and, for each property, a mutated definition under
which that property fails.

## The system

| Component | State | Operations | Talks to |
|---|---|---|---|
| frame decoder (`common/.../packet.c`) | control state, code, id, CRC, counts, the caller's buffer | `putByte`, `reset` | called by the firmware's main loop and by `executeCmd`, one byte at a time |
| request / response codec (`request.c`, `response.c`, `common.c`) | none: it lays messages out in a buffer | `init`, `getPayloadSize`, `assign`, `encode`, `decode` | works in the frame's payload |
| CRC (`crc8.c`) | none | one byte, a buffer | decoder, frame encoder |
| firmware programmer (`firmware/common/.../programmer.c`) | one decoder, ONE buffer for request and response | `putByte`, `reset` | decoder, codec, callbacks of the board |
| boards (`arduino/src/main.c`, `rpi-pico/src/main.c`) | chip select, UART or USB, idle counter | request callback (the burst), response callback, main loop | firmware programmer, SPI bus |
| `SerialSpi` (`spi/serial.cpp`) | command id, packet buffer | `transfer`, `chipSelect`, `attach`, `detach` | codec, `Serial` |
| `Spi` (`spi.h`, `spi.cpp`) | the messages of a call | abstract interface | implemented by `SerialSpi` |
| `HwSerial` (`serial/hw.cpp`) | timer, pending read, result | `read`, `write`, flush | boost::asio |
| `Programmer` (`programmer.cpp`) | flash information, attached flag | begin, end, erase, write, read, status | `Spi` |
| flash data (`flash*.cpp`, registry, JSON) | geometry, protection, known chips | lookups | `Programmer`, `EntryPoint` |
| `EntryPoint` (`entryPoint.cpp`) | parameters, streams | erase, unlock, write, read | `Programmer` |
| command line (`main.cpp`) | a list of operations | parse, run | `EntryPoint` |

What makes it hard, by component:

* **decoder**: fed by a noisy line, reset at any time, its length check is the
  only guard of the buffer, which is also scratch space. Correct: never outside
  the buffer; accepts exactly what was sent; overlooks no frame. (It is correct
  but for one length, see Findings.)
* **codec and burst**: the response grows in the memory the request is still
  read from; sizes depend on a 1/2-byte field whose boundary four functions
  compute separately. Correct: the device gets the request's bytes, the host
  the device's, and nothing leaves the buffer.
* **SerialSpi**: data, skipped and received bytes cross chunk boundaries at
  different places; the chip must stay selected in between, and a link failure
  may strike anywhere. Correct: it does what one big transfer would do.
* **HwSerial**: two handlers race for one result. Correct: the read ends, and
  success means that the bytes are there.
* **executeCmd over the link**: answers that come late, bytes that are lost or
  damaged, a frame cut off by a failed write, an idle reset in the middle of
  one, ids that wrap and start again with each program, bytes still on the wire
  when a program starts, where no flush reaches them. Correct: a command that
  returns has been carried out, none is carried out twice or behind a later
  one, and a session on a quiet line does not suffer from an earlier one.
* **Programmer**: a chip that is busy on its own time, deaf meanwhile, and may
  have been left in any state by a session that failed or was killed. Correct:
  what returns was done as asked; what threw is never done behind a later
  session's back; the chip is released.
* **EntryPoint**: unsigned cursors and addresses in loops over pages, sectors
  and blocks, a stream that may end in the middle of a page, a failure at any
  call, with the chip still at work. Correct: what is reported as done is what
  the memory holds, nothing outside the area an operation names changes, and the
  run ends.
* **command line**: one object collects the parameters of all options.

## Modules

| Module | Models | Kind |
|---|---|---|
| `PacketDecoder` | `proto_pkt_dec_*` | state machine, one action per control state |
| `ProtocolSizes` | size arithmetic of VLEN, frames and payloads | operators |
| `TransferExchange` | one CMD_SPI_TRANSFER through both ends' buffers | state machine |
| `SpiTransfer` | what `Spi::transfer` promises | abstract specification |
| `SerialSpi` | `transfer` in chunks, the firmware's burst, `detach` | state machine; implements `SpiTransfer` |
| `HwSerial` | `HwSerial::read` with its two handlers | state machine |
| `FlashChip` | the chip as `programmer.cpp` relies on it | operators, external |
| `FlashMemory` | what callers of `Programmer` are promised | abstract specification |
| `FlashProgrammer` | `Programmer` in sessions like `EntryPoint::call`'s | state machine over `FlashChip`; implements `FlashMemory` |
| `EntryPoint` | `EntryPoint::call`: the operations of a run | state machine over `FlashMemory` |
| `CommandLine` | how `main` turns options into operations | operators |
| `FirmwareProgrammer` | what the firmware answers to each verdict and command | operators |
| `LinkPromise` | what `SerialSpi` may count on when it calls `executeCmd` | abstract specification |
| `Link` | `executeCmd` and the firmware's loop over a faulty line | state machine over `FirmwareProgrammer`; implements `LinkPromise` |
| `Lexicographic` | the order in which the variants of the proofs decrease; no code | operator |
| `MC*` | values of the constants for TLC | |
| `*_proofs` | theorems and their proofs | |

`TransferExchange` and `SerialSpi` share `ProtocolSizes`. `SerialSpi` uses one
exchange as two steps, the firmware's and the host's; that these steps do what
they say is what `TransferExchange` shows, cell by cell. The condition under
which it does, `Separate`, is a lemma-like assumption of the first and a
consequence of `TransferAssumption` in the second.

The layers stack up: `Link` implements `LinkPromise`, which is how a command
enters `SerialSpi` (an exchange, or an exception with the command carried out
or not); `SerialSpi` implements `SpiTransfer`, which is one step of
`FlashProgrammer`; that implements `FlashMemory`, over which `EntryPoint` is
written. Each layer is checked against the promise of the one below and not
against its steps, which keeps every instance small.

### PacketDecoder

The variables are the fields of `ProtoPktDes`, the caller's buffer, the packet
of the last accepting call, the last return value, and a ghost `frame` with the
bytes since the last sync byte. A call that reads the last byte of VLEN also
runs `STATE_CHECK_PAYLOAD`, so `CheckPayload` is part of `VlenHi` and `VlenLo`,
not an action. `Reset` is `programmer_reset`, possible between any two bytes
because the Arduino's idle counter knows nothing of frames.

A byte is a number below `2 * Half`; `Half` stands for 0x80. Sync bytes, the
command in a sync byte and the CRC step are parameters: the proofs hold for any.
The CRC of the TLC runs is a step that, like the real one, is a bijection in
each argument.

`Spec` feeds it any bytes whatever. A two-byte VLEN of zero is among them:
`proto_int_val_encode` does not write it, but `protocol.h` allows it, and noise
or a reset in the middle of a frame can make the decoder see one. It then waits
in `STATE_PAYLOAD` for a count that has passed its end, and the bytes that follow
are stored one behind the other, out of the buffer (`PayloadOutside`, which sets
the ghost `overrun`). What the program does after such a store is not defined,
so a behaviour ends there: `CHECK_DEADLOCK FALSE`. Run `decoder_overrun` shows
the store. Two of the properties of `decoder` say that it takes this
one length (`LongZero`, read off the bytes in `frame`) to come to it; the others
hold for all input.

* `OnlyLongZeroOverruns`: the store of `packet.c:158` stays in the buffer, and
  the count below the length declared, for every other frame.
* `AcceptedFrame`: an accepted packet has the code, id, length and payload of
  the bytes on the line, although the first two cells of the buffer were
  scratch for VLEN and an earlier frame left its bytes there.
* `RefusedLength`: INVALID_LENGTH only for frames that do not fit.
* `CrcVerdict`: the CRC kept byte by byte over five control states is that of
  the whole frame (`crc8_get`, which the sender runs).
* `OnlyLongZeroMissed`: every other complete frame gets a verdict.

Bounds of `decoder`: four byte values, two of them in the upper half and both
of these sync bytes too, so that payload bytes can look like frames; a buffer of
three bytes. Frames with no, short, full and too long payloads in both length
forms all occur (a two-byte length goes up to 7).

### TransferExchange

One exchange, `build`, `decode`, `burst` (one step per SPI clock), `reply`,
`done`. A memory cell holds a number, byte *n* of the message, the device's
output of clock *n*, or leftovers, so that a misplaced byte is seen. `fault`
stands for the request laid out at a NULL payload (`packet.c:53`).

* `RequestSurvives`: what the firmware decodes is what the host encoded.
* `MosiFaithful`: the device is sent the message's bytes, then 0xff, for every
  transfer that is `Separate`: it reads nothing, or only after its last byte
  sent, or its answer starts low enough in the buffer. All commands of
  `programmer.cpp` are. (Without the condition the property fails: a full
  duplex transfer with a two-byte receive length overwrites its own data.)
* `AnswerFaithful`: the host receives the clocks after the skipped ones.
* `FrameFits`: `_getMaxPayloadSize` forgets the CRC byte (three bytes of
  overhead where a frame has four); the overheads of 7 and 1 in `request.c` and
  `response.c` make up for it.
* `FaultNeedsLongFields`: the NULL payload needs all three fields to be long.

Bounds: `Half = 3`, 17 bytes of buffer, skips up to 4; every size the host can
ask for on both sides of the VLEN boundary. It deadlocks when the exchange is
over, hence `CHECK_DEADLOCK FALSE`.

### SpiTransfer and SerialSpi

`SpiTransfer` is the promise: the device is clocked `max(tx, skip + rx)` times
with the chip selected, is sent the message's bytes and then 0xff, the receive
buffer is the device's output from clock `skip` on, the chip is released after
the last clock of a message that asks for it; `Fail` is an exception; `Release`
is `detach`, which may fail too.

`SerialSpi` has the counters of `transfer` as variables. `Prepare` is the lambda
that cuts a chunk together with the part of `executeCmd` that sends it,
`Exchange` the firmware's burst, `Deliver` the copy of the answer. `Throw` may
replace either (the request or the answer is lost). The mapping of `Promise`
takes the received prefix of the buffer and calls a call `running` until it
ends: `Prepare` is a stutter, `Exchange` a `Burst`, `Deliver` a `Deliver`.

The flags of a request are never initialised; `transfer` only ORs KEEP_CS into
them. `StackFlags` is what the bit may read, and the run has both values. All
that a set bit can change is whether the chip is released after the last clock
of a message that asks for it: there the promise itself leaves the chip to
`StackFlags`, and everything else in it is demanded as before. With
`StackFlags = {FALSE}`, a build whose stack is clear there, the same refinement
says that the chip is released. `FlashProgrammer`, which needs that, assumes it.

* `KeepsPromise`: the refinement.
* `DataFaithful`: the data part of it.
* `HeldThroughMessage`: the chip is selected between the chunks of a message.
* `ChunkAcceptable`: no chunk meets the NULL payload, the firmware's limit
  (`programmer.c:79`; the refusal there does not stop the command) or the VLEN
  range. `rxSkipSize` is not bounded by the code; `TransferAssumption` has it
  below 0x80, the program's own messages skip at most one byte.
* `TransferEnds`: under weak fairness of the whole step: the host's loop is
  sequential and `read` has a timeout, so some step is always taken.

Bounds: `Half = 4`, packets of 15 bytes (4 bytes out, 10 in per chunk), messages
up to three packets long in each direction with every skip, alone, and pairs of
a command and a data phase. Calls end, hence `CHECK_DEADLOCK FALSE`.

Abstraction: an exchange that times out while the firmware is still at it ends
as if the request or the answer had been lost; the firmware finishes it before
it looks at the next request, so the end state is that of one of the two orders.

### HwSerial

`ready` is the queue of handlers of boost::asio, `timer` and `reading` the two
operations in progress. `cancel` of an operation that has ended does nothing,
which is what makes the race: both handlers may be queued, and the last one to
run decides. `Finish` is the `switch` after `service.run()` with the flush that
precedes each throw.

* `ReturnsFullBuffer`: `IN_PROGRESS` (which line 161 lets through as success)
  is never left over, and SUCCESS means the bytes are there.
* `NoSilentLoss`: bytes reach the caller in order, once, and are missing only if
  the read that took or flushed them threw. (A byte that arrives together with
  the timeout may be lost in this way: if `onCompleted` runs first and
  `onTimedOut` is already queued, the read throws with the byte in the buffer.)
* `ReadEnds`: needs only that time passes and that `run()` runs handlers;
  nothing is assumed of the device. It is about reads of one byte, the only
  ones the program makes. A larger one may hang: the composed read waits again
  after the timer's handler has run, and nobody cancels it: it does not loop, it waits
  (see Proofs).

Bounds: reads of one or two bytes (`Sizes`), in any mixture, four reads and four
bytes: a read that times out, one that is cut off between its bytes, and one
that meets what they left. The last read leaves the state machine without a
step, hence `CHECK_DEADLOCK FALSE`.

### FirmwareProgrammer, LinkPromise and Link

`FirmwareProgrammer` is `programmer_putByte` as a function from a verdict or a
request to the reply. `_sendError` does not use the error it is given: a reply
to a refused request says NO_ERROR, and the reply to a frame with a bad CRC or
length is built in a packet that was never filled in, so its id and code are
what was on the stack (`StackIds`, `StackCodes`).

`Link` has on one side `executeCmd`: `Send` is the encoding and `write` with the
ways it can fail, `HostByte` a byte read and what the decoder makes of it,
`Timeout` the exception of a read with its flush. On the other side `FwByte` is a byte of the
firmware's loop with the answer, `FwReset` the Arduino's idle reset. `Open` is a
new program (its constructor flushes the port), `Kill` the end of one. `Flush` is
`tcflush(TCIOFLUSH)`: it drops what the host's driver has received and what it
has not sent yet, and cannot reach what is on the wire or what the firmware is
about to answer. So any last part of `toHost` and any first part of `toFw` may
be left.
`Disturb` loses or damages what is on the line or adds noise. After an exception
`pc` is `unwinding` until the destructor's `detach` has had its turn, which the
code skips if `attach` failed. The id of a reply is compared, its code is not
looked at, as in the code.

A frame is two tokens, head and tail, which is enough to cut one off in the
middle, to lose either end and to take noise for a head. What a decoder does
with tokens is `Outcomes`: after a head it is in the frame; the frame's own tail
completes it; anything else leaves it astray, with or without an error, or
between frames again. `PacketDecoder` shows what this abstracts: a decoder that
is in step accepts what was sent and accepts nothing that was not. A check value
that is right by accident is left out; with eight bits it is one damaged frame
in 256.

Requests and replies carry ghost serial numbers (a refusal has 0), from which two
ghosts of a session are made: `before`, the last command of the sessions before
it, and `foreign`, set when it takes for an answer what answers one of those, or
is a refusal.

* `KeepsPromise`: the refinement. A command that returns is the last one carried
  out, unless the session is fooled (`foreign`); the order of the commands, and
  that none is carried out twice, are promised to a fooled one too. A
  late answer within a program never passes: an exception ends the session, only
  `detach` follows, and its id is another.
* `CleanSession`: a session that begins with nothing on the wire and the
  firmware between frames, and meets no fault, sees no exception and is not
  fooled, whatever the sessions before it have met.
* `CommandEnds`: under weak fairness of `HostByte \/ Timeout \/ FwByte`. Each
  `read` has a timer, and the firmware's loop runs on; nothing is assumed of the
  line. There is a timer for each byte and none for the answer, so a line that
  delivers noise for ever holds `executeCmd` for ever: `MaxFaults` excludes
  that. With a timer for the first byte only (a mutant), a reply that is cut off
  holds it too.

What fools a session, both ways in the code as it is:

* A program starts while a request of the one before, or the answer to it, is
  still on the wire. Ids start again at each start, so the answer may have the id
  of the new program's first command. `link_stale` shows it, without any fault of
  the line.
* The firmware refuses a damaged frame, and the byte that was on its stack, which
  it sends as the id, is that of the command that waits. The stack may hold any
  byte: in `link` it is an id (`StackIds = {1}` of 0 and 1).

Each layer above counts on a session that is not fooled: an exchange of
`SerialSpi` returns with the answer to it, or throws.

`link_refusal` shows that the firmware carries out and confirms what it refuses
(`protocol.h` documents the error codes a response may have).

Bounds of `link`: two ids, three commands, two faults, so that ids wrap, a
session fails and the next one meets what it left. Only requests that the
firmware accepts; the run on refusals has all kinds, and `link_stale` needs no
fault and has ids that do not wrap. The behaviour ends when the bounds are used
up: `CHECK_DEADLOCK FALSE`.

### FlashChip, FlashMemory and FlashProgrammer

`FlashMemory` is the promise of `programmer.h`: jobs are carried out one at a
time; a call that returns has been carried out exactly, or the chip is protected
and nothing changed (the program learns of neither); one that throws may or may
not be carried out, perhaps after the exception, but then no session opens
(`Open` needs `pending = None`) before it is over.

`FlashProgrammer` takes one step per `Spi::transfer`, which is the promise of
`SpiTransfer`: it does what it should, or it throws with the request lost or
with the answer lost (`Throws`). `Start` is the verification at the head of each
call, `Enable`, `Issue` and `Poll` the three parts of a changing one,
`ReadAddress` and `ReadData` the two transfers of a read, between which the chip
stays selected. `ChipDone` is the chip's own step. `Attach` and `ReadId` are
`begin()`, `End` is `end()`; an exception leads to `Unwind`, the destructor, as
in `EntryPoint::call`; a destructor that throws terminates the program. `Kill`
stops it anywhere and leaves the chip as it is. `known` is whether the geometry
is valid: the id may be in the registry, or the user may have given one.

The chip is not part of the repository. `FlashChip` has what the code is written
for: WREN before each change, a busy bit, commands and RDID ignored while busy,
programming that only clears bits, protection (one bit: everything or nothing),
addresses reduced to three bytes and then to the chip's size, READ running on
until the chip select rises. The test's `DummyFlash` is simpler: it listens
while busy, erases without WREN, commits WRSR at once, programs by overwriting,
and its chip erase is command 0x60, so that the 0xc7 of `cmdEraseChip` does
nothing to it.

* `KeepsMemory`: the refinement. A job is pending with the call until `Issue`
  and with the chip after it.
* `ChipHears`: a command is only sent to a chip that is idle and not selected.
  It depends on `begin()`: `attach` releases the chip, and the id of a busy one
  reads 0xff and is refused.
* `LeavesReleased`: after a session that ended in order or with an error that
  was reported, the chip is not selected. It is not claimed of killed sessions
  or of those whose `detach` threw.
* `CallEnds`: the wait ends although the chip may not. Fairness is assumed of
  the steps of a call that has begun and of the destructor: it is one thread
  that does not stop, and `Serial::read` has a timeout. None is assumed of the
  chip or of the user.

Bounds of `flash`: bytes of one bit, a chip of six bytes in three pages, six
sectors, two blocks; every address on the chip and two beyond, every content of
a page, two polls before a timeout (20 to 30000 in the code; two make one poll
that waits and one that gives up). Sessions may go on for ever, but a terminated
program need not be started again: `CHECK_DEADLOCK FALSE`.

Abstractions: KEEP_CS is taken to be what the code meant (see `SerialSpi`); a
command that fits a packet is atomic; the firmware handles one request at a time, so a
transfer that threw is over before the next begins.

### EntryPoint and CommandLine

`EntryPoint` is one run of the program after its options have been read:
`Begin`, the operations of the list one after the other, `EndSession`. `pc`
names the call of `Programmer` a handler is at (`before` and `after` are the two
uses of `isErased`, `compare` and `verify` the two reads of the write loop);
`Request` is that call, `Ask` makes it, `Chip` is what the memory does, and an
action per handler takes the answer. `Fill` is the head of the write loop, with
`stream.read` (`Fetched`). A stream that is not `sound` fails where its content
ends, with badbit and without eofbit, like a directory or a file on a bad disk:
what it had of a last page counts for nothing, `eof()` stays false, and the loop
asks again for ever (`Stuck`). `Throw` is an exception of the handler's own (an unlock without a
mask, a failed verification of it) or of the checks in `Programmer`
(`Accepted`); `Abort` one out of a call, or the end of the process, at any time.
Addresses are reduced to `AddressMod` and sizes to `SizeMod` where the code's
types do. An unknown chip has areas of no size, which the handlers leave alone.

`CommandLine` turns the options present into that list as `main` does: options
are looked up in the order of the code, and one `Parameters` object is filled in
and copied. An index is an `off_t` stored in an `int` (`ToInt`).

* `OnlyItsArea`: no cell outside the area at the operation's address ever
  changes, also after an exception, with the chip still at work. The address is
  the one that 32 bits make of index and size, for any index. One exception is
  stated in the property: a write to an area that is not whole pages (`Spills`,
  possible with a geometry given by `-g`) has a size that wraps and runs on
  behind its area, never before it.
* `EraseLands`, `WriteLands`: when an operation ends without complaint the
  memory is what it should be, and the rest is as it was before. Without
  verification this needs a chip that is not protected (it ignores commands
  without a word) and, for a write, cells that were erased or looked at first.
* `ReadFaithful`: the output is at any time the head of the area.
* `UnlockLasts`: after a verified unlock the chip stays unprotected.
* `CallsAccepted`: the checks of `Programmer` never refuse a call made for an
  area that is on the chip and, if it is written, of whole pages.
* `RunEnds`: a run ends, or is held by an input that has failed before a write
  has had what it wants of it, and by nothing else. Under weak fairness of the program's and the chip's steps taken
  together. The program is one thread, and a call of `Programmer` ends although
  the chip may not: that is `CallEnds` of `FlashProgrammer`.

`operations_area` and `operations_verify` each show a disagreement with the
program's own words (see Findings).

Bounds: a chip of two blocks of two pages of two bytes, and sectors of one byte,
half a page, so that a write to a sector spills; every operation on the whole
chip, on a block and on a sector, the last ones too, block 2, which is off the
chip, block 8, which is and whose address wraps to 0 in `AddressMod`, and the
sector of index -1; inputs that are empty, shorter than a page, a whole number
of pages, and odd and longer than the chip, each ending or failing; both values
of both flags; command lines of two and three options, among them an erase whose
index is left to an operation on the whole chip. A run ends: `CHECK_DEADLOCK FALSE`.

The geometry a session knows is taken to be the chip's own; a custom one that is
not would change what an area is.

## Findings

Each is a run that expects a violation, with the line it is about in
`PROJECT.json`.

* `decoder_overrun`: a VLEN of zero in two bytes is not recognised as a frame
  and what follows is stored past the buffer.
* `operations_area`: `--erase-block` with an index whose product with the block
  size is a multiple of 2^32 erases block 0. No index is compared with the number
  of blocks; those that do not wrap are refused by `Programmer`'s checks.
* `operations_verify`: a write to a protected chip is verified, the verification
  fails, and the run ends with success.
* `link_stale`: the first command of a program is answered by the answer to the
  last one of its killed predecessor.
* `link_refusal`: a refused request is carried out and confirmed.

Two more can be read off the models. The index of one option is still there for
an operation on the whole chip: a write or a read that follows
`--erase-block 1` in one command line begins at the size of the chip, is refused
and throws; `operations` has such a session. And an input file that
fails without coming to its end holds a write for ever (`Stuck`).

## Proofs

All theorems hold for every value of the constants that satisfies the named
assumptions, which TLC evaluates in the runs.

`PacketDecoder_proofs`. `AcceptedFrame` says nothing about the middle of a
frame, so the inductive invariant adds, per control state, what the fields and
the scratch cells say of the bytes in `frame`. `VerdictOnTheBytes` is about a
fold over the frame. It needs no induction over frames, which is out of the
provers' reach: each call of `putByte` appends one byte, and the fold over the
longer frame is one step from the fold over the shorter. The invariant, `CrcInv`,
says that there is a function that is the recursion over the bytes taken so far,
and that each such function ends in the field `crc`; that function is `CrcOf`'s.
It holds for any input, the empty two-byte length too. `OverrunInv` says that the
store has left the buffer only in a frame of that length.

`TransferExchange_proofs`. First the layout (where each field of a request is,
and that decoding finds it), then the burst: at clock *i* the cells of the
answer up to *i* are written, and under `Separate` none of them is a cell of
data still to be sent.

`SerialSpi_proofs`. The arithmetic is in one lemma without state,
`ChunkAlgebra`: a chunk cut by `NextChunk` takes an `Aligned` position of a
message to an `Aligned` position, with what is left consistent. The inductive
invariant `IInv` relates the counters to the clocks at each control point,
counting the chunk in flight; `DataFaithful` alone is not inductive because it
does not mention the counters. On top of it are the data, chip select and size
theorems and `TransferKeepsPromise`, the refinement, for any `StackFlags`.
`TransfersComeToAnEnd` is the variant (below): stages of the call, messages,
bytes of one, steps of a chunk. What it needs is that no chunk is empty, whatever
mixture of bytes to send, skip and receive is left (`ChunkNotEmpty`), which
follows from `MemAssumption`. `TransferEnds` is liveness and stays with TLC.

`FlashProgrammer_proofs`. `ChipHears` is not inductive: it says nothing of the
wait, and a chip that is busy when a call returns would break it. `IInv` adds
what each control point knows of its job (`JobAtHand`: it stays on the chip, so
the chip hears the address as it was meant) and of the chip (`ChipAtHand`: in a
wait it does that job or none, and with the id read it is idle). Each command is
one lemma for `IInv` and one for the step it makes in `FlashMemory`; the two
ways a call can end, `Raises` and `Returns`, are lemmas of their own.
`ProgrammerKeepsMemory` combines them. `CallsComeToAnEnd` is the
variant: no step of a call or of the destructor goes back to an earlier one, and
a wait has its number of polls. `CallEnds` is liveness and stays with TLC.

`HwSerial_proofs`. `ReturnsFullBuffer` needs to know why nothing else can be
left when `service.run()` returns: `Control` says that the read has ended at
most once (`Once`, over the queue of handlers), that while the result is
`IN_PROGRESS` the deadline is still to come or queued, and that after SUCCESS the
buffer is full and nothing writes it. `NoSilentLoss` follows from one sequence,
`Flow`: what was delivered, then what the read holds, then what is on the line;
it ascends, has no byte that was dropped, and with the dropped ones is all that
was sent. Steps move the borders inside it, append to it, or cut it after what
was delivered. `OneByteIsAwaitedWithATimer` (`NeverAbandoned`): a
one-byte read that waits has a timer that runs, or an expired one whose handler
is still to come. `Guarded` adds that bytes which were announced are in the
buffer, so that a buffer of one byte is full and no wait begins anew.
`ReadsComeToAnEnd` is the variant, for reads of any size: what happens during a
read, other than the arrival of a byte, leaves it less to do. So what can hold a
longer read is a wait without a timer and not a loop. `ReadEnds` is liveness and stays with TLC.

`Link_proofs`. Only the tail of a frame completes it, so the proof is about the
live tails on a line: what thins a line (`Thinned`: losing, damaging, reading,
flushing) keeps the order of the live frames and adds none, and each of those
operations is a lemma. `IInv` is the types, `Queue` (requests on the line are in
order and none has been carried out) and `Session` (what is on its way
and bears the running command's id is that command or its answer). From it
`LinkKeepsPromise`: a step is a step of `LinkPromise` or none. What is left on the
wire at the start of a session has serial numbers up to `before`, and a refusal
has none, so that either sets `foreign` when it is taken; what is left is the
session's own, and `TakesItsAnswer` says that among those the id tells the right
one. No assumption is made of ids on the stack or of when a program starts.
`NoFailureWithoutFault` has an invariant of its own, which
says how far the one command and its answer have come (`Undisturbed`).
`WaitsComeToAnEnd` is the variant, between two faults of the line: bytes on their
way to the firmware, the frame it is in, bytes on their way back. A byte makes at
most one answer, and no answer makes the host send anything. `CommandEnds` is liveness and stays with TLC.

`EntryPoint_proofs`. `Control` says which operation each place belongs to and
what the memory is doing there. `KeepsToItsArea` adds `Boundaries`: the change
that is pending lies in the operation's area, and the write loop's cursor is a
whole number of pages from the end, so that the unsigned size reaches zero
instead of wrapping, or the area is not whole pages and the cursor is not before
it. It is proved for every index and every geometry that fits the types.
`ReadsTheArea` and `UnlocksForGood` rest on the fact that nothing is pending
where a handler reads, and that a change of the protection only ever removes it.

`EntryPointMemory_proofs` goes on from `Control`. `Cursor` says where each loop
is in its area: what has been done and what is left are the area, and in the
write loop both are whole pages if the area is. `Asked` says that a call under
way has passed the checks of `Programmer`.

* `ServesTheArea` (`CallsAccepted`) is the arithmetic of those checks. The
  address of an area on the chip does not wrap, and a whole number of pages is
  what a written area must be for the checks to take its last one.
* `ErasesTheArea` (`EraseLands`): `Erasing` says that the scan has seen nothing
  but erased cells so far, that the memory is as it was until the command, and
  that it is then erased in the area, or untouched on a protected chip. The area
  is the one at the address of 32 bits, so an index that wraps needs no exception.
* `WritesTheInput` (`WriteLands`): `Goal` is the memory with what has been taken
  from the input in its place. `Writing` says that it is reached between pages,
  and within one everywhere but on the page (`Around`), which is untouched before
  it is programmed and as it should be after. A comparison or a verification that
  succeeds stands in for what is not known of the chip. No hypotheses: where an
  address wraps, the bytes still go to where `start` says.
* `EveryStepCounts` is the variant: the session, the operations, the parts of one,
  the rounds of its loop, the calls of a round and the steps of a call. The rounds
  of the write loop are counted by its input and not by its unsigned size, which
  may wrap. A turn of that loop that finds a failed input leaves everything as it
  was, and is excepted by the theorem (`Stuck`). One lemma is about the steps of the session and the chip, one about
  those of the handlers.

Every invariant and every action property that a passing run checks is a theorem
now. What stays with TLC is liveness: `TransferEnds`, `ReadEnds`,
`CommandEnds`, `CallEnds` and `RunEnds`. For all of them the proofs give the
variant, for every size: a tuple `ToDo` of numbers that each step makes smaller in the order of `Lexicographic`, so
that nothing goes round in circles. It is `LessToDo`, stated beside its proof like
`NeverAbandoned`; the runs check the liveness properties these serve. That a next
step is always possible and taken is `ENABLED` and fairness, and is checked on the
instances. The properties of the five runs that expect a violation are false, so
there is nothing to prove.

In the proofs a lemma `BelowByPart` unfolds `Below` for as many parts as the
module's `ToDo` has.

Assumptions: packets have room for a byte of data (`MemAssumption`; the boards
have 512 bytes and the host's first buffer 32), VLEN can express the room,
`Half >= 2`, the three address bytes reach all of the chip
(`GeometryAssumption`), and of the calls that they receive only after their last byte sent and skip
fewer bytes than a one-byte VLEN expresses (`TransferAssumption`); the sizes of a
chip fit a `size_t`, and the three address bytes are part of the 32-bit address
(`WidthAssumption`); there are at least two ids
(`IdAssumption`, 256 in the code); a read asks for at least a byte
(`SizeAssumption`).

## Not modelled

* The syntax of the command line, opening files, usage text, logging: wording
  and I/O. What the options mean together is in `CommandLine`.
* The JSON reader and the registry: a parser and a list that is looked up; no
  behaviour over time that a unit test would not show.
* USB descriptors, board setup, UART and port options: settings of hardware.
* CRC-8 as arithmetic: the decoder takes any step function; what matters here
  is that both ends run it over the same bytes.
* `CMD_GET_INFO` as a frame of its own: a constant answer, one of the `good`
  requests of `Link`. The packet size `attach` learns from it is a parameter of
  `SerialSpi`; a size of ten or less, with which `transfer` makes no progress,
  is excluded by `MemAssumption`.
* The test doubles, whose differences from the chip are listed above.

## Plan

What would be added next:

1. `Crc8` over `Bitwise`, for TLC only: the table against polynomial division,
   and the burst errors it detects.
2. A custom geometry in `EntryPoint` that is not the chip's.
