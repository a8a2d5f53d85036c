---------------------------- MODULE PacketDecoder ----------------------------
(***************************************************************************)
(* The incremental frame decoder both ends of the serial link run:        *)
(* src/common/src/common/protocol/packet.c, proto_pkt_dec_*.  One byte per *)
(* call, one control state per field of the frame                          *)
(*                                                                         *)
(*    [ SYNC|CTRL ][ ID ][ VLEN 1/2B ][ payload ... ][ CRC8 ]              *)
(*                                                                         *)
(* Data abstraction: a byte is a number below 2 * Half, where Half stands  *)
(* for 0x80, the bit that selects the two-byte form of VLEN; which bytes   *)
(* open a frame (0xd0 in the high nibble) and the command they carry (the  *)
(* low three bits) are parameters, and so is the per-byte CRC step.        *)
(*                                                                         *)
(* The decoder is fed with any bytes whatever.  One of its stores can leave *)
(* the caller's buffer; what the program does then is not defined, and a   *)
(* behaviour of the model ends there.                                      *)
(***************************************************************************)
EXTENDS Naturals, Sequences

CONSTANTS
    Half,         \* first byte value with the most significant bit set (0x80)
    SyncBytes,    \* the bytes whose high nibble is PROTO_SYNC_NIBBLE
    CmdOf(_),     \* PROTO_CMD_NIBBLE_MASK & byte
    CrcByte(_,_), \* crc8_getForByte(byte, PROTO_CRC8_POLY, crc)
    MemSize       \* ctx->memSize, the size of the caller's buffer

Byte   == 0 .. 2 * Half - 1
UInt16Size == (2 * Half) * (2 * Half)
UInt16 == 0 .. UInt16Size - 1

ASSUME HalfAssumption == Half \in Nat \ {0}
ASSUME SyncAssumption == SyncBytes \subseteq Byte
ASSUME CmdAssumption  == \A b \in SyncBytes : CmdOf(b) \in Byte
ASSUME CrcAssumption  == \A b, c \in Byte : CrcByte(b, c) \in Byte
ASSUME MemAssumption  == MemSize \in UInt16 /\ MemSize >= 2

VARIABLES
    state,     \* ctx->state; STATE_CHECK_PAYLOAD and STATE_CMD_RDY never outlive a call
    code,      \* ctx->code
    id,        \* ctx->id
    crc,       \* ctx->crc
    dataSize,  \* ctx->dataSize
    dataRead,  \* ctx->dataRead, an uint16_t
    mem,       \* the caller's buffer, ctx->mem
    packet,    \* *request, the decoded packet the last accepting call filled in
    ret,       \* what the last call returned
    frame,     \* ghost: the bytes taken since (and with) the last sync byte
    overrun    \* ghost: a store has left the buffer

vars == <<state, code, id, crc, dataSize, dataRead, mem, packet, ret, frame, overrun>>

State == {"WAIT_SYNC", "ID", "VLEN_HI", "VLEN_LO", "PAYLOAD", "CRC"}
Ret   == {"IDLE", "NO_ERROR", "INVALID_CRC", "INVALID_LENGTH"}

\* proto_int_val_length_probe
Probe(byte) == IF byte >= Half THEN 2 ELSE 1

\* Mutant of Decode: the two bytes swapped.
DecodeSwapped(hi, lo) == (lo - Half) * (2 * Half) + hi

\* proto_int_val_decode of a two-byte VLEN
Decode(hi, lo) == (hi - Half) * (2 * Half) + lo

TypeOK ==
    /\ state \in State
    /\ code \in Byte
    /\ id \in Byte
    /\ crc \in Byte
    /\ dataSize \in Nat
    /\ dataRead \in UInt16
    /\ mem \in [0 .. MemSize - 1 -> Byte]
    /\ packet \in [code : Byte, id : Byte, payloadSize : Nat]
    /\ ret \in Ret
    /\ frame \in Seq(Byte)
    /\ overrun \in BOOLEAN

Init ==
    /\ state = "WAIT_SYNC" /\ code = 0 /\ id = 0 /\ crc = 0
    /\ dataSize = 0 /\ dataRead = 0
    /\ mem = [i \in 0 .. MemSize - 1 |-> 0]
    /\ packet = [code |-> 0, id |-> 0, payloadSize |-> 0]
    /\ ret = "IDLE"
    /\ frame = <<>> /\ overrun = FALSE

-----------------------------------------------------------------------------
(* What every call ends with.                                              *)

\* Mutant of DecReset: the count of payload bytes is not cleared.
DecResetKeepsCount ==
    /\ state' = "WAIT_SYNC" /\ code' = 0 /\ id' = 0 /\ crc' = 0
    /\ dataSize' = 0 /\ UNCHANGED dataRead

\* proto_pkt_dec_reset
DecReset ==
    /\ state' = "WAIT_SYNC" /\ code' = 0 /\ id' = 0 /\ crc' = 0
    /\ dataSize' = 0 /\ dataRead' = 0

\* An error is returned and the context is reset; *request stays as it was.
Fail(error) == DecReset /\ ret' = error /\ UNCHANGED packet

AwaitPayload(byte, size) ==
    /\ state' = "PAYLOAD"
    /\ dataSize' = size
    /\ crc' = CrcByte(byte, crc)
    /\ ret' = "IDLE"
    /\ UNCHANGED <<code, id, dataRead, packet>>

\* Mutants of CheckPayload: no test of the size; a full buffer refused; the
\* byte left out of the check value.
CheckPayloadDropped(byte, size) == AwaitPayload(byte, size)

CheckPayloadOffByOne(byte, size) ==
    IF size >= MemSize THEN Fail("INVALID_LENGTH") ELSE AwaitPayload(byte, size)

CheckPayloadNoCrc(byte, size) ==
    IF size > MemSize
    THEN Fail("INVALID_LENGTH")
    ELSE state' = "PAYLOAD" /\ dataSize' = size /\ ret' = "IDLE"
         /\ UNCHANGED <<code, id, crc, dataRead, packet>>

\* The call that reads the last byte of VLEN also runs STATE_CHECK_PAYLOAD.
CheckPayload(byte, size) ==
    IF size > MemSize
    THEN Fail("INVALID_LENGTH")
    ELSE AwaitPayload(byte, size)

-----------------------------------------------------------------------------
(* One action per control state of proto_pkt_dec_putByte.                  *)

WaitSync(byte) ==
    /\ state = "WAIT_SYNC"
    /\ ret' = "IDLE"
    /\ \/ /\ byte \in SyncBytes
          /\ state' = "ID"
          /\ code' = CmdOf(byte)
          /\ crc' = CrcByte(byte, 0)
          /\ frame' = <<byte>>
       \/ /\ byte \notin SyncBytes
          /\ frame' = <<>>
          /\ UNCHANGED <<state, code, crc>>
    /\ UNCHANGED <<id, dataSize, dataRead, mem, packet>>

Id(byte) ==
    /\ state = "ID"
    /\ id' = byte
    /\ state' = "VLEN_HI"
    /\ crc' = CrcByte(byte, crc)
    /\ ret' = "IDLE"
    /\ frame' = Append(frame, byte)
    /\ UNCHANGED <<code, dataSize, dataRead, mem, packet>>

\* Mutant of VlenHi: an empty payload is waited for like any other.
VlenHiNoEmpty(byte) ==
    /\ state = "VLEN_HI"
    /\ frame' = Append(frame, byte)
    /\ \/ /\ Probe(byte) = 1
          /\ CheckPayload(byte, byte)
          /\ UNCHANGED mem
       \/ /\ Probe(byte) = 2
          /\ state' = "VLEN_LO"
          /\ mem' = [mem EXCEPT ![0] = byte]
          /\ crc' = CrcByte(byte, crc)
          /\ ret' = "IDLE"
          /\ UNCHANGED <<code, id, dataSize, dataRead, packet>>

VlenHi(byte) ==
    /\ state = "VLEN_HI"
    /\ frame' = Append(frame, byte)
    /\ \/ /\ Probe(byte) = 1 /\ byte # 0
          /\ CheckPayload(byte, byte)
          /\ UNCHANGED mem
       \/ /\ Probe(byte) = 1 /\ byte = 0
          /\ state' = "CRC"
          /\ dataSize' = 0
          /\ crc' = CrcByte(byte, crc)
          /\ ret' = "IDLE"
          /\ UNCHANGED <<code, id, dataRead, mem, packet>>
       \/ /\ Probe(byte) = 2
          /\ state' = "VLEN_LO"
          /\ mem' = [mem EXCEPT ![0] = byte]
          /\ crc' = CrcByte(byte, crc)
          /\ ret' = "IDLE"
          /\ UNCHANGED <<code, id, dataSize, dataRead, packet>>

\* A two-byte VLEN goes to STATE_CHECK_PAYLOAD whatever its value, zero included.
VlenLo(byte) ==
    /\ state = "VLEN_LO"
    /\ mem' = [mem EXCEPT ![1] = byte]
    /\ frame' = Append(frame, byte)
    /\ CheckPayload(byte, Decode(mem[0], byte))

\* mem[dataRead++] = byte
Payload(byte) ==
    /\ state = "PAYLOAD" /\ dataRead < MemSize
    /\ mem' = [mem EXCEPT ![dataRead] = byte]
    /\ dataRead' = (dataRead + 1) % UInt16Size
    /\ state' = IF dataRead' = dataSize THEN "CRC" ELSE "PAYLOAD"
    /\ crc' = CrcByte(byte, crc)
    /\ ret' = "IDLE"
    /\ frame' = Append(frame, byte)
    /\ UNCHANGED <<code, id, dataSize, packet>>

\* The same store behind the end of the buffer.
PayloadOutside ==
    /\ state = "PAYLOAD" /\ dataRead >= MemSize
    /\ overrun' = TRUE
    /\ UNCHANGED <<state, code, id, crc, dataSize, dataRead, mem, packet, ret, frame>>

Crc(byte) ==
    /\ state = "CRC"
    /\ frame' = Append(frame, byte)
    /\ \/ /\ crc # byte
          /\ Fail("INVALID_CRC")
       \/ /\ crc = byte
          /\ DecReset
          /\ ret' = "NO_ERROR"
          /\ packet' = [code |-> code, id |-> id, payloadSize |-> dataSize]
    /\ UNCHANGED mem

\* programmer_reset: the firmware's main loop gives up on a silent line.
Reset ==
    /\ DecReset
    /\ ret' = "IDLE"
    /\ frame' = <<>>
    /\ UNCHANGED <<mem, packet>>

PutByte(byte) ==
    \/ /\ \/ WaitSync(byte) \/ Id(byte) \/ VlenHi(byte) \/ VlenLo(byte) \/ Payload(byte) \/ Crc(byte)
       /\ UNCHANGED overrun
    \/ PayloadOutside

Next ==
    /\ ~ overrun
    /\ \/ \E byte \in Byte : PutByte(byte)
       \/ Reset /\ UNCHANGED overrun

Spec == Init /\ [][Next]_vars

-----------------------------------------------------------------------------
(* The frame format of src/common/include/common/protocol.h, read off the  *)
(* bytes themselves, independently of the decoder's state.                 *)

HeaderLen(f) == 2 + Probe(f[3])
Declared(f)  == IF Probe(f[3]) = 2 THEN Decode(f[3], f[4]) ELSE f[3]
HasHeader(f) == Len(f) >= 3 /\ Len(f) >= HeaderLen(f)
Complete(f)  == HasHeader(f) /\ Len(f) = HeaderLen(f) + Declared(f) + 1

\* The check value of the first n bytes of f (crc8_get).
CrcOf(f, n) ==
    LET crcs[i \in 0 .. n] == IF i = 0 THEN 0 ELSE CrcByte(f[i], crcs[i - 1])
    IN  crcs[n]

\* A length of zero in the two-byte form.  proto_int_val_encode does not write
\* it; protocol.h:32 allows it, and noise, or a reset in the middle of a frame,
\* can make the decoder see it.
LongZero(f) == Len(f) >= 4 /\ Probe(f[3]) = 2 /\ Declared(f) = 0

(***************************************************************************)
(* The store of a payload byte stays in the buffer (packet.c:158), which   *)
(* the test of the length at packet.c:192 is there for.                    *)
(***************************************************************************)
NoOverrun == ~ overrun

(***************************************************************************)
(* The only frames whose payload leaves the buffer, or runs on past the    *)
(* length declared, are those with a length of zero in two bytes: for every *)
(* other the next byte has its place in both, whatever frames, noise and   *)
(* resets came before (packet.c:150, 158 and 192).                         *)
(***************************************************************************)
OnlyLongZeroOverruns ==
    LongZero(frame) \/ (~ overrun /\ (state = "PAYLOAD" => dataRead < dataSize /\ dataSize <= MemSize))

(***************************************************************************)
(* A packet handed to the caller is exactly the frame that was on the      *)
(* line: command, id and length are those of the header, and the buffer    *)
(* holds the payload's bytes in order, although its first two cells were   *)
(* the scratch space of VLEN (packet.c:135, 146).                          *)
(***************************************************************************)
AcceptedFrame ==
    ret = "NO_ERROR" =>
        /\ Complete(frame)
        /\ frame[1] \in SyncBytes
        /\ packet.code = CmdOf(frame[1])
        /\ packet.id = frame[2]
        /\ packet.payloadSize = Declared(frame)
        /\ packet.payloadSize <= MemSize
        /\ \A i \in 1 .. packet.payloadSize : mem[i - 1] = frame[HeaderLen(frame) + i]

(***************************************************************************)
(* A frame is refused for its length only when the length it declares does *)
(* not fit the buffer, and as soon as the header is in.                    *)
(***************************************************************************)
RefusedLength ==
    ret = "INVALID_LENGTH" =>
        HasHeader(frame) /\ Declared(frame) > MemSize /\ Len(frame) = HeaderLen(frame)

(***************************************************************************)
(* The check value accumulated byte by byte over the five fields is that   *)
(* of the whole frame (crc8_get, which the sender runs): the verdict at    *)
(* the end of a frame is the verdict on its bytes.                         *)
(***************************************************************************)
CrcVerdict ==
    ret \in {"NO_ERROR", "INVALID_CRC"} =>
        LET n == Len(frame) IN ret = "NO_ERROR" <=> frame[n] = CrcOf(frame, n - 1)

(***************************************************************************)
(* No complete frame is passed over, except one with a length of zero in   *)
(* two bytes: when the last byte of a frame in the documented format is in, *)
(* the call does not return PROTO_PKT_DES_RET_IDLE (packet.c:127 and 150). *)
(***************************************************************************)
OnlyLongZeroMissed == ret = "IDLE" /\ Complete(frame) => LongZero(frame)
=============================================================================
