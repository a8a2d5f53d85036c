-------------------------- MODULE TransferExchange --------------------------
(***************************************************************************)
(* One CMD_SPI_TRANSFER from the host's request to the host's copy of the  *)
(* answer, in the two ends' single buffers:                                *)
(*   - the host lays the request out (request.c, packet.c);                *)
(*   - the firmware reads it in its buffer, where the frame decoder left   *)
(*     the payload at offset 0 (request.c), and runs the burst on the SPI  *)
(*     bus with the answer growing in the SAME buffer (programmer.c,       *)
(*     firmware/arduino/src/main.c; rpi-pico/src/main.c has the same loop);*)
(*   - the host copies the answer out of the response frame.               *)
(*                                                                         *)
(* Data abstraction: a memory cell holds a number (flags, VLEN), a byte of *)
(* the message to send or of the device's output (known by its position),  *)
(* the filler 0xff, or leftovers.  Framing and CRC are in PacketDecoder.   *)
(***************************************************************************)
EXTENDS ProtocolSizes, Sequences

CONSTANTS
    MemSize,   \* size of the packet buffer, the same at both ends after attach()
    Requests   \* the transfers the host asks for: records [tx, skip, rx, keep]

Room == MaxPayload(MemSize)

ASSUME MemAssumption == MemSize \in Nat /\ Room > 7

\* The host's chunking (SerialSpi::transfer) never asks for more than these.
ASSUME RequestAssumption ==
    Requests \subseteq [tx   : 0 .. RequestRoom(Room),
                        skip : VlenValues,
                        rx   : 0 .. ResponseRoom(Room),
                        keep : BOOLEAN]

ASSUME VlenAssumption == Room \in VlenValues

VARIABLES
    pc,        \* where the exchange is
    request,   \* what the host asks for
    payload,   \* the request's payload on the wire
    mem,       \* the firmware's buffer, programmer->mem
    got,       \* the request as the firmware decoded it
    i,         \* the burst's loop counter
    toRecv,    \* bytes still to store
    cs,        \* the chip select line, TRUE when the device is selected
    mosi,      \* bytes clocked out to the device, in order
    received   \* the answer's bytes as the host sees them

vars == <<pc, request, payload, mem, got, i, toRecv, cs, mosi, received>>

Num(n)  == [kind |-> "num",  n |-> n]   \* a byte of flags or VLEN
Tx(n)   == [kind |-> "tx",   n |-> n]   \* byte n of the data to send
Miso(n) == [kind |-> "miso", n |-> n]   \* what the device answers on clock n
Filler  == [kind |-> "ff",   n |-> 0]
Junk    == [kind |-> "junk", n |-> 0]

Cell == [kind : {"num", "tx", "miso", "ff", "junk"}, n : Nat]
Cells == 0 .. MemSize - 1

TypeOK ==
    /\ pc \in {"build", "decode", "burst", "reply", "done", "fault"}
    /\ request \in Requests
    /\ payload \in Seq(Cell)
    /\ mem \in [Cells -> Cell]
    /\ got \in [tx : Nat, skip : Nat, rx : Nat, keep : BOOLEAN]
    /\ i \in Nat
    /\ toRecv \in Nat
    /\ cs \in BOOLEAN
    /\ mosi \in Seq(Cell)
    /\ received \in Seq(Cell)

Init ==
    /\ pc = "build"
    /\ request \in Requests
    /\ payload = <<>>
    /\ mem = [c \in Cells |-> Junk]
    /\ got = [tx |-> 0, skip |-> 0, rx |-> 0, keep |-> FALSE]
    /\ i = 0 /\ toRecv = 0
    /\ cs \in BOOLEAN      \* an earlier transfer may have kept the chip selected
    /\ mosi = <<>> /\ received = <<>>

-----------------------------------------------------------------------------
(* The request's layout.                                                   *)

\* proto_int_val_encode
EncodeVlen(v) ==
    IF VlenSize(v) = 1 THEN <<Num(v)>>
    ELSE <<Num(Half + (v \div (2 * Half))), Num(v % (2 * Half))>>

\* proto_int_val_decode of the cells at c, c + 1
DecodeVlen(m, c) ==
    IF m[c].n >= Half THEN (m[c].n - Half) * (2 * Half) + m[c + 1].n ELSE m[c].n

\* proto_req_encode and the copy of the data into txBuffer
EncodeRequest(r) ==
    <<Num(IF r.keep THEN 1 ELSE 0)>> \o EncodeVlen(r.tx) \o [n \in 1 .. r.tx |-> Tx(n - 1)]
        \o EncodeVlen(r.skip) \o EncodeVlen(r.rx)

\* proto_req_decode; the offset moves on by the size of the value decoded.
DecodeRequest(m) ==
    LET tx     == DecodeVlen(m, 1)
        skipAt == 1 + VlenSize(tx) + tx
        skip   == DecodeVlen(m, skipAt)
        rx     == DecodeVlen(m, skipAt + VlenSize(skip))
    IN  [tx |-> tx, skip |-> skip, rx |-> rx, keep |-> m[0].n = 1]

-----------------------------------------------------------------------------

\* executeCmd up to the write.  proto_pkt_prepare leaves the payload pointer
\* NULL when the size asked for is the one proto_pkt_init put there (or is too
\* large, a result nobody looks at): the request is then laid out at address 0.
Build ==
    /\ pc = "build"
    /\ \/ /\ RequestSize(request.tx, request.skip, request.rx) < Room
          /\ payload' = EncodeRequest(request)
          /\ pc' = "decode"
       \/ /\ RequestSize(request.tx, request.skip, request.rx) >= Room
          /\ pc' = "fault"
          /\ UNCHANGED payload
    /\ UNCHANGED <<request, mem, got, i, toRecv, cs, mosi, received>>

\* The frame decoder has put the payload at the front of the buffer;
\* programmer_putByte decodes it, prepares the response and calls back, and
\* the callback selects the chip.
Decode ==
    /\ pc = "decode"
    /\ mem' = [c \in Cells |-> IF c < Len(payload) THEN payload[c + 1] ELSE mem[c]]
    /\ got' = DecodeRequest(mem')
    /\ i' = 0
    /\ toRecv' = got'.rx
    /\ cs' = TRUE
    /\ pc' = "burst"
    /\ UNCHANGED <<request, payload, mosi, received>>

\* Mutant of Clock: bytes are stored though no more are wanted.
ClockUnguarded ==
    /\ pc = "burst"
    /\ i < Clocks(got)
    /\ mosi' = Append(mosi, IF i < got.tx THEN mem[TxCell(got, i)] ELSE Filler)
    /\ \/ /\ i >= got.skip
          /\ mem' = [mem EXCEPT ![RxCell(got, i - got.skip)] = Miso(i)]
          /\ toRecv' = toRecv - 1
       \/ /\ i < got.skip
          /\ UNCHANGED <<mem, toRecv>>
    /\ i' = i + 1
    /\ UNCHANGED <<pc, request, payload, got, cs, received>>

\* One iteration of the burst: a byte out, a byte in, the byte in stored when
\* it is past the skipped ones and still wanted.
Clock ==
    /\ pc = "burst"
    /\ i < Clocks(got)
    /\ mosi' = Append(mosi, IF i < got.tx THEN mem[TxCell(got, i)] ELSE Filler)
    /\ \/ /\ toRecv > 0 /\ i >= got.skip
          /\ mem' = [mem EXCEPT ![RxCell(got, i - got.skip)] = Miso(i)]
          /\ toRecv' = toRecv - 1
       \/ /\ ~ (toRecv > 0 /\ i >= got.skip)
          /\ UNCHANGED <<mem, toRecv>>
    /\ i' = i + 1
    /\ UNCHANGED <<pc, request, payload, got, cs, received>>

\* The loop is over: the chip is released unless KEEP_CS, the response frame
\* is sent with the answer where the burst put it.
Reply ==
    /\ pc = "burst"
    /\ i >= Clocks(got)
    /\ cs' = (cs /\ got.keep)
    /\ pc' = "reply"
    /\ UNCHANGED <<request, payload, mem, got, i, toRecv, mosi, received>>

\* The host decodes the response and copies it to the message's buffer.
CopyOut ==
    /\ pc = "reply"
    /\ received' = [n \in 1 .. got.rx |-> mem[RxCell(got, n - 1)]]
    /\ pc' = "done"
    /\ UNCHANGED <<request, payload, mem, got, i, toRecv, cs, mosi>>

Next == Build \/ Decode \/ Clock \/ Reply \/ CopyOut

Spec == Init /\ [][Next]_vars

-----------------------------------------------------------------------------
(* Properties.                                                             *)

(***************************************************************************)
(* The firmware works on the request the host made: the three variable     *)
(* length fields and the flag survive the layout, at every crossing of the *)
(* one-byte / two-byte boundary (request.c:88-152).                        *)
(***************************************************************************)
RequestSurvives == pc \in {"burst", "reply", "done"} => got = request

(***************************************************************************)
(* The device is sent the message's bytes in order and then filler, though *)
(* the answer is stored into the buffer the bytes are read from            *)
(* (arduino/src/main.c:132-149).                                           *)
(***************************************************************************)
MosiFaithful ==
    Separate(request) =>
        \A n \in 1 .. Len(mosi) : mosi[n] = IF n <= request.tx THEN Tx(n - 1) ELSE Filler

(***************************************************************************)
(* The answer is the device's output of the clocks after the skipped ones, *)
(* none missing, none twice, and the burst has run its full length.        *)
(***************************************************************************)
AnswerFaithful ==
    pc = "done" =>
        /\ Len(mosi) = Clocks(request)
        /\ received = [n \in 1 .. request.rx |-> Miso(request.skip + n - 1)]

(***************************************************************************)
(* Both ends stay inside the buffer: every cell of the answer, and the     *)
(* check value after it, has a place, for every size the host may ask for  *)
(* although _getMaxPayloadSize forgets the check value (packet.c:26-38).   *)
(***************************************************************************)
FrameFits ==
    /\ pc = "burst" => RxCell(got, got.rx) < MemSize /\ FrameSize(got.rx) <= MemSize
    /\ pc = "decode" => FrameSize(Len(payload)) <= MemSize

(***************************************************************************)
(* A request whose fields are not all in the long form never meets the     *)
(* NULL payload of proto_pkt_prepare.                                      *)
(***************************************************************************)
FaultNeedsLongFields ==
    pc = "fault" => {request.tx, request.skip, request.rx} \cap 0 .. Half - 1 = {}
=============================================================================
