---------------------------- MODULE ProtocolSizes ----------------------------
(***************************************************************************)
(* The size arithmetic the two ends of the link share: variable length     *)
(* fields (common/src/common/protocol/common.c), the room a frame leaves   *)
(* for its payload in a buffer (packet.c) and the room a payload leaves    *)
(* for the data of an SPI transfer (request.c, response.c).                *)
(* Half stands for 0x80: values below it take one byte, the others two.    *)
(***************************************************************************)
EXTENDS Naturals

CONSTANT Half
ASSUME HalfAssumption == Half \in Nat /\ Half >= 2

\* Mutant of VlenSize: the boundary off by one.
VlenSizeOff(value) == IF value > Half THEN 2 ELSE 1

\* proto_int_val_length_estimate
VlenSize(value) == IF value >= Half THEN 2 ELSE 1

\* The values the two-byte form can carry: 15 bits of them.
VlenValues == 0 .. Half * (2 * Half) - 1

\* _getMaxPayloadSize: what is left of a buffer for the payload.  The overhead
\* counts SYNC, ID and VLEN and, wrongly, one byte too few for the CRC.
MaxPayload(memSize) ==
    IF memSize <= 3 THEN 0
    ELSE memSize - (IF VlenSize(memSize - 3) = 2 THEN 4 ELSE 3)

\* proto_pkt_encode's return value
FrameSize(payload) == 2 + VlenSize(payload) + payload + 1

\* Mutants of RequestRoom: one byte of overhead forgotten; the test reversed.
RequestRoomMore(payload) == IF payload > 7 THEN payload - 6 ELSE 0
RequestRoomReversed(payload) == IF payload < 7 THEN payload - 7 ELSE 0

\* proto_req_init: the most data one request offers to carry.
RequestRoom(payload) == IF payload > 7 THEN payload - 7 ELSE 0

\* Mutant of ResponseRoom: no byte of overhead.
ResponseRoomAll(payload) == payload

\* proto_res_init: the most data one response offers to carry.
ResponseRoom(payload) == IF payload > 1 THEN payload - 1 ELSE 0

\* proto_req_getPayloadSize of a CMD_SPI_TRANSFER
RequestSize(tx, skip, rx) == 1 + VlenSize(tx) + tx + VlenSize(skip) + VlenSize(rx)

-----------------------------------------------------------------------------
(* A transfer in the firmware's buffer; r is a record [tx, skip, rx, ...]. *)

\* Mutant of TxCell: a data length that always takes one byte.
TxCellShort(r, n) == 2 + n

\* Where the firmware finds the data to send, and where the answer goes:
\* the request's payload starts the buffer, the response's follows its header.
TxCell(r, n) == 1 + VlenSize(r.tx) + n
RxCell(r, n) == 2 + VlenSize(r.rx) + n

\* Mutant of Clocks: the skipped clocks forgotten.
ClocksNoSkip(r) == IF r.tx > r.rx THEN r.tx ELSE r.rx

Clocks(r) == IF r.tx > r.skip + r.rx THEN r.tx ELSE r.skip + r.rx

\* The transfers whose answer does not run over the data still to be sent:
\* nothing to read, reading only after the last byte sent (what every command
\* of flashutil/programmer.cpp does), or an answer that starts low enough.
Separate(r) ==
    r.rx = 0 \/ r.skip >= r.tx \/ VlenSize(r.tx) + r.skip > VlenSize(r.rx)
=============================================================================
