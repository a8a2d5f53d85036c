--------------------------- MODULE MCPacketDecoder ---------------------------
(* PacketDecoder on two-bit bytes: 0..3, of which 2 and 3 have the top bit  *)
(* set and also open a frame.                                              *)
EXTENDS PacketDecoder

MCSyncBytes == {2, 3}
MCCmdOf(b) == b % 2
\* Like the table-driven CRC, a bijection in each argument that depends on order.
MCCrcByte(b, c) == (b + 3 * c + 1) % 4
=============================================================================
