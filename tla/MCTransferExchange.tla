------------------------- MODULE MCTransferExchange -------------------------
(* Every transfer the host can ask for in a buffer of MemSize bytes, with a *)
(* VLEN that takes two bytes from Half on; skips up to SkipMax.            *)
EXTENDS TransferExchange
CONSTANT SkipMax

MCRequests == [tx   : 0 .. RequestRoom(Room),
               skip : 0 .. SkipMax,
               rx   : 0 .. ResponseRoom(Room),
               keep : BOOLEAN]
=============================================================================
