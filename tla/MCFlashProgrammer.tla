-------------------------- MODULE MCFlashProgrammer --------------------------
(* Every call with every address on the chip and some beyond, in and out of *)
(* alignment; pages of any content; reads of one byte and of a few.         *)
EXTENDS FlashProgrammer

MCJobs ==
    LET addresses == 0 .. Size + 1 IN
    {Job("chip", 0, Size, <<>>, FALSE)}
      \cup {Job("block", a, BlockSize, <<>>, FALSE) : a \in addresses}
      \cup {Job("sector", a, SectorSize, <<>>, FALSE) : a \in addresses}
      \cup {Job("program", a, PageSize, d, FALSE) : a \in addresses, d \in [1 .. PageSize -> Byte]}
      \cup {Job("read", a, n, <<>>, FALSE) : a \in addresses, n \in {1, 3}}
      \cup {Job("status", 0, 0, <<>>, b) : b \in BOOLEAN}
      \cup {Job("getStatus", 0, 0, <<>>, FALSE)}
=============================================================================
