------------------------------ MODULE FlashChip ------------------------------
(***************************************************************************)
(* A serial flash chip as flashutil/src/flashutil/programmer.cpp relies on *)
(* it.  The chip itself is external; the test's DummyFlash                 *)
(* (test/src/flashutil/serialProgrammer.cpp:13-300) is a simpler one: it   *)
(* listens while it is busy and erases without write enable, which a chip  *)
(* does not, and which the WREN and the polling of programmer.cpp are for. *)
(*                                                                         *)
(* A byte is the set of its bits that are 1: erasing sets them all,        *)
(* programming can only clear some.                                        *)
(***************************************************************************)
EXTENDS Integers, Sequences

CONSTANTS
    Bits,        \* the bits of a byte
    Size,        \* bytes on the chip
    SectorSize, BlockSize, PageSize,
    AddrSpace    \* what the three address bytes of a command can express

ASSUME GeometryAssumption ==
    /\ Size \in Nat \ {0} /\ SectorSize \in Nat \ {0}
    /\ BlockSize \in Nat \ {0} /\ PageSize \in Nat \ {0}
    /\ AddrSpace \in Nat /\ Size <= AddrSpace

Cells == 0 .. Size - 1
Byte  == SUBSET Bits

\* A job: what one call asks of the chip.  op is "chip", "block", "sector"
\* (erase), "program", "status" (write the register), "read" or "getStatus".
Erases  == {"chip", "block", "sector"}
Changes == Erases \cup {"program", "status"}
Job(op, at, n, data, lock) == [op |-> op, at |-> at, n |-> n, data |-> data, lock |-> lock]
None == Job("none", 0, 0, <<>>, FALSE)

Area(j) == j.at .. j.at + j.n - 1

\* The alignment programmer.cpp asks of a job's address.
Align(j) ==
    CASE j.op = "block"   -> BlockSize
      [] j.op = "sector"  -> SectorSize
      [] j.op = "program" -> PageSize
      [] OTHER            -> 1

\* The memory when job j is done.
Apply(mem, j) ==
    [a \in Cells |-> IF a \notin Area(j) THEN mem[a]
                     ELSE IF j.op \in Erases THEN Bits
                     ELSE IF j.op = "program" THEN mem[a] \cap j.data[a - j.at + 1]
                     ELSE mem[a]]

\* The protection when job j is done.
Lock(locked, j) == IF j.op = "status" THEN j.lock ELSE locked

Content(mem, j) == [k \in 1 .. j.n |-> mem[j.at + k - 1]]

-----------------------------------------------------------------------------
(* The chip: [mem, doing (a job, or None), wel, locked, reading], where    *)
(* reading is the address of a READ whose chip select has not risen yet.   *)

NotReading == -1

\* The job as the chip hears it: three address bytes, whose upper bits it ignores.
Heard(j) == [j EXCEPT !.at = (j.at % AddrSpace) % Size]

\* A busy chip listens to RDSR alone; after READ it takes no command at all
\* until it is released.
Listens(chip) == chip.doing = None /\ chip.reading = NotReading

Deselect(chip) == [chip EXCEPT !.reading = NotReading]

WriteEnable(chip) == IF Listens(chip) THEN [chip EXCEPT !.wel = TRUE] ELSE Deselect(chip)

\* Erase, page program or write status: begins when the chip is released, if
\* write enable is set and, except for the status, nothing is protected.
Command(chip, j) ==
    IF Listens(chip) /\ chip.wel /\ (~ chip.locked \/ j.op = "status")
    THEN [chip EXCEPT !.doing = Heard(j)]
    ELSE Deselect(chip)

\* The job ends, and with it write enable and the busy bit.
Commit(chip) ==
    [chip EXCEPT !.mem = Apply(chip.mem, chip.doing),
                 !.locked = Lock(chip.locked, chip.doing),
                 !.wel = FALSE,
                 !.doing = None]

\* READ and its address, the chip staying selected; to a chip that is still
\* sending an earlier READ, the four bytes are clocks of that one.
ReadBegin(chip, at) ==
    IF Listens(chip) THEN [chip EXCEPT !.reading = (at % AddrSpace) % Size]
    ELSE IF chip.reading # NotReading THEN [chip EXCEPT !.reading = (chip.reading + 4) % Size]
    ELSE chip

\* What n clocks yield; a chip that is not sending leaves the line high.
ReadOut(chip, n) ==
    [k \in 1 .. n |-> IF chip.reading # NotReading THEN chip.mem[(chip.reading + k - 1) % Size]
                      ELSE Bits]
=============================================================================
