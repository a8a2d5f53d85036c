---------------------------- MODULE MCEntryPoint ----------------------------
(* Command lines of one option and of a few that meet in a session, on a   *)
(* chip of two blocks of two pages of two bytes, with sectors of one byte: *)
(* less than a page, as -g may say.  Block 8 is off the chip and has the   *)
(* address 0 in AddressMod.  The inputs end before, at and behind the end  *)
(* of pages and areas.                                                     *)
EXTENDS EntryPoint, CommandLine, TLC

Zero == {}
One  == Bits

Just(op, mode, index) == Option(op, mode) :> index

Singles ==
    {Just(op, "chip", 0) : op \in {"erase", "write", "read"}}
      \cup {Just(op, "block", i) : op \in {"erase", "write", "read"}, i \in {1, 2, 8}}
      \cup {Just(op, "sector", i) : op \in {"erase", "write", "read"}, i \in {0, 3, -1}}

\* Unprotect before any of them; erase, write and read back; two writes from
\* one input; an erase that leaves its index to an operation on the whole chip.
Several ==
    {Just("unlock", "chip", 0) @@ s : s \in {x \in Singles : \E o \in DOMAIN x : o.op = "erase"}}
      \cup {Just("erase", "block", 1) @@ Just("write", "block", 1) @@ Just("read", "sector", 2),
            Just("write", "block", 0) @@ Just("write", "sector", 6),
            Just("erase", "block", 1) @@ Just("write", "chip", 0),
            Just("erase", "sector", 1) @@ Just("read", "chip", 0)}

MCSessions == {Operations(args, omit, verify) :
                   args \in Singles \cup Several, omit \in BOOLEAN, verify \in BOOLEAN}

MCInputs == {<<>>, <<Zero>>, <<Zero, One, Zero, Zero>>, [k \in 1 .. 9 |-> IF k % 3 = 0 THEN One ELSE Zero]}

MCMemories == {[a \in Cells |-> One], [a \in Cells |-> IF a % 3 = 2 THEN One ELSE Zero],
               [a \in Cells |-> IF a < 4 THEN Zero ELSE One]}

\* The erase of a block that the chip does not have.
FarSessions == {Operations(Just("erase", "block", 8), FALSE, FALSE)}

\* A write that is to be verified.
VerifySessions == {Operations(Just("write", "block", 1), FALSE, TRUE)}
=============================================================================
