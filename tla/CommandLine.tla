----------------------------- MODULE CommandLine -----------------------------
(***************************************************************************)
(* From options to operations: main() (flashutil/src/flashutil/main.cpp).  *)
(* Options are looked up one by one, in the order of the code and not of   *)
(* the command line, and fill in one Parameters object that is copied for  *)
(* each operation.                                                         *)
(***************************************************************************)
EXTENDS Integers, Sequences, FiniteSetsExt

CONSTANT IntMod    \* values of an int

Option(op, mode) == [op |-> op, mode |-> mode]

Detect == Option("none", "none")

Order == << Detect,
            Option("unlock", "chip"),
            Option("erase", "chip"), Option("erase", "block"), Option("erase", "sector"),
            Option("write", "chip"), Option("write", "block"), Option("write", "sector"),
            Option("read", "chip"), Option("read", "block"), Option("read", "sector") >>

Indexed(option) == option.mode \in {"block", "sector"}

\* An off_t stored in an int.
ToInt(x) == ((x + IntMod \div 2) % IntMod) - IntMod \div 2

\* The operations of a command line: args gives the options present, each with
\* its argument (any value where it takes none).  The index is the one set
\* last, for operations on the whole chip too.
Operations(args, omit, verify) ==
    LET given == SelectSeq(Order, LAMBDA o : o = Detect \/ o \in DOMAIN args)
        Index(k) == LET set == {j \in 1 .. k : Indexed(given[j])} IN
                    IF set = {} THEN 0 ELSE ToInt(args[given[Max(set)]])
    IN [k \in DOMAIN given |->
           [op |-> given[k].op, mode |-> given[k].mode, index |-> Index(k),
            omit |-> omit, verify |-> verify]]
=============================================================================
