----------------------------- MODULE SpiTransfer -----------------------------
(***************************************************************************)
(* What a caller of Spi::transfer (flashutil/include/flashutil/spi.h) is   *)
(* promised, whatever carries it out: each message is one full-duplex      *)
(* exchange on the bus.  The device is clocked max(tx, skip + rx) times;   *)
(* it is sent the message's bytes and then 0xff; what it answers on clocks *)
(* skip, skip + 1, ... is the message's receive buffer.  The chip stays    *)
(* selected from the first clock on and is released after the last clock  *)
(* of a message that asks for it: always if StackFlags is {FALSE}, and as  *)
(* chance has it if the bit that keeps the chip selected is left unset by  *)
(* whoever carries the message out.                                        *)
(*                                                                         *)
(* Byte n of a message is the number n, and so is the device's answer on   *)
(* clock n of a message.                                                   *)
(***************************************************************************)
EXTENDS Integers, Sequences

CONSTANTS
    Transfers,   \* the calls: sequences of messages [tx, skip, rx, deselect]
    StackFlags   \* what an uninitialised KEEP_CS bit may read

VARIABLES
    msgs,    \* the messages of the call
    m,       \* the message being exchanged
    mosi,    \* the bytes the device was sent for it
    recv,    \* the bytes received for it so far
    cs,      \* TRUE while the chip is selected
    result   \* "running", "done", "failed" (an exception),
             \* and after detach "released", or "aborted" when that failed

vars == <<msgs, m, mosi, recv, cs, result>>

Filler == -1

Total(g) == IF g.tx > g.skip + g.rx THEN g.tx ELSE g.skip + g.rx
Sent(g, n)     == [k \in 1 .. n |-> IF k <= g.tx THEN k - 1 ELSE Filler]
Answered(g, n) == [k \in 1 .. n |-> g.skip + k - 1]

Current == msgs[m]

Init ==
    /\ msgs \in Transfers
    /\ m = 1
    /\ mosi = <<>> /\ recv = <<>>
    /\ cs \in BOOLEAN
    /\ result = "running"

\* Some more clocks of the message, with the chip selected; only after the very
\* last one, and only if the message says so, may it be released.
Burst ==
    /\ result = "running"
    /\ \E n \in Len(mosi) + 1 .. Total(Current) :
           /\ mosi' = Sent(Current, n)
           /\ cs' \in IF n = Total(Current) /\ Current.deselect THEN StackFlags ELSE {TRUE}
    /\ UNCHANGED <<msgs, m, recv, result>>

\* Some of what the device has answered reaches the caller.
Deliver ==
    /\ result = "running"
    /\ \E n \in Len(recv) + 1 .. Current.rx :
           /\ Current.skip + n <= Len(mosi)
           /\ recv' = Answered(Current, n)
    /\ UNCHANGED <<msgs, m, mosi, cs, result>>

NextMessage ==
    /\ result = "running"
    /\ Len(mosi) = Total(Current) /\ Len(recv) = Current.rx
    /\ \/ m < Len(msgs) /\ m' = m + 1 /\ mosi' = <<>> /\ recv' = <<>> /\ UNCHANGED result
       \/ m = Len(msgs) /\ result' = "done" /\ UNCHANGED <<m, mosi, recv>>
    /\ UNCHANGED <<msgs, cs>>

\* The link fails: an exception leaves transfer().
Fail ==
    /\ result = "running"
    /\ result' = "failed"
    /\ UNCHANGED <<msgs, m, mosi, recv, cs>>

\* detach(): whatever happened before, the chip is released, or the caller
\* learns that it may not be.
Release ==
    /\ result \in {"done", "failed"}
    /\ \/ result' = "released" /\ cs' = FALSE
       \/ result' = "aborted" /\ cs' \in {cs, FALSE}
    /\ UNCHANGED <<msgs, m, mosi, recv>>

Next == Burst \/ Deliver \/ NextMessage \/ Fail \/ Release

Spec == Init /\ [][Next]_vars
=============================================================================
