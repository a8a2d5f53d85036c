----------------------------- MODULE LinkPromise -----------------------------
(***************************************************************************)
(* What SerialSpi may count on when it calls executeCmd                    *)
(* (flashutil/src/flashutil/spi/serial.cpp:165-243): commands are carried  *)
(* out in the order they were given, none twice; a call that returns has   *)
(* been; one that throws has been, will be or never is, but not after a    *)
(* later one.  This is how exchange and exception enter SerialSpi.  A      *)
(* program that has been fooled by an answer to nothing it has asked can   *)
(* count on the order alone.                                               *)
(***************************************************************************)
EXTENDS Naturals

VARIABLES
    sent,      \* commands given so far
    call,      \* "given": being executed; or how the last one ended
    done,      \* the last command carried out
    foreign    \* the program has taken for an answer what answers another
               \* program's command, or none

vars == <<sent, call, done, foreign>>

Init == sent = 0 /\ call = "none" /\ done = 0 /\ foreign = FALSE

\* A command is given; it may fail at once.
Give ==
    /\ call # "given"
    /\ sent' = sent + 1
    /\ call' \in {"given", "thrown"}
    /\ UNCHANGED <<done, foreign>>

CarryOut ==
    /\ \E k \in done + 1 .. sent : done' = k
    /\ UNCHANGED <<sent, call, foreign>>

Return ==
    /\ call = "given" /\ call' = "returned"
    /\ (done = sent /\ UNCHANGED foreign) \/ foreign' = TRUE
    /\ UNCHANGED <<sent, done>>

Throw ==
    /\ call = "given"
    /\ call' = "thrown"
    /\ UNCHANGED <<sent, done, foreign>>

\* The program dies, or another one starts.
Restart ==
    /\ call' = "none" /\ foreign' \in {foreign, FALSE}
    /\ UNCHANGED <<sent, done>>

Next == Give \/ CarryOut \/ Return \/ Throw \/ Restart

Spec == Init /\ [][Next]_vars
=============================================================================
