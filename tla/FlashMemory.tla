----------------------------- MODULE FlashMemory -----------------------------
(***************************************************************************)
(* What a caller of Programmer (flashutil/include/flashutil/programmer.h)  *)
(* is promised: a memory on which one job at a time is carried out.  A     *)
(* call that returns has been carried out, or the chip is protected and    *)
(* nothing changed; one that throws may have been, may not have been, or   *)
(* may still be: the chip may finish after the caller has heard of a       *)
(* timeout, but before anybody starts another job on it.                   *)
(***************************************************************************)
EXTENDS FlashChip

CONSTANT Jobs    \* the jobs callers ask for

VARIABLES
    mem, locked,
    status,     \* "closed", "idle" (a session is open), "running"
    job,        \* the running call's job
    pending,    \* the change asked for and not carried out yet, or None
    got         \* what the call that has just returned a value returned

vars == <<mem, locked, status, job, pending, got>>

Init ==
    /\ mem \in [Cells -> Byte] /\ locked \in BOOLEAN
    /\ status = "closed" /\ job = None /\ pending = None /\ got = <<>>

\* A session opens only on a chip with nothing left to do.
Open ==
    /\ status = "closed" /\ pending = None
    /\ status' = "idle"
    /\ UNCHANGED <<mem, locked, job, pending, got>>

\* Only jobs that stay on the chip are taken on; any other throws.
Call(j) ==
    /\ status = "idle" /\ j.at + j.n <= Size
    /\ status' = "running"
    /\ job' = j
    /\ pending' = IF j.op \in Changes THEN j ELSE None
    /\ got' = <<>>
    /\ UNCHANGED <<mem, locked>>

CarryOut ==
    /\ pending # None /\ status # "idle"
    /\ mem' = Apply(mem, pending)
    /\ locked' = Lock(locked, pending)
    /\ pending' = None
    /\ UNCHANGED <<status, job, got>>

\* A protected chip ignores the job, a change of its protection too when its
\* WP pin is tied.
Ignore ==
    /\ status = "running" /\ locked
    /\ pending.op \in Changes
    /\ pending' = None
    /\ UNCHANGED <<mem, locked, status, job, got>>

Return ==
    /\ status = "running" /\ pending = None
    /\ status' = "idle"
    /\ got' = CASE job.op = "read" -> Content(mem, job)
                [] job.op \in {"status", "getStatus"} -> <<locked>>
                [] OTHER -> <<>>
    /\ job' = None
    /\ UNCHANGED <<mem, locked, pending>>

\* The session ends, in order or with an exception, or the program dies.
Close ==
    /\ status # "closed"
    /\ status' = "closed"
    /\ pending' \in {pending, None}
    /\ job' = None /\ got' = <<>>
    /\ UNCHANGED <<mem, locked>>

Next == Open \/ (\E j \in Jobs : Call(j)) \/ CarryOut \/ Ignore \/ Return \/ Close

Spec == Init /\ [][Next]_vars
=============================================================================
