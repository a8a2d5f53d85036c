--------------------------- MODULE FlashProgrammer ---------------------------
(***************************************************************************)
(* Programmer (flashutil/src/flashutil/programmer.cpp) at work on a chip   *)
(* that takes its time, in sessions like EntryPoint::call's                *)
(* (entryPoint.cpp:327-355): begin, calls, end; an exception of a call     *)
(* ends the session through ~Programmer.                                   *)
(*                                                                         *)
(* One step is one Spi::transfer.  Any of them may throw: the request was  *)
(* lost, or the chip did what it says and the answer was lost.  The chip   *)
(* finishes its jobs on its own, and the program may be killed anywhere.   *)
(***************************************************************************)
EXTENDS FlashChip

CONSTANTS
    Jobs,       \* the calls: jobs for which HasShape holds
    Polls       \* polls before a wait gives up: timeout / 10 ms, 20 to 30000 in the code

\* What the callers of programmer.cpp ask for: pages that fill a page of the
\* chip, an erase of the size that goes with its command.
HasShape(j) ==
    /\ j.op \in Changes \cup {"read", "getStatus"}
    /\ j.at \in Nat /\ j.n \in Nat /\ j.lock \in BOOLEAN
    /\ j.op = "chip" => j.at = 0 /\ j.n = Size
    /\ j.op = "block" => j.n = BlockSize
    /\ j.op = "sector" => j.n = SectorSize
    /\ j.op = "program" => j.n = PageSize /\ j.data \in [1 .. j.n -> Byte]
    /\ j.op \in {"status", "getStatus"} => j.at = 0 /\ j.n = 0

ASSUME JobsAssumption  == \A j \in Jobs : HasShape(j) /\ j = Job(j.op, j.at, j.n, j.data, j.lock)
ASSUME PollsAssumption == Polls \in Nat \ {0}

VARIABLES
    chip,
    pc,         \* "off", "id" (attached, the id to be read), "ready", "enable",
                \* "command", "poll", "status", "address", "data", "unwind" (~Programmer to run)
    known,      \* _flashInfo.isValid(): the geometry came with the id or from the user
    job,        \* the call in progress
    left,       \* polls left
    got,        \* what the call that has just returned a value returned
    outcome     \* how the last session ended

vars == <<chip, pc, known, job, left, got, outcome>>

Calling  == {"enable", "command", "poll", "status", "address", "data"}
Outcomes == {"none", "ok", "error", "unattached", "undetached", "terminated", "killed"}

ChipState ==
    [mem : [Cells -> Byte], doing : {Heard(j) : j \in Jobs} \cup {None},
     wel : BOOLEAN, locked : BOOLEAN, reading : Cells \cup {NotReading}]

TypeOK ==
    /\ chip \in ChipState
    /\ pc \in Calling \cup {"off", "id", "ready", "unwind"}
    /\ known \in BOOLEAN
    /\ job \in Jobs \cup {None}
    /\ left \in 0 .. Polls
    /\ outcome \in Outcomes

Init ==
    /\ \E m \in [Cells -> Byte], b \in BOOLEAN :
           chip = [mem |-> m, doing |-> None, wel |-> FALSE, locked |-> b, reading |-> NotReading]
    /\ pc = "off" /\ known = FALSE /\ job = None /\ left = 0 /\ got = <<>> /\ outcome = "none"

-----------------------------------------------------------------------------
(* The chip.                                                               *)

ChipDone ==
    /\ chip.doing # None
    /\ chip' = Commit(chip)
    /\ UNCHANGED <<pc, known, job, left, got, outcome>>

-----------------------------------------------------------------------------
(* Sessions.                                                               *)

\* begin(): attach() asks for the packet size, then releases the chip.  When
\* it throws, _spiAttached is not set yet and nobody calls detach().
Attach ==
    /\ pc = "off"
    /\ \/ pc' = "id" /\ chip' = Deselect(chip) /\ outcome' = "none"
       \/ pc' = "off" /\ chip' \in {chip, Deselect(chip)} /\ outcome' = "unattached"
    /\ known' = FALSE
    /\ UNCHANGED <<job, left, got>>

\* Mutant of ReadId: an id of 0xff bytes is good enough.
ReadIdAny ==
    /\ pc = "id"
    /\ \/ pc' = "ready" /\ known' \in BOOLEAN
       \/ pc' = "unwind" /\ UNCHANGED known
    /\ UNCHANGED <<chip, job, left, got, outcome>>

\* cmdGetInfo: a busy chip answers 0xff, which is no id.  The geometry is the
\* user's, replaced by the registry's when it has the id; there may be neither.
ReadId ==
    /\ pc = "id"
    /\ \/ Listens(chip) /\ pc' = "ready" /\ known' \in BOOLEAN
       \/ pc' = "unwind" /\ UNCHANGED known
    /\ UNCHANGED <<chip, job, left, got, outcome>>

\* end() after the last operation.
End ==
    /\ pc = "ready"
    /\ pc' = "off" /\ known' = FALSE
    /\ \/ chip' = Deselect(chip) /\ outcome' = "ok"
       \/ chip' \in {chip, Deselect(chip)} /\ outcome' = "undetached"
    /\ got' = <<>>
    /\ UNCHANGED <<job, left>>

\* Mutant of Unwind: the destructor does not detach.
UnwindNoDetach ==
    /\ pc = "unwind"
    /\ pc' = "off" /\ known' = FALSE /\ outcome' = "error"
    /\ got' = <<>>
    /\ UNCHANGED <<chip, job, left>>

\* ~Programmer during an exception.  A second exception out of a destructor
\* terminates the program.
Unwind ==
    /\ pc = "unwind"
    /\ pc' = "off" /\ known' = FALSE
    /\ \/ chip' = Deselect(chip) /\ outcome' = "error"
       \/ chip' \in {chip, Deselect(chip)} /\ outcome' = "terminated"
    /\ got' = <<>>
    /\ UNCHANGED <<job, left>>

Kill ==
    /\ pc # "off"
    /\ pc' = "off" /\ known' = FALSE /\ outcome' = "killed"
    /\ job' = None /\ left' = 0 /\ got' = <<>>
    /\ UNCHANGED chip

-----------------------------------------------------------------------------
(* Calls.                                                                  *)

Returns(value) == pc' = "ready" /\ job' = None /\ left' = 0 /\ got' = value

\* An exception with the chip as it is in c.
Raises(c) == pc' = "unwind" /\ job' = None /\ left' = 0 /\ chip' = c /\ UNCHANGED got

\* A transfer that throws, whether or not the chip has seen it.
Throws(after) == \E c \in {chip, after} : Raises(c)

\* verifyFlashInfoAreaByAddress; _verifyCommon alone for the chip.
Verified(j) ==
    j.op \notin {"status", "getStatus"} => known /\ j.at + j.n <= Size /\ j.at % Align(j) = 0

Start(j) ==
    /\ pc = "ready"
    /\ IF Verified(j)
       THEN /\ pc' = CASE j.op \in Changes   -> "enable"
                      [] j.op = "read"      -> "address"
                      [] j.op = "getStatus" -> "status"
            /\ job' = j
       ELSE pc' = "unwind" /\ UNCHANGED job
    /\ got' = <<>>
    /\ UNCHANGED <<chip, known, left, outcome>>

\* Mutant of Enable: write enable is not sent.
EnableForgotten ==
    /\ pc = "enable"
    /\ pc' = "command"
    /\ UNCHANGED <<chip, known, job, left, got, outcome>>

Enable ==
    /\ pc = "enable"
    /\ \/ pc' = "command" /\ chip' = WriteEnable(chip) /\ UNCHANGED <<job, left, got>>
       \/ Throws(WriteEnable(chip))
    /\ UNCHANGED <<known, outcome>>

\* Erase, page program or write status, then the first poll's allowance.
Issue ==
    /\ pc = "command"
    /\ \/ pc' = "poll" /\ chip' = Command(chip, job) /\ left' = Polls /\ UNCHANGED <<job, got>>
       \/ Throws(Command(chip, job))
    /\ UNCHANGED <<known, outcome>>

\* setFlashStatus returns the register the last poll has read.
WaitOver == Returns(IF job.op = "status" THEN <<chip.locked>> ELSE <<>>) /\ UNCHANGED chip

\* Mutants of Poll: the sleep is not counted; the deadline is not looked at.
PollForever ==
    /\ pc = "poll"
    /\ \/ chip.doing = None /\ WaitOver
       \/ chip.doing # None /\ UNCHANGED <<chip, pc, job, left, got>>
    /\ UNCHANGED <<known, outcome>>

PollUnchecked ==
    /\ pc = "poll"
    /\ \/ chip.doing = None /\ WaitOver
       \/ chip.doing # None /\ left' = left - 1 /\ UNCHANGED <<chip, pc, job, got>>
    /\ UNCHANGED <<known, outcome>>

\* One turn of waitForWIPClearance: RDSR, and a sleep if the chip is busy.
\* The last sleep is not followed by a look at the chip.
Poll ==
    /\ pc = "poll"
    /\ \/ chip.doing = None /\ WaitOver
       \/ /\ chip.doing # None /\ left > 1
          /\ left' = left - 1
          /\ UNCHANGED <<chip, pc, job, got>>
       \/ chip.doing # None /\ left = 1 /\ Raises(chip)
       \/ Throws(Deselect(chip))
    /\ UNCHANGED <<known, outcome>>

GetStatus ==
    /\ pc = "status"
    /\ \/ Returns(<<chip.locked>>) /\ chip' = Deselect(chip)
       \/ Throws(Deselect(chip))
    /\ UNCHANGED <<known, outcome>>

\* cmdFlashReadBegin: the chip stays selected.
ReadAddress ==
    /\ pc = "address"
    /\ \/ pc' = "data" /\ chip' = ReadBegin(chip, job.at) /\ UNCHANGED <<job, left, got>>
       \/ Throws(ReadBegin(chip, job.at))
    /\ UNCHANGED <<known, outcome>>

\* A second transfer for the data.  One that throws in the middle leaves the
\* chip selected or not; where in the area it stopped makes no difference.
ReadData ==
    /\ pc = "data"
    /\ \/ Returns(ReadOut(chip, job.n)) /\ chip' = Deselect(chip)
       \/ Throws(Deselect(chip))
    /\ UNCHANGED <<known, outcome>>

Step == Enable \/ Issue \/ Poll \/ GetStatus \/ ReadAddress \/ ReadData

Next ==
    \/ ChipDone
    \/ Attach \/ ReadId \/ End \/ Unwind \/ Kill
    \/ \E j \in Jobs : Start(j)
    \/ Step

\* The program runs on: a step of a call that has begun is taken.  Nothing is
\* assumed of the chip, which may take longer than any timeout, and nothing
\* of the user, who may not come back.
Spec == Init /\ [][Next]_vars /\ WF_vars(Step) /\ WF_vars(Unwind)

-----------------------------------------------------------------------------
(* Properties.                                                             *)

Memory == INSTANCE FlashMemory WITH
    mem     <- chip.mem,
    locked  <- chip.locked,
    status  <- IF pc \in Calling THEN "running" ELSE IF pc = "ready" THEN "idle" ELSE "closed",
    pending <- IF pc \in {"enable", "command"} THEN job ELSE chip.doing

(***************************************************************************)
(* Programmer is a memory with one job at a time: a call that returns was  *)
(* carried out exactly as asked or the chip is protected, a read returns   *)
(* what the memory holds, a job whose call threw may still be finished,    *)
(* but never after a later session has begun a call: begin() reads the id, *)
(* which a busy chip does not answer, and so never opens one over it.      *)
(***************************************************************************)
KeepsMemory == Memory!Spec

(***************************************************************************)
(* Between calls, and until a command is issued, the chip is idle and not  *)
(* selected, so it hears what it is sent as a command: true after any      *)
(* mixture of timeouts, lost answers, failed detaches and killed sessions. *)
(***************************************************************************)
ChipHears == pc \in {"ready", "enable", "command", "status", "address"} => Listens(chip)

(***************************************************************************)
(* Whatever a session did, if it ended in order or with a reported error   *)
(* the chip is not selected any more (a killed one, or one whose detach    *)
(* threw, may leave it so).                                                *)
(***************************************************************************)
LeavesReleased == pc = "off" /\ outcome \in {"ok", "error"} => chip.reading = NotReading

(***************************************************************************)
(* Every call ends: it returns, or the session is over, even if the chip   *)
(* is busy for ever.                                                       *)
(***************************************************************************)
CallEnds == pc \in Calling ~> pc \in {"ready", "off"}
=============================================================================
