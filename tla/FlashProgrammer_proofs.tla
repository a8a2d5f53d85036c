----------------------- MODULE FlashProgrammer_proofs -----------------------
(***************************************************************************)
(* Proofs about Programmer on a chip of any size and geometry, for any     *)
(* number of polls and any set of calls.                                   *)
(***************************************************************************)
EXTENDS FlashProgrammer, Lexicographic, TLAPS

-----------------------------------------------------------------------------
(* What the commands leave of the chip.                                    *)

\* Jobs are records, and none of them is None.
LEMMA JobShape ==
  ASSUME NEW j \in Jobs
  PROVE  /\ j = Job(j.op, j.at, j.n, j.data, j.lock)
         /\ j.op \in Changes \cup {"read", "getStatus"}
         /\ j.at \in Nat /\ j.n \in Nat /\ j.lock \in BOOLEAN
         /\ j # None /\ Heard(j) # None
         /\ Heard(j).op = j.op
<1>1. HasShape(j) /\ j = Job(j.op, j.at, j.n, j.data, j.lock)
  BY JobsAssumption
<1>2. Heard(j).op = j.op
  BY <1>1 DEF Heard, Job
<1>3. j.op # None.op
  BY <1>1 DEF HasShape, None, Job, Changes, Erases
<1> QED
  BY <1>1, <1>2, <1>3 DEF HasShape

\* An address on the chip survives the three address bytes.
LEMMA AddressHeard ==
  ASSUME NEW a \in Nat, a < Size
  PROVE  (a % AddrSpace) % Size = a
<1>1. Size \in Nat /\ AddrSpace \in Nat /\ Size <= AddrSpace
  BY GeometryAssumption
<1>2. a % AddrSpace = a
  BY <1>1
<1> QED
  BY <1>1, <1>2

\* The chip begins the job it was asked for, if the job stays on the chip.
LEMMA HeardAsAsked ==
  ASSUME NEW j \in Jobs, j.op \in Changes, j.at + j.n <= Size
  PROVE  Heard(j) = j
<1>1. HasShape(j) /\ j = Job(j.op, j.at, j.n, j.data, j.lock)
  BY JobsAssumption
<1>2. j.at \in Nat /\ j.at < Size
  BY <1>1, GeometryAssumption DEF HasShape, Changes, Erases
<1>3. (j.at % AddrSpace) % Size = j.at
  BY <1>2, AddressHeard
<1> QED
  BY <1>1, <1>3 DEF Heard, Job

LEMMA ChipAfter ==
  ASSUME NEW c \in ChipState
  PROVE  /\ Deselect(c) \in ChipState
         /\ Deselect(c).mem = c.mem /\ Deselect(c).doing = c.doing
         /\ Deselect(c).wel = c.wel /\ Deselect(c).locked = c.locked
         /\ Deselect(c).reading = NotReading
         /\ Listens(c) => Deselect(c) = c /\ WriteEnable(c) = [c EXCEPT !.wel = TRUE]
  BY DEF ChipState, Deselect, Listens, WriteEnable

-----------------------------------------------------------------------------
(***************************************************************************)
(* The inductive invariant.  ChipHears says nothing of the steps between   *)
(* issuing a command and the end of its wait; the parts below do.          *)
(***************************************************************************)

\* What each control point knows of its job.
JobAtHand ==
    /\ pc \in Calling => job \in Jobs /\ job.at + job.n <= Size
    /\ pc \notin Calling => job = None
    /\ pc \in {"enable", "command", "poll"} => job.op \in Changes
    /\ pc \in {"address", "data"} => job.op = "read"
    /\ pc = "status" => job.op = "getStatus"
    /\ pc # "ready" => got = <<>>

\* What it knows of the chip.
ChipAtHand ==
    /\ ChipHears
    /\ pc \in {"id", "poll"} => chip.reading = NotReading
    /\ pc = "command" => chip.wel = TRUE
    /\ pc = "poll" => left >= 1 /\ chip.doing \in {job, None}
    /\ pc = "data" => chip.doing = None /\ (job.n > 0 => chip.reading = job.at)
    /\ LeavesReleased

IInv == TypeOK /\ JobAtHand /\ ChipAtHand

LEMMA InitIInv == Init => IInv
<1> SUFFICES ASSUME Init PROVE IInv
  OBVIOUS
<1>1. chip \in ChipState /\ chip.doing = None /\ chip.reading = NotReading
  BY DEF Init, ChipState
<1>2. /\ pc = "off" /\ known = FALSE /\ job = None /\ left = 0 /\ outcome = "none"
      /\ got = <<>>
  BY DEF Init
<1>3. TypeOK
  <2>1. left \in 0 .. Polls
    BY <1>2, PollsAssumption
  <2>2. outcome \in Outcomes
    BY <1>2 DEF Outcomes
  <2> QED
    BY <1>1, <1>2, <2>1, <2>2 DEF TypeOK
<1> QED
  BY <1>1, <1>2, <1>3 DEF IInv, JobAtHand, ChipAtHand, ChipHears, LeavesReleased, Calling

\* A call that throws: whatever the transfer did, ~Programmer comes next.
LEMMA RaisesKeeps ==
  ASSUME IInv, pc \in Calling, NEW c \in ChipState, Raises(c), UNCHANGED <<known, outcome>>
  PROVE  IInv'
BY PollsAssumption
   DEF IInv, TypeOK, Raises, JobAtHand, ChipAtHand, ChipHears, LeavesReleased, Calling

\* A call that returns leaves a chip that is idle and released.
LEMMA ReturnsKeeps ==
  ASSUME IInv, NEW value, Returns(value), UNCHANGED <<known, outcome>>,
         chip' \in ChipState, Listens(chip')
  PROVE  IInv'
BY PollsAssumption
   DEF IInv, TypeOK, Returns, JobAtHand, ChipAtHand, ChipHears, Listens, LeavesReleased, Calling

LEMMA EnableKeeps ==
  ASSUME IInv, Enable
  PROVE  IInv'
<1>1. chip \in ChipState /\ Listens(chip) /\ pc = "enable"
  BY DEF IInv, TypeOK, ChipAtHand, ChipHears, Enable
<1>2. WriteEnable(chip) = [chip EXCEPT !.wel = TRUE]
  BY <1>1, ChipAfter
<1>3. WriteEnable(chip) \in ChipState
  BY <1>1, <1>2 DEF ChipState
<1>4. CASE Throws(WriteEnable(chip)) /\ UNCHANGED <<known, outcome>>
  BY <1>1, <1>3, <1>4, RaisesKeeps DEF Throws, Calling
<1>5. CASE pc' = "command" /\ chip' = WriteEnable(chip)
           /\ UNCHANGED <<job, left, got, known, outcome>>
  <2>1. Listens(chip') /\ chip'.wel = TRUE
    BY <1>1, <1>2, <1>5 DEF Listens, ChipState
  <2> QED
    BY <1>1, <1>3, <1>5, <2>1
       DEF IInv, TypeOK, JobAtHand, ChipAtHand, ChipHears, LeavesReleased, Calling
<1> QED
  BY <1>4, <1>5 DEF Enable

LEMMA IssueKeeps ==
  ASSUME IInv, Issue
  PROVE  IInv'
<1>1. chip \in ChipState /\ Listens(chip) /\ chip.wel = TRUE /\ pc = "command"
  BY DEF IInv, TypeOK, ChipAtHand, ChipHears, Issue
<1>2. job \in Jobs /\ Heard(job) = job
  BY <1>1, HeardAsAsked DEF IInv, JobAtHand, Calling
<1>3. Command(chip, job) \in {chip, [chip EXCEPT !.doing = job]}
  BY <1>1, <1>2, ChipAfter DEF Command
<1>4. Command(chip, job) \in ChipState
  <2>1. job \in {Heard(j) : j \in Jobs}
    BY <1>2
  <2> QED
    BY <1>1, <1>3, <2>1 DEF ChipState
<1>6. CASE Throws(Command(chip, job)) /\ UNCHANGED <<known, outcome>>
  BY <1>1, <1>4, <1>6, RaisesKeeps DEF Throws, Calling
<1>7. CASE pc' = "poll" /\ chip' = Command(chip, job) /\ left' = Polls
           /\ UNCHANGED <<job, got, known, outcome>>
  <2>1. chip'.reading = NotReading /\ chip'.doing \in {job, None}
    BY <1>1, <1>3, <1>7 DEF Listens, ChipState
  <2> QED
    BY <1>1, <1>4, <1>7, <2>1, PollsAssumption
       DEF IInv, TypeOK, JobAtHand, ChipAtHand, ChipHears, LeavesReleased, Calling
<1> QED
  BY <1>6, <1>7 DEF Issue

LEMMA PollKeeps ==
  ASSUME IInv, Poll
  PROVE  IInv'
<1>1. chip \in ChipState /\ chip.reading = NotReading /\ pc = "poll" /\ left \in 1 .. Polls
  BY PollsAssumption DEF IInv, TypeOK, ChipAtHand, Poll
<1>2. UNCHANGED <<known, outcome>>
  BY DEF Poll
<1>3. CASE chip.doing = None /\ WaitOver
  <2>1. Listens(chip) /\ chip' = chip
    BY <1>1, <1>3 DEF Listens, WaitOver
  <2> QED
    BY <1>1, <1>2, <1>3, <2>1, ReturnsKeeps DEF WaitOver
<1>4. CASE chip.doing # None /\ left > 1 /\ left' = left - 1 /\ UNCHANGED <<chip, pc, job, got>>
  BY <1>1, <1>2, <1>4, PollsAssumption
     DEF IInv, TypeOK, JobAtHand, ChipAtHand, ChipHears, LeavesReleased, Calling
<1>5. CASE Raises(chip)
  BY <1>1, <1>2, <1>5, RaisesKeeps DEF Calling
<1>6. CASE Throws(Deselect(chip))
  BY <1>1, <1>2, <1>6, ChipAfter, RaisesKeeps DEF Throws, Calling
<1> QED
  BY <1>3, <1>4, <1>5, <1>6 DEF Poll

LEMMA GetStatusKeeps ==
  ASSUME IInv, GetStatus
  PROVE  IInv'
<1>1. chip \in ChipState /\ Listens(chip) /\ Deselect(chip) = chip /\ pc = "status"
  BY ChipAfter DEF IInv, TypeOK, ChipAtHand, ChipHears, GetStatus
<1>2. CASE Returns(<<chip.locked>>) /\ chip' = Deselect(chip) /\ UNCHANGED <<known, outcome>>
  <2>1. chip' = chip
    BY <1>1, <1>2
  <2> QED
    BY <1>1, <1>2, <2>1, ReturnsKeeps
<1>3. CASE Throws(Deselect(chip)) /\ UNCHANGED <<known, outcome>>
  BY <1>1, <1>3, RaisesKeeps DEF Throws, Calling
<1> QED
  BY <1>2, <1>3 DEF GetStatus

LEMMA ReadAddressKeeps ==
  ASSUME IInv, ReadAddress
  PROVE  IInv'
<1>1. chip \in ChipState /\ Listens(chip) /\ pc = "address"
  BY DEF IInv, TypeOK, ChipAtHand, ChipHears, ReadAddress
<1>2. job \in Jobs /\ job.at \in Nat /\ job.n \in Nat /\ job.at + job.n <= Size
  BY <1>1, JobShape DEF IInv, JobAtHand, Calling
<1> DEFINE at == (job.at % AddrSpace) % Size
<1>3. at \in Cells /\ (job.n > 0 => at = job.at)
  <2>1. /\ job.at % AddrSpace \in Nat
        /\ Size \in Nat \ {0} /\ AddrSpace \in Nat \ {0}
    BY <1>2, GeometryAssumption
  <2>2. at \in 0 .. Size - 1
    BY <2>1
  <2>3. job.n > 0 => job.at < Size
    BY <1>2, <2>1
  <2> QED
    BY <1>2, <2>2, <2>3, AddressHeard DEF Cells
<1>4. ReadBegin(chip, job.at) = [chip EXCEPT !.reading = at]
  BY <1>1 DEF ReadBegin
<1> HIDE DEF at
<1>5. ReadBegin(chip, job.at) \in ChipState
  BY <1>1, <1>3, <1>4 DEF ChipState
<1>6. CASE Throws(ReadBegin(chip, job.at)) /\ UNCHANGED <<known, outcome>>
  BY <1>1, <1>5, <1>6, RaisesKeeps DEF Throws, Calling
<1>7. CASE pc' = "data" /\ chip' = ReadBegin(chip, job.at)
           /\ UNCHANGED <<job, left, got, known, outcome>>
  <2>1. chip'.doing = None /\ chip'.reading = at
    BY <1>1, <1>4, <1>7 DEF Listens, ChipState
  <2> QED
    BY <1>1, <1>3, <1>5, <1>7, <2>1
       DEF IInv, TypeOK, JobAtHand, ChipAtHand, ChipHears, LeavesReleased, Calling
<1> QED
  BY <1>6, <1>7 DEF ReadAddress

LEMMA ReadDataKeeps ==
  ASSUME IInv, ReadData
  PROVE  IInv'
<1>1. chip \in ChipState /\ chip.doing = None /\ pc = "data"
  BY DEF IInv, TypeOK, ChipAtHand, ReadData
<1>2. Deselect(chip) \in ChipState /\ Listens(Deselect(chip))
  BY <1>1, ChipAfter DEF Listens
<1>3. CASE Returns(ReadOut(chip, job.n)) /\ chip' = Deselect(chip) /\ UNCHANGED <<known, outcome>>
  <2>1. chip' \in ChipState /\ Listens(chip')
    BY <1>2, <1>3
  <2> QED
    BY <1>3, <2>1, ReturnsKeeps
<1>4. CASE Throws(Deselect(chip)) /\ UNCHANGED <<known, outcome>>
  BY <1>1, <1>2, <1>4, RaisesKeeps DEF Throws, Calling
<1> QED
  BY <1>3, <1>4 DEF ReadData

\* The chip finishes a job while a call waits for it, or long after.
LEMMA ChipDoneKeeps ==
  ASSUME IInv, ChipDone
  PROVE  IInv'
<1>1. chip \in ChipState /\ chip.doing # None /\ chip' = Commit(chip)
  BY DEF IInv, TypeOK, ChipDone
<1>2. PICK j \in Jobs : chip.doing = Heard(j)
  BY <1>1 DEF ChipState
<1>3. Apply(chip.mem, chip.doing) \in [Cells -> Byte]
  <2>1. ASSUME NEW a \in Cells
        PROVE  Apply(chip.mem, chip.doing)[a] \in Byte
    BY <1>1 DEF Apply, ChipState, Byte
  <2> QED
    BY <2>1 DEF Apply
<1>4. Lock(chip.locked, chip.doing) \in BOOLEAN
  <2>1. chip.doing.lock \in BOOLEAN
    BY <1>2, JobShape DEF Heard, Job
  <2> QED
    BY <1>1, <2>1 DEF Lock, ChipState
<1>5. chip' \in ChipState /\ chip'.doing = None /\ chip'.reading = chip.reading
  BY <1>1, <1>3, <1>4 DEF Commit, ChipState
<1>6. pc # "command"
  BY <1>1 DEF IInv, ChipAtHand, ChipHears, Listens
<1> QED
  BY <1>1, <1>5, <1>6
     DEF ChipDone, IInv, TypeOK, JobAtHand, ChipAtHand, ChipHears, Listens, LeavesReleased, Calling

LEMMA AttachKeeps ==
  ASSUME IInv, Attach
  PROVE  IInv'
<1>1. chip \in ChipState
  BY DEF IInv, TypeOK
<1>2. chip' \in ChipState /\ (pc' = "id" => chip'.reading = NotReading)
  BY <1>1, ChipAfter DEF Attach
<1> QED
  BY <1>2
     DEF Attach, IInv, TypeOK, JobAtHand, ChipAtHand, ChipHears, LeavesReleased, Calling, Outcomes

LEMMA ReadIdKeeps ==
  ASSUME IInv, ReadId
  PROVE  IInv'
BY DEF ReadId, IInv, TypeOK, JobAtHand, ChipAtHand, ChipHears, LeavesReleased, Calling

LEMMA EndKeeps ==
  ASSUME IInv, End \/ Unwind
  PROVE  IInv'
<1>1. chip \in ChipState
  BY DEF IInv, TypeOK
<1>2. chip' \in ChipState /\ (outcome' \in {"ok", "error"} => chip'.reading = NotReading)
  BY <1>1, ChipAfter DEF End, Unwind
<1>3. /\ pc' = "off" /\ known' = FALSE /\ outcome' \in Outcomes
      /\ got' = <<>> /\ UNCHANGED <<job, left>> /\ pc \notin Calling
  BY DEF End, Unwind, Outcomes, Calling
<1> QED
  BY <1>2, <1>3
     DEF IInv, TypeOK, JobAtHand, ChipAtHand, ChipHears, LeavesReleased, Calling

LEMMA KillKeeps ==
  ASSUME IInv, Kill
  PROVE  IInv'
<1>1. 0 \in 0 .. Polls
  BY PollsAssumption
<1>2. "killed" \in Outcomes
  BY DEF Outcomes
<1> QED
  BY <1>1, <1>2
     DEF Kill, IInv, TypeOK, JobAtHand, ChipAtHand, ChipHears, LeavesReleased, Calling

LEMMA StartKeeps ==
  ASSUME IInv, NEW j \in Jobs, Start(j)
  PROVE  IInv'
<1>1. HasShape(j) /\ Listens(chip) /\ pc = "ready"
  BY JobsAssumption DEF IInv, ChipAtHand, ChipHears, Start
<1>2. CASE Verified(j)
  <2>1. j.at + j.n <= Size
    BY <1>1, <1>2, GeometryAssumption DEF Verified, HasShape
  <2>2. /\ job' = j /\ got' = <<>> /\ UNCHANGED <<chip, known, left, outcome>>
        /\ pc' = CASE j.op \in Changes   -> "enable"
                   [] j.op = "read"      -> "address"
                   [] j.op = "getStatus" -> "status"
    BY <1>2 DEF Start
  <2>3. \/ pc' = "enable" /\ j.op \in Changes
        \/ pc' = "address" /\ j.op = "read"
        \/ pc' = "status" /\ j.op = "getStatus"
    BY <1>1, <2>2 DEF HasShape, Changes, Erases
  <2> QED
    BY <1>1, <2>1, <2>2, <2>3
       DEF IInv, TypeOK, JobAtHand, ChipAtHand, ChipHears, LeavesReleased, Calling
<1>3. CASE ~ Verified(j)
  BY <1>1, <1>3
     DEF Start, IInv, TypeOK, JobAtHand, ChipAtHand, ChipHears, LeavesReleased, Calling
<1> QED
  BY <1>2, <1>3

LEMMA NextIInv == IInv /\ [Next]_vars => IInv'
<1> SUFFICES ASSUME IInv, [Next]_vars PROVE IInv'
  OBVIOUS
<1>1. CASE UNCHANGED vars
  BY <1>1 DEF vars, IInv, TypeOK, JobAtHand, ChipAtHand, ChipHears, LeavesReleased
<1>2. CASE Step
  BY <1>2, EnableKeeps, IssueKeeps, PollKeeps, GetStatusKeeps, ReadAddressKeeps, ReadDataKeeps
     DEF Step
<1>3. CASE Attach \/ ReadId \/ End \/ Unwind \/ Kill
  BY <1>3, AttachKeeps, ReadIdKeeps, EndKeeps, KillKeeps
<1>4. CASE ChipDone \/ \E j \in Jobs : Start(j)
  BY <1>4, ChipDoneKeeps, StartKeeps
<1> QED
  BY <1>1, <1>2, <1>3, <1>4 DEF Next

THEOREM Invariance == Spec => []IInv
  BY InitIInv, NextIInv, PTL DEF Spec

(***************************************************************************)
(* The chip and the counters keep their types: the wait never counts below *)
(* zero.                                                                   *)
(***************************************************************************)
THEOREM TypeCorrect == Spec => []TypeOK
<1>1. IInv => TypeOK
  BY DEF IInv
<1> QED
  BY <1>1, Invariance, PTL

(***************************************************************************)
(* No command is ever sent to a chip that is busy or in the middle of a    *)
(* read, whatever the sessions before have left behind.                    *)
(***************************************************************************)
THEOREM CommandsAreHeard == Spec => []ChipHears
<1>1. IInv => ChipHears
  BY DEF IInv, ChipAtHand
<1> QED
  BY <1>1, Invariance, PTL

(***************************************************************************)
(* A session that ends in order, or with an error its caller hears of,     *)
(* leaves the chip released.                                               *)
(***************************************************************************)
THEOREM SessionsRelease == Spec => []LeavesReleased
<1>1. IInv => LeavesReleased
  BY DEF IInv, ChipAtHand
<1> QED
  BY <1>1, Invariance, PTL
-----------------------------------------------------------------------------
(***************************************************************************)
(* Refinement.  To FlashMemory a call is running from Start to its end,    *)
(* and its job is pending until the chip has finished it: before the       *)
(* command is issued it is the call's, after that the chip's.              *)
(***************************************************************************)
Status  == IF pc \in Calling THEN "running" ELSE IF pc = "ready" THEN "idle" ELSE "closed"
Pending == IF pc \in {"enable", "command"} THEN job ELSE chip.doing

\* An exception ends the session; the job may be left pending or given up.
LEMMA RaisesIsClose ==
  ASSUME IInv, pc \in Calling, NEW c, Raises(c),
         c.mem = chip.mem, c.locked = chip.locked, c.doing \in {Pending, None}
  PROVE  Memory!Close
<1>1. Status = "running" /\ Status' = "closed"
  BY DEF Status, Raises, Calling
<1>2. Pending' = c.doing /\ job' = None /\ got' = <<>>
  BY DEF Pending, Raises, IInv, JobAtHand, Calling
<1> QED
  BY <1>1, <1>2 DEF Memory!Close, Memory!None, None, Memory!Job, Job, Status, Pending, Raises

\* A step of a call that neither ends it nor moves the memory is no step at all.
LEMMA Stutters ==
  ASSUME Status' = Status, Pending' = Pending, job' = job, got' = got,
         chip'.mem = chip.mem, chip'.locked = chip.locked
  PROVE  UNCHANGED Memory!vars
BY DEF Memory!vars, Status, Pending

LEMMA ReturnsIsReturn ==
  ASSUME IInv, pc \in Calling, Pending = None, NEW value, Returns(value),
         chip'.mem = chip.mem, chip'.locked = chip.locked, chip'.doing = chip.doing,
         value = CASE job.op = "read" -> Memory!Content(chip.mem, job)
                   [] job.op \in {"status", "getStatus"} -> <<chip.locked>>
                   [] OTHER -> <<>>
  PROVE  Memory!Return
<1>1. Status = "running" /\ Status' = "idle"
  BY DEF Status, Returns, Calling
<1>2. pc \notin {"enable", "command"}
  BY JobShape DEF Pending, IInv, JobAtHand
<1>3. Pending' = Pending
  BY <1>2 DEF Pending, Returns
<1> QED
  BY <1>1, <1>3 DEF Memory!Return, Memory!None, None, Memory!Job, Job, Status, Pending, Returns

LEMMA EnableIsMemory ==
  ASSUME IInv, Enable
  PROVE  [Memory!Next]_(Memory!vars)
<1>1. chip \in ChipState /\ Listens(chip) /\ pc = "enable" /\ chip.doing = None
  BY DEF IInv, TypeOK, ChipAtHand, ChipHears, Enable, Listens
<1>2. WriteEnable(chip) = [chip EXCEPT !.wel = TRUE]
  BY <1>1, ChipAfter
<1>3. \A c \in {chip, WriteEnable(chip)} :
          c.mem = chip.mem /\ c.locked = chip.locked /\ c.doing = None
  BY <1>1, <1>2 DEF ChipState
<1>4. CASE Throws(WriteEnable(chip))
  BY <1>1, <1>3, <1>4, RaisesIsClose DEF Throws, Calling, Memory!Next
<1>5. CASE pc' = "command" /\ chip' = WriteEnable(chip) /\ UNCHANGED <<job, left, got>>
  BY <1>1, <1>3, <1>5, Stutters DEF Status, Pending, Calling
<1> QED
  BY <1>4, <1>5 DEF Enable

LEMMA IssueIsMemory ==
  ASSUME IInv, Issue
  PROVE  [Memory!Next]_(Memory!vars)
<1>1. chip \in ChipState /\ Listens(chip) /\ chip.wel = TRUE /\ pc = "command" /\ chip.doing = None
  BY DEF IInv, TypeOK, ChipAtHand, ChipHears, Issue, Listens
<1>2. job \in Jobs /\ Heard(job) = job /\ job.op \in Changes /\ job # None
  BY <1>1, HeardAsAsked, JobShape DEF IInv, JobAtHand, Calling
<1>3. \/ Command(chip, job) = [chip EXCEPT !.doing = job]
      \/ Command(chip, job) = chip /\ chip.locked /\ job.op # "status"
  BY <1>1, <1>2, ChipAfter DEF Command
<1>4. \A c \in {chip, Command(chip, job)} :
          c.mem = chip.mem /\ c.locked = chip.locked /\ c.doing \in {job, None}
  BY <1>1, <1>3 DEF ChipState
<1>5. Pending = job /\ Status = "running"
  BY <1>1 DEF Pending, Status, Calling
<1>6. CASE Throws(Command(chip, job))
  BY <1>1, <1>4, <1>5, <1>6, RaisesIsClose DEF Throws, Calling, Memory!Next
<1>7. CASE pc' = "poll" /\ chip' = Command(chip, job) /\ UNCHANGED <<job, got>>
  <2>1. Pending' = chip'.doing /\ Status' = "running"
    BY <1>7 DEF Pending, Status, Calling
  <2>2. CASE Command(chip, job) = [chip EXCEPT !.doing = job]
    <3>1. Pending' = job
      BY <1>1, <1>7, <2>1, <2>2 DEF ChipState
    <3> QED
      BY <1>4, <1>5, <1>7, <2>1, <3>1, Stutters
  <2>3. CASE Command(chip, job) = chip /\ chip.locked /\ job.op # "status"
    <3>1. Pending' = None /\ chip' = chip
      BY <1>1, <1>7, <2>1, <2>3
    <3>2. job.op \in Memory!Changes \ {"status"}
      BY <1>2, <2>3 DEF Memory!Changes, Memory!Erases, Changes, Erases
    <3>3. Memory!Ignore
      BY <1>5, <1>7, <2>1, <2>3, <3>1, <3>2
         DEF Memory!Ignore, Memory!None, None, Memory!Job, Job, Status, Pending
    <3> QED
      BY <3>3 DEF Memory!Next
  <2> QED
    BY <1>3, <2>2, <2>3
<1> QED
  BY <1>6, <1>7 DEF Issue

LEMMA PollIsMemory ==
  ASSUME IInv, Poll
  PROVE  [Memory!Next]_(Memory!vars)
<1>1. chip \in ChipState /\ pc = "poll" /\ job.op \in Changes
  BY DEF IInv, TypeOK, JobAtHand, Poll
<1>2. Pending = chip.doing /\ Status = "running" /\ pc \in Calling
  BY <1>1 DEF Pending, Status, Calling
<1>3. CASE chip.doing = None /\ WaitOver
  <2>1. Returns(IF job.op = "status" THEN <<chip.locked>> ELSE <<>>) /\ chip' = chip
    BY <1>3 DEF WaitOver
  <2>2. (IF job.op = "status" THEN <<chip.locked>> ELSE <<>>)
            = CASE job.op = "read" -> Memory!Content(chip.mem, job)
                [] job.op \in {"status", "getStatus"} -> <<chip.locked>>
                [] OTHER -> <<>>
    BY <1>1 DEF Changes, Erases
  <2>3. Memory!Return
    BY <1>2, <1>3, <2>1, <2>2, ReturnsIsReturn
  <2> QED
    BY <2>3 DEF Memory!Next
<1>4. CASE UNCHANGED <<chip, pc, job, got>>
  BY <1>4, Stutters DEF Status, Pending
<1>5. CASE Raises(chip)
  BY <1>2, <1>5, RaisesIsClose DEF Memory!Next
<1>6. CASE Throws(Deselect(chip))
  <2>1. \A c \in {chip, Deselect(chip)} :
            c.mem = chip.mem /\ c.locked = chip.locked /\ c.doing = Pending
    BY <1>1, <1>2, ChipAfter
  <2> QED
    BY <1>2, <1>6, <2>1, RaisesIsClose DEF Throws, Memory!Next
<1> QED
  BY <1>3, <1>4, <1>5, <1>6 DEF Poll

LEMMA GetStatusIsMemory ==
  ASSUME IInv, GetStatus
  PROVE  [Memory!Next]_(Memory!vars)
<1>1. /\ chip \in ChipState /\ Deselect(chip) = chip /\ chip.doing = None
      /\ pc = "status" /\ job.op = "getStatus"
  BY ChipAfter DEF IInv, TypeOK, JobAtHand, ChipAtHand, ChipHears, Listens, GetStatus
<1>2. Pending = None /\ pc \in Calling
  BY <1>1 DEF Pending, Calling
<1>3. CASE Returns(<<chip.locked>>) /\ chip' = Deselect(chip)
  <2>1. <<chip.locked>> = CASE job.op = "read" -> Memory!Content(chip.mem, job)
                            [] job.op \in {"status", "getStatus"} -> <<chip.locked>>
                            [] OTHER -> <<>>
    BY <1>1
  <2>2. Memory!Return
    BY <1>1, <1>2, <1>3, <2>1, ReturnsIsReturn
  <2> QED
    BY <2>2 DEF Memory!Next
<1>4. CASE Throws(Deselect(chip))
  BY <1>1, <1>2, <1>4, RaisesIsClose DEF Throws, Memory!Next
<1> QED
  BY <1>3, <1>4 DEF GetStatus

LEMMA ReadAddressIsMemory ==
  ASSUME IInv, ReadAddress
  PROVE  [Memory!Next]_(Memory!vars)
<1>1. chip \in ChipState /\ Listens(chip) /\ pc = "address" /\ chip.doing = None
  BY DEF IInv, TypeOK, ChipAtHand, ChipHears, ReadAddress, Listens
<1>2. \A c \in {chip, ReadBegin(chip, job.at)} :
          c.mem = chip.mem /\ c.locked = chip.locked /\ c.doing = None
  BY <1>1 DEF ReadBegin, ChipState
<1>3. CASE Throws(ReadBegin(chip, job.at))
  BY <1>1, <1>2, <1>3, RaisesIsClose DEF Throws, Calling, Memory!Next
<1>4. CASE pc' = "data" /\ chip' = ReadBegin(chip, job.at) /\ UNCHANGED <<job, left, got>>
  BY <1>1, <1>2, <1>4, Stutters DEF Status, Pending, Calling
<1> QED
  BY <1>3, <1>4 DEF ReadAddress

\* A number below the modulus is its own remainder.
LEMMA SmallMod ==
  ASSUME NEW n \in Nat \ {0}, NEW a \in 0 .. n - 1
  PROVE  a % n = a
OBVIOUS

LEMMA ReadDataIsMemory ==
  ASSUME IInv, ReadData
  PROVE  [Memory!Next]_(Memory!vars)
<1>1. /\ chip \in ChipState /\ chip.doing = None
      /\ pc = "data" /\ job.op = "read" /\ job \in Jobs /\ job.at + job.n <= Size
      /\ job.n > 0 => chip.reading = job.at
  BY DEF IInv, TypeOK, JobAtHand, ChipAtHand, ReadData, Calling
<1>2. Pending = None /\ pc \in Calling
  BY <1>1 DEF Pending, Calling
<1>3. \A c \in {chip, Deselect(chip)} :
          c.mem = chip.mem /\ c.locked = chip.locked /\ c.doing = None
  BY <1>1, ChipAfter
<1>4. ReadOut(chip, job.n) = Memory!Content(chip.mem, job)
  <2>1. job.at \in Nat /\ job.n \in Nat /\ Size \in Nat \ {0}
    BY <1>1, JobShape, GeometryAssumption
  <2>2. ASSUME NEW k \in 1 .. job.n
        PROVE  /\ chip.reading = job.at /\ chip.reading # NotReading
               /\ (chip.reading + k - 1) % Size = job.at + k - 1
    <3>1. chip.reading = job.at /\ job.at + k - 1 \in 0 .. Size - 1
      BY <1>1, <2>1
    <3>2. chip.reading # NotReading /\ chip.reading + k - 1 = job.at + k - 1
      BY <2>1, <3>1 DEF NotReading
    <3>3. (job.at + k - 1) % Size = job.at + k - 1
      BY <2>1, <3>1, SmallMod
    <3> QED
      BY <3>1, <3>2, <3>3
  <2> QED
    BY <2>2 DEF ReadOut, Memory!Content
<1>5. CASE Returns(ReadOut(chip, job.n)) /\ chip' = Deselect(chip)
  <2>1. ReadOut(chip, job.n) = CASE job.op = "read" -> Memory!Content(chip.mem, job)
                                 [] job.op \in {"status", "getStatus"} -> <<chip.locked>>
                                 [] OTHER -> <<>>
    BY <1>1, <1>4
  <2>2. Memory!Return
    BY <1>1, <1>2, <1>3, <1>5, <2>1, ReturnsIsReturn
  <2> QED
    BY <2>2 DEF Memory!Next
<1>6. CASE Throws(Deselect(chip))
  BY <1>2, <1>3, <1>6, RaisesIsClose DEF Throws, Memory!Next
<1> QED
  BY <1>5, <1>6 DEF ReadData

\* The chip finishes what is pending, during the call or after it.
LEMMA ChipDoneIsMemory ==
  ASSUME IInv, ChipDone
  PROVE  [Memory!Next]_(Memory!vars)
<1>1. chip \in ChipState /\ chip.doing # None /\ chip' = Commit(chip)
      /\ UNCHANGED <<pc, job, got>>
  BY DEF IInv, TypeOK, ChipDone
<1>2. pc \notin {"ready", "enable", "command"}
  BY <1>1 DEF IInv, ChipAtHand, ChipHears, Listens
<1>3. Pending = chip.doing /\ Status # "idle" /\ Status' = Status
  BY <1>1, <1>2 DEF Pending, Status
<1>4. /\ chip'.mem = Apply(chip.mem, chip.doing)
      /\ chip'.locked = Lock(chip.locked, chip.doing)
      /\ chip'.doing = None
  BY <1>1 DEF Commit, ChipState
<1>5. Pending' = None
  BY <1>1, <1>2, <1>4 DEF Pending
<1>6. /\ Apply(chip.mem, chip.doing) = Memory!Apply(chip.mem, chip.doing)
      /\ Lock(chip.locked, chip.doing) = Memory!Lock(chip.locked, chip.doing)
  BY DEF Apply, Memory!Apply, Lock, Memory!Lock, Area, Memory!Area, Cells, Memory!Cells,
         Erases, Memory!Erases
<1>7. Memory!CarryOut
  BY <1>1, <1>3, <1>4, <1>5, <1>6
     DEF Memory!CarryOut, Memory!None, None, Memory!Job, Job, Status, Pending
<1> QED
  BY <1>7 DEF Memory!Next

\* A session that ends: the chip keeps what it is doing.
LEMMA EndsIsClose ==
  ASSUME IInv, pc \notin {"enable", "command"}, Status # "closed", pc' = "off", job' = None, got' = <<>>,
         chip'.mem = chip.mem, chip'.locked = chip.locked, chip'.doing = chip.doing
  PROVE  Memory!Close
<1>1. Status' = "closed" /\ Pending' = Pending
  BY DEF Status, Pending, Calling
<1> QED
  BY <1>1 DEF Memory!Close, Memory!None, None, Memory!Job, Job, Status, Pending

\* A session opens on a chip that answered with an id, and so is idle.
LEMMA SessionIsMemory ==
  ASSUME IInv, Attach \/ ReadId \/ End \/ Unwind
  PROVE  [Memory!Next]_(Memory!vars)
<1>1. chip \in ChipState /\ job = None /\ pc \in {"off", "id", "ready", "unwind"}
  BY DEF IInv, TypeOK, JobAtHand, Attach, ReadId, End, Unwind, Calling
<1>2. \A c \in {chip, Deselect(chip)} :
          c.mem = chip.mem /\ c.locked = chip.locked /\ c.doing = chip.doing
  BY <1>1, ChipAfter
<1>3. CASE Attach
  <2>1. chip' \in {chip, Deselect(chip)} /\ UNCHANGED <<job, got>>
        /\ pc = "off" /\ pc' \in {"off", "id"}
    BY <1>3 DEF Attach
  <2> QED
    BY <1>2, <2>1, Stutters DEF Status, Pending, Calling
<1>4. CASE ReadId
  <2>1. UNCHANGED <<chip, job, got>> /\ pc = "id"
    BY <1>4 DEF ReadId
  <2>2. CASE pc' = "unwind"
    BY <2>1, <2>2, Stutters DEF Status, Pending, Calling
  <2>3. CASE pc' = "ready" /\ Listens(chip)
    <3>1. Status = "closed" /\ Status' = "idle" /\ Pending = None /\ Pending' = None
      BY <2>1, <2>3 DEF Status, Pending, Calling, Listens
    <3>2. Memory!Open
      BY <2>1, <3>1 DEF Memory!Open, Memory!None, None, Memory!Job, Job, Status, Pending
    <3> QED
      BY <3>2 DEF Memory!Next
  <2> QED
    BY <1>4, <2>2, <2>3 DEF ReadId
<1>5. CASE End
  <2>1. Status = "idle" /\ pc = "ready" /\ chip' \in {chip, Deselect(chip)}
        /\ pc' = "off" /\ got' = <<>> /\ job' = None
    BY <1>1, <1>5 DEF End, Status, Calling
  <2>2. Memory!Close
    BY <1>2, <2>1, EndsIsClose
  <2> QED
    BY <2>2 DEF Memory!Next
<1>6. CASE Unwind
  <2>1. chip' \in {chip, Deselect(chip)} /\ job' = job /\ got' = got
        /\ pc = "unwind" /\ pc' = "off"
    BY <1>6 DEF Unwind, IInv, JobAtHand
  <2> QED
    BY <1>2, <2>1, Stutters DEF Status, Pending, Calling
<1> QED
  BY <1>3, <1>4, <1>5, <1>6

LEMMA KillIsMemory ==
  ASSUME IInv, Kill
  PROVE  [Memory!Next]_(Memory!vars)
<1>1. pc' = "off" /\ job' = None /\ got' = <<>> /\ chip' = chip
  BY DEF Kill
<1>2. Pending' = chip.doing /\ Status' = "closed"
  BY <1>1 DEF Pending, Status, Calling
<1>3. CASE Status = "closed"
  <2>1. pc \notin Calling /\ pc # "ready"
    BY <1>3 DEF Status
  <2>2. job = None /\ got = <<>> /\ Pending = chip.doing
    BY <2>1 DEF IInv, JobAtHand, Pending, Calling
  <2> QED
    BY <1>1, <1>2, <1>3, <2>2, Stutters
<1>4. CASE Status # "closed"
  <2>1. Pending' \in {Pending, None}
    <3>1. pc \in {"enable", "command"} => chip.doing = None
      BY DEF IInv, ChipAtHand, ChipHears, Listens
    <3> QED
      BY <1>2, <3>1 DEF Pending
  <2>2. Memory!Close
    BY <1>1, <1>2, <1>4, <2>1
       DEF Memory!Close, Memory!None, None, Memory!Job, Job, Status, Pending
  <2> QED
    BY <2>2 DEF Memory!Next
<1> QED
  BY <1>3, <1>4

\* A call that is not taken on throws before anything is sent.
LEMMA StartIsMemory ==
  ASSUME IInv, NEW j \in Jobs, Start(j)
  PROVE  [Memory!Next]_(Memory!vars)
<1>1. HasShape(j) /\ pc = "ready" /\ chip.doing = None /\ chip' = chip /\ got' = <<>>
  BY JobsAssumption DEF IInv, ChipAtHand, ChipHears, Listens, Start
<1>2. Status = "idle" /\ Pending = None /\ job = None
  BY <1>1 DEF Status, Pending, Calling, IInv, JobAtHand
<1>3. CASE Verified(j)
  <2>1. j.at + j.n <= Size
    BY <1>1, <1>3, GeometryAssumption DEF Verified, HasShape
  <2>2. /\ job' = j
        /\ pc' = CASE j.op \in Changes   -> "enable"
                   [] j.op = "read"      -> "address"
                   [] j.op = "getStatus" -> "status"
    BY <1>3 DEF Start
  <2>3. \/ pc' = "enable" /\ j.op \in Changes
        \/ pc' \in {"address", "status"} /\ j.op \notin Changes
    BY <1>1, <2>2 DEF HasShape, Changes, Erases
  <2>4. Status' = "running" /\ Pending' = IF j.op \in Changes THEN j ELSE None
    BY <1>1, <2>2, <2>3 DEF Status, Pending, Calling
  <2>5. Memory!Call(j)
    BY <1>1, <1>2, <2>1, <2>2, <2>4
       DEF Memory!Call, Memory!None, None, Memory!Job, Job, Memory!Changes, Changes,
           Memory!Erases, Erases, Status, Pending
  <2> QED
    BY <2>5 DEF Memory!Next
<1>4. CASE ~ Verified(j)
  <2>1. pc' = "unwind" /\ job' = None
    BY <1>2, <1>4 DEF Start
  <2>2. Status' = "closed" /\ Pending' = None
    BY <1>1, <2>1 DEF Status, Pending, Calling
  <2>3. Memory!Close
    BY <1>1, <1>2, <2>1, <2>2
       DEF Memory!Close, Memory!None, None, Memory!Job, Job, Status, Pending
  <2> QED
    BY <2>3 DEF Memory!Next
<1> QED
  BY <1>3, <1>4

LEMMA NextIsMemory ==
  ASSUME IInv, [Next]_vars
  PROVE  [Memory!Next]_(Memory!vars)
<1>1. CASE UNCHANGED vars
  BY <1>1, Stutters DEF vars, Status, Pending
<1>2. CASE Step
  BY <1>2, EnableIsMemory, IssueIsMemory, PollIsMemory, GetStatusIsMemory,
     ReadAddressIsMemory, ReadDataIsMemory
     DEF Step
<1>3. CASE Attach \/ ReadId \/ End \/ Unwind \/ Kill
  BY <1>3, SessionIsMemory, KillIsMemory
<1>4. CASE ChipDone \/ \E j \in Jobs : Start(j)
  BY <1>4, ChipDoneIsMemory, StartIsMemory
<1> QED
  BY <1>1, <1>2, <1>3, <1>4 DEF Next

(***************************************************************************)
(* Programmer implements FlashMemory on a chip of any size and geometry:   *)
(* every call that returns was carried out as asked, and no job of a call  *)
(* that threw is carried out once a later session has begun.               *)
(***************************************************************************)
THEOREM ProgrammerKeepsMemory == Spec => KeepsMemory
<1>1. Init => Memory!Init
  <2> SUFFICES ASSUME Init PROVE Memory!Init
    OBVIOUS
  <2>1. PICK m \in [Cells -> Byte], b \in BOOLEAN :
            chip = [mem |-> m, doing |-> None, wel |-> FALSE, locked |-> b, reading |-> NotReading]
    BY DEF Init
  <2>2. chip.mem \in [Memory!Cells -> Memory!Byte] /\ chip.locked \in BOOLEAN /\ chip.doing = None
    BY <2>1 DEF Cells, Memory!Cells, Byte, Memory!Byte
  <2>3. Status = "closed" /\ Pending = None /\ job = None /\ got = <<>>
    BY <2>2 DEF Init, Status, Pending, Calling
  <2> QED
    BY <2>2, <2>3 DEF Memory!Init, Memory!None, None, Memory!Job, Job, Status, Pending
<1>2. IInv /\ [Next]_vars => [Memory!Next]_(Memory!vars)
  BY NextIsMemory
<1> QED
  BY <1>1, <1>2, Invariance, PTL DEF Spec, KeepsMemory, Memory!Spec

-----------------------------------------------------------------------------
(* Every call comes to an end.                                             *)

\* What a call still has to do: its transfers and those of the destructor, the
\* polls of a wait, the chip's job.
StepsLeft ==
    CASE pc = "enable"  -> 5
      [] pc = "command" -> 4
      [] pc \in {"poll", "status", "address"} -> 3
      [] pc = "data"    -> 2
      [] pc = "unwind"  -> 1
      [] OTHER          -> 0

ToDo == <<StepsLeft, left, IF chip.doing = None THEN 0 ELSE 1>>

(***************************************************************************)
(* Every step of a call, and every step of the chip during it, leaves less *)
(* to do: a wait cannot outlast its polls (programmer.cpp:139-161).        *)
(***************************************************************************)
LessToDo == [][(pc \in Calling \cup {"unwind"}) => Below(ToDo', ToDo)]_vars

\* Below for the parts of ToDo.
LEMMA BelowByPart ==
  ASSUME NEW a1, NEW a2, NEW a3, NEW b1, NEW b2, NEW b3,
         \/ a1 \in 0 .. b1 - 1
         \/ a1 = b1 /\ a2 \in 0 .. b2 - 1
         \/ a1 = b1 /\ a2 = b2 /\ a3 \in 0 .. b3 - 1
  PROVE  Below(<<a1, a2, a3>>, <<b1, b2, b3>>)
<1> DEFINE s == <<a1, a2, a3>>
           t == <<b1, b2, b3>>
<1>1. SUFFICES \E i \in 1 .. 3 : s[i] \in 0 .. t[i] - 1 /\ \A j \in 1 .. i - 1 : s[j] = t[j]
  BY DEF Below
<1>2. 1 .. 1 - 1 = {} /\ 1 .. 2 - 1 = {1} /\ 1 .. 3 - 1 = {1, 2}
  OBVIOUS
<1>3. /\ s[1] = a1 /\ s[2] = a2 /\ s[3] = a3
      /\ t[1] = b1 /\ t[2] = b2 /\ t[3] = b3
  OBVIOUS
<1> HIDE DEF s, t
<1>4. CASE a1 \in 0 .. b1 - 1
  <2> WITNESS 1 \in 1 .. 3
  <2> QED
    BY <1>2, <1>3, <1>4
<1>5. CASE a1 = b1 /\ a2 \in 0 .. b2 - 1
  <2> WITNESS 2 \in 1 .. 3
  <2> QED
    BY <1>2, <1>3, <1>5
<1>6. CASE a1 = b1 /\ a2 = b2 /\ a3 \in 0 .. b3 - 1
  <2> WITNESS 3 \in 1 .. 3
  <2> QED
    BY <1>2, <1>3, <1>6
<1> QED
  BY <1>4, <1>5, <1>6

\* A step during a call, of the program or of the chip, leaves less to do.
LEMMA CallShortens ==
  ASSUME IInv, Next, pc \in Calling \cup {"unwind"}
  PROVE  Below(ToDo', ToDo)
<1> DEFINE busy == IF chip.doing = None THEN 0 ELSE 1
<1>1. SUFFICES \/ StepsLeft' \in 0 .. StepsLeft - 1
               \/ StepsLeft' = StepsLeft /\ left' \in 0 .. left - 1
               \/ StepsLeft' = StepsLeft /\ left' = left /\ busy' \in 0 .. busy - 1
  <2>1. Below(<<StepsLeft', left', busy'>>, <<StepsLeft, left, busy>>)
    BY <1>1, BelowByPart
  <2> QED
    BY <2>1 DEF ToDo
<1>2. CASE ChipDone
  <2>1. UNCHANGED <<pc, left>> /\ chip.doing # None /\ chip' = Commit(chip)
    BY <1>2 DEF ChipDone
  <2>2. chip'.doing = None
    BY <2>1 DEF Commit, IInv, TypeOK, ChipState
  <2>3. StepsLeft' = StepsLeft /\ busy = 1 /\ busy' = 0
    BY <2>1, <2>2 DEF StepsLeft
  <2> QED
    BY <2>1, <2>3
<1>3. CASE Poll
  <2>1. pc = "poll" /\ left \in Nat
    BY <1>3, PollsAssumption DEF Poll, IInv, TypeOK
  <2>2. pc' \in {"ready", "unwind"} \/ (pc' = "poll" /\ left > 1 /\ left' = left - 1)
    BY <1>3, <2>1 DEF Poll, WaitOver, Returns, Raises, Throws
  <2> QED
    BY <2>1, <2>2 DEF StepsLeft
<1>4. CASE Enable \/ Issue \/ GetStatus \/ ReadAddress \/ ReadData
  <2>1. \/ pc = "enable" /\ pc' \in {"command", "unwind"}
        \/ pc = "command" /\ pc' \in {"poll", "unwind"}
        \/ pc = "status" /\ pc' \in {"ready", "unwind"}
        \/ pc = "address" /\ pc' \in {"data", "unwind"}
        \/ pc = "data" /\ pc' \in {"ready", "unwind"}
    BY <1>4 DEF Enable, Issue, GetStatus, ReadAddress, ReadData, Returns, Raises, Throws
  <2> QED
    BY <2>1 DEF StepsLeft
<1>5. CASE Unwind \/ Kill
  <2>1. pc' = "off"
    BY <1>5 DEF Unwind, Kill
  <2> QED
    BY <2>1 DEF StepsLeft, Calling
<1>6. ~ (Attach \/ ReadId \/ End \/ \E j \in Jobs : Start(j))
  BY DEF Attach, ReadId, End, Start, Calling
<1> QED
  BY <1>2, <1>3, <1>4, <1>5, <1>6 DEF Next, Step

\* A call and the destructor after it take a bounded number of steps, however
\* long the chip is busy and however many polls a wait has
\* (programmer.cpp:139-161).
THEOREM CallsComeToAnEnd == Spec => LessToDo
<1>1. IInv /\ [Next]_vars => [(pc \in Calling \cup {"unwind"}) => Below(ToDo', ToDo)]_vars
  BY CallShortens
<1> QED
  BY <1>1, Invariance, PTL DEF Spec, LessToDo
=============================================================================
