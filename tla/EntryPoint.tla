----------------------------- MODULE EntryPoint -----------------------------
(***************************************************************************)
(* EntryPoint::call (flashutil/src/flashutil/entryPoint.cpp): one session  *)
(* of Programmer in which a list of operations is carried out, as main()   *)
(* runs it once.                                                           *)
(*                                                                         *)
(* The chip is the memory FlashMemory promises (FlashProgrammer implements *)
(* it): a call of Programmer is its Call, what the chip then does its      *)
(* CarryOut or Ignore, the value that comes back its Return.  The geometry *)
(* the session knows, if any, is the chip's own.                           *)
(***************************************************************************)
EXTENDS FlashChip

CONSTANTS
    Sessions,     \* the lists of operations: sequences of EntryPoint::Parameters
    Inputs,       \* what the input stream may hold
    Memories,     \* what the chip may hold at first
    AddressMod,   \* values of the uint32_t address
    SizeMod       \* values of a size_t

ASSUME WidthAssumption ==
    /\ AddressMod \in Nat \ {0} /\ SizeMod \in Nat \ {0}
    /\ Size < SizeMod /\ BlockSize < SizeMod /\ SectorSize < SizeMod
    /\ AddrSpace <= AddressMod

Ops   == {"none", "read", "write", "erase", "unlock"}
Modes == {"none", "chip", "block", "sector"}
Parameters == [op : Ops, mode : Modes, index : Int, omit : BOOLEAN, verify : BOOLEAN]

ASSUME SessionsAssumption == Sessions \subseteq Seq(Parameters)
ASSUME ContentAssumption == Inputs \subseteq Seq(Byte) /\ Memories \subseteq [Cells -> Byte]

VARIABLES
    mem, locked, status, job, pending, got,   \* FlashMemory's
    pc,
    ops, n,             \* the operations, the number of the current one
    known, masked,      \* isGeometryValid(), getProtectMask() # 0
    start, at, left,    \* the operation's area, the cursor in it, what is left
    input, eof, page,   \* the stream, its eofbit, what has been read of a page
    sound,              \* FALSE: reading fails where input ends, and does not find an end
    before, moved,      \* history: the memory when the operation began, the bytes
                        \* it has taken from the input or put to the output
    verdict,            \* how the operation has ended: "none", "ok", "error" (logged)
    rc                  \* main()'s: "none", "ok", "failed"

memVars  == <<mem, locked, status, job, pending, got>>
geometry == <<known, masked>>
cursor   == <<start, at, left>>
stream   == <<input, eof, page, sound>>
history  == <<before, moved>>
vars == <<memVars, pc, ops, n, geometry, cursor, stream, history, verdict, rc>>

Memory == INSTANCE FlashMemory WITH Jobs <- {}

Sites == {"before", "erase", "after", "status", "unlock", "compare", "write", "verify", "read"}

TypeOK ==
    /\ mem \in [Cells -> Byte] /\ locked \in BOOLEAN
    /\ status \in {"closed", "idle", "running"}
    /\ pc \in Sites \cup {"begin", "next", "fill", "throw", "ended"}
    /\ ops \in Sessions /\ n \in 0 .. Len(ops)
    /\ known \in BOOLEAN /\ masked \in BOOLEAN
    /\ start \in 0 .. AddressMod - 1 /\ at \in Nat /\ left \in 0 .. SizeMod - 1
    /\ input \in Seq(Byte) /\ eof \in BOOLEAN /\ sound \in BOOLEAN
    /\ page \in Seq(Byte) /\ Len(page) <= PageSize
    /\ verdict \in {"none", "ok", "error"} /\ rc \in {"none", "ok", "failed"}

Init ==
    /\ mem \in Memories /\ input \in Inputs /\ sound \in BOOLEAN /\ ops \in Sessions
    /\ Memory!Init
    /\ pc = "begin" /\ n = 0 /\ known = FALSE /\ masked = FALSE
    /\ start = 0 /\ at = 0 /\ left = 0 /\ eof = FALSE /\ page = <<>>
    /\ before = mem /\ moved = <<>> /\ verdict = "none" /\ rc = "none"

-----------------------------------------------------------------------------
(* The session.                                                            *)

\* Programmer::begin.  A chip nobody knows the geometry of has no mask either.
Begin ==
    /\ pc = "begin"
    /\ \/ /\ Memory!Open /\ pc' = "next"
          /\ \E k, m \in BOOLEAN : known' = k /\ masked' = (k /\ m)
          /\ UNCHANGED rc
       \/ /\ pc' = "ended" /\ rc' = "failed"
          /\ UNCHANGED <<memVars, geometry>>
    /\ UNCHANGED <<ops, n, cursor, stream, history, verdict>>

P == ops[n]

\* Zero for every mode of an unknown chip.
AreaSize(p) ==
    CASE known /\ p.mode = "chip"   -> Size
      [] known /\ p.mode = "block"  -> BlockSize
      [] known /\ p.mode = "sector" -> SectorSize
      [] OTHER                      -> 0

\* Mutants of StartOf: an index that counts from one; an address that does not wrap.
StartOfFromOne(p) == ((p.index + 1) * AreaSize(p)) % AddressMod

StartOfUnbounded(p) == p.index * AreaSize(p)

\* address = index; address *= size, in 32 bits.
StartOf(p) == (p.index * AreaSize(p)) % AddressMod

Handled(p) ==
    \/ p.op \in {"erase", "write", "read"} /\ p.mode \in Modes \ {"none"}
    \/ p.op = "unlock" /\ p.mode = "chip"

\* Where the handler of p starts; an area of no size is left alone.
FirstSite(p) ==
    IF p.op # "unlock" /\ AreaSize(p) = 0 THEN "next"
    ELSE CASE p.op = "unlock" -> IF masked THEN "status" ELSE "throw"
           [] p.op = "erase"  -> IF p.omit THEN "before" ELSE "erase"
           [] p.op = "write"  -> "fill"
           [] p.op = "read"   -> "read"

StartOp ==
    /\ pc = "next" /\ n < Len(ops)
    /\ n' = n + 1
    /\ LET p == ops[n + 1] IN
       IF Handled(p)
       THEN /\ pc' = FirstSite(p)
            /\ start' = StartOf(p) /\ at' = start' /\ left' = AreaSize(p)
            /\ verdict' = IF FirstSite(p) = "next" THEN "ok" ELSE "none"
       ELSE pc' = "next" /\ verdict' = "ok" /\ UNCHANGED cursor
    /\ before' = mem /\ moved' = <<>>
    /\ UNCHANGED <<memVars, ops, geometry, stream, rc>>

\* Programmer::end, whose detach may throw.
EndSession ==
    /\ pc = "next" /\ n = Len(ops)
    /\ Memory!Close
    /\ pc' = "ended" /\ rc' \in {"ok", "failed"}
    /\ UNCHANGED <<ops, n, geometry, cursor, stream, history, verdict>>

-----------------------------------------------------------------------------
(* Calls of Programmer.                                                    *)

Lesser(a, b) == IF a < b THEN a ELSE b

\* Mutant of Padded: the rest of the page keeps what it held before.
PaddedStale == [k \in 1 .. PageSize |-> IF k <= Len(page) THEN page[k] ELSE {}]

\* A short page is filled up with 0xff.
Padded == [k \in 1 .. PageSize |-> IF k <= Len(page) THEN page[k] ELSE Bits]

\* What is asked of the chip at each call.
Request ==
    LET Reading(size) == Job("read", at, size, <<>>, FALSE) IN
    CASE pc \in {"before", "after"}   -> Reading(Lesser(left, SectorSize))
      [] pc = "erase"                 -> IF P.mode = "chip" THEN Job("chip", 0, Size, <<>>, FALSE)
                                         ELSE Job(P.mode, start, AreaSize(P), <<>>, FALSE)
      [] pc = "status"                -> Job("getStatus", 0, 0, <<>>, FALSE)
      [] pc = "unlock"                -> Job("status", 0, 0, <<>>, FALSE)
      [] pc \in {"compare", "verify"} -> Reading(Len(page))
      [] pc = "write"                 -> Job("program", at, PageSize, Padded, FALSE)
      [] pc = "read"                  -> Reading(Lesser(left, BlockSize))

\* What Programmer lets pass.
Accepted(j) ==
    j.op \notin {"status", "getStatus"} => known /\ j.at + j.n <= Size /\ j.at % Align(j) = 0

Others == <<pc, ops, n, geometry, cursor, stream, history, verdict, rc>>

Ask ==
    /\ pc \in Sites /\ Accepted(Request)
    /\ Memory!Call(Request)
    /\ UNCHANGED Others

\* The chip's turn.
Chip == (Memory!CarryOut \/ Memory!Ignore) /\ UNCHANGED Others

\* An exception of the handler's own or of Programmer's checks.
Throw ==
    /\ pc = "throw" \/ (pc \in Sites /\ status = "idle" /\ ~ Accepted(Request))
    /\ Memory!Close
    /\ pc' = "ended" /\ rc' = "failed"
    /\ UNCHANGED <<ops, n, geometry, cursor, stream, history, verdict>>

\* An exception out of a call, whatever the chip has made of it, or the end of
\* the process.
Abort ==
    /\ pc # "ended"
    /\ Memory!Close
    /\ pc' = "ended" /\ rc' = "failed"
    /\ UNCHANGED <<ops, n, geometry, cursor, stream, history, verdict>>

-----------------------------------------------------------------------------
(* What the handlers do with the answers.                                  *)

Answer(site) ==
    /\ pc = site
    /\ Memory!Return
    /\ UNCHANGED <<ops, n, geometry, start, rc>>

Finish(v) == pc' = "next" /\ verdict' = v

IsErased(bytes) == \A k \in DOMAIN bytes : bytes[k] = Bits

\* isErased(), a sector at a time: over with the first that is not, or the last.
Checked(whenErased, whenNot) ==
    IF ~ IsErased(got') THEN whenNot /\ UNCHANGED <<at, left>>
    ELSE /\ at' = at + job.n /\ left' = left - job.n
         /\ IF left' = 0 THEN whenErased ELSE UNCHANGED <<pc, verdict>>

\* Mutant of EraseOmitted: the answer is taken the wrong way round.
EraseOmittedInverted ==
    /\ Answer("before")
    /\ Checked(pc' = "erase" /\ UNCHANGED verdict, Finish("ok"))
    /\ UNCHANGED <<stream, history>>

EraseOmitted ==
    /\ Answer("before")
    /\ Checked(Finish("ok"), pc' = "erase" /\ UNCHANGED verdict)
    /\ UNCHANGED <<stream, history>>

Erased ==
    /\ Answer("erase")
    /\ IF P.verify
       THEN pc' = "after" /\ at' = start /\ left' = AreaSize(P) /\ UNCHANGED verdict
       ELSE Finish("ok") /\ UNCHANGED <<at, left>>
    /\ UNCHANGED <<stream, history>>

\* The error is logged and nothing else.
EraseVerified ==
    /\ Answer("after")
    /\ Checked(Finish("ok"), Finish("error"))
    /\ UNCHANGED <<stream, history>>

StatusRead ==
    /\ Answer("status")
    /\ IF P.omit /\ got' = <<FALSE>> THEN Finish("ok") ELSE pc' = "unlock" /\ UNCHANGED verdict
    /\ UNCHANGED <<at, left, stream, history>>

\* Mutant of Unlocked: the status is not looked at.
UnlockedBlindly ==
    /\ Answer("unlock")
    /\ Finish("ok")
    /\ UNCHANGED <<at, left, stream, history>>

Unlocked ==
    /\ Answer("unlock")
    /\ IF P.verify /\ got' = <<TRUE>> THEN pc' = "throw" /\ UNCHANGED verdict ELSE Finish("ok")
    /\ UNCHANGED <<at, left, stream, history>>

\* istream::read of a page: all of it, or what is left at the end of the input.
\* One that fails there (badbit: a directory, a bad sector) counts for nothing,
\* and so does every later one.
Short == Len(input) < PageSize

Fetched == IF Short /\ ~ sound THEN <<>> ELSE SubSeq(input, 1, Lesser(PageSize, Len(input)))

\* What the write loop does with it; a read of nothing is no reason to leave the loop.
Take ==
    /\ page' = Fetched
    /\ input' = IF Short THEN <<>> ELSE SubSeq(input, PageSize + 1, Len(input))
    /\ eof' = (Short /\ sound)
    /\ moved' = moved \o page'
    /\ pc' = IF page' = <<>> THEN "fill" ELSE IF P.omit THEN "compare" ELSE "write"
    /\ UNCHANGED <<verdict, sound>>

LoopEnds == Finish("ok") /\ UNCHANGED <<stream, moved>>

\* Mutants of Fill: the loop looks at the input alone, or at the area alone.
FillToTheEnd ==
    /\ pc = "fill"
    /\ IF eof THEN LoopEnds ELSE Take
    /\ UNCHANGED <<memVars, ops, n, geometry, cursor, before, rc>>

FillTheArea ==
    /\ pc = "fill"
    /\ IF left = 0 THEN LoopEnds ELSE Take
    /\ UNCHANGED <<memVars, ops, n, geometry, cursor, before, rc>>

\* The head of the write loop, which asks for the end of the input and not for
\* its failure.
Fill ==
    /\ pc = "fill"
    /\ IF eof \/ left = 0 THEN LoopEnds ELSE Take
    /\ UNCHANGED <<memVars, ops, n, geometry, cursor, before, rc>>

\* size is unsigned: it wraps when less than a page is left of the area.
Advance ==
    /\ at' = at + PageSize /\ left' = (left - PageSize) % SizeMod
    /\ pc' = "fill" /\ UNCHANGED verdict

Compared ==
    /\ Answer("compare")
    /\ IF got' = page THEN Advance
       ELSE /\ IF IsErased(got') THEN pc' = "write" /\ UNCHANGED verdict ELSE Finish("error")
            /\ UNCHANGED <<at, left>>
    /\ UNCHANGED <<stream, history>>

Written ==
    /\ Answer("write")
    /\ IF P.verify THEN pc' = "verify" /\ UNCHANGED <<at, left, verdict>> ELSE Advance
    /\ UNCHANGED <<stream, history>>

WriteVerified ==
    /\ Answer("verify")
    /\ IF got' = page THEN Advance ELSE Finish("error") /\ UNCHANGED <<at, left>>
    /\ UNCHANGED <<stream, history>>

\* Mutant of BlockRead: the address does not move with the loop.
BlockReadAgain ==
    /\ Answer("read")
    /\ moved' = moved \o got' /\ left' = left - job.n
    /\ IF left' = 0 THEN Finish("ok") ELSE UNCHANGED <<pc, verdict>>
    /\ UNCHANGED <<at, stream, before>>

BlockRead ==
    /\ Answer("read")
    /\ moved' = moved \o got'
    /\ at' = at + job.n /\ left' = left - job.n
    /\ IF left' = 0 THEN Finish("ok") ELSE UNCHANGED <<pc, verdict>>
    /\ UNCHANGED <<stream, before>>

-----------------------------------------------------------------------------
Handlers ==
    \/ EraseOmitted \/ Erased \/ EraseVerified \/ StatusRead \/ Unlocked
    \/ Fill \/ Compared \/ Written \/ WriteVerified \/ BlockRead

Steps == Begin \/ StartOp \/ EndSession \/ Ask \/ Chip \/ Throw \/ Handlers

Next == Steps \/ Abort

\* The program runs on, and a call of Programmer ends (CallEnds of FlashProgrammer).
Spec == Init /\ [][Next]_vars /\ WF_vars(Steps)

-----------------------------------------------------------------------------
(* Properties.                                                             *)

Changing(p) == p.op \in {"erase", "write"}

\* The area an operation is carried out on: from the address that 32 bits make
\* of its index, or the whole chip.
AreaOf(p) ==
    IF p.op = "erase" /\ p.mode = "chip" THEN Cells ELSE StartOf(p) .. StartOf(p) + AreaSize(p) - 1

\* The size left to write misses zero and wraps: the area is not a whole number
\* of pages.
Spills(p) == p.op = "write" /\ AreaSize(p) % PageSize # 0

\* Nothing changes outside the area of the current operation, whatever fails and
\* however late the chip is (entryPoint.cpp:94, 200), except that a write whose
\* size wraps (259) may run on behind it, and never before it.
OnlyItsArea ==
    [][\A a \in Cells : mem'[a] # mem[a] =>
           Changing(P) /\ (a \in AreaOf(P) \/ (Spills(P) /\ a >= StartOf(P)))]_vars

\* The area an operation names: the whole chip, or the block or sector of its index.
Named(p) ==
    IF p.mode = "chip" THEN Cells
    ELSE p.index * AreaSize(p) .. (p.index + 1) * AreaSize(p) - 1

\* What the options say ("Erase block at index", main.cpp:98): only the block or
\* sector of that index changes.  The 32-bit product of entryPoint.cpp:94 makes
\* another one of an index that is not on the chip.
OnlyNamedArea ==
    [][\A a \in Cells : mem'[a] # mem[a] => Changing(P) /\ a \in Named(P)]_vars

\* An operation of kind op has just been brought to its end without complaint.
Done(op) == n > 0 /\ pc = "next" /\ P.op = op /\ Handled(P) /\ verdict = "ok"

\* An erase that has ended well has erased all of its area and nothing else,
\* if it has verified it or the chip is not protected (entryPoint.cpp:96-126).
EraseLands ==
    Done("erase") /\ (P.verify \/ ~ locked)
        => mem = [a \in Cells |-> IF known /\ a \in AreaOf(P) THEN Bits ELSE before[a]]

\* A write that has ended well has put what it took from the input at the head
\* of its area and left the rest of the chip alone, the rest of a last short
\* page too, if it has verified it, or if the chip is not protected and was
\* erased or looked at first (entryPoint.cpp:205-260).
WriteLands ==
    LET covered == start .. start + Len(moved) - 1 IN
    Done("write") /\ (P.verify \/ (~ locked /\ (P.omit \/ \A a \in covered : before[a] = Bits)))
        => mem = [a \in Cells |-> IF a \in covered THEN moved[a - start + 1] ELSE before[a]]

\* The output is at any time the head of the area that is read, and all of it
\* in the end (entryPoint.cpp:289-298).
ReadFaithful ==
    n > 0 /\ P.op = "read" /\ Handled(P) /\ pc \in {"read", "next"}
        => /\ moved = Content(mem, Job("read", start, Len(moved), <<>>, FALSE))
           /\ pc = "next" => Len(moved) = AreaSize(P)

\* After a verified unlock every later operation finds the chip unprotected
\* (entryPoint.cpp:144-158).
UnlockLasts ==
    \A k \in 1 .. n :
        /\ ops[k].op = "unlock" /\ Handled(ops[k]) /\ ops[k].verify
        /\ k < n \/ Done("unlock")
        => ~ locked

\* Programmer's checks of range and alignment never refuse a call made for an
\* area that is on the chip, and consists of whole pages if it is written
\* (programmer.cpp:114-126 against the addresses and sizes the loops of
\* entryPoint.cpp compute).
CallsAccepted ==
    /\ pc \in Sites /\ status = "idle"
    /\ P.index >= 0 /\ (P.index + 1) * AreaSize(P) <= Size /\ ~ Spills(P)
    => Accepted(Request)

\* A run that reports success has verified what it was told to verify
\* (entryPoint.cpp:115-121 and 245-253 only log).
SuccessMeansVerified == rc = "ok" /\ n > 0 /\ P.verify => verdict = "ok"

\* The write loop asks a stream that has failed for more (entryPoint.cpp:205-214).
Stuck == pc = "fill" /\ left > 0 /\ ~ sound /\ input = <<>>

\* Every run ends (the loops of entryPoint.cpp:24, 205 and 289), or is held by
\* an input that fails before a write has had what it wants of it: by no other
\* input, and nowhere else.
RunEnds == <>(pc = "ended" \/ Stuck)
=============================================================================
