---------------------- MODULE EntryPointMemory_proofs ----------------------
(***************************************************************************)
(* Proofs about EntryPoint::call, continued: the calls it makes are        *)
(* accepted, its loops come to an end, and what erase and write make of    *)
(* the memory.                                                             *)
(***************************************************************************)
EXTENDS EntryPoint_proofs, Lexicographic

-----------------------------------------------------------------------------
(* Where the loops are in their area.                                      *)

Loops == ErasePlaces \cup WritePlaces \cup {"read"}

\* The write loop comes to the end of its area only if that is whole pages.
Cursor ==
    pc \in Loops =>
        /\ start = StartOf(P) /\ AreaSize(P) # 0
        /\ pc \notin WritePlaces \/ WholePages(AreaSize(P)) =>
               at + left = start + AreaSize(P) /\ start <= at
        /\ pc \in {"before", "after", "read"} => left > 0
        /\ pc \in WritePlaces /\ WholePages(AreaSize(P)) =>
               /\ WholePages(left) /\ WholePages(at - start)
               /\ pc # "fill" => left > 0

\* A handler leaves the operation and its area alone.
LEMMA HandlersKeep ==
  ASSUME Handlers
  PROVE  /\ UNCHANGED <<ops, n, geometry, start, known, before, mem, locked>>
         /\ P' = P /\ AreaSize(P)' = AreaSize(P) /\ StartOf(P)' = StartOf(P) /\ AreaOf(P)' = AreaOf(P)
         /\ Handled(P)' = Handled(P)
<1>1. UNCHANGED <<ops, n, geometry, start, before, mem, locked>>
  BY DEF Handlers, EraseOmitted, Erased, EraseVerified, StatusRead, Unlocked, Fill, LoopEnds,
         Take, Compared, Written, WriteVerified, BlockRead, Answer, cursor, history, memVars,
         Memory!Return
<1>2. P' = P /\ UNCHANGED known
  BY <1>1 DEF P, geometry
<1> QED
  BY <1>1, <1>2 DEF AreaSize, StartOf, AreaOf, Handled

\* A call that reads.
LEMMA ReadAnswered ==
  ASSUME Control, NEW site \in {"before", "after", "compare", "verify", "read"}, Answer(site)
  PROVE  /\ job.at = at /\ job.n \in Nat /\ got' = [k \in 1 .. job.n |-> mem[at + k - 1]]
         /\ pc \in {"before", "after"} => job.n = Lesser(left, SectorSize)
         /\ pc \in {"compare", "verify"} => job.n = Len(page)
         /\ pc = "read" => job.n = Lesser(left, BlockSize)
<1>1. /\ pc = site /\ job = Request
      /\ got' = CASE job.op = "read" -> Content(mem, job)
                  [] job.op \in {"status", "getStatus"} -> <<locked>>
                  [] OTHER -> <<>>
  BY Answered
<1>2. /\ job.op = "read" /\ job.at = at
      /\ pc \in {"before", "after"} => job.n = Lesser(left, SectorSize)
      /\ pc \in {"compare", "verify"} => job.n = Len(page)
      /\ pc = "read" => job.n = Lesser(left, BlockSize)
  BY <1>1 DEF Request, Job
<1>3. job.n \in Nat
  BY <1>1, RequestShape, Answered DEF Control
<1>4. got' = [k \in 1 .. job.n |-> mem[at + k - 1]]
  BY <1>1, <1>2 DEF Content
<1> QED
  BY <1>2, <1>3, <1>4

\* isErased() over the area: not erased, or on by a sector.
LEMMA Scanned ==
  ASSUME Control, EraseOmitted \/ EraseVerified, pc \in {"before", "after"} => left > 0
  PROVE  /\ pc \in {"before", "after"} /\ job.n \in 1 .. left
         /\ got' = [k \in 1 .. job.n |-> mem[at + k - 1]]
         /\ \/ /\ UNCHANGED <<at, left>>
               /\ \/ pc = "before" /\ pc' = "erase"
                  \/ pc = "after" /\ pc' = "next" /\ verdict' = "error"
            \/ /\ IsErased(got') /\ at' = at + job.n /\ left' = left - job.n
               /\ \/ left' = 0 /\ pc' = "next" /\ verdict' = "ok"
                  \/ left' > 0 /\ pc' = pc
<1>1. PICK site \in {"before", "after"} : Answer(site)
  BY DEF EraseOmitted, EraseVerified
<1>2. pc = site /\ job.n = Lesser(left, SectorSize) /\ got' = [k \in 1 .. job.n |-> mem[at + k - 1]]
  BY <1>1, ReadAnswered, Answered
<1>3. left \in Nat /\ SectorSize \in Nat \ {0}
  BY WidthAssumption, GeometryAssumption DEF Control, TypeOK
<1>4. job.n \in 1 .. left
  BY <1>1, <1>2, <1>3 DEF Lesser
<1>5. \/ /\ UNCHANGED <<at, left>>
         /\ \/ pc = "before" /\ pc' = "erase"
            \/ pc = "after" /\ pc' = "next" /\ verdict' = "error"
      \/ /\ IsErased(got') /\ at' = at + job.n /\ left' = left - job.n
         /\ IF left' = 0 THEN pc' = "next" /\ verdict' = "ok" ELSE pc' = pc
  BY DEF EraseOmitted, EraseVerified, Checked, Finish, Answer
<1> QED
  BY <1>1, <1>2, <1>3, <1>4, <1>5

\* The write loop moves on by a page, and to the end of an area of whole pages.
LEMMA CursorAdvances ==
  ASSUME Control, Cursor, pc \in WritePlaces, pc # "fill", Advance, WholePages(AreaSize(P))
  PROVE  /\ at' + left' = start + AreaSize(P) /\ start <= at'
         /\ WholePages(left') /\ WholePages(at' - start)
<1>1. PageSize \in Nat \ {0} /\ SizeMod \in Nat \ {0} /\ left \in Nat /\ left < SizeMod
      /\ at \in Nat /\ start \in Nat /\ AreaSize(P) \in Nat
  BY GeometryAssumption, WidthAssumption, AreaSizes DEF Control, TypeOK
<1>2. at + left = start + AreaSize(P) /\ start <= at /\ left > 0 /\ WholePages(left)
      /\ WholePages(at - start)
  BY DEF Cursor, Loops
<1>3. PICK m \in Nat : left = m * PageSize
  BY <1>2 DEF WholePages
<1>4. PICK d \in Nat : at - start = d * PageSize
  BY <1>2 DEF WholePages
<1>5. m - 1 \in Nat /\ left - PageSize = (m - 1) * PageSize
  BY <1>1, <1>2, <1>3
<1>6. left - PageSize \in Nat
  BY <1>1, <1>5
<1>7. (left - PageSize) % SizeMod = left - PageSize
  BY <1>1, <1>6
<1>8. at' = at + PageSize /\ left' = left - PageSize
  BY <1>7 DEF Advance
<1>9. (d + 1) * PageSize = d * PageSize + PageSize /\ d + 1 \in Nat
  BY <1>1, <1>4
<1>10. at' - start = (d + 1) * PageSize
  BY <1>1, <1>4, <1>8, <1>9
<1>11. WholePages(left') /\ WholePages(at' - start)
  BY <1>5, <1>8, <1>9, <1>10 DEF WholePages
<1>12. at' + left' = start + AreaSize(P) /\ start <= at'
  BY <1>1, <1>2, <1>8
<1> QED
  BY <1>11, <1>12

\* Every step keeps the loops in their area.
LEMMA CursorStep == Control /\ Cursor /\ [Next]_vars => Cursor'
<1> SUFFICES ASSUME Control, Cursor, [Next]_vars PROVE Cursor'
  OBVIOUS
<1>1. TypeOK /\ Places /\ Service
  BY DEF Control
<1>2. /\ at \in Nat /\ left \in Nat /\ start \in Nat /\ AreaSize(P) \in Nat /\ PageSize \in Nat \ {0}
  BY <1>1, WidthAssumption, GeometryAssumption, AreaSizes DEF TypeOK
<1>3. CASE pc' \notin Loops
  BY <1>3 DEF Cursor
<1>4. CASE Ask \/ Chip \/ UNCHANGED vars
  <2>1. UNCHANGED <<pc, ops, n, geometry, start, at, left>>
    BY <1>4 DEF Ask, Chip, Others, vars, cursor
  <2>2. AreaSize(P)' = AreaSize(P) /\ StartOf(P)' = StartOf(P)
    BY <2>1 DEF P, AreaSize, StartOf, geometry
  <2> QED
    BY <2>1, <2>2 DEF Cursor, WholePages
<1>5. CASE StartOp /\ pc' \in Loops
  <2> DEFINE p == ops[n + 1]
  <2>1. n \in Nat /\ n' = n + 1 /\ P' = p /\ AreaSize(P)' = AreaSize(p) /\ StartOf(P)' = StartOf(p)
    BY <1>5, Started DEF StartOp, StartOf, AreaSize, geometry
  <2>2. Handled(p) /\ pc' = FirstSite(p) /\ start' = StartOf(p) /\ at' = start' /\ left' = AreaSize(p)
    BY <1>5 DEF StartOp, Loops, ErasePlaces, WritePlaces
  <2>3. AreaSize(p) # 0 /\ (pc' \in WritePlaces => pc' = "fill")
    BY <1>5, <2>2 DEF FirstSite, Handled, Loops, ErasePlaces, WritePlaces
  <2>4. start' \in Nat /\ AreaSize(p) \in Nat
    BY <1>1, <1>5, <2>1, ControlStep, WidthAssumption, AreaSizes DEF Control, TypeOK
  <2>5. WholePages(at' - start')
    <3>1. at' - start' = 0 /\ 0 = 0 * PageSize
      BY <1>2, <2>2, <2>4
    <3> QED
      BY <3>1 DEF WholePages
  <2> HIDE DEF p
  <2>6. at' + left' = start' + AreaSize(p) /\ start' <= at' /\ left' > 0
    BY <2>2, <2>3, <2>4
  <2> QED
    BY <2>1, <2>2, <2>3, <2>5, <2>6 DEF Cursor, WholePages
<1>6. CASE Handlers /\ pc' \in Loops
  <2>1. UNCHANGED <<ops, n, geometry, start>> /\ AreaSize(P)' = AreaSize(P) /\ StartOf(P)' = StartOf(P)
    BY <1>6, HandlersKeep
  <2>2. CASE EraseOmitted \/ EraseVerified
    <3>1. /\ pc \in {"before", "after"} /\ pc' \in ErasePlaces
          /\ \/ UNCHANGED <<at, left>> /\ pc' = "erase"
             \/ at' = at + job.n /\ left' = left - job.n /\ left' > 0
      BY <1>6, <2>2, Scanned DEF Loops, ErasePlaces, WritePlaces, Cursor
    <3>2. start = StartOf(P) /\ AreaSize(P) # 0 /\ at + left = start + AreaSize(P) /\ start <= at
      BY <3>1 DEF Cursor, Loops, ErasePlaces, WritePlaces
    <3>3. job.n \in Nat
      BY <2>2, ReadAnswered DEF EraseOmitted, EraseVerified
    <3>4. at' + left' = start + AreaSize(P) /\ start <= at' /\ (pc' # "erase" => left' > 0)
      BY <1>2, <3>1, <3>2, <3>3
    <3> QED
      BY <2>1, <3>1, <3>2, <3>4 DEF Cursor, ErasePlaces, WritePlaces
  <2>3. CASE Erased
    <3>1. pc = "erase" /\ pc' = "after" /\ at' = start /\ left' = AreaSize(P)
      BY <1>6, <2>3 DEF Erased, Answer, Finish, Loops, ErasePlaces, WritePlaces
    <3>2. start = StartOf(P) /\ AreaSize(P) # 0
      BY <3>1 DEF Cursor, Loops, ErasePlaces
    <3> QED
      BY <1>2, <2>1, <3>1, <3>2 DEF Cursor, ErasePlaces, WritePlaces
  <2>4. CASE Fill
    <3>1. pc = "fill" /\ pc' \in WritePlaces /\ UNCHANGED <<at, left>> /\ (pc' # "fill" => left # 0)
      BY <1>6, <2>4 DEF Fill, LoopEnds, Take, Finish, cursor, Loops, WritePlaces, ErasePlaces
    <3>2. pc \in WritePlaces
      BY <3>1 DEF WritePlaces
    <3> QED
      <4>1. /\ start = StartOf(P) /\ AreaSize(P) # 0
            /\ WholePages(AreaSize(P)) =>
                 /\ at + left = start + AreaSize(P) /\ start <= at
                 /\ WholePages(left) /\ WholePages(at - start)
        BY <3>1, <3>2 DEF Cursor, Loops
      <4>2. pc' # "fill" => left > 0
        BY <1>2, <3>1
      <4> QED
        BY <2>1, <3>1, <4>1, <4>2 DEF Cursor, WholePages
  <2>5. CASE Compared \/ Written \/ WriteVerified
    <3>1. pc \in WritePlaces /\ pc # "fill"
      BY <2>5 DEF Compared, Written, WriteVerified, Answer, WritePlaces
    <3>2. CASE Advance
      <4>1. pc' = "fill" /\ start = StartOf(P) /\ AreaSize(P) # 0
        BY <3>1, <3>2 DEF Advance, Cursor, Loops
      <4>2. WholePages(AreaSize(P)) =>
              /\ at' + left' = start + AreaSize(P) /\ start <= at'
              /\ WholePages(left') /\ WholePages(at' - start)
        BY <3>1, <3>2, CursorAdvances
      <4> QED
        BY <2>1, <4>1, <4>2 DEF Cursor, Loops, WritePlaces, WholePages
    <3>3. CASE ~ Advance
      <4>1. UNCHANGED <<at, left>> /\ pc' \in WritePlaces
        BY <1>6, <2>5, <3>3
           DEF Compared, Written, WriteVerified, Finish, Loops, WritePlaces, ErasePlaces
      <4> QED
        BY <2>1, <3>1, <4>1 DEF Cursor, Loops, WritePlaces, WholePages
    <3> QED
      BY <3>2, <3>3
  <2>6. CASE BlockRead
    <3>1. /\ pc = "read" /\ pc' = "read" /\ at' = at + job.n /\ left' = left - job.n /\ left' # 0
          /\ job.n = Lesser(left, BlockSize) /\ job.n \in Nat
      BY <1>6, <2>6, ReadAnswered DEF BlockRead, Answer, Finish, Loops, ErasePlaces, WritePlaces
    <3>2. BlockSize \in Nat
      BY GeometryAssumption
    <3>3. start = StartOf(P) /\ AreaSize(P) # 0 /\ at + left = start + AreaSize(P) /\ start <= at
      BY <3>1 DEF Cursor, Loops, WritePlaces
    <3>4. at' + left' = start + AreaSize(P) /\ start <= at' /\ left' > 0
      BY <1>2, <3>1, <3>2, <3>3 DEF Lesser
    <3> QED
      BY <2>1, <3>1, <3>3, <3>4 DEF Cursor, WritePlaces
  <2>7. CASE StatusRead \/ Unlocked
    BY <1>6, <2>7 DEF StatusRead, Unlocked, Finish, Loops, ErasePlaces, WritePlaces
  <2> QED
    BY <1>6, <2>2, <2>3, <2>4, <2>5, <2>6, <2>7 DEF Handlers
<1>7. CASE Begin \/ EndSession \/ Throw \/ Abort
  BY <1>3, <1>7 DEF Begin, EndSession, Throw, Abort, Loops, ErasePlaces, WritePlaces
<1> QED
  BY <1>3, <1>4, <1>5, <1>6, <1>7 DEF Next, Steps

-----------------------------------------------------------------------------
(* Programmer's checks.                                                    *)

\* A call that is under way has passed them.
Asked == status = "running" => Accepted(Request)

\* Every step keeps it.
LEMMA AskedStep == Control /\ Asked /\ [Next]_vars => Asked'
<1> SUFFICES ASSUME Control, Asked, [Next]_vars PROVE Asked'
  OBVIOUS
<1>1. CASE Ask \/ Chip \/ UNCHANGED vars
  <2>1. UNCHANGED <<pc, ops, n, geometry, cursor, stream>>
    BY <1>1 DEF Ask, Chip, Others, vars
  <2>2. Request' = Request /\ known' = known
    BY <2>1, RequestStable DEF geometry
  <2>3. Accepted(Request)' = Accepted(Request)
    BY <2>2 DEF Accepted
  <2>4. status' = status \/ Accepted(Request)
    BY <1>1 DEF Ask, Chip, vars, memVars, Memory!CarryOut, Memory!Ignore
  <2> QED
    BY <2>3, <2>4 DEF Asked
<1>2. CASE ~ (Ask \/ Chip \/ UNCHANGED vars)
  <2>1. status' \in {"idle", "closed"} \/ (status' = status /\ pc \in {"begin", "next", "fill"})
    BY <1>2 DEF Next, Steps, Begin, StartOp, EndSession, Throw, Abort, Handlers, EraseOmitted,
         Erased, EraseVerified, StatusRead, Unlocked, Fill, Compared, Written, WriteVerified,
         BlockRead, Answer, memVars, Memory!Open, Memory!Return, Memory!Close
  <2>2. status' # "running"
    BY <2>1 DEF Control, Service, Sites
  <2> QED
    BY <2>2 DEF Asked
<1> QED
  BY <1>1, <1>2

\* A multiple of b leaves nothing over.
LEMMA MultipleOf ==
  ASSUME NEW i \in Nat, NEW b \in Nat \ {0}
  PROVE  i * b \in Nat /\ (i * b) % b = 0
OBVIOUS

\* Calls for an area on the chip pass.
LEMMA CallsPass ==
  ASSUME Control, Cursor, pc \in Sites,
         P.index >= 0, (P.index + 1) * AreaSize(P) <= Size, ~ Spills(P)
  PROVE  Accepted(Request)
<1>1. TypeOK /\ P \in Parameters /\ Handled(P)
  BY CurrentOp DEF Control, Places
<1>2. CASE pc \in {"status", "unlock"}
  BY <1>2 DEF Accepted, Request, Job
<1>3. CASE pc \notin {"status", "unlock"}
  <2>1. pc \in Loops
    BY <1>3 DEF Sites, Loops, ErasePlaces, WritePlaces
  <2>2. /\ Size \in Nat \ {0} /\ SectorSize \in Nat \ {0} /\ BlockSize \in Nat \ {0}
        /\ PageSize \in Nat \ {0} /\ AddressMod \in Nat \ {0} /\ Size <= AddressMod
        /\ at \in Nat /\ left \in Nat /\ start \in Nat
        /\ Len(page) \in Nat /\ Len(page) <= PageSize
    BY <1>1, GeometryAssumption, WidthAssumption DEF TypeOK
  <2> DEFINE z == AreaSize(P)
             i == P.index
  <2>3. /\ known /\ z \in Nat \ {0}
        /\ z = CASE P.mode = "chip" -> Size [] P.mode = "block" -> BlockSize [] P.mode = "sector" -> SectorSize
        /\ P.mode \in {"chip", "block", "sector"}
    BY <2>1, <2>2 DEF Cursor, AreaSize
  <2>4. pc \in WritePlaces => WholePages(z)
    BY <1>1, <2>3, PagesOf DEF Control, Places
  <2>5. i \in Nat
    BY <1>1 DEF Parameters
  <2>6. start = (i * z) % AddressMod /\ at + left = start + z
    BY <2>1, <2>4 DEF Cursor, StartOf
  <2>7. (i + 1) * z <= Size
    OBVIOUS
  <2> HIDE DEF z, i
  <2>8. i * z \in Nat /\ (i + 1) * z = i * z + z
    BY <2>3, <2>5
  <2>9. start = i * z /\ start + z <= Size
    <3>1. i * z < AddressMod
      BY <2>2, <2>3, <2>7, <2>8
    <3>2. (i * z) % AddressMod = i * z
      BY <2>2, <2>8, <3>1
    <3> QED
      BY <2>6, <2>7, <2>8, <3>2
  <2>10. at + left <= Size
    BY <2>6, <2>9
  <2>11. \A x \in Nat : x % 1 = 0
    OBVIOUS
  <2>12. CASE pc \in {"before", "after", "read"}
    <3>1. PICK size \in {SectorSize, BlockSize} : Request = Job("read", at, Lesser(left, size), <<>>, FALSE)
      BY <2>12 DEF Request
    <3>2. Lesser(left, size) <= left /\ Lesser(left, size) \in Nat
      BY <2>2, <3>1 DEF Lesser
    <3>3. Request.at = at /\ Request.n = Lesser(left, size) /\ Align(Request) = 1
      BY <3>1 DEF Job, Align
    <3>4. Request.at + Request.n <= Size
      BY <2>2, <2>10, <3>2, <3>3
    <3> QED
      BY <2>2, <2>3, <2>11, <3>3, <3>4 DEF Accepted
  <2>13. CASE pc \in WritePlaces
    <3>1. left > 0 /\ WholePages(left) /\ WholePages(at - start) /\ start <= at
      BY <2>1, <2>4, <2>13 DEF Cursor, Sites, WritePlaces, z
    <3>2. PageSize <= left
      <4>1. PICK m \in Nat : left = m * PageSize
        BY <3>1 DEF WholePages
      <4>2. m >= 1
        BY <2>2, <3>1, <4>1
      <4> QED
        BY <2>2, <4>1, <4>2
    <3>3. CASE pc \in {"compare", "verify"}
      <4>1. Request = Job("read", at, Len(page), <<>>, FALSE)
        BY <3>3 DEF Request
      <4>2. Request.at = at /\ Request.n = Len(page) /\ Align(Request) = 1
        BY <4>1 DEF Job, Align
      <4>3. Request.at + Request.n <= Size
        BY <2>2, <2>10, <3>2, <4>2
      <4> QED
        BY <2>2, <2>3, <2>11, <4>2, <4>3 DEF Accepted
    <3>4. CASE pc = "write"
      <4>1. Request = Job("program", at, PageSize, Padded, FALSE)
        BY <3>4 DEF Request
      <4>2. Request.at = at /\ Request.n = PageSize /\ Align(Request) = PageSize
        BY <4>1 DEF Job, Align
      <4>3. Request.at + Request.n <= Size
        BY <2>2, <2>10, <3>2, <4>2
      <4>4. at % PageSize = 0
        <5>1. PICK d \in Nat : at - start = d * PageSize
          BY <3>1 DEF WholePages
        <5>2. PICK m \in Nat : z = m * PageSize
          BY <2>4, <2>13 DEF WholePages
        <5>3. i * z = (i * m) * PageSize /\ i * m \in Nat
          BY <2>2, <2>5, <5>2
        <5>4. (i * m + d) * PageSize = (i * m) * PageSize + d * PageSize
          BY <2>2, <5>1, <5>3
        <5>5. at = (i * m + d) * PageSize
          BY <2>2, <2>9, <3>1, <5>1, <5>3, <5>4
        <5>6. i * m + d \in Nat /\ PageSize \in Nat \ {0}
          BY <2>2, <5>3
        <5>7. ((i * m + d) * PageSize) % PageSize = 0
          BY <5>6, MultipleOf
        <5> QED
          BY <5>5, <5>7
      <4> QED
        BY <2>3, <4>2, <4>3, <4>4 DEF Accepted
    <3> QED
      BY <2>13, <3>3, <3>4 DEF Sites, WritePlaces
  <2>14. CASE pc = "erase"
    <3>1. CASE P.mode = "chip"
      <4>1. Request = Job("chip", 0, Size, <<>>, FALSE)
        BY <2>14, <3>1 DEF Request
      <4>2. Request.at = 0 /\ Request.n = Size /\ Align(Request) = 1
        BY <4>1 DEF Job, Align
      <4> QED
        BY <2>2, <2>3, <2>11, <4>2 DEF Accepted
    <3>2. CASE P.mode # "chip"
      <4>1. Request = Job(P.mode, start, z, <<>>, FALSE)
        BY <2>14, <3>2 DEF Request, z
      <4>2. Request.at = start /\ Request.n = z /\ Align(Request) = z
        BY <2>3, <3>2, <4>1 DEF Job, Align
      <4>3. start % z = 0
        BY <2>3, <2>5, <2>9, MultipleOf
      <4> QED
        BY <2>3, <2>9, <4>2, <4>3 DEF Accepted
    <3> QED
      BY <3>1, <3>2
  <2> QED
    BY <2>1, <2>12, <2>13, <2>14 DEF Loops, ErasePlaces
<1> QED
  BY <1>2, <1>3

\* Programmer never refuses a call for an area that is on the chip, and
\* consists of whole pages if it is written, whatever the geometry
\* (programmer.cpp:114-126 against the loops of entryPoint.cpp:94-298).
THEOREM ServesTheArea == Spec => []CallsAccepted
<1>1. Init => Cursor
  BY DEF Init, Cursor, Loops, ErasePlaces, WritePlaces
<1>2. Control /\ Cursor => CallsAccepted
  BY CallsPass DEF CallsAccepted
<1> QED
  BY <1>1, <1>2, ControlInit, ControlStep, CursorStep, PTL DEF Spec

-----------------------------------------------------------------------------
(* The loops come to an end.                                               *)

\* What a run still has to do: the session, its operations, the parts of one, a
\* loop's rounds, the calls of a round and the steps of a call.
SessionsLeft == CASE pc = "begin" -> 2 [] pc = "ended" -> 0 [] OTHER -> 1

PartsLeft ==
    CASE pc = "before" -> 3
      [] pc \in {"erase", "status"} -> 2
      [] pc \in {"begin", "next", "throw", "ended"} -> 0
      [] OTHER -> 1

\* The rounds of the write loop are those of its input.
RoundsLeft ==
    CASE pc \in {"before", "after", "read"} -> left
      [] pc \in {"fill", "compare", "write", "verify"} -> Len(input) + (IF eof THEN 0 ELSE 1)
      [] OTHER -> 0

CallsLeft == CASE pc = "compare" -> 3 [] pc = "write" -> 2 [] pc = "verify" -> 1 [] OTHER -> 0

StepsLeft == IF pending # None THEN 1 ELSE IF status = "idle" THEN 2 ELSE 0

ToDo == <<SessionsLeft, Len(ops) - n, PartsLeft, RoundsLeft, CallsLeft, StepsLeft>>

\* Every step leaves less to do, also where the write loop's unsigned size
\* wraps and cannot end it (entryPoint.cpp:24, 205, 259 and 289), but for a turn
\* of the write loop over a stream that has failed (205-214).
LessToDo == [][Below(ToDo', ToDo) \/ (Stuck /\ Fill)]_vars

\* Below for the parts of ToDo.
LEMMA BelowByPart ==
  ASSUME NEW a1, NEW a2, NEW a3, NEW a4, NEW a5, NEW a6,
         NEW b1, NEW b2, NEW b3, NEW b4, NEW b5, NEW b6,
         \/ a1 \in 0 .. b1 - 1
         \/ a1 = b1 /\ a2 \in 0 .. b2 - 1
         \/ a1 = b1 /\ a2 = b2 /\ a3 \in 0 .. b3 - 1
         \/ a1 = b1 /\ a2 = b2 /\ a3 = b3 /\ a4 \in 0 .. b4 - 1
         \/ a1 = b1 /\ a2 = b2 /\ a3 = b3 /\ a4 = b4 /\ a5 \in 0 .. b5 - 1
         \/ a1 = b1 /\ a2 = b2 /\ a3 = b3 /\ a4 = b4 /\ a5 = b5 /\ a6 \in 0 .. b6 - 1
  PROVE  Below(<<a1, a2, a3, a4, a5, a6>>, <<b1, b2, b3, b4, b5, b6>>)
<1> DEFINE s == <<a1, a2, a3, a4, a5, a6>>
           t == <<b1, b2, b3, b4, b5, b6>>
<1>1. SUFFICES \E i \in 1 .. 6 : s[i] \in 0 .. t[i] - 1 /\ \A j \in 1 .. i - 1 : s[j] = t[j]
  BY DEF Below
<1>2. /\ 1 .. 1 - 1 = {} /\ 1 .. 2 - 1 = {1} /\ 1 .. 3 - 1 = {1, 2} /\ 1 .. 4 - 1 = {1, 2, 3}
      /\ 1 .. 5 - 1 = {1, 2, 3, 4} /\ 1 .. 6 - 1 = {1, 2, 3, 4, 5}
  OBVIOUS
<1>3. s[1] = a1 /\ s[2] = a2 /\ s[3] = a3 /\ s[4] = a4 /\ s[5] = a5 /\ s[6] = a6
  OBVIOUS
<1>4. t[1] = b1 /\ t[2] = b2 /\ t[3] = b3 /\ t[4] = b4 /\ t[5] = b5 /\ t[6] = b6
  OBVIOUS
<1> HIDE DEF s, t
<1>5. CASE a1 \in 0 .. b1 - 1
  <2> WITNESS 1 \in 1 .. 6
  <2> QED
    BY <1>2, <1>3, <1>4, <1>5
<1>6. CASE a1 = b1 /\ a2 \in 0 .. b2 - 1
  <2> WITNESS 2 \in 1 .. 6
  <2> QED
    BY <1>2, <1>3, <1>4, <1>6
<1>7. CASE a1 = b1 /\ a2 = b2 /\ a3 \in 0 .. b3 - 1
  <2> WITNESS 3 \in 1 .. 6
  <2> QED
    BY <1>2, <1>3, <1>4, <1>7
<1>8. CASE a1 = b1 /\ a2 = b2 /\ a3 = b3 /\ a4 \in 0 .. b4 - 1
  <2> WITNESS 4 \in 1 .. 6
  <2> QED
    BY <1>2, <1>3, <1>4, <1>8
<1>9. CASE a1 = b1 /\ a2 = b2 /\ a3 = b3 /\ a4 = b4 /\ a5 \in 0 .. b5 - 1
  <2> WITNESS 5 \in 1 .. 6
  <2> QED
    BY <1>2, <1>3, <1>4, <1>9
<1>10. CASE a1 = b1 /\ a2 = b2 /\ a3 = b3 /\ a4 = b4 /\ a5 = b5 /\ a6 \in 0 .. b6 - 1
  <2> WITNESS 6 \in 1 .. 6
  <2> QED
    BY <1>2, <1>3, <1>4, <1>10
<1> QED
  BY <1>5, <1>6, <1>7, <1>8, <1>9, <1>10

\* Less to do in one part, and as much in those before it.
LEMMA LessByPart ==
  ASSUME \/ SessionsLeft' \in 0 .. SessionsLeft - 1
         \/ /\ SessionsLeft' = SessionsLeft
            /\ \/ Len(ops') - n' \in 0 .. Len(ops) - n - 1
               \/ /\ Len(ops') - n' = Len(ops) - n
                  /\ \/ PartsLeft' \in 0 .. PartsLeft - 1
                     \/ /\ PartsLeft' = PartsLeft
                        /\ \/ RoundsLeft' \in 0 .. RoundsLeft - 1
                           \/ /\ RoundsLeft' = RoundsLeft
                              /\ \/ CallsLeft' \in 0 .. CallsLeft - 1
                                 \/ CallsLeft' = CallsLeft /\ StepsLeft' \in 0 .. StepsLeft - 1
  PROVE  Below(ToDo', ToDo)
<1>1. Below(<<SessionsLeft', Len(ops') - n', PartsLeft', RoundsLeft', CallsLeft', StepsLeft'>>,
            <<SessionsLeft, Len(ops) - n, PartsLeft, RoundsLeft, CallsLeft, StepsLeft>>)
  BY BelowByPart
<1> QED
  BY <1>1 DEF ToDo

\* The steps of the session and of the chip.
LEMMA SessionShortens ==
  ASSUME Control, Begin \/ StartOp \/ EndSession \/ Ask \/ Chip \/ Throw \/ Abort
  PROVE  Below(ToDo', ToDo)
<1>1. TypeOK /\ Places /\ Service
  BY DEF Control
<1>2. CASE Begin \/ EndSession \/ Throw \/ Abort
  <2>1. pc # "ended" /\ (pc' = "ended" \/ (pc = "begin" /\ pc' = "next"))
    BY <1>2 DEF Begin, EndSession, Throw, Abort, Sites
  <2>2. SessionsLeft' \in 0 .. SessionsLeft - 1
    BY <2>1 DEF SessionsLeft
  <2> QED
    BY <2>2, LessByPart
<1>3. CASE StartOp
  <2>1. n \in Nat /\ n' = n + 1 /\ pc = "next" /\ ops' = ops
    BY <1>3, Started
  <2>2. pc' # "begin" /\ pc' # "ended"
    BY <1>3 DEF StartOp, FirstSite, Handled
  <2>3. Len(ops) \in Nat /\ n < Len(ops)
    BY <1>1, <1>3, SessionsAssumption DEF TypeOK, StartOp
  <2>4. SessionsLeft' = SessionsLeft
    BY <2>1, <2>2 DEF SessionsLeft
  <2>5. Len(ops') - n' \in 0 .. Len(ops) - n - 1
    BY <2>1, <2>3
  <2> QED
    BY <2>4, <2>5, LessByPart
<1>4. CASE Ask \/ Chip
  <2>1. UNCHANGED <<pc, ops, n, left, input, eof>>
    BY <1>4 DEF Ask, Chip, Others, cursor, stream
  <2>2. /\ SessionsLeft' = SessionsLeft /\ PartsLeft' = PartsLeft /\ CallsLeft' = CallsLeft
        /\ RoundsLeft' = RoundsLeft /\ Len(ops') - n' = Len(ops) - n
    BY <2>1 DEF SessionsLeft, PartsLeft, CallsLeft, RoundsLeft
  <2>3. StepsLeft' \in 0 .. StepsLeft - 1
    <3>1. CASE Ask
      <4>1. status = "idle" /\ status' = "running" /\ pc \in Sites
        BY <3>1 DEF Ask, Memory!Call
      <4>2. pending = None
        BY <1>1, <4>1 DEF Service, Sites
      <4> QED
        BY <4>1, <4>2 DEF StepsLeft
    <3>2. CASE Chip
      <4>1. pending # None /\ pending' = None
        BY <3>2 DEF Chip, Memory!CarryOut, Memory!Ignore, Memory!None, None, Memory!Job, Job,
                    Memory!Changes, Changes, Memory!Erases, Erases
      <4>2. status' # "idle"
        BY <3>2 DEF Chip, Memory!CarryOut, Memory!Ignore
      <4> QED
        BY <4>1, <4>2 DEF StepsLeft
    <3> QED
      BY <1>4, <3>1, <3>2
  <2> QED
    BY <2>2, <2>3, LessByPart
<1> QED
  BY <1>2, <1>3, <1>4

\* The steps of the handlers: on to a later part, or through the current one.
LEMMA HandlersShorten ==
  ASSUME Control, Cursor, Handlers
  PROVE  Below(ToDo', ToDo) \/ (Stuck /\ Fill)
<1>1. TypeOK /\ Places /\ Service
  BY DEF Control
<1>2. UNCHANGED <<ops, n>>
  BY HandlersKeep
<1>3. /\ pc \in Sites \cup {"fill"} /\ pc' \in Sites \cup {"fill", "next", "throw"}
  BY Answered DEF Handlers, EraseOmitted, Erased, EraseVerified, Checked, StatusRead, Unlocked, Fill, LoopEnds,
         Take, Compared, Written, WriteVerified, BlockRead, Advance, Finish, Sites
<1>4. SessionsLeft' = SessionsLeft /\ Len(ops') - n' = Len(ops) - n
  BY <1>2, <1>3 DEF SessionsLeft, Sites
<1>5. /\ left \in Nat /\ Len(input) \in Nat /\ eof \in BOOLEAN
      /\ PageSize \in Nat \ {0} /\ BlockSize \in Nat \ {0}
  BY <1>1, WidthAssumption, GeometryAssumption DEF TypeOK
<1>6. CASE PartsLeft' \in 0 .. PartsLeft - 1
  BY <1>4, <1>6, LessByPart
<1>7. CASE EraseOmitted \/ EraseVerified
  <2>1. pc \in {"before", "after"}
    BY <1>7 DEF EraseOmitted, EraseVerified, Answer
  <2>2. /\ job.n \in 1 .. left
        /\ \/ pc = "before" /\ pc' = "erase"
           \/ pc' = "next"
           \/ pc' = pc /\ left' = left - job.n
    BY <1>7, <2>1, Scanned DEF Cursor, Loops, ErasePlaces
  <2>3. CASE pc' # pc
    <3>1. PartsLeft' \in 0 .. PartsLeft - 1
      BY <2>1, <2>2, <2>3 DEF PartsLeft
    <3> QED
      BY <1>6, <3>1
  <2>4. CASE pc' = pc
    <3>1. left' = left - job.n
      BY <2>1, <2>2, <2>4
    <3>2. RoundsLeft' \in 0 .. RoundsLeft - 1
      BY <1>5, <2>1, <2>2, <2>4, <3>1 DEF RoundsLeft
    <3>3. PartsLeft' = PartsLeft
      BY <2>4 DEF PartsLeft
    <3> QED
      BY <1>4, <3>2, <3>3, LessByPart
  <2> QED
    BY <2>3, <2>4
<1>8. CASE Erased \/ StatusRead \/ Unlocked
  <2>1. \/ pc = "erase" /\ pc' \in {"after", "next"}
        \/ pc = "status" /\ pc' \in {"unlock", "next"}
        \/ pc = "unlock" /\ pc' \in {"throw", "next"}
    BY <1>8 DEF Erased, StatusRead, Unlocked, Answer, Finish
  <2>2. PartsLeft' \in 0 .. PartsLeft - 1
    BY <2>1 DEF PartsLeft
  <2> QED
    BY <1>6, <2>2
<1>9. CASE Fill
  <2>1. pc = "fill"
    BY <1>9 DEF Fill
  <2>2. CASE LoopEnds
    <3>1. pc' = "next"
      BY <2>2 DEF LoopEnds, Finish
    <3>2. PartsLeft' \in 0 .. PartsLeft - 1
      BY <2>1, <3>1 DEF PartsLeft
    <3> QED
      BY <1>6, <3>2
  <2>3. CASE Take /\ ~ eof /\ left # 0
    <3>1. CASE Stuck
      BY <1>9, <3>1
    <3>2. CASE ~ Stuck
      <4>1. /\ input' = IF Short THEN <<>> ELSE SubSeq(input, PageSize + 1, Len(input))
            /\ eof' = (Short /\ sound) /\ pc' \in {"fill", "compare", "write"}
        BY <2>3 DEF Take
      <4>2. RoundsLeft = Len(input) + 1 /\ RoundsLeft' = Len(input') + (IF eof' THEN 0 ELSE 1)
        BY <2>1, <2>3, <4>1 DEF RoundsLeft
      <4>3. RoundsLeft' \in 0 .. Len(input)
        <5>1. CASE Short /\ sound
          <6>1. eof'
            BY <4>1, <5>1, Zenon
          <6>2. RoundsLeft' = 0
            BY <4>1, <4>2, <5>1, <6>1
          <6> QED
            BY <1>5, <6>2
        <5>2. CASE Short /\ ~ sound
          <6>1. input # <<>> /\ input \in Seq(Byte)
            BY <1>1, <1>5, <2>1, <2>3, <3>2, <5>2 DEF Stuck, TypeOK
          <6>2. Len(input) # 0
            BY <6>1
          <6>3. ~ eof'
            BY <4>1, <5>2, Zenon
          <6>4. RoundsLeft' = 1
            BY <4>1, <4>2, <5>2, <6>3
          <6> QED
            BY <1>5, <6>2, <6>4
        <5>3. CASE ~ Short
          <6>1. ~ eof'
            BY <4>1, <5>3, Zenon
          <6>2. Len(input') = Len(input) - PageSize
            BY <1>1, <4>1, <5>3, FetchedPage, TypedParts
          <6>3. Len(input) >= PageSize
            BY <1>5, <5>3 DEF Short
          <6> QED
            BY <1>5, <4>2, <6>1, <6>2, <6>3
        <5> QED
          BY <5>1, <5>2, <5>3
      <4>4. RoundsLeft' \in 0 .. RoundsLeft - 1
        BY <1>5, <4>2, <4>3
      <4>5. PartsLeft' = PartsLeft
        BY <2>1, <4>1 DEF PartsLeft
      <4> QED
        BY <1>4, <4>4, <4>5, LessByPart
    <3> QED
      BY <3>1, <3>2
  <2> QED
    BY <1>9, <2>2, <2>3 DEF Fill
<1>10. CASE Compared \/ Written \/ WriteVerified
  <2>1. /\ \/ pc = "compare" /\ pc' \in {"fill", "write", "next"}
           \/ pc = "write" /\ pc' \in {"fill", "verify"}
           \/ pc = "verify" /\ pc' \in {"fill", "next"}
        /\ UNCHANGED <<input, eof>>
    BY <1>10 DEF Compared, Written, WriteVerified, Answer, Advance, Finish, stream
  <2>2. CASE pc' = "next"
    <3>1. PartsLeft' \in 0 .. PartsLeft - 1
      BY <2>1, <2>2 DEF PartsLeft
    <3> QED
      BY <1>6, <3>1
  <2>3. CASE pc' # "next"
    <3>1. PartsLeft' = PartsLeft
      BY <2>1, <2>3 DEF PartsLeft
    <3>2. RoundsLeft' = RoundsLeft
      BY <2>1, <2>3 DEF RoundsLeft
    <3>3. CallsLeft' \in 0 .. CallsLeft - 1
      BY <2>1, <2>3 DEF CallsLeft
    <3> QED
      BY <1>4, <3>1, <3>2, <3>3, LessByPart
  <2> QED
    BY <2>2, <2>3
<1>11. CASE BlockRead
  <2>1. pc = "read" /\ job.n = Lesser(left, BlockSize) /\ left > 0
    BY <1>11, ReadAnswered DEF BlockRead, Answer, Cursor, Loops
  <2>2. left' = left - job.n /\ pc' \in {"read", "next"}
    BY <1>11, <2>1 DEF BlockRead, Finish
  <2>3. CASE pc' = "next"
    <3>1. PartsLeft' \in 0 .. PartsLeft - 1
      BY <2>1, <2>3 DEF PartsLeft
    <3> QED
      BY <1>6, <3>1
  <2>4. CASE pc' = "read"
    <3>1. RoundsLeft' \in 0 .. RoundsLeft - 1
      BY <1>5, <2>1, <2>2, <2>4 DEF RoundsLeft, Lesser
    <3>2. PartsLeft' = PartsLeft
      BY <2>1, <2>4 DEF PartsLeft
    <3> QED
      BY <1>4, <3>1, <3>2, LessByPart
  <2> QED
    BY <2>2, <2>3, <2>4
<1> QED
  BY <1>7, <1>8, <1>9, <1>10, <1>11 DEF Handlers

\* On a chip of any geometry and with an input of any length, every step leaves
\* less to do, the write loop's also where its unsigned size wraps: only a
\* stream that has failed can keep a run going for ever, and only in the head
\* of that loop (entryPoint.cpp:24, 205-214 and 289).
THEOREM EveryStepCounts == Spec => LessToDo
<1>1. Init => Cursor
  BY DEF Init, Cursor, Loops, ErasePlaces, WritePlaces
<1>2. Control /\ Cursor /\ [Next]_vars => [Below(ToDo', ToDo) \/ (Stuck /\ Fill)]_vars
  BY SessionShortens, HandlersShorten DEF Next, Steps
<1> QED
  BY <1>1, <1>2, ControlInit, ControlStep, CursorStep, PTL DEF Spec, LessToDo

-----------------------------------------------------------------------------
(* Erase.                                                                  *)

Cleared == [a \in Cells |-> IF known /\ a \in AreaOf(P) THEN Bits ELSE before[a]]

\* What the scan of the area has seen of it.
Blank == \A a \in start .. at - 1 : a \in Cells /\ mem[a] = Bits

\* The erase command has been carried out or ignored.
Tried == mem = Cleared \/ (locked /\ mem = before)

Erasing ==
    /\ pc = "before" => mem = before /\ Blank
    /\ pc = "erase" => IF status = "running" /\ pending = None THEN Tried ELSE mem = before
    /\ pc = "after" => Tried /\ Blank
    /\ EraseLands

\* The area of an erase in terms of its first cell.
LEMMA ErasedArea ==
  ASSUME Control, Cursor, pc \in ErasePlaces
  PROVE  /\ known /\ start \in Nat /\ AreaSize(P) \in Nat \ {0} /\ P.mode \in Erases
         /\ P.mode = "chip" => AreaSize(P) = Size /\ AreaOf(P) = 0 .. Size - 1
         /\ P.mode # "chip" => AreaOf(P) = start .. (start + AreaSize(P)) - 1
<1>1. TypeOK /\ n >= 1 /\ Handled(P) /\ P.op = "erase"
  BY DEF Control, Places, ErasePlaces, Sites
<1>2. start = StartOf(P) /\ AreaSize(P) # 0
  BY DEF Cursor, Loops
<1>3. known /\ start \in Nat /\ AreaSize(P) \in Nat \ {0} /\ P.mode \in Erases
  BY <1>1, <1>2, AreaSizes, WidthAssumption DEF TypeOK, AreaSize, Erases
<1>4. P.mode = "chip" => AreaSize(P) = Size /\ AreaOf(P) = 0 .. Size - 1
  BY <1>1, <1>3 DEF AreaSize, AreaOf, Cells
<1>5. CASE P.mode # "chip"
  <2> DEFINE s == StartOf(P)
             z == AreaSize(P)
  <2>1. AreaOf(P) = s .. s + z - 1
    BY <1>5 DEF AreaOf
  <2>2. start = s /\ s \in Nat /\ z \in Nat
    BY <1>2, <1>3
  <2> HIDE DEF s, z
  <2>3. AreaOf(P) = start .. (start + z) - 1
    BY <2>1, <2>2
  <2> QED
    BY <1>3, <1>5, <2>3 DEF z
<1>6. CASE P.mode = "chip"
  BY <1>3, <1>4, <1>6
<1> QED
  BY <1>5, <1>6

\* An area that is blank to its end is what erasing makes of it.
LEMMA BlankIsCleared ==
  ASSUME Control, Cursor, pc \in ErasePlaces, mem = before,
         \A a \in start .. (start + AreaSize(P)) - 1 : a \in Cells /\ mem[a] = Bits
  PROVE  mem = Cleared
<1>1. /\ known /\ start \in Nat /\ AreaSize(P) \in Nat \ {0}
      /\ P.mode = "chip" => AreaSize(P) = Size /\ AreaOf(P) = 0 .. Size - 1
      /\ P.mode # "chip" => AreaOf(P) = start .. (start + AreaSize(P)) - 1
  BY ErasedArea
<1>2. AreaOf(P) = start .. (start + AreaSize(P)) - 1
  <2>1. CASE P.mode = "chip"
    <3>1. (start + AreaSize(P)) - 1 \in start .. (start + AreaSize(P)) - 1
      BY <1>1
    <3>2. (start + AreaSize(P)) - 1 <= Size - 1
      BY <3>1, GeometryAssumption DEF Cells
    <3>3. start = 0
      BY <1>1, <2>1, <3>2
    <3> QED
      BY <1>1, <2>1, <3>3
  <2> QED
    BY <1>1, <2>1
<1>3. \A a \in Cells : mem[a] = IF known /\ a \in AreaOf(P) THEN Bits ELSE before[a]
  BY <1>2
<1>4. mem \in [Cells -> Byte]
  BY DEF Control, TypeOK
<1> QED
  BY <1>3, <1>4 DEF Cleared

\* The command erases the area and nothing else.
LEMMA EraseApplied ==
  ASSUME Control, Cursor, pc = "erase", mem = before
  PROVE  Apply(mem, Request) = Cleared
<1>1. /\ known /\ start \in Nat /\ AreaSize(P) \in Nat \ {0} /\ P.mode \in Erases
      /\ P.mode = "chip" => AreaSize(P) = Size /\ AreaOf(P) = 0 .. Size - 1
      /\ P.mode # "chip" => AreaOf(P) = start .. (start + AreaSize(P)) - 1
  BY ErasedArea DEF ErasePlaces
<1>2. Request.op \in Erases /\ Area(Request) = AreaOf(P)
  <2>1. CASE P.mode = "chip"
    <3>1. Request = Job("chip", 0, Size, <<>>, FALSE)
      BY <2>1 DEF Request
    <3>2. Request.op = "chip" /\ Request.at = 0 /\ Request.n = Size
      BY <3>1 DEF Job
    <3>3. 0 + Size - 1 = Size - 1
      BY GeometryAssumption
    <3> QED
      BY <1>1, <2>1, <3>2, <3>3 DEF Area, Erases
  <2>2. CASE P.mode # "chip"
    <3>1. Request = Job(P.mode, start, AreaSize(P), <<>>, FALSE)
      BY <2>2 DEF Request
    <3>2. Request.op = P.mode /\ Request.at = start /\ Request.n = AreaSize(P)
      BY <3>1 DEF Job
    <3> QED
      BY <1>1, <2>2, <3>2 DEF Area
  <2> QED
    BY <2>1, <2>2
<1> QED
  BY <1>1, <1>2 DEF Apply, Cleared

\* When the chip does something, the program is in one of three calls or gone.
LEMMA ChipWhere ==
  ASSUME Control, Chip
  PROVE  /\ pc = "ended" \/ (pc \in {"erase", "unlock", "write"} /\ status = "running" /\ pending = Request)
         /\ UNCHANGED <<Others, status>> /\ pending' = None
         /\ \/ mem' = Apply(mem, pending) /\ locked' = Lock(locked, pending)
            \/ locked /\ UNCHANGED <<mem, locked>>
<1>1. Service /\ TypeOK /\ Places
  BY DEF Control
<1>2. /\ UNCHANGED <<Others, status>> /\ pending' = None
      /\ \/ pending # None /\ mem' = Memory!Apply(mem, pending) /\ locked' = Memory!Lock(locked, pending)
         \/ pending.op \in Changes /\ locked /\ UNCHANGED <<mem, locked>>
  BY DEF Chip, Memory!CarryOut, Memory!Ignore, Memory!None, None, Memory!Job, Job,
         Memory!Changes, Changes, Memory!Erases, Erases
<1>3. pending # None
  BY <1>2 DEF None, Job, Changes, Erases
<1>4. pc = "ended" \/ (status = "running" /\ pc \in Sites /\ pending = Request)
  BY <1>1, <1>3 DEF Service
<1>5. pending.op \in Changes
  BY <1>1, <1>3 DEF Service
<1>6. pc = "ended" \/ pc \in {"erase", "unlock", "write"}
  BY <1>1, <1>4, <1>5, RequestShape
<1>7. Memory!Apply(mem, pending) = Apply(mem, pending) /\ Memory!Lock(locked, pending) = Lock(locked, pending)
  BY DEF Memory!Apply, Apply, Memory!Cells, Cells, Memory!Area, Area, Memory!Erases, Erases,
         Memory!Lock, Lock
<1> QED
  BY <1>2, <1>4, <1>6, <1>7

\* A step of the chip, or one that asks it.
LEMMA ErasingAsked ==
  ASSUME Control, Cursor, Erasing, Ask \/ Chip \/ UNCHANGED vars
  PROVE  Erasing'
<1>1. UNCHANGED <<pc, n, ops, known, start, at, before, verdict>> /\ P' = P
  BY DEF Ask, Chip, Others, vars, P, cursor, history, geometry
<1>2. AreaOf(P)' = AreaOf(P) /\ Handled(P)' = Handled(P)
  BY <1>1 DEF AreaOf, StartOf, AreaSize, Handled
<1>3. Cleared' = Cleared
  BY <1>1, <1>2 DEF Cleared
<1>4. CASE UNCHANGED <<mem, locked, status, pending>>
  <2>1. EraseLands'
    BY <1>1, <1>2, <1>3, <1>4 DEF Erasing, EraseLands, Done, Cleared
  <2> QED
    BY <1>1, <1>3, <1>4, <2>1 DEF Erasing, Blank, Tried
<1>5. CASE Ask
  <2>1. /\ UNCHANGED <<mem, locked>> /\ status = "idle"
        /\ pending' = IF Request.op \in Changes THEN Request ELSE None
    BY <1>5 DEF Ask, Memory!Call, Memory!Changes, Changes, Memory!Erases, Erases, Memory!None, None,
               Memory!Job, Job
  <2>2. pc = "erase" => pending' # None
    BY <2>1, RequestShape DEF Control, Sites
  <2>3. EraseLands'
    BY <1>1, <1>2, <1>3, <2>1 DEF Erasing, EraseLands, Done, Cleared
  <2> QED
    BY <1>1, <1>3, <2>1, <2>2, <2>3 DEF Erasing, Blank, Tried
<1>6. CASE Chip
  <2>1. CASE pc = "erase"
    <3>1. /\ status = "running" /\ status' = "running" /\ pending = Request /\ pending' = None
          /\ \/ mem' = Apply(mem, Request) /\ locked' = Lock(locked, Request)
             \/ locked /\ UNCHANGED <<mem, locked>>
      BY <1>6, <2>1, ChipWhere
    <3>2. pending # None
      BY <2>1, <3>1, RequestShape DEF Control, Sites
    <3>3. mem = before
      BY <2>1, <3>2 DEF Erasing
    <3>4. Tried'
      BY <1>1, <1>3, <2>1, <3>1, <3>3, EraseApplied DEF Tried
    <3> QED
      BY <1>1, <2>1, <3>1, <3>4 DEF Erasing, EraseLands, Done
  <2>2. CASE pc # "erase"
    <3>1. pc' \in {"unlock", "write", "ended"}
      BY <1>1, <1>6, <2>2, ChipWhere
    <3> QED
      BY <3>1 DEF Erasing, EraseLands, Done
  <2> QED
    BY <2>1, <2>2
<1> QED
  BY <1>4, <1>5, <1>6 DEF vars, memVars

\* The scan before or after the erase.
LEMMA ErasingScanned ==
  ASSUME Control, Cursor, Asked, Erasing, EraseOmitted \/ EraseVerified
  PROVE  Erasing'
<1>1. Handlers
  BY DEF Handlers
<1>2. /\ UNCHANGED <<ops, n, start, known, before, mem, locked>>
      /\ P' = P /\ AreaOf(P)' = AreaOf(P) /\ Handled(P)' = Handled(P)
  BY <1>1, HandlersKeep
<1>3. Cleared' = Cleared
  BY <1>2 DEF Cleared
<1>4. pc \in {"before", "after"} /\ status' = "idle" /\ job = Request /\ status = "running"
  BY Answered DEF EraseOmitted, EraseVerified
<1>5. /\ job.n \in 1 .. left /\ got' = [k \in 1 .. job.n |-> mem[at + k - 1]]
      /\ \/ /\ UNCHANGED <<at, left>>
            /\ \/ pc = "before" /\ pc' = "erase"
               \/ pc = "after" /\ pc' = "next" /\ verdict' = "error"
         \/ /\ IsErased(got') /\ at' = at + job.n /\ left' = left - job.n
            /\ \/ left' = 0 /\ pc' = "next" /\ verdict' = "ok"
               \/ left' > 0 /\ pc' = pc
  BY <1>4, Scanned DEF Cursor, Loops, ErasePlaces
<1>6. CASE UNCHANGED <<at, left>>
  <2>1. \/ pc = "before" /\ pc' = "erase"
        \/ pc = "after" /\ pc' = "next" /\ verdict' = "error"
    <3>1. left \in Nat
      BY WidthAssumption DEF Control, TypeOK
    <3>2. left - job.n # left
      BY <1>5, <3>1
    <3> QED
      BY <1>5, <1>6, <3>2
  <2> QED
    BY <1>2, <1>4, <2>1 DEF Erasing, EraseLands, Done
<1>7. CASE IsErased(got') /\ at' = at + job.n /\ left' = left - job.n
  <2>1. /\ at \in Nat /\ left \in Nat /\ start \in Nat /\ job.at = at /\ job.n \in Nat
        /\ at + left = start + AreaSize(P) /\ AreaSize(P) \in Nat /\ Size \in Nat
    <3>1. job.at = at /\ job.n \in Nat
      BY ReadAnswered DEF EraseOmitted, EraseVerified
    <3> QED
      BY <1>4, <3>1, WidthAssumption, GeometryAssumption, AreaSizes
         DEF Control, TypeOK, Cursor, Loops, ErasePlaces, WritePlaces
  <2>2. at + job.n <= Size
    <3>1. Accepted(Request) /\ Request.op = "read"
      BY <1>4, RequestShape DEF Asked, Control, Sites
    <3> QED
      BY <1>4, <2>1, <3>1 DEF Accepted
  <2>3. Blank'
    <3> SUFFICES ASSUME NEW a \in start .. (at + job.n) - 1 PROVE a \in Cells /\ mem[a] = Bits
      BY <1>2, <1>7 DEF Blank
    <3>1. CASE a < at
      <4>1. a \in start .. at - 1
        BY <2>1, <3>1
      <4> QED
        BY <1>4, <4>1 DEF Erasing, Blank
    <3>2. CASE ~ (a < at)
      <4>1. (a - at) + 1 \in 1 .. job.n /\ at + ((a - at) + 1) - 1 = a /\ a \in Cells
        BY <2>1, <2>2, <3>2 DEF Cells
      <4>2. got'[(a - at) + 1] = mem[a]
        BY <1>5, <4>1
      <4>3. got'[(a - at) + 1] = Bits
        BY <1>5, <1>7, <4>1 DEF IsErased
      <4> QED
        BY <4>1, <4>2, <4>3
    <3> QED
      BY <3>1, <3>2
  <2>4. CASE left' > 0 /\ pc' = pc
    <3>1. EraseLands'
      BY <1>4, <2>4 DEF EraseLands, Done
    <3> QED
      BY <1>2, <1>3, <1>4, <2>3, <2>4, <3>1 DEF Erasing, Tried
  <2>5. CASE left' = 0 /\ pc' = "next"
    <3>1. at' = start + AreaSize(P)
      BY <1>7, <2>1, <2>5
    <3>2. \A a \in start .. (start + AreaSize(P)) - 1 : a \in Cells /\ mem[a] = Bits
      BY <1>2, <2>3, <3>1 DEF Blank
    <3>3. mem = Cleared
      <4>1. CASE mem = before
        BY <1>4, <3>2, <4>1, BlankIsCleared DEF ErasePlaces
      <4>2. CASE mem # before
        BY <1>4, <4>2 DEF Erasing, Tried
      <4> QED
        BY <4>1, <4>2
    <3>4. mem' = Cleared'
      BY <1>2, <1>3, <3>3
    <3> QED
      BY <2>5, <3>4 DEF Erasing, EraseLands, Cleared
  <2>6. left' > 0 \/ left' = 0
    BY <1>5, <1>7, <2>1
  <2> QED
    BY <1>5, <1>6, <2>4, <2>5, <2>6
<1> QED
  BY <1>5, <1>6, <1>7

\* Every step keeps it.
LEMMA ErasingStep ==
  Control /\ Cursor /\ Asked /\ Erasing /\ [Next]_vars => Erasing'
<1> SUFFICES ASSUME Control, Cursor, Asked, Erasing, [Next]_vars PROVE Erasing'
  OBVIOUS
<1>1. TypeOK /\ Places /\ Service
  BY DEF Control
<1>2. CASE Ask \/ Chip \/ UNCHANGED vars
  BY <1>2, ErasingAsked
<1>3. CASE EraseOmitted \/ EraseVerified
  BY <1>3, ErasingScanned
<1>4. CASE Begin \/ EndSession \/ Throw \/ Abort
  <2>1. pc' = "ended" \/ (pc' = "next" /\ n' = 0)
    BY <1>1, <1>4 DEF Begin, EndSession, Throw, Abort, Places
  <2> QED
    BY <2>1 DEF Erasing, EraseLands, Done
<1>5. CASE StartOp
  <2> DEFINE p == ops[n + 1]
  <2>1. P' = p /\ AreaSize(P)' = AreaSize(p) /\ UNCHANGED <<memVars, geometry>> /\ before' = mem
    BY <1>5, Started DEF StartOp
  <2>2. Handled(P)' = Handled(p) /\ status' # "running"
    BY <1>1, <1>5, <2>1 DEF Handled, StartOp, Service, Sites, memVars
  <2>3. CASE pc' = "next"
    <3> SUFFICES ASSUME Done("erase")' PROVE EraseLands'
      BY <2>3 DEF Erasing, EraseLands
    <3>1. Handled(p) /\ p.op = "erase"
      BY <2>1, <2>2 DEF Done
    <3>2. AreaSize(p) = 0
      BY <1>5, <2>3, <3>1 DEF StartOp, FirstSite
    <3>3. ~ known
      BY <3>1, <3>2, GeometryAssumption DEF AreaSize, Handled, Modes
    <3>4. ~ known' /\ mem' = before' /\ mem' \in [Cells -> Byte]
      BY <1>1, <2>1, <3>3 DEF geometry, memVars, TypeOK
    <3>5. mem' = [a \in Cells |-> IF known' /\ a \in AreaOf(P)' THEN Bits ELSE before'[a]]
      BY <3>4
    <3> QED
      BY <3>5 DEF EraseLands
  <2>4. CASE pc' # "next"
    <3>1. Handled(p) /\ pc' = FirstSite(p) /\ start' = StartOf(p) /\ at' = start'
      BY <1>5, <2>4 DEF StartOp
    <3>2. pc' # "after"
      BY <3>1 DEF FirstSite, Handled
    <3>3. start' \in Nat
      BY <1>5, ControlStep, WidthAssumption DEF Control, TypeOK
    <3>4. \A x \in Nat : x .. x - 1 = {}
      OBVIOUS
    <3>5. Blank'
      BY <3>1, <3>3, <3>4 DEF Blank
    <3>6. mem' = before'
      BY <2>1 DEF memVars
    <3> QED
      BY <2>2, <2>4, <3>2, <3>5, <3>6 DEF Erasing, EraseLands, Done
  <2> QED
    BY <2>3, <2>4
<1>6. CASE Erased
  <2>1. Answer("erase") /\ Handlers
    BY <1>6 DEF Erased, Handlers
  <2>2. pc = "erase" /\ status = "running" /\ pending = None
    BY <2>1, Answered
  <2>3. /\ UNCHANGED <<ops, n, geometry, start, known, before, mem, locked>>
        /\ P' = P /\ AreaOf(P)' = AreaOf(P) /\ Handled(P)' = Handled(P)
    BY <2>1, HandlersKeep
  <2>4. Cleared' = Cleared
    BY <2>3 DEF Cleared
  <2>5. Tried'
    BY <2>2, <2>3, <2>4 DEF Erasing, Tried
  <2>6. CASE P.verify
    <3>1. pc' = "after" /\ at' = start
      BY <1>6, <2>6 DEF Erased
    <3>2. start' = at' /\ at' \in Nat
      BY <1>1, <2>3, <3>1, WidthAssumption DEF TypeOK
    <3>3. \A x \in Nat : x .. x - 1 = {}
      OBVIOUS
    <3>4. Blank'
      BY <3>2, <3>3 DEF Blank
    <3> QED
      BY <2>5, <3>1, <3>4 DEF Erasing, EraseLands, Done
  <2>7. CASE ~ P.verify
    <3>1. pc' = "next"
      BY <1>6, <2>7 DEF Erased, Finish
    <3>2. EraseLands'
      BY <2>3, <2>5, <2>7 DEF EraseLands, Tried, Cleared
    <3> QED
      BY <3>1, <3>2 DEF Erasing
  <2> QED
    BY <2>6, <2>7
<1>7. CASE Handlers /\ ~ EraseOmitted /\ ~ Erased /\ ~ EraseVerified
  <2>1. /\ pc \in WritePlaces \cup {"status", "unlock", "read"}
        /\ pc' \notin ErasePlaces
    BY <1>7 DEF Handlers, StatusRead, Unlocked, Fill, Compared, Written, WriteVerified, BlockRead,
         LoopEnds, Take, Advance, Finish, Answer, WritePlaces, ErasePlaces
  <2>2. P.op # "erase" /\ P' = P
    BY <1>1, <1>7, <2>1, HandlersKeep DEF Places
  <2> QED
    BY <2>1, <2>2 DEF Erasing, EraseLands, Done, ErasePlaces
<1> QED
  BY <1>2, <1>3, <1>4, <1>5, <1>6, <1>7 DEF Next, Steps, Handlers

\* An erase that ends well has erased its area and nothing else, on a chip of
\* any geometry, whatever its index (entryPoint.cpp:88-126).
THEOREM ErasesTheArea == Spec => []EraseLands
<1>1. Init => Cursor /\ Asked /\ Erasing
  BY DEF Init, Cursor, Loops, ErasePlaces, WritePlaces, Asked, Memory!Init, Erasing, EraseLands, Done
<1>2. Erasing => EraseLands
  BY DEF Erasing
<1> QED
  BY <1>1, <1>2, ControlInit, ControlStep, CursorStep, AskedStep, ErasingStep, PTL DEF Spec

-----------------------------------------------------------------------------
(* Write.                                                                  *)

\* Where what has been taken from the input belongs, and the page of it that
\* is being written.
Taken == start .. start + Len(moved) - 1
PageCells == at .. at + Len(page) - 1

\* The memory when it is there.
Goal == [a \in Cells |-> IF a \in Taken THEN moved[a - start + 1] ELSE before[a]]

\* Nothing keeps it from getting there.
Fresh == ~ locked /\ (P.omit \/ \A a \in Taken \cap Cells : before[a] = Bits)

\* It gets there, or the operation ends with an error.
Surely == P.verify \/ Fresh

Around == \A a \in Cells \ PageCells : mem[a] = Goal[a]

Untouched ==
    \A a \in Cells \cap PageCells : mem[a] = before[a] /\ (pc = "write" /\ P.omit => mem[a] = Bits)

Put == Fresh => \A a \in Cells \cap PageCells : mem[a] = Goal[a]

\* The page is the last of what has been taken, and whole unless the input is at its end.
AtPage ==
    /\ at = start + (Len(moved) - Len(page)) /\ Len(page) <= Len(moved)
    /\ eof \/ Len(page) = PageSize
    /\ \A k \in 1 .. Len(page) : page[k] = moved[(at - start) + k]

\* The page has been programmed, or the chip has refused.
Programmed == pc = "verify" \/ (pc = "write" /\ status = "running" /\ pending = None)

Writing ==
    /\ pc \in WritePlaces => moved \in Seq(Byte)
    /\ pc = "fill" => (eof \/ at = start + Len(moved)) /\ (Surely => mem = Goal)
    /\ pc \in WritePlaces \ {"fill"} =>
           AtPage /\ (Surely => Around /\ IF Programmed THEN Put ELSE Untouched)
    /\ WriteLands

\* What belongs into the cells of the page.
LEMMA GoalOnPage ==
  ASSUME Control, AtPage, moved \in Seq(Byte), NEW a \in Cells \cap PageCells
  PROVE  /\ (a - at) + 1 \in 1 .. Len(page) /\ a \in Taken
         /\ Goal[a] = page[(a - at) + 1]
<1>1. at \in Nat /\ start \in Nat /\ Len(page) \in Nat /\ Len(moved) \in Nat /\ a \in Nat
  BY WidthAssumption, GeometryAssumption DEF Control, TypeOK, Cells
<1>2. at = start + (Len(moved) - Len(page)) /\ Len(page) <= Len(moved)
  BY DEF AtPage
<1> DEFINE l == Len(page)  m == Len(moved)  k == (a - at) + 1
<1>3. a >= at /\ a <= at + l - 1
  BY <1>1 DEF PageCells
<1> HIDE DEF l, m
<1>4. k \in 1 .. l /\ (at - start) + k = a - start + 1 /\ a >= start /\ a <= start + m - 1
  BY <1>1, <1>2, <1>3 DEF l, m
<1>5. a \in Taken
  BY <1>1, <1>4 DEF Taken, m
<1>6. page[k] = moved[(at - start) + k]
  BY <1>4 DEF AtPage, l
<1>7. Goal[a] = moved[a - start + 1]
  BY <1>5 DEF Goal
<1> QED
  BY <1>4, <1>5, <1>6, <1>7 DEF l

\* The page and what is around it are the memory.
LEMMA GoalReached ==
  ASSUME Control, Around, \A a \in Cells \cap PageCells : mem[a] = Goal[a]
  PROVE  mem = Goal
<1>1. \A a \in Cells : mem[a] = Goal[a]
  BY DEF Around
<1>2. mem \in [Cells -> Byte] /\ DOMAIN Goal = Cells
  BY DEF Control, TypeOK, Goal
<1>3. \A a \in Cells : Goal[a] = IF a \in Taken THEN moved[a - start + 1] ELSE before[a]
  BY DEF Goal
<1> QED
  BY <1>1, <1>2, <1>3 DEF Goal

\* Reading back what was to be written.
LEMMA PageReadBack ==
  ASSUME Control, AtPage, moved \in Seq(Byte), Answer("compare") \/ Answer("verify"), got' = page
  PROVE  \A a \in Cells \cap PageCells : mem[a] = Goal[a]
<1> SUFFICES ASSUME NEW a \in Cells \cap PageCells PROVE mem[a] = Goal[a]
  OBVIOUS
<1>1. job.n = Len(page) /\ got' = [k \in 1 .. job.n |-> mem[at + k - 1]]
  BY ReadAnswered, Answered
<1>2. (a - at) + 1 \in 1 .. Len(page) /\ Goal[a] = page[(a - at) + 1]
  BY GoalOnPage
<1>3. page[(a - at) + 1] = mem[at + ((a - at) + 1) - 1]
  BY <1>1, <1>2
<1>4. at + ((a - at) + 1) - 1 = a
  BY DEF Control, TypeOK, Cells
<1> QED
  BY <1>2, <1>3, <1>4

\* Programming puts the page where it belongs, if the bits are there to be
\* cleared, and leaves the cells around it alone.
LEMMA PageProgrammed ==
  ASSUME Control, AtPage, moved \in Seq(Byte), pc = "write", Around, Untouched,
         mem' = Apply(mem, Request)
  PROVE  /\ \A a \in Cells \ PageCells : mem'[a] = Goal[a]
         /\ Fresh => \A a \in Cells \cap PageCells : mem'[a] = Goal[a]
<1>1. Request = Job("program", at, PageSize, Padded, FALSE)
  BY DEF Request
<1>2. /\ Request.op = "program" /\ Request.at = at /\ Request.n = PageSize /\ Request.data = Padded
  BY <1>1 DEF Job
<1>3. \A a \in Cells : mem'[a] = IF a \in at .. at + PageSize - 1 THEN mem[a] \cap Padded[a - at + 1]
                                ELSE mem[a]
  BY <1>2 DEF Apply, Area, Erases
<1>4. /\ at \in Nat /\ PageSize \in Nat /\ Len(page) \in Nat /\ Len(page) <= PageSize
      /\ \A a \in Cells : a \in Nat /\ mem[a] \in SUBSET Bits
      /\ page \in Seq(SUBSET Bits)
  BY GeometryAssumption DEF Control, TypeOK, Cells, Byte
<1>5. ASSUME NEW a \in Cells \ PageCells PROVE mem'[a] = Goal[a]
  <2>1. mem[a] = Goal[a] /\ mem[a] \subseteq Bits
    BY <1>4 DEF Around
  <2>2. a \in at .. at + PageSize - 1 => Padded[a - at + 1] = Bits
    <3> SUFFICES ASSUME a \in at .. at + PageSize - 1 PROVE Padded[a - at + 1] = Bits
      OBVIOUS
    <3>1. a - at + 1 \in 1 .. PageSize /\ ~ (a - at + 1 <= Len(page))
      BY <1>4 DEF PageCells
    <3> QED
      BY <3>1 DEF Padded
  <2> QED
    BY <1>3, <2>1, <2>2
<1>6. ASSUME Fresh, NEW a \in Cells \cap PageCells PROVE mem'[a] = Goal[a]
  <2>1. (a - at) + 1 \in 1 .. Len(page) /\ a \in Taken /\ Goal[a] = page[(a - at) + 1]
    BY GoalOnPage
  <2>2. mem[a] = Bits
    BY <1>6, <2>1 DEF Untouched, Fresh
  <2>3. a \in at .. at + PageSize - 1 /\ a - at + 1 = (a - at) + 1 /\ (a - at) + 1 \in 1 .. PageSize
    BY <1>4, <2>1 DEF PageCells
  <2>4. Padded[a - at + 1] = page[(a - at) + 1]
    BY <2>1, <2>3 DEF Padded
  <2>5. page[(a - at) + 1] \subseteq Bits
    BY <1>4, <2>1
  <2> QED
    BY <1>3, <2>1, <2>2, <2>3, <2>4, <2>5
<1> QED
  BY <1>5, <1>6

\* What Take does with the input.
LEMMA TakenMore ==
  ASSUME Control, Take, moved \in Seq(Byte)
  PROVE  /\ page' \in Seq(Byte) /\ moved' \in Seq(Byte) /\ Len(page') \in Nat /\ Len(moved) \in Nat
         /\ Len(moved') = Len(moved) + Len(page')
         /\ eof' \/ Len(page') = PageSize \/ Len(page') = 0
         /\ pc' = IF Len(page') = 0 THEN "fill" ELSE IF P.omit THEN "compare" ELSE "write"
         /\ \A k \in 1 .. Len(moved) : moved'[k] = moved[k]
         /\ \A k \in 1 .. Len(page') : page'[k] = moved'[Len(moved) + k]
<1>1. /\ page' = Fetched /\ eof' = (Short /\ sound) /\ moved' = moved \o page'
      /\ pc' = IF page' = <<>> THEN "fill" ELSE IF P.omit THEN "compare" ELSE "write"
  BY DEF Take
<1>2. Typed
  BY TypedParts DEF Control
<1>3. page' \in Seq(Byte) /\ Len(page') \in Nat
  BY <1>1, <1>2, FetchedPage
<1>4. eof' \/ Len(page') = PageSize \/ Len(page') = 0
  BY <1>1, <1>2, FetchedPage
<1>5. page' = <<>> <=> Len(page') = 0
  BY <1>3
<1>6. /\ moved' \in Seq(Byte) /\ Len(moved') = Len(moved) + Len(page')
      /\ \A i \in 1 .. Len(moved) : moved'[i] = moved[i]
      /\ \A i \in 1 .. Len(page') : moved'[Len(moved) + i] = page'[i]
  BY <1>1, <1>3
<1> QED
  BY <1>1, <1>3, <1>4, <1>5, <1>6

\* The head of the write loop.
LEMMA WritingFilled ==
  ASSUME Control, Writing, Fill
  PROVE  Writing'
<1>1. pc = "fill" /\ pc \in WritePlaces /\ UNCHANGED <<mem, locked, status, start, at, before, n>>
      /\ P' = P /\ Handled(P)' = Handled(P)
  BY DEF Fill, memVars, cursor, WritePlaces, P, Handled
<1>2. moved \in Seq(Byte) /\ (eof \/ at = start + Len(moved)) /\ (Surely => mem = Goal)
  BY <1>1 DEF Writing
<1>3. at \in Nat /\ start \in Nat
  BY WidthAssumption DEF Control, TypeOK
<1>4. CASE LoopEnds
  <2>1. pc' = "next" /\ UNCHANGED moved
    BY <1>4 DEF LoopEnds, Finish
  <2>2. Goal' = Goal
    BY <1>1, <2>1 DEF Goal, Taken
  <2>3. WriteLands'
    <3> SUFFICES ASSUME Done("write")', (P.verify \/ (~ locked /\ (P.omit \/ \A a \in Taken : before[a] = Bits)))'
                 PROVE  mem' = Goal'
      BY DEF WriteLands, Taken, Goal
    <3>1. Taken' = Taken
      BY <1>1, <2>1 DEF Taken
    <3>2. Surely
      BY <1>1, <3>1 DEF Surely, Fresh
    <3> QED
      BY <1>1, <1>2, <2>2, <3>2
  <2> QED
    BY <2>1, <2>3 DEF Writing, WritePlaces
<1>5. CASE Take /\ ~ eof
  <2>1. at = start + Len(moved)
    BY <1>2, <1>5
  <2>2. /\ moved' \in Seq(Byte) /\ Len(page') \in Nat /\ Len(moved) \in Nat
        /\ Len(moved') = Len(moved) + Len(page')
        /\ eof' \/ Len(page') = PageSize \/ Len(page') = 0
        /\ pc' = IF Len(page') = 0 THEN "fill" ELSE IF P.omit THEN "compare" ELSE "write"
        /\ \A k \in 1 .. Len(moved) : moved'[k] = moved[k]
        /\ \A k \in 1 .. Len(page') : page'[k] = moved'[Len(moved) + k]
    BY <1>2, <1>5, TakenMore
  <2> DEFINE l == Len(page')  m == Len(moved)  more == Len(moved')
  <2>3. /\ Taken = start .. start + m - 1 /\ Taken' = start .. start + more - 1
        /\ PageCells' = at .. at + l - 1
    BY <1>1 DEF Taken, PageCells
  <2>4. l \in Nat /\ m \in Nat /\ more = m + l /\ at = start + m
    BY <2>1, <2>2
  <2> HIDE DEF l, m, more
  <2>5. /\ \A a \in Int : a \in Taken => a \in Taken' /\ a \notin PageCells' /\ a - start + 1 \in 1 .. m
        /\ \A a \in Int : a \in Taken' /\ a \notin PageCells' => a \in Taken
    BY <1>3, <2>3, <2>4
  <2>6. \A a \in Cells : a \in Int
    BY DEF Cells
  <2>7. Fresh' => Fresh
    BY <1>1, <2>5, <2>6 DEF Fresh
  <2>8. Surely' => Surely
    BY <1>1, <2>7 DEF Surely
  <2>9. \A a \in Cells : a \notin PageCells' => Goal'[a] = Goal[a]
    <3> SUFFICES ASSUME NEW a \in Cells, a \notin PageCells' PROVE Goal'[a] = Goal[a]
      OBVIOUS
    <3>1. a \in Taken <=> a \in Taken'
      BY <2>5, <2>6
    <3>2. Goal[a] = IF a \in Taken THEN moved[a - start + 1] ELSE before[a]
      BY DEF Goal
    <3>3. Goal'[a] = IF a \in Taken' THEN moved'[a - start + 1] ELSE before[a]
      BY <1>1 DEF Goal
    <3>4. a \in Taken => moved'[a - start + 1] = moved[a - start + 1]
      BY <2>2, <2>5, <2>6 DEF m
    <3> QED
      BY <3>1, <3>2, <3>3, <3>4
  <2>10. pc' \in WritePlaces /\ pc' # "next"
    BY <2>2 DEF WritePlaces
  <2>11. WriteLands'
    BY <2>10 DEF WriteLands, Done
  <2>12. CASE l = 0
    <3>1. pc' = "fill" /\ more = m
      BY <2>2, <2>4, <2>12 DEF l
    <3>2. PageCells' = {}
      BY <1>3, <2>3, <2>12
    <3>3. Surely' => mem' = Goal'
      <4> SUFFICES ASSUME Surely' PROVE mem = Goal'
        BY <1>1
      <4>1. mem = Goal
        BY <1>2, <2>8
      <4>2. \A a \in Cells : Goal'[a] = Goal[a]
        BY <2>9, <3>2
      <4>3. Goal' = Goal
        BY <4>2 DEF Goal
      <4> QED
        BY <4>1, <4>3
    <3>4. at' = start' + Len(moved')
      BY <1>1, <2>4, <3>1 DEF more
    <3> QED
      BY <2>2, <2>11, <3>1, <3>3, <3>4 DEF Writing
  <2>13. CASE l # 0
    <3>1. /\ pc' = IF P.omit THEN "compare" ELSE "write"
          /\ ~ Programmed'
      <4>1. status # "running"
        BY <1>1 DEF Control, Service, Sites
      <4>2. pc' = IF P.omit THEN "compare" ELSE "write"
        BY <2>2, <2>13 DEF l
      <4> QED
        BY <1>1, <4>1, <4>2 DEF Programmed
    <3>2. AtPage'
      <4>1. at = start + (more - l) /\ l <= more /\ at - start = m
        BY <1>3, <2>4
      <4>2. at' = start' + (Len(moved') - Len(page')) /\ Len(page') <= Len(moved')
        BY <1>1, <4>1 DEF l, more
      <4>3. \A k \in 1 .. Len(page') : page'[k] = moved'[(at' - start') + k]
        BY <1>1, <2>2, <4>1 DEF m
      <4>4. eof' \/ Len(page') = PageSize
        BY <2>2, <2>13 DEF l
      <4> QED
        BY <4>2, <4>3, <4>4 DEF AtPage
    <3>3. Surely' => Around' /\ Untouched'
      <4> SUFFICES ASSUME Surely' PROVE Around' /\ Untouched'
        OBVIOUS
      <4>1. mem = Goal
        BY <1>2, <2>8
      <4>2. Around'
        BY <1>1, <2>9, <4>1 DEF Around
      <4>3. \A a \in Cells \cap PageCells' : mem[a] = before[a]
        BY <2>5, <2>6, <4>1 DEF Goal
      <4>4. ~ (pc' = "write" /\ P'.omit)
        BY <1>1, <3>1
      <4> QED
        BY <1>1, <4>2, <4>3, <4>4 DEF Untouched
    <3>4. pc' # "fill"
      BY <3>1
    <3> QED
      BY <2>2, <2>11, <3>1, <3>2, <3>3, <3>4 DEF Writing
  <2> QED
    BY <2>12, <2>13
<1> QED
  BY <1>4, <1>5 DEF Fill

\* A step that leaves what is written, and where, alone.
LEMMA GoalKept ==
  ASSUME UNCHANGED <<start, moved, before, locked>>, P' = P
  PROVE  Taken' = Taken /\ Goal' = Goal /\ Fresh' = Fresh /\ Surely' = Surely
<1>1. Taken' = Taken
  BY DEF Taken
<1>2. Goal' = Goal
  BY <1>1 DEF Goal
<1>3. Fresh' = Fresh
  BY <1>1 DEF Fresh
<1> QED
  BY <1>1, <1>2, <1>3 DEF Surely

\* On to the next page, with this one where it belongs.
LEMMA PageDone ==
  ASSUME Control, AtPage, moved \in Seq(Byte), Advance, Surely => mem = Goal,
         UNCHANGED <<mem, locked, start, before, moved, eof>>, P' = P
  PROVE  Writing'
<1>1. pc' = "fill" /\ at' = at + PageSize
  BY DEF Advance
<1>2. at = start + (Len(moved) - Len(page)) /\ (eof \/ Len(page) = PageSize)
  BY DEF AtPage
<1>3. at \in Nat /\ start \in Nat /\ Len(page) \in Nat /\ Len(moved) \in Nat
  BY WidthAssumption DEF Control, TypeOK
<1>4. eof' \/ at' = start' + Len(moved')
  <2> DEFINE l == Len(page)  m == Len(moved)
  <2>1. l \in Nat /\ m \in Nat /\ at = start + (m - l) /\ (eof \/ l = PageSize)
    BY <1>2, <1>3
  <2> HIDE DEF l, m
  <2>2. eof \/ at + PageSize = start + m
    BY <1>3, <2>1
  <2> QED
    BY <1>1, <2>2 DEF m
<1>5. Surely' => mem' = Goal'
  BY GoalKept
<1> QED
  BY <1>1, <1>4, <1>5 DEF Writing, WriteLands, Done

\* The handlers of a page.
LEMMA WritingAnswered ==
  ASSUME Control, Writing, Compared \/ Written \/ WriteVerified
  PROVE  Writing'
<1>1. PICK site \in {"compare", "write", "verify"} : Answer(site)
  BY DEF Compared, Written, WriteVerified
<1>2. /\ pc = site /\ status = "running" /\ status' = "idle" /\ pending = None
      /\ mem' = mem /\ locked' = locked /\ P' = P /\ start' = start
  BY <1>1, Answered
<1>3. UNCHANGED <<page, eof, before, moved>>
  BY DEF Compared, Written, WriteVerified, stream, history
<1>4. /\ moved \in Seq(Byte) /\ AtPage
      /\ Surely => Around /\ IF Programmed THEN Put ELSE Untouched
  BY <1>1, <1>2 DEF Writing, WritePlaces
<1>5. Goal' = Goal /\ Surely' = Surely /\ Fresh' = Fresh
  BY <1>2, <1>3, GoalKept
<1>6. CASE Compared
  <2>1. Answer("compare") /\ pc = "compare"
    BY <1>6 DEF Compared, Answer
  <2>2. CASE got' = page
    <3>1. Surely => mem = Goal
      BY <1>4, <2>1, <2>2, PageReadBack, GoalReached
    <3> QED
      BY <1>2, <1>3, <1>4, <1>6, <2>2, <3>1, PageDone DEF Compared
  <2>3. CASE got' # page /\ IsErased(got')
    <3>1. pc' = "write" /\ at' = at
      BY <1>6, <2>3 DEF Compared
    <3>2. PageCells' = PageCells /\ AtPage'
      BY <1>2, <1>3, <1>4, <3>1 DEF PageCells, AtPage
    <3>3. \A a \in Cells \cap PageCells : mem[a] = Bits
      <4> SUFFICES ASSUME NEW a \in Cells \cap PageCells PROVE mem[a] = Bits
        OBVIOUS
      <4>1. job.n = Len(page) /\ got' = [k \in 1 .. job.n |-> mem[at + k - 1]]
        BY <2>1, ReadAnswered
      <4>2. (a - at) + 1 \in 1 .. Len(page)
        BY <1>4, GoalOnPage
      <4>3. mem[at + ((a - at) + 1) - 1] = Bits
        BY <2>3, <4>1, <4>2 DEF IsErased
      <4>4. at + ((a - at) + 1) - 1 = a
        BY DEF Control, TypeOK, Cells
      <4> QED
        BY <4>3, <4>4
    <3>4. ~ Programmed /\ ~ Programmed'
      BY <1>2, <2>1, <3>1 DEF Programmed
    <3>5. Surely' => Around' /\ Untouched'
      BY <1>2, <1>3, <1>4, <1>5, <3>2, <3>3, <3>4 DEF Around, Untouched
    <3> QED
      BY <1>3, <1>4, <3>1, <3>2, <3>4, <3>5 DEF Writing, WriteLands, Done
  <2>4. CASE got' # page /\ ~ IsErased(got')
    <3>1. pc' = "next" /\ verdict' = "error"
      BY <1>6, <2>4 DEF Compared, Finish
    <3> QED
      BY <3>1 DEF Writing, WriteLands, Done, WritePlaces
  <2> QED
    BY <2>2, <2>3, <2>4
<1>7. CASE Written
  <2>1. pc = "write" /\ Programmed
    BY <1>2, <1>7 DEF Written, Answer, Programmed
  <2>2. CASE P.verify
    <3>1. pc' = "verify" /\ at' = at
      BY <1>7, <2>2 DEF Written
    <3>2. PageCells' = PageCells /\ AtPage' /\ Programmed'
      BY <1>2, <1>3, <1>4, <3>1 DEF PageCells, AtPage, Programmed
    <3>3. Surely' => Around' /\ Put'
      BY <1>2, <1>4, <1>5, <2>1, <3>2 DEF Around, Put
    <3> QED
      BY <1>3, <1>4, <3>1, <3>2, <3>3 DEF Writing, WriteLands, Done
  <2>3. CASE ~ P.verify
    <3>1. Surely => mem = Goal
      BY <1>4, <2>1, <2>3, GoalReached DEF Put, Surely
    <3> QED
      BY <1>2, <1>3, <1>4, <1>7, <2>3, <3>1, PageDone DEF Written
  <2> QED
    BY <2>2, <2>3
<1>8. CASE WriteVerified
  <2>1. CASE got' = page
    <3>1. Surely => mem = Goal
      BY <1>4, <1>8, <2>1, PageReadBack, GoalReached DEF WriteVerified
    <3> QED
      BY <1>2, <1>3, <1>4, <1>8, <2>1, <3>1, PageDone DEF WriteVerified
  <2>2. CASE got' # page
    <3>1. pc' = "next" /\ verdict' = "error"
      BY <1>8, <2>2 DEF WriteVerified, Finish
    <3> QED
      BY <3>1 DEF Writing, WriteLands, Done, WritePlaces
  <2> QED
    BY <2>1, <2>2
<1> QED
  BY <1>6, <1>7, <1>8

\* A step of the chip, or one that asks it.
LEMMA WritingAsked ==
  ASSUME Control, Writing, Ask \/ Chip \/ UNCHANGED vars
  PROVE  Writing'
<1>1. UNCHANGED <<pc, n, ops, known, start, at, before, moved, page, eof, verdict>> /\ P' = P
  BY DEF Ask, Chip, Others, vars, P, cursor, stream, history, geometry
<1>2. Handled(P)' = Handled(P) /\ PageCells' = PageCells /\ (AtPage => AtPage')
  BY <1>1 DEF Handled, PageCells, AtPage
<1>3. CASE UNCHANGED <<mem, locked>> /\ (Programmed' <=> Programmed)
  <2>1. Goal' = Goal /\ Fresh' = Fresh /\ Surely' = Surely
    BY <1>1, <1>3, GoalKept
  <2>2. WriteLands'
    BY <1>1, <1>2, <1>3 DEF Writing, WriteLands, Done
  <2>3. (Around => Around') /\ (Untouched => Untouched') /\ (Put => Put')
    BY <1>1, <1>2, <1>3, <2>1 DEF Around, Untouched, Put
  <2> QED
    BY <1>1, <1>2, <1>3, <2>1, <2>2, <2>3 DEF Writing
<1>4. CASE Ask
  <2>1. /\ UNCHANGED <<mem, locked>> /\ status = "idle"
        /\ pending' = IF Request.op \in Changes THEN Request ELSE None
    BY <1>4 DEF Ask, Memory!Call, Memory!Changes, Changes, Memory!Erases, Erases, Memory!None, None,
               Memory!Job, Job
  <2>2. pc = "write" => pending' # None
    BY <2>1, RequestShape DEF Control, Sites
  <2>3. Programmed' <=> Programmed
    BY <1>1, <2>1, <2>2 DEF Programmed
  <2> QED
    BY <1>3, <2>1, <2>3
<1>5. CASE Chip
  <2>1. CASE pc = "write"
    <3>1. /\ status = "running" /\ status' = "running" /\ pending = Request /\ pending' = None
          /\ \/ mem' = Apply(mem, Request) /\ locked' = Lock(locked, Request)
             \/ locked /\ UNCHANGED <<mem, locked>>
      BY <1>5, <2>1, ChipWhere
    <3>2. pending # None
      BY <2>1, <3>1, RequestShape DEF Control, Sites
    <3>3. Programmed' /\ ~ Programmed
      BY <1>1, <2>1, <3>1, <3>2 DEF Programmed
    <3>4. moved \in Seq(Byte) /\ AtPage /\ (Surely => Around /\ Untouched)
      BY <2>1, <3>3 DEF Writing, WritePlaces
    <3>5. locked' = locked
      <4>1. Request.op # "status"
        BY <2>1 DEF Request, Job
      <4> QED
        BY <3>1, <4>1 DEF Lock
    <3>6. Goal' = Goal /\ Fresh' = Fresh /\ Surely' = Surely
      BY <1>1, <3>5, GoalKept
    <3>7. Surely' => Around' /\ Put'
      <4> SUFFICES ASSUME Surely PROVE Around' /\ Put'
        BY <3>6
      <4>1. Around /\ Untouched
        BY <3>4
      <4>2. CASE mem' = Apply(mem, Request)
        BY <1>2, <2>1, <3>4, <3>6, <4>1, <4>2, PageProgrammed DEF Around, Put
      <4>3. CASE locked /\ UNCHANGED <<mem, locked>>
        <5>1. ~ Fresh
          BY <4>3 DEF Fresh
        <5> QED
          BY <1>2, <3>6, <4>1, <4>3, <5>1 DEF Around, Put
      <4> QED
        BY <3>1, <4>2, <4>3
    <3>8. WriteLands'
      BY <1>1, <2>1 DEF WriteLands, Done
    <3> QED
      BY <1>1, <1>2, <2>1, <3>3, <3>4, <3>7, <3>8 DEF Writing
  <2>2. CASE pc # "write"
    <3>1. pc' \in {"erase", "unlock", "ended"}
      BY <1>1, <1>5, <2>2, ChipWhere
    <3> QED
      BY <3>1 DEF Writing, WriteLands, Done, WritePlaces
  <2> QED
    BY <2>1, <2>2
<1>6. CASE UNCHANGED vars
  <2>1. UNCHANGED <<mem, locked, status, pending>>
    BY <1>6 DEF vars, memVars
  <2> QED
    BY <1>1, <1>3, <2>1 DEF Programmed
<1> QED
  BY <1>4, <1>5, <1>6

\* Every step keeps it.
LEMMA WritingStep == Control /\ Writing /\ [Next]_vars => Writing'
<1> SUFFICES ASSUME Control, Writing, [Next]_vars PROVE Writing'
  OBVIOUS
<1>1. TypeOK /\ Places /\ Service
  BY DEF Control
<1>2. CASE Ask \/ Chip \/ UNCHANGED vars
  BY <1>2, WritingAsked
<1>3. CASE Fill
  BY <1>3, WritingFilled
<1>4. CASE Compared \/ Written \/ WriteVerified
  BY <1>4, WritingAnswered
<1>5. CASE Begin \/ EndSession \/ Throw \/ Abort
  <2>1. pc' = "ended" \/ (pc' = "next" /\ n' = 0)
    BY <1>1, <1>5 DEF Begin, EndSession, Throw, Abort, Places
  <2> QED
    BY <2>1 DEF Writing, WriteLands, Done, WritePlaces
<1>6. CASE StartOp
  <2> DEFINE p == ops[n + 1]
  <2>1. P' = p /\ UNCHANGED memVars /\ before' = mem /\ moved' = <<>>
    BY <1>6, Started DEF StartOp
  <2>2. start' \in Nat /\ Len(moved') = 0
    BY <1>6, <2>1, ControlStep, WidthAssumption DEF Control, TypeOK
  <2>3. Taken' = {}
    <3>1. \A x \in Nat : x .. x + 0 - 1 = {}
      OBVIOUS
    <3> QED
      BY <2>2, <3>1 DEF Taken
  <2>4. mem' = Goal'
    BY <1>1, <2>1, <2>3 DEF Goal, memVars, TypeOK
  <2>5. WriteLands'
    <3>1. WriteLands' <=> (Done("write")' /\ (P'.verify \/ (~ locked' /\ (P'.omit \/ \A a \in Taken' : before'[a] = Bits)))
                             => mem' = Goal')
      BY DEF WriteLands, Taken, Goal
    <3> QED
      BY <2>4, <3>1
  <2>6. pc' \in WritePlaces => pc' = "fill" /\ at' = start'
    BY <1>6 DEF StartOp, FirstSite, Handled, WritePlaces
  <2>7. pc' = "fill" => at' = start' + Len(moved')
    <3>1. \A x \in Nat : x + 0 = x
      OBVIOUS
    <3>2. start' + 0 = start'
      BY <2>2, <3>1
    <3> QED
      BY <2>2, <2>6, <3>2 DEF WritePlaces
  <2>8. moved' \in Seq(Byte)
    BY <2>1
  <2> QED
    BY <2>4, <2>5, <2>6, <2>7, <2>8 DEF Writing
<1>7. CASE Handlers /\ ~ Fill /\ ~ Compared /\ ~ Written /\ ~ WriteVerified
  <2>1. /\ pc \in ErasePlaces \cup {"status", "unlock", "read"}
        /\ pc' \notin WritePlaces
    BY <1>7 DEF Handlers, EraseOmitted, Erased, EraseVerified, Checked, StatusRead, Unlocked, BlockRead,
         Finish, Answer, WritePlaces, ErasePlaces
  <2>2. P.op # "write" /\ P' = P
    BY <1>1, <1>7, <2>1, HandlersKeep DEF Places
  <2> QED
    BY <2>1, <2>2 DEF Writing, WriteLands, Done, WritePlaces
<1> QED
  BY <1>2, <1>3, <1>4, <1>5, <1>6, <1>7 DEF Next, Steps, Handlers

\* A write that ends well has put what it took from the input at the head of
\* its area and left the rest of the chip alone, whatever the geometry, the
\* input and the last page's length (entryPoint.cpp:205-260).
THEOREM WritesTheInput == Spec => []WriteLands
<1>1. Init => Writing
  BY DEF Init, Writing, WriteLands, Done, WritePlaces
<1>2. Writing => WriteLands
  BY DEF Writing
<1> QED
  BY <1>1, <1>2, ControlInit, ControlStep, WritingStep, PTL DEF Spec
=============================================================================
