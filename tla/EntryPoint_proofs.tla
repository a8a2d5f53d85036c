------------------------- MODULE EntryPoint_proofs -------------------------
(***************************************************************************)
(* Proofs about EntryPoint::call for chips of any geometry, lists of       *)
(* operations of any length and inputs of any content.                     *)
(***************************************************************************)
EXTENDS EntryPoint, TLAPS

-----------------------------------------------------------------------------
(* Control: which operation each place in the code belongs to, and what    *)
(* the memory is doing there.                                              *)

ErasePlaces == {"before", "erase", "after"}
WritePlaces == {"fill", "compare", "write", "verify"}

Places ==
    /\ pc \in Sites \cup {"fill"} => n >= 1 /\ Handled(P)
    /\ pc \in ErasePlaces => P.op = "erase"
    /\ pc \in WritePlaces => P.op = "write"
    /\ pc \in {"status", "unlock"} => P.op = "unlock"
    /\ pc = "read" => P.op = "read"
    /\ pc = "begin" => n = 0

Service ==
    /\ status = "closed" <=> pc \in {"begin", "ended"}
    /\ status = "running" => pc \in Sites /\ job = Request /\ pending \in {None, Request}
    /\ status # "running" /\ pc # "ended" => pending = None
    /\ pending # None => pending.lock = FALSE /\ pending.op \in Changes

Control == TypeOK /\ Places /\ Service

\* The current operation is one of the list's.
LEMMA CurrentOp ==
  ASSUME TypeOK, n >= 1
  PROVE  P \in Parameters
<1>1. ops \in Seq(Parameters) /\ n \in 1 .. Len(ops)
  BY SessionsAssumption DEF TypeOK
<1> QED
  BY <1>1 DEF P

\* An area is the chip, a block, a sector, or nothing.
LEMMA AreaSizes ==
  ASSUME NEW p, known \in BOOLEAN
  PROVE  AreaSize(p) \in Nat /\ AreaSize(p) \in {0, Size, BlockSize, SectorSize}
<1>1. Size \in Nat /\ BlockSize \in Nat /\ SectorSize \in Nat
  BY GeometryAssumption
<1> QED
  BY <1>1 DEF AreaSize

\* What is asked of the chip is a job, a change only where the code makes one.
LEMMA RequestShape ==
  ASSUME TypeOK, Places, pc \in Sites
  PROVE  /\ Request.op \in Changes \cup {"read", "getStatus"}
         /\ Request.op \in Changes <=> pc \in {"erase", "unlock", "write"}
         /\ Request.op = "read" <=> pc \in {"before", "after", "compare", "verify", "read"}
         /\ Request.at \in Nat /\ Request.n \in Nat /\ Request.lock = FALSE
         /\ Request # None
<1>1. P \in Parameters /\ Handled(P)
  BY CurrentOp DEF Places
<1>2. AreaSize(P) \in Nat
  BY AreaSizes DEF TypeOK
<1>3. /\ Size \in Nat /\ PageSize \in Nat /\ SectorSize \in Nat /\ BlockSize \in Nat
      /\ AddressMod \in Nat
  BY GeometryAssumption, WidthAssumption
<1>4. /\ at \in Nat /\ left \in Nat /\ start \in Nat /\ Len(page) \in Nat
  BY <1>3, WidthAssumption DEF TypeOK
<1>5. Lesser(left, SectorSize) \in Nat /\ Lesser(left, BlockSize) \in Nat
  BY <1>3, <1>4 DEF Lesser
<1>6. pc = "erase" => P.mode \in Erases
  BY <1>1 DEF Places, ErasePlaces, Handled, Modes, Erases
<1>7. CASE pc \in {"before", "after"}
  BY <1>4, <1>5, <1>7 DEF Request, Job, Changes, Erases, None
<1>8. CASE pc = "erase"
  <2>1. CASE P.mode = "chip"
    BY <1>3, <1>8, <2>1 DEF Request, Job, Changes, Erases, None
  <2>2. CASE P.mode # "chip"
    BY <1>2, <1>4, <1>6, <1>8, <2>2 DEF Request, Job, Changes, Erases, None
  <2> QED
    BY <2>1, <2>2
<1>9. CASE pc \in {"status", "unlock"}
  BY <1>9 DEF Request, Job, Changes, Erases, None
<1>10. CASE pc \in {"compare", "verify"}
  BY <1>4, <1>10 DEF Request, Job, Changes, Erases, None
<1>11. CASE pc = "write"
  BY <1>3, <1>4, <1>11 DEF Request, Job, Changes, Erases, None
<1>12. CASE pc = "read"
  BY <1>4, <1>5, <1>12 DEF Request, Job, Changes, Erases, None
<1> QED
  BY <1>7, <1>8, <1>9, <1>10, <1>11, <1>12 DEF Sites

\* What one call asks for depends on the handler's state alone.
LEMMA RequestStable ==
  ASSUME UNCHANGED <<pc, ops, n, geometry, cursor, stream>>
  PROVE  Request' = Request
BY DEF Request, P, AreaSize, Padded, geometry, cursor, stream

-----------------------------------------------------------------------------
(* Control is inductive.                                                   *)

MemoryOK ==
    mem \in [Cells -> Byte] /\ locked \in BOOLEAN /\ status \in {"closed", "idle", "running"}

\* The memory's steps keep its types.
LEMMA MemoryTyped ==
  ASSUME Control,
         \/ Memory!Open \/ Memory!Call(Request) \/ Memory!CarryOut \/ Memory!Ignore
         \/ Memory!Return \/ Memory!Close \/ UNCHANGED memVars
  PROVE  MemoryOK'
<1>1. MemoryOK
  BY DEF Control, TypeOK, MemoryOK
<1>2. CASE Memory!CarryOut
  <2>1. pending # None /\ pending.lock = FALSE
    BY <1>2 DEF Memory!CarryOut, Memory!None, None, Memory!Job, Job, Control, Service
  <2>2. mem' \in [Cells -> Byte]
    BY <1>1, <1>2 DEF Memory!CarryOut, Memory!Apply, Memory!Cells, Memory!Area, Memory!Erases,
                      MemoryOK, Cells, Byte, Memory!Byte
  <2>3. locked' \in BOOLEAN
    BY <1>1, <1>2, <2>1 DEF Memory!CarryOut, Memory!Lock, MemoryOK
  <2> QED
    BY <1>1, <1>2, <2>2, <2>3 DEF Memory!CarryOut, MemoryOK
<1>3. CASE Memory!Open \/ Memory!Call(Request) \/ Memory!Ignore \/ Memory!Return \/ Memory!Close
            \/ UNCHANGED memVars
  BY <1>1, <1>3 DEF Memory!Open, Memory!Call, Memory!Ignore, Memory!Return, Memory!Close,
                    MemoryOK, memVars
<1> QED
  BY <1>2, <1>3

\* What an answer finds and leaves.
LEMMA Answered ==
  ASSUME Control, NEW site, Answer(site)
  PROVE  /\ pc = site /\ pc \in Sites /\ n >= 1 /\ P \in Parameters /\ P' = P
         /\ job = Request /\ pending = None /\ pending' = None
         /\ status = "running" /\ status' = "idle"
         /\ mem' = mem /\ locked' = locked /\ MemoryOK'
         /\ AreaSize(P)' = AreaSize(P)
         /\ UNCHANGED <<ops, n, geometry, start, rc>>
         /\ got' = CASE job.op = "read" -> Content(mem, job)
                     [] job.op \in {"status", "getStatus"} -> <<locked>>
                     [] OTHER -> <<>>
<1>1. Memory!Return /\ pc = site /\ UNCHANGED <<ops, n, geometry, start, rc>>
  BY DEF Answer
<1>2. status = "running" /\ status' = "idle" /\ pending = None /\ pending' = None
      /\ mem' = mem /\ locked' = locked
  BY <1>1 DEF Memory!Return, Memory!None, None, Memory!Job, Job
<1>3. pc \in Sites /\ job = Request
  BY <1>2 DEF Control, Service
<1>4. n >= 1 /\ P \in Parameters
  BY <1>3, CurrentOp DEF Control, Places
<1>5. P' = P /\ AreaSize(P)' = AreaSize(P)
  BY <1>1 DEF P, AreaSize, geometry
<1>6. MemoryOK'
  BY <1>1, MemoryTyped
<1> QED
  BY <1>1, <1>2, <1>3, <1>4, <1>5, <1>6 DEF Memory!Return, Memory!Content, Content

\* TypeOK without the memory's part.
Typed ==
    /\ pc \in Sites \cup {"begin", "next", "fill", "throw", "ended"}
    /\ ops \in Sessions /\ n \in 0 .. Len(ops)
    /\ known \in BOOLEAN /\ masked \in BOOLEAN
    /\ start \in 0 .. AddressMod - 1 /\ at \in Nat /\ left \in 0 .. SizeMod - 1
    /\ input \in Seq(Byte) /\ eof \in BOOLEAN /\ sound \in BOOLEAN
    /\ page \in Seq(Byte) /\ Len(page) <= PageSize
    /\ verdict \in {"none", "ok", "error"} /\ rc \in {"none", "ok", "failed"}

\* Types: the program's and the memory's.
LEMMA TypedParts == TypeOK <=> Typed /\ MemoryOK
BY DEF TypeOK, Typed, MemoryOK

\* Control holds at first.
LEMMA ControlInit == Init => Control
<1> SUFFICES ASSUME Init PROVE Control
  OBVIOUS
<1>1. MemoryOK
  BY ContentAssumption DEF Init, Memory!Init, MemoryOK, Cells, Byte, Memory!Cells, Memory!Byte
<1>2. ops \in Seq(Parameters)
  BY SessionsAssumption DEF Init
<1>3. Typed
  <2>1. input \in Seq(Byte) /\ page \in Seq(Byte) /\ Len(page) <= PageSize
    BY ContentAssumption, GeometryAssumption DEF Init
  <2>2. start \in 0 .. AddressMod - 1 /\ at \in Nat /\ left \in 0 .. SizeMod - 1
    BY WidthAssumption DEF Init
  <2>3. n \in 0 .. Len(ops)
    BY <1>2 DEF Init
  <2> QED
    BY <2>1, <2>2, <2>3 DEF Init, Typed
<1>4. Places
  BY DEF Init, Places, Sites, ErasePlaces, WritePlaces
<1>5. Service
  BY DEF Init, Service, Memory!Init, Memory!None, None, Memory!Job, Job, Sites
<1> QED
  BY <1>1, <1>3, <1>4, <1>5, TypedParts DEF Control

\* After an answer the handler is at another call of the same operation, or
\* between two operations.
LEMMA ControlAnswered ==
  ASSUME Control, NEW site, Answer(site),
         at' \in Nat, left' \in 0 .. SizeMod - 1, verdict' \in {"none", "ok", "error"},
         UNCHANGED stream,
         \/ pc' \in {"next", "throw"}
         \/ pc' \in ErasePlaces /\ pc \in ErasePlaces
         \/ pc' \in WritePlaces /\ pc \in WritePlaces
         \/ pc' \in {"status", "unlock"} /\ pc \in {"status", "unlock"}
         \/ pc' = "read" /\ pc = "read"
  PROVE  Control'
<1>1. /\ pc \in Sites /\ P' = P /\ MemoryOK' /\ status' = "idle" /\ pending' = None
      /\ UNCHANGED <<ops, n, geometry, start, rc>>
  BY Answered
<1>2. Typed /\ Places
  BY TypedParts DEF Control
<1>3. pc' \in Sites \cup {"next", "throw", "fill"}
  BY DEF Sites, ErasePlaces, WritePlaces
<1>4. Typed'
  BY <1>1, <1>2, <1>3 DEF Typed, stream, geometry
<1>5. Handled(P)' = Handled(P)
  BY <1>1 DEF Handled
<1>6. Places'
  BY <1>1, <1>2, <1>3, <1>5 DEF Places, Sites, ErasePlaces, WritePlaces
<1>7. Service'
  BY <1>1, <1>3 DEF Service, Sites
<1>8. TypeOK'
  BY <1>1, <1>4 DEF Typed, MemoryOK, TypeOK
<1> QED
  BY <1>6, <1>7, <1>8 DEF Control

\* What an answer brings, for a call that reads.
LEMMA CheckedStep ==
  ASSUME Control, NEW site \in {"before", "after"}, Answer(site)
  PROVE  job.n \in Nat /\ job.n <= left
<1>1. job = Request /\ pc = site
  BY Answered
<1>2. job.n = Lesser(left, SectorSize)
  BY <1>1 DEF Request, Job
<1>3. left \in Nat /\ SectorSize \in Nat
  BY WidthAssumption, GeometryAssumption DEF Control, TypeOK
<1> QED
  BY <1>2, <1>3 DEF Lesser

\* An area fits a size_t.
LEMMA AreaIsSize ==
  ASSUME NEW p, known \in BOOLEAN
  PROVE  AreaSize(p) \in 0 .. SizeMod - 1
BY AreaSizes, GeometryAssumption, WidthAssumption

\* What a read of a page yields and leaves.
LEMMA FetchedPage ==
  ASSUME Typed
  PROVE  /\ Fetched \in Seq(Byte) /\ Len(Fetched) \in Nat /\ Len(Fetched) <= PageSize
         /\ Len(Fetched) = IF Short THEN IF sound THEN Len(input) ELSE 0 ELSE PageSize
         /\ ~ Short => /\ SubSeq(input, PageSize + 1, Len(input)) \in Seq(Byte)
                       /\ Len(SubSeq(input, PageSize + 1, Len(input))) = Len(input) - PageSize
<1>1. input \in Seq(Byte) /\ Len(input) \in Nat /\ PageSize \in Nat \ {0}
  BY GeometryAssumption DEF Typed
<1>2. CASE Short /\ ~ sound
  BY <1>1, <1>2 DEF Fetched, Short
<1>3. CASE Short /\ sound
  <2>1. Lesser(PageSize, Len(input)) = Len(input) /\ Len(input) <= PageSize
    BY <1>1, <1>3 DEF Lesser, Short
  <2>2. Fetched = SubSeq(input, 1, Len(input))
    BY <1>3, <2>1 DEF Fetched
  <2> QED
    BY <1>1, <1>3, <2>1, <2>2
<1>4. CASE ~ Short
  <2>1. Lesser(PageSize, Len(input)) = PageSize /\ PageSize <= Len(input)
    BY <1>1, <1>4 DEF Lesser, Short
  <2>2. Fetched = SubSeq(input, 1, PageSize)
    BY <1>4, <2>1 DEF Fetched
  <2>3. Fetched \in Seq(Byte) /\ Len(Fetched) = PageSize
    BY <1>1, <2>1, <2>2
  <2>4. /\ SubSeq(input, PageSize + 1, Len(input)) \in Seq(Byte)
        /\ Len(SubSeq(input, PageSize + 1, Len(input))) = Len(input) - PageSize
    BY <1>1, <2>1
  <2> QED
    BY <1>1, <1>4, <2>3, <2>4
<1> QED
  BY <1>2, <1>3, <1>4

\* Every step keeps it.
LEMMA ControlStep == Control /\ [Next]_vars => Control'
<1> SUFFICES ASSUME Control, [Next]_vars PROVE Control'
  OBVIOUS
<1>1. TypeOK /\ Typed /\ MemoryOK /\ Places /\ Service
  BY TypedParts DEF Control
<1>2. /\ AddressMod \in Nat \ {0} /\ SizeMod \in Nat \ {0} /\ PageSize \in Nat
      /\ at \in Nat /\ left \in Nat /\ left < SizeMod
  BY <1>1, WidthAssumption, GeometryAssumption DEF Typed
<1>3. CASE UNCHANGED vars
  <2>1. TypeOK'
    BY <1>1, <1>3 DEF vars, memVars, geometry, cursor, stream, TypeOK
  <2>2. Request' = Request /\ P' = P
    BY <1>3, RequestStable DEF vars, P
  <2>3. Places' /\ Service'
    BY <1>1, <1>3, <2>2 DEF vars, memVars, Places, Service, Handled
  <2> QED
    BY <2>1, <2>3 DEF Control
<1>4. CASE Begin
  <2>1. MemoryOK'
    BY <1>4, MemoryTyped DEF Begin, memVars
  <2>2. Typed'
    BY <1>1, <1>4 DEF Begin, Typed, cursor, stream, geometry
  <2>3. Places'
    BY <1>1, <1>4 DEF Begin, Places, Sites, ErasePlaces, WritePlaces
  <2>4. Service'
    BY <1>1, <1>4 DEF Begin, Service, Sites, memVars, Memory!Open, Memory!None, None, Memory!Job, Job
  <2> QED
    BY <2>1, <2>2, <2>3, <2>4 DEF Control, TypeOK, Typed, MemoryOK
<1>5. CASE StartOp
  <2> DEFINE p == ops[n + 1]
  <2>1. n' = n + 1 /\ P' = p /\ ops' = ops /\ n' \in 0 .. Len(ops) /\ n' >= 1
    <3>1. Len(ops) \in Nat /\ n \in 0 .. Len(ops)
      BY <1>1, SessionsAssumption DEF Typed
    <3> QED
      BY <1>5, <3>1 DEF StartOp, P
  <2>2. MemoryOK'
    BY <1>5, MemoryTyped DEF StartOp
  <2>3. pc = "next" /\ pc' # "begin" /\ pc' # "ended"
    BY <1>5 DEF StartOp, FirstSite, Handled
  <2>4. CASE Handled(p)
    <3>1. /\ pc' = FirstSite(p) /\ at' = start' /\ start' = StartOf(p) /\ left' = AreaSize(p)
          /\ verdict' \in {"none", "ok"}
      BY <1>5, <2>4 DEF StartOp
    <3>2. p \in Parameters
      <4>1. ops \in Seq(Parameters) /\ n + 1 \in 1 .. Len(ops)
        BY <1>1, <2>1, SessionsAssumption DEF Typed
      <4> QED
        BY <4>1
    <3>3. AreaSize(p) \in Nat /\ AreaSize(p) \in 0 .. SizeMod - 1
      BY <1>1, AreaSizes, AreaIsSize DEF Typed
    <3>4. p.index * AreaSize(p) \in Int
      BY <3>2, <3>3 DEF Parameters
    <3>5. StartOf(p) \in 0 .. AddressMod - 1
      <4> HIDE DEF p
      <4> DEFINE x == p.index * AreaSize(p)
      <4>1. x \in Int
        BY <3>4
      <4> HIDE DEF x
      <4>2. x % AddressMod \in 0 .. AddressMod - 1
        BY <1>2, <4>1
      <4> QED
        BY <4>2 DEF StartOf, x
    <3>6. FirstSite(p) \in {"status", "throw", "next", "before", "erase", "fill", "read"}
      BY <2>4 DEF FirstSite, Handled
    <3>7. Typed'
      BY <1>1, <1>2, <1>5, <2>1, <3>1, <3>3, <3>5, <3>6 DEF StartOp, Typed, Sites, geometry, stream
    <3>8. Handled(P)'
      BY <2>1, <2>4 DEF Handled
    <3>9. Places'
      BY <2>1, <2>3, <2>4, <3>1, <3>8 DEF Places, FirstSite, Handled, ErasePlaces, WritePlaces
    <3> QED
      BY <1>1, <1>5, <2>2, <2>3, <3>7, <3>9
         DEF Service, StartOp, memVars, Control, Typed, MemoryOK, TypeOK, Sites
  <2>5. CASE ~ Handled(p)
    <3>1. pc' = "next" /\ verdict' = "ok" /\ UNCHANGED cursor
      BY <1>5, <2>5 DEF StartOp
    <3>2. Typed'
      BY <1>1, <1>5, <2>1, <3>1 DEF StartOp, Typed, geometry, stream, cursor
    <3>3. Places'
      BY <2>1, <3>1 DEF Places, Sites, ErasePlaces, WritePlaces
    <3> QED
      BY <1>1, <1>5, <2>2, <2>3, <3>1, <3>2, <3>3
         DEF Service, StartOp, memVars, Control, Typed, MemoryOK, TypeOK, Sites
  <2> QED
    BY <2>4, <2>5
<1>6. CASE EndSession \/ Throw \/ Abort
  <2>1. /\ Memory!Close /\ pc' = "ended" /\ rc' \in {"ok", "failed"}
        /\ UNCHANGED <<ops, n, geometry, cursor, stream, verdict>>
    BY <1>6 DEF EndSession, Throw, Abort
  <2>2. MemoryOK'
    BY <2>1, MemoryTyped
  <2>3. Typed'
    BY <1>1, <2>1 DEF Typed, geometry, cursor, stream
  <2>4. Places'
    BY <2>1 DEF Places, Sites, ErasePlaces, WritePlaces
  <2>5. Service'
    BY <1>1, <2>1 DEF Service, Sites, Memory!Close, Memory!None, None, Memory!Job, Job
  <2> QED
    BY <2>2, <2>3, <2>4, <2>5 DEF Control, TypeOK, Typed, MemoryOK
<1>7. CASE Ask \/ Chip
  <2>1. UNCHANGED Others
    BY <1>7 DEF Ask, Chip
  <2>2. Request' = Request /\ P' = P
    BY <2>1, RequestStable DEF Others, P
  <2>3. MemoryOK'
    BY <1>7, MemoryTyped DEF Ask, Chip
  <2>4. Typed' /\ Places'
    BY <1>1, <2>1, <2>2 DEF Others, Typed, Places, Handled, geometry, cursor, stream
  <2>5. Service'
    <3>1. CASE Ask
      <4>1. /\ Request.op \in Changes => Request # None
            /\ Request.lock = FALSE
        BY <1>1, <3>1, RequestShape DEF Ask
      <4> QED
        BY <1>1, <2>1, <2>2, <3>1, <4>1
           DEF Ask, Service, Others, Memory!Call, Memory!None, None, Memory!Job, Job,
               Memory!Changes, Memory!Erases, Changes, Erases
    <3>2. CASE Chip
      BY <1>1, <2>1, <2>2, <3>2
         DEF Chip, Service, Others, Memory!CarryOut, Memory!Ignore, Memory!None, None, Memory!Job, Job
    <3> QED
      BY <1>7, <3>1, <3>2
  <2> QED
    BY <2>3, <2>4, <2>5 DEF Control, TypeOK, Typed, MemoryOK
<1>8. CASE EraseOmitted
  <2>1. Answer("before") /\ job.n \in Nat /\ job.n <= left
    BY <1>8, CheckedStep DEF EraseOmitted
  <2>2. /\ at' \in Nat /\ left' \in 0 .. SizeMod - 1 /\ verdict' \in {"none", "ok", "error"}
        /\ pc' \in {"next", "before", "erase"} /\ UNCHANGED stream
    <3>1. at + job.n \in Nat /\ left - job.n \in 0 .. SizeMod - 1
      BY <1>2, <2>1
    <3>2. /\ at' \in {at, at + job.n} /\ left' \in {left, left - job.n}
          /\ verdict' \in {verdict, "ok", "error"}
          /\ pc' \in {"next", "before", "erase"} /\ UNCHANGED stream
      BY <1>8 DEF EraseOmitted, Checked, Finish, Answer
    <3> QED
      BY <1>1, <1>2, <3>1, <3>2 DEF Typed
  <2> QED
    BY <2>1, <2>2, ControlAnswered, Answered DEF ErasePlaces
<1>9. CASE Erased
  <2>1. Answer("erase") /\ start \in Nat
    BY <1>1, <1>2, <1>9 DEF Erased, Typed
  <2>2. AreaSize(P) \in 0 .. SizeMod - 1
    BY <1>1, AreaIsSize DEF Typed
  <2>3. /\ at' \in Nat /\ left' \in 0 .. SizeMod - 1 /\ verdict' \in {"none", "ok", "error"}
        /\ pc' \in {"next", "after"} /\ UNCHANGED stream
    BY <1>1, <1>2, <1>9, <2>1, <2>2 DEF Erased, Finish, Typed
  <2> QED
    BY <2>1, <2>3, ControlAnswered, Answered DEF ErasePlaces
<1>10. CASE EraseVerified
  <2>1. Answer("after") /\ job.n \in Nat /\ job.n <= left
    BY <1>10, CheckedStep DEF EraseVerified
  <2>2. /\ at' \in Nat /\ left' \in 0 .. SizeMod - 1 /\ verdict' \in {"none", "ok", "error"}
        /\ pc' \in {"next", "after"} /\ UNCHANGED stream
    <3>1. at + job.n \in Nat /\ left - job.n \in 0 .. SizeMod - 1
      BY <1>2, <2>1
    <3>2. /\ at' \in {at, at + job.n} /\ left' \in {left, left - job.n}
          /\ verdict' \in {verdict, "ok", "error"}
          /\ pc' \in {"next", "after"} /\ UNCHANGED stream
      BY <1>10 DEF EraseVerified, Checked, Finish, Answer
    <3> QED
      BY <1>1, <1>2, <3>1, <3>2 DEF Typed
  <2> QED
    BY <2>1, <2>2, ControlAnswered, Answered DEF ErasePlaces
<1>11. CASE StatusRead
  <2>1. /\ Answer("status") /\ at' \in Nat /\ left' \in 0 .. SizeMod - 1 /\ UNCHANGED stream
        /\ verdict' \in {"none", "ok", "error"} /\ pc' \in {"next", "unlock"}
    BY <1>1, <1>11 DEF StatusRead, Finish, Typed
  <2> QED
    BY <2>1, ControlAnswered, Answered
<1>12. CASE Unlocked
  <2>1. /\ Answer("unlock") /\ at' \in Nat /\ left' \in 0 .. SizeMod - 1 /\ UNCHANGED stream
        /\ verdict' \in {"none", "ok", "error"} /\ pc' \in {"next", "throw"}
    BY <1>1, <1>12 DEF Unlocked, Finish, Typed
  <2> QED
    BY <2>1, ControlAnswered, Answered
<1>13. CASE Fill
  <2>1. /\ pc = "fill" /\ UNCHANGED <<memVars, ops, n, geometry, cursor, rc>>
        /\ LoopEnds \/ Take
    BY <1>13 DEF Fill
  <2>2. CASE LoopEnds
    <3>1. Typed' /\ Places'
      BY <1>1, <2>1, <2>2
         DEF LoopEnds, Finish, Typed, Places, Sites, ErasePlaces, WritePlaces, geometry, cursor, stream
    <3> QED
      BY <1>1, <2>1, <2>2, <3>1
         DEF LoopEnds, Finish, Service, Control, TypeOK, Typed, MemoryOK, memVars, Sites
  <2>3. CASE Take
    <3>1. /\ page' = Fetched /\ input' = IF Short THEN <<>> ELSE SubSeq(input, PageSize + 1, Len(input))
          /\ eof' = (Short /\ sound) /\ sound' = sound /\ verdict' = verdict /\ pc' \in WritePlaces
      BY <2>3 DEF Take, WritePlaces
    <3>2. eof' \in BOOLEAN
      BY <3>1
    <3>3. page' \in Seq(Byte) /\ Len(page') <= PageSize /\ input' \in Seq(Byte)
      BY <1>1, <3>1, FetchedPage
    <3>4. Typed'
      BY <1>1, <2>1, <3>1, <3>2, <3>3 DEF Typed, WritePlaces, Sites, geometry, cursor
    <3>5. P' = P /\ Handled(P) /\ n >= 1 /\ P.op = "write"
      BY <1>1, <2>1 DEF P, Places, WritePlaces
    <3>6. Handled(P)'
      BY <3>5 DEF Handled
    <3>7. Places'
      BY <2>1, <3>1, <3>5, <3>6 DEF Places, WritePlaces, ErasePlaces
    <3> QED
      BY <1>1, <2>1, <3>1, <3>4, <3>7
         DEF Service, Control, TypeOK, Typed, MemoryOK, memVars, Sites, WritePlaces
  <2> QED
    BY <2>1, <2>2, <2>3
<1>14. CASE Compared \/ Written \/ WriteVerified
  <2>1. PICK site \in {"compare", "write", "verify"} : Answer(site)
    BY <1>14 DEF Compared, Written, WriteVerified
  <2>2. (left - PageSize) % SizeMod \in 0 .. SizeMod - 1
    BY <1>2
  <2>3. /\ at' \in Nat /\ left' \in 0 .. SizeMod - 1 /\ verdict' \in {"none", "ok", "error"}
        /\ pc' \in {"next", "fill", "write", "verify"} /\ UNCHANGED stream
    BY <1>1, <1>2, <1>14, <2>2 DEF Compared, Written, WriteVerified, Advance, Finish, Typed
  <2> QED
    BY <2>1, <2>3, ControlAnswered, Answered DEF WritePlaces
<1>15. CASE BlockRead
  <2>1. Answer("read") /\ job = Request
    BY <1>15, Answered DEF BlockRead
  <2>2. job.n \in Nat /\ job.n <= left
    <3>1. job.n = Lesser(left, BlockSize) /\ BlockSize \in Nat
      BY <2>1, Answered, GeometryAssumption DEF Request, Job
    <3> QED
      BY <1>2, <3>1 DEF Lesser
  <2>3. /\ at' \in Nat /\ left' \in 0 .. SizeMod - 1 /\ verdict' \in {"none", "ok", "error"}
        /\ pc' \in {"next", "read"} /\ UNCHANGED stream
    <3>1. at + job.n \in Nat /\ left - job.n \in 0 .. SizeMod - 1
      BY <1>2, <2>2
    <3>2. /\ at' = at + job.n /\ left' = left - job.n /\ verdict' \in {verdict, "ok"}
          /\ pc' \in {"next", "read"} /\ UNCHANGED stream
      BY <1>15, <2>1, Answered DEF BlockRead, Finish
    <3> QED
      BY <1>1, <3>1, <3>2 DEF Typed
  <2> QED
    BY <2>1, <2>3, ControlAnswered, Answered
<1> QED
  BY <1>3, <1>4, <1>5, <1>6, <1>7, <1>8, <1>9, <1>10, <1>11, <1>12, <1>13, <1>14, <1>15
     DEF Next, Steps, Handlers

\* The states of the program and of the memory keep their types, for every
\* list of operations, every input and every geometry (entryPoint.cpp:327-355).
THEOREM TypeCorrect == Spec => []TypeOK
<1>1. Spec => []Control
  BY ControlInit, ControlStep, PTL DEF Spec
<1>2. Control => TypeOK
  BY DEF Control
<1> QED
  BY <1>1, <1>2, PTL

-----------------------------------------------------------------------------
(* Nothing outside the area an operation is carried out on.                *)

WholePages(x) == \E m \in Nat : x = m * PageSize

\* The write loop's cursor never gets before the area, and stays in it if the
\* size left to write comes to zero.
WriteCursor ==
    pc \in WritePlaces =>
        /\ start <= at
        /\ ~ Spills(P) => /\ at + left = start + AreaSize(P)
                          /\ WholePages(left)
                          /\ pc # "fill" => left > 0

\* Where an operation may change the chip.
Reach(p) == {a \in Cells : a \in AreaOf(p) \/ (Spills(p) /\ a >= StartOf(p))}

\* A change the chip has been asked for, and may still carry out when the
\* program has given up, lies there.
Confined ==
    pending # None => n >= 1 /\ \A a \in Area(pending) : Changing(P) /\ a \in Reach(P)

Places2 == pc \in ErasePlaces \cup WritePlaces => start = StartOf(P)

Boundaries == Places2 /\ WriteCursor /\ Confined

\* An area that does not make the size wrap is a whole number of pages.
LEMMA PagesOf ==
  ASSUME NEW p, known \in BOOLEAN, p.op = "write", ~ Spills(p)
  PROVE  WholePages(AreaSize(p))
<1> DEFINE z == AreaSize(p)
<1>1. z \in Nat /\ PageSize \in Nat \ {0}
  BY AreaSizes, GeometryAssumption
<1>2. z % PageSize = 0
  BY DEF Spills
<1> HIDE DEF z
<1>3. z = (z \div PageSize) * PageSize /\ z \div PageSize \in Nat
  BY <1>1, <1>2
<1> QED
  BY <1>3 DEF WholePages, z

\* Every change asked for keeps to it.
LEMMA RequestConfined ==
  ASSUME Control, Places2, WriteCursor,
         pc \in Sites, Accepted(Request), Request.op \in Changes,
         NEW a \in Area(Request)
  PROVE  Changing(P) /\ a \in Reach(P)
<1>1. TypeOK /\ Places /\ n >= 1 /\ P \in Parameters /\ Handled(P)
  BY CurrentOp DEF Control, Places
<1>2. pc \in {"erase", "unlock", "write"}
  BY <1>1, RequestShape
<1>3. /\ Size \in Nat /\ PageSize \in Nat \ {0} /\ AreaSize(P) \in Nat
      /\ at \in Nat /\ left \in Nat /\ start \in Nat /\ a \in Int
  BY <1>1, GeometryAssumption, WidthAssumption, AreaSizes, RequestShape DEF TypeOK, Area
<1>4. pc # "unlock"
  BY DEF Request, Job, Area
<1>5. Changing(P) /\ P.mode \in {"chip", "block", "sector"}
  BY <1>1, <1>2, <1>4 DEF Places, ErasePlaces, WritePlaces, Changing, Handled, Modes
<1>6. Request.at >= 0 /\ Request.at + Request.n <= Size
  <2>1. Request.op \notin {"status", "getStatus"}
    <3>1. pc = "erase" => P.mode \notin {"status", "getStatus"}
      BY <1>5
    <3> QED
      BY <1>2, <1>4, <3>1 DEF Request, Job
  <2>2. Request.at \in Nat
    BY <1>1, RequestShape
  <2> QED
    BY <2>1, <2>2 DEF Accepted
<1>7. a \in Cells
  BY <1>1, <1>3, <1>6, RequestShape DEF Area, Cells
<1>8. start = StartOf(P)
  BY <1>2, <1>4 DEF Places2, ErasePlaces, WritePlaces
<1>9. CASE pc = "erase"
  <2>1. CASE P.mode = "chip"
    <3>1. AreaOf(P) = Cells
      BY <1>1, <1>9, <2>1 DEF AreaOf, Places, ErasePlaces
    <3> QED
      BY <1>5, <1>7, <3>1 DEF Reach
  <2>2. CASE P.mode # "chip"
    <3>1. Request.at = start /\ Request.n = AreaSize(P)
      BY <1>9, <2>2 DEF Request, Job
    <3>2. AreaOf(P) = start .. start + AreaSize(P) - 1
      BY <1>8, <2>2 DEF AreaOf
    <3>3. a \in start .. start + AreaSize(P) - 1
      BY <1>3, <3>1 DEF Area
    <3> QED
      BY <1>5, <1>7, <3>2, <3>3 DEF Reach
  <2> QED
    BY <2>1, <2>2
<1>10. CASE pc = "write"
  <2>1. Request.at = at /\ Request.n = PageSize /\ P.op = "write"
    BY <1>1, <1>10 DEF Request, Job, Places, WritePlaces
  <2>2. a >= at /\ a <= at + PageSize - 1 /\ start <= at
    BY <1>3, <1>10, <2>1 DEF Area, WriteCursor, WritePlaces
  <2>3. CASE Spills(P)
    <3>1. a >= StartOf(P)
      BY <1>3, <1>8, <2>2
    <3> QED
      BY <1>5, <1>7, <2>3, <3>1 DEF Reach
  <2>4. CASE ~ Spills(P)
    <3>1. at + left = start + AreaSize(P) /\ left > 0 /\ WholePages(left)
      BY <1>10, <2>4 DEF WriteCursor, WritePlaces
    <3>2. PageSize <= left
      <4>1. PICK m \in Nat : left = m * PageSize
        BY <3>1 DEF WholePages
      <4>2. m >= 1
        BY <1>3, <3>1, <4>1
      <4> QED
        BY <1>3, <4>1, <4>2
    <3>3. a \in start .. start + AreaSize(P) - 1
      BY <1>3, <2>2, <3>1, <3>2
    <3>4. AreaOf(P) = start .. start + AreaSize(P) - 1
      BY <1>8, <2>1 DEF AreaOf
    <3> QED
      BY <1>5, <1>7, <3>3, <3>4 DEF Reach
  <2> QED
    BY <2>3, <2>4
<1> QED
  BY <1>2, <1>4, <1>9, <1>10

\* The write loop moves on by a page and stays in its area.
LEMMA AdvanceStays ==
  ASSUME Control, WriteCursor, pc \in WritePlaces, pc # "fill", Advance,
         UNCHANGED <<start, ops, n, geometry>>
  PROVE  WriteCursor'
<1>1. PageSize \in Nat \ {0} /\ SizeMod \in Nat \ {0} /\ left \in Nat /\ left < SizeMod
      /\ at \in Nat /\ start \in Nat /\ AreaSize(P) \in Nat
  BY GeometryAssumption, WidthAssumption, AreaSizes DEF Control, TypeOK
<1>2. start <= at
  BY DEF WriteCursor
<1>3. at' = at + PageSize /\ pc' = "fill" /\ left' = (left - PageSize) % SizeMod
  BY DEF Advance
<1>4. P' = P /\ AreaSize(P)' = AreaSize(P) /\ Spills(P)' = Spills(P)
  BY DEF P, AreaSize, Spills, geometry
<1>5. start' <= at'
  BY <1>1, <1>2, <1>3
<1>6. CASE Spills(P)
  BY <1>4, <1>5, <1>6 DEF WriteCursor
<1>7. CASE ~ Spills(P)
  <2>1. at + left = start + AreaSize(P) /\ left > 0 /\ WholePages(left)
    BY <1>7 DEF WriteCursor
  <2>2. PICK m \in Nat : left = m * PageSize
    BY <2>1 DEF WholePages
  <2>3. m - 1 \in Nat /\ left - PageSize = (m - 1) * PageSize
    BY <1>1, <2>1, <2>2
  <2>4. left - PageSize \in Nat
    BY <1>1, <2>3
  <2>5. (left - PageSize) % SizeMod = left - PageSize
    BY <1>1, <2>4
  <2>6. WholePages(left')
    BY <1>3, <2>3, <2>5 DEF WholePages
  <2>7. at' + left' = start + AreaSize(P)
    BY <1>1, <1>3, <2>1, <2>5
  <2> QED
    BY <1>3, <1>4, <1>5, <2>6, <2>7 DEF WriteCursor
<1> QED
  BY <1>6, <1>7

\* Every step keeps cursor and pending change in reach.
LEMMA BoundariesStep ==
  ASSUME Control, Boundaries, [Next]_vars
  PROVE  Boundaries'
<1>1. TypeOK /\ Places /\ Service
  BY DEF Control
<1>2. CASE UNCHANGED <<pc, ops, n, geometry, cursor>>
  <2>1. P' = P /\ AreaSize(P)' = AreaSize(P) /\ StartOf(P)' = StartOf(P)
        /\ Spills(P)' = Spills(P) /\ Reach(P)' = Reach(P)
    BY <1>2 DEF P, AreaSize, StartOf, AreaOf, Spills, Reach, geometry
  <2>2. Places2' /\ WriteCursor'
    BY <1>2, <2>1 DEF Boundaries, Places2, WriteCursor, WholePages, cursor
  <2>3. Confined'
    <3>0. n' = n /\ Changing(P)' = Changing(P) /\ Area(pending)' = Area(pending')
      BY <1>2, <2>1 DEF Changing, Area
    <3>1. SUFFICES ASSUME pending' # None
                   PROVE  n >= 1 /\ \A a \in Area(pending') : Changing(P) /\ a \in Reach(P)
      BY <2>1, <3>0 DEF Confined
    <3>2. CASE pending' = pending
      BY <3>1, <3>2 DEF Boundaries, Confined
    <3>3. CASE pending' # pending
      <4>1. pc \in Sites /\ Accepted(Request) /\ pending' = Request /\ Request.op \in Changes
        BY <1>2, <3>1, <3>3
           DEF Next, Steps, Begin, StartOp, EndSession, Ask, Chip, Throw, Abort, Handlers,
               EraseOmitted, Erased, EraseVerified, StatusRead, Unlocked, Fill, Compared, Written,
               WriteVerified, BlockRead, Answer, vars, memVars, Memory!Open, Memory!Call,
               Memory!CarryOut, Memory!Ignore, Memory!Return, Memory!Close, Memory!None, None,
               Memory!Job, Job, Memory!Changes, Memory!Erases, Changes, Erases
      <4>2. n >= 1
        BY <1>1, <4>1 DEF Places
      <4> QED
        BY <3>1, <4>1, <4>2, RequestConfined DEF Boundaries
    <3> QED
      BY <3>2, <3>3
  <2> QED
    BY <2>2, <2>3 DEF Boundaries
<1>3. CASE Begin \/ EndSession \/ Throw \/ Abort
  <2>1. pc' \in {"next", "ended"}
    BY <1>3 DEF Begin, EndSession, Throw, Abort
  <2>2. Places2' /\ WriteCursor'
    BY <2>1 DEF Places2, WriteCursor, ErasePlaces, WritePlaces
  <2>3. CASE Begin
    <3>1. pending' = None
      BY <1>1, <2>3 DEF Begin, Service, Memory!Open, memVars, Sites
    <3> QED
      BY <2>2, <3>1 DEF Boundaries, Confined
  <2>4. CASE EndSession \/ Throw \/ Abort
    <3>1. UNCHANGED <<ops, n, geometry>> /\ pending' \in {pending, None}
      BY <2>4 DEF EndSession, Throw, Abort, Memory!Close, Memory!None, None, Memory!Job, Job
    <3>2. P' = P /\ Reach(P)' = Reach(P)
      BY <3>1 DEF P, AreaSize, StartOf, AreaOf, Spills, Reach, geometry
    <3>3. Confined'
      <4>1. CASE pending' = None
        BY <4>1 DEF Confined
      <4>2. CASE pending' = pending
        BY <3>1, <3>2, <4>2 DEF Boundaries, Confined, Changing
      <4> QED
        BY <3>1, <4>1, <4>2
    <3> QED
      BY <2>2, <3>3 DEF Boundaries
  <2> QED
    BY <1>3, <2>3, <2>4
<1>4. CASE StartOp
  <2>1. n \in Nat /\ n' = n + 1
    <3>1. Len(ops) \in Nat
      BY <1>1, SessionsAssumption DEF TypeOK
    <3> QED
      BY <1>1, <1>4, <3>1 DEF StartOp, TypeOK
  <2>2. P' = ops[n + 1] /\ AreaSize(P)' = AreaSize(ops[n + 1]) /\ StartOf(P)' = StartOf(ops[n + 1])
        /\ FirstSite(P)' = FirstSite(ops[n + 1]) /\ Spills(P)' = Spills(ops[n + 1])
    BY <1>4, <2>1 DEF StartOp, P, AreaSize, StartOf, FirstSite, Spills, geometry
  <2>3. pending = None /\ pending' = None
    BY <1>1, <1>4 DEF StartOp, Service, memVars, Sites
  <2>4. CASE pc' = "next" \/ ~ Handled(ops[n + 1])
    <3>1. pc' = "next"
      BY <1>4, <2>4 DEF StartOp
    <3> QED
      BY <2>3, <3>1 DEF Boundaries, Places2, WriteCursor, Confined, ErasePlaces, WritePlaces
  <2>5. CASE pc' # "next" /\ Handled(ops[n + 1])
    <3>1. pc' = FirstSite(ops[n + 1]) /\ start' = StartOf(ops[n + 1]) /\ at' = start'
          /\ left' = AreaSize(ops[n + 1])
      BY <1>4, <2>5 DEF StartOp
    <3>2. Places2'
      BY <2>2, <3>1 DEF Places2
    <3>3. pc' \in WritePlaces => pc' = "fill"
      BY <3>1, <2>5 DEF FirstSite, WritePlaces, Handled
    <3>4. start' \in Nat /\ left' \in Nat
      BY <1>1, <2>1, <3>1, ControlStep, WidthAssumption DEF Control, TypeOK
    <3>5. pc' \in WritePlaces /\ ~ Spills(P)' => WholePages(left')
      <4>1. pc' \in WritePlaces => ops[n + 1].op = "write"
        BY <3>1, <2>5 DEF FirstSite, WritePlaces, Handled
      <4> QED
        BY <1>1, <2>2, <3>1, <4>1, PagesOf DEF TypeOK
    <3>6. WriteCursor'
      BY <2>2, <3>1, <3>3, <3>4, <3>5 DEF WriteCursor, WholePages
    <3> QED
      BY <2>3, <3>2, <3>6 DEF Boundaries, Confined
  <2> QED
    BY <2>4, <2>5
<1>5. CASE Handlers
  <2>1. UNCHANGED <<ops, n, geometry, start>>
    BY <1>5 DEF Handlers, EraseOmitted, Erased, EraseVerified, StatusRead, Unlocked, Fill,
                Compared, Written, WriteVerified, BlockRead, Answer, cursor
  <2>2. P' = P /\ AreaSize(P)' = AreaSize(P) /\ StartOf(P)' = StartOf(P) /\ Spills(P)' = Spills(P)
    BY <2>1 DEF P, AreaSize, StartOf, Spills, geometry
  <2>3. pending = None /\ pending' = None
    <3>1. CASE Fill
      BY <1>1, <3>1 DEF Fill, memVars, Service, Sites
    <3>2. CASE ~ Fill
      BY <1>5, <3>2, Answered
         DEF Handlers, EraseOmitted, Erased, EraseVerified, StatusRead, Unlocked, Compared,
             Written, WriteVerified, BlockRead
    <3> QED
      BY <3>1, <3>2
  <2>4. /\ pc' \in ErasePlaces => pc \in ErasePlaces
        /\ pc' \in WritePlaces => pc \in WritePlaces
    BY <1>5 DEF Handlers, EraseOmitted, Erased, EraseVerified, StatusRead, Unlocked, Fill,
                LoopEnds, Take, Compared, Written, WriteVerified, BlockRead, Answer, Checked,
                Finish, Advance, ErasePlaces, WritePlaces
  <2>5. Places2'
    BY <2>1, <2>2, <2>4 DEF Boundaries, Places2
  <2>6. WriteCursor'
    <3> SUFFICES ASSUME pc' \in WritePlaces PROVE WriteCursor'
      BY DEF WriteCursor
    <3>1. pc \in WritePlaces
      BY <2>4
    <3>2. CASE Fill
      <4>1. UNCHANGED cursor /\ left # 0 /\ left \in Nat
        BY <1>1, <3>2, WidthAssumption DEF Fill, LoopEnds, Finish, WritePlaces, TypeOK
      <4>2. left > 0
        BY <4>1
      <4> QED
        BY <2>2, <3>1, <4>1, <4>2 DEF Boundaries, WriteCursor, cursor
    <3>3. CASE Compared \/ Written \/ WriteVerified
      <4>1. pc # "fill" /\ (Advance \/ UNCHANGED <<at, left>>)
        BY <3>3 DEF Compared, Written, WriteVerified, Answer
      <4>2. CASE Advance
        BY <2>1, <3>1, <4>1, <4>2, AdvanceStays DEF Boundaries
      <4>3. CASE UNCHANGED <<at, left>>
        BY <2>1, <2>2, <3>1, <4>1, <4>3 DEF Boundaries, WriteCursor, WholePages
      <4> QED
        BY <4>1, <4>2, <4>3
    <3>4. CASE ~ Fill /\ ~ Compared /\ ~ Written /\ ~ WriteVerified
      BY <1>5, <3>1, <3>4 DEF Handlers, EraseOmitted, Erased, EraseVerified, StatusRead, Unlocked,
                              BlockRead, Answer, WritePlaces
    <3> QED
      BY <3>2, <3>3, <3>4
  <2> QED
    BY <2>3, <2>5, <2>6 DEF Boundaries, Confined
<1> QED
  BY <1>2, <1>3, <1>4, <1>5 DEF Next, Steps, Ask, Chip, Others, vars

\* A step that changes the memory carries out what is pending.
LEMMA OnlyPending ==
  ASSUME Control, Boundaries, [Next]_vars, NEW a \in Cells, mem'[a] # mem[a]
  PROVE  Changing(P) /\ (a \in AreaOf(P) \/ (Spills(P) /\ a >= StartOf(P)))
<1>1. Memory!CarryOut
  BY DEF Next, Steps, Begin, StartOp, EndSession, Ask, Chip, Throw, Abort, Handlers, EraseOmitted,
         Erased, EraseVerified, StatusRead, Unlocked, Fill, Compared, Written, WriteVerified,
         BlockRead, Answer, vars, memVars, Memory!Open, Memory!Call, Memory!Ignore, Memory!Return,
         Memory!Close
<1>2. pending # None /\ mem' = Memory!Apply(mem, pending)
  BY <1>1 DEF Memory!CarryOut, Memory!None, None, Memory!Job, Job
<1>3. a \in Area(pending)
  BY <1>2 DEF Memory!Apply, Memory!Cells, Cells, Memory!Area, Area
<1> QED
  BY <1>2, <1>3 DEF Boundaries, Confined, Reach

\* An operation changes nothing outside the area that starts at the address 32
\* bits make of its index, whatever fails (entryPoint.cpp:94, 200), but for a
\* write whose size wraps (259), and that one nothing before its area: for every
\* index, geometry and input.
THEOREM KeepsToItsArea == Spec => OnlyItsArea
<1>1. Init => Control /\ Boundaries
  <2>1. Init => Boundaries
    BY DEF Init, Boundaries, Places2, WriteCursor, Confined, ErasePlaces, WritePlaces,
           Memory!Init, Memory!None, None, Memory!Job, Job
  <2> QED
    BY <2>1, ControlInit
<1>2. Control /\ Boundaries /\ [Next]_vars => (Control /\ Boundaries)'
  BY ControlStep, BoundariesStep
<1>3. Control /\ Boundaries /\ [Next]_vars
        => [\A a \in Cells : mem'[a] # mem[a] =>
                Changing(P) /\ (a \in AreaOf(P) \/ (Spills(P) /\ a >= StartOf(P)))]_vars
  BY OnlyPending
<1> QED
  BY <1>1, <1>2, <1>3, PTL DEF Spec, OnlyItsArea

-----------------------------------------------------------------------------
(* What is read, and what is unlocked.                                     *)

\* A protected chip is only ever unprotected, and between changes nothing is
\* pending.
LEMMA NothingPending ==
  ASSUME Control, [Next]_vars
  PROVE  /\ locked' => locked
         /\ pc = "next" \/ (pc \in Sites /\ pc \notin {"erase", "unlock", "write"}) => mem' = mem
<1>1. Places /\ Service /\ TypeOK
  BY DEF Control
<1>2. CASE Memory!CarryOut
  <2>1. pending # None /\ pending.lock = FALSE /\ pending.op \in Changes
    BY <1>1, <1>2 DEF Memory!CarryOut, Memory!None, None, Memory!Job, Job, Service
  <2>2. locked' => locked
    BY <1>2, <2>1 DEF Memory!CarryOut, Memory!Lock
  <2>3. pc # "next"
    BY <1>1, <2>1 DEF Service, Sites
  <2>4. pc \in Sites => pc \in {"erase", "unlock", "write"}
    <3> SUFFICES ASSUME pc \in Sites PROVE pc \in {"erase", "unlock", "write"}
      OBVIOUS
    <3>1. pending = Request
      BY <1>1, <2>1 DEF Service, Sites
    <3> QED
      BY <1>1, <2>1, <3>1, RequestShape
  <2> QED
    BY <2>2, <2>3, <2>4
<1>3. CASE ~ Memory!CarryOut
  <2>1. mem' = mem /\ locked' = locked
    BY <1>3 DEF Next, Steps, Begin, StartOp, EndSession, Ask, Chip, Throw, Abort, Handlers, EraseOmitted,
         Erased, EraseVerified, StatusRead, Unlocked, Fill, Compared, Written, WriteVerified,
         BlockRead, Answer, vars, memVars, Memory!Open, Memory!Call, Memory!Ignore, Memory!Return,
         Memory!Close
  <2> QED
    BY <2>1
<1> QED
  BY <1>2, <1>3

\* The step that starts an operation.
LEMMA Started ==
  ASSUME Control, StartOp
  PROVE  n \in Nat /\ n' = n + 1 /\ P' = ops[n + 1] /\ AreaSize(P)' = AreaSize(ops[n + 1])
         /\ pc = "next" /\ ops' = ops
<1>1. n \in Nat
  <2>1. n \in 0 .. Len(ops) /\ Len(ops) \in Nat
    BY SessionsAssumption DEF Control, TypeOK
  <2> QED
    BY <2>1
<1> QED
  BY <1>1 DEF StartOp, P, AreaSize, geometry

\* What has been put to the output is the head of the area.
Output ==
    n > 0 /\ P.op = "read" /\ Handled(P) /\ pc \in {"read", "next"} =>
        /\ Len(moved) \in Nat /\ moved = [k \in 1 .. Len(moved) |-> mem[start + k - 1]]
        /\ pc = "read" => at = start + Len(moved) /\ left + Len(moved) = AreaSize(P)
        /\ pc = "next" => Len(moved) = AreaSize(P)

\* A block read goes behind what has been put to the output.
LEMMA OutputGrows ==
  ASSUME NEW m, NEW s \in Nat, NEW k \in Nat, NEW out, Len(out) \in Nat,
         out = [i \in 1 .. Len(out) |-> m[s + i - 1]]
  PROVE  LET more == [i \in 1 .. k |-> m[(s + Len(out)) + i - 1]]
         IN  /\ Len(out \o more) = Len(out) + k
             /\ out \o more = [i \in 1 .. Len(out) + k |-> m[s + i - 1]]
<1> DEFINE more == [i \in 1 .. k |-> m[(s + Len(out)) + i - 1]]
           S == {m[x] : x \in Int}
           new == out \o more
           l == Len(out)
<1>1. out \in Seq(S)
  <2>1. \A i \in 1 .. Len(out) : m[s + i - 1] \in S
    OBVIOUS
  <2>2. [i \in 1 .. Len(out) |-> m[s + i - 1]] \in Seq(S)
    BY <2>1
  <2> QED
    BY <2>2
<1>2. more \in Seq(S) /\ Len(more) = k
  <2>1. \A i \in 1 .. k : m[(s + Len(out)) + i - 1] \in S
    OBVIOUS
  <2> QED
    BY <2>1
<1>3. \A i \in 1 .. k : more[i] = m[(s + l) + i - 1]
  OBVIOUS
<1>4. \A i \in 1 .. l : out[i] = m[s + i - 1]
  OBVIOUS
<1> HIDE DEF S, more
<1>5. /\ new \in Seq(S) /\ Len(new) = l + k
      /\ \A i \in 1 .. l + k : new[i] = IF i <= l THEN out[i] ELSE more[i - l]
  <2>1. new \in Seq(S) /\ Len(new) = Len(out) + Len(more)
    BY <1>1, <1>2
  <2>2. \A i \in 1 .. Len(out) + Len(more) :
          new[i] = IF i <= Len(out) THEN out[i] ELSE more[i - Len(out)]
    BY <1>1, <1>2
  <2> QED
    BY <1>2, <2>1, <2>2
<1> HIDE DEF new
<1>6. \A i \in 1 .. l + k : new[i] = m[s + i - 1]
  <2> SUFFICES ASSUME NEW i \in 1 .. l + k PROVE new[i] = m[s + i - 1]
    OBVIOUS
  <2>1. CASE i <= l
    <3>1. i \in 1 .. l
      BY <2>1
    <3> QED
      BY <1>4, <1>5, <2>1, <3>1
  <2>2. CASE ~ (i <= l)
    <3>1. i - l \in 1 .. k /\ (s + l) + (i - l) - 1 = s + i - 1
      BY <2>2
    <3> QED
      BY <1>3, <1>5, <2>2, <3>1
  <2> QED
    BY <2>1, <2>2
<1>7. new = [i \in 1 .. l + k |-> m[s + i - 1]]
  BY <1>5, <1>6
<1> QED
  BY <1>5, <1>7 DEF new, more

\* Every step keeps it.
LEMMA OutputStep == Control /\ Output /\ [Next]_vars => Output'
<1> SUFFICES ASSUME Control, Output, [Next]_vars PROVE Output'
  OBVIOUS
<1>1. Places /\ Service /\ TypeOK
  BY DEF Control
<1>2. CASE Begin
  BY <1>1, <1>2 DEF Begin, Places, Output
<1>3. CASE EndSession \/ Throw \/ Abort
  BY <1>3 DEF EndSession, Throw, Abort, Output
<1>4. CASE Ask \/ Chip \/ UNCHANGED vars
  <2>1. UNCHANGED <<pc, n, ops, known, start, at, left, moved>> /\ P' = P /\ AreaSize(P)' = AreaSize(P)
    BY <1>4 DEF Ask, Chip, Others, vars, P, AreaSize, cursor, geometry, history
  <2>2. pc \in {"read", "next"} => mem' = mem
    BY NothingPending DEF Sites
  <2>3. Handled(P)' = Handled(P)
    BY <2>1 DEF Handled
  <2> QED
    BY <2>1, <2>2, <2>3 DEF Output
<1>5. CASE StartOp
  <2>1. n \in Nat /\ n' = n + 1 /\ P' = ops[n + 1] /\ AreaSize(P)' = AreaSize(ops[n + 1]) /\ moved' = <<>>
    BY <1>5, Started DEF StartOp
  <2>2. SUFFICES ASSUME Handled(P)', P'.op = "read" PROVE Output'
    BY DEF Output
  <2>3. Handled(ops[n + 1]) /\ ops[n + 1].op = "read"
    BY <2>1, <2>2 DEF Handled
  <2>4. pc' = (IF AreaSize(ops[n + 1]) = 0 THEN "next" ELSE "read") /\ at' = start' /\ left' = AreaSize(ops[n + 1])
    BY <1>5, <2>3 DEF StartOp, FirstSite
  <2>5. start' \in Nat /\ left' \in Nat
    BY <1>5, ControlStep, WidthAssumption DEF Control, TypeOK
  <2>6. Len(moved') \in Nat /\ moved' = [k \in 1 .. Len(moved') |-> mem'[start' + k - 1]]
    <3>1. Len(moved') = 0 /\ 1 .. 0 = {}
      BY <2>1
    <3>2. moved' = [k \in 1 .. 0 |-> mem'[start' + k - 1]]
      BY <2>1, <3>1
    <3> QED
      BY <3>1, <3>2
  <2>7. Len(moved') = 0
    BY <2>1
  <2>8. pc' = "read" => at' = start' + Len(moved') /\ left' + Len(moved') = AreaSize(P)'
    <3> DEFINE l == Len(moved')
    <3>1. l = 0
      BY <2>7
    <3> HIDE DEF l
    <3>2. \A x \in Nat : x + l = x
      BY <3>1
    <3>3. start' + l = start' /\ left' + l = left'
      BY <2>5, <3>2
    <3>4. at' = start' + l /\ left' + l = AreaSize(P)'
      BY <2>1, <2>4, <3>3
    <3> QED
      BY <3>4 DEF l
  <2>9. pc' = "next" => Len(moved') = AreaSize(P)'
    BY <2>1, <2>4, <2>7
  <2> QED
    BY <2>6, <2>8, <2>9 DEF Output
<1>6. CASE BlockRead
  <2>1. /\ Answer("read") /\ moved' = moved \o got' /\ at' = at + job.n /\ left' = left - job.n
        /\ pc' = IF left' = 0 THEN "next" ELSE pc
    BY <1>6 DEF BlockRead, Finish
  <2>2. /\ pc = "read" /\ n >= 1 /\ P' = P /\ AreaSize(P)' = AreaSize(P) /\ job = Request /\ mem' = mem
        /\ UNCHANGED <<ops, n, start>>
        /\ got' = CASE job.op = "read" -> Content(mem, job)
                     [] job.op \in {"status", "getStatus"} -> <<locked>>
                     [] OTHER -> <<>>
    BY <2>1, Answered
  <2>3. job = Job("read", at, Lesser(left, BlockSize), <<>>, FALSE)
    BY <2>2 DEF Request
  <2>4. job.op = "read" /\ job.at = at /\ job.n = Lesser(left, BlockSize)
    BY <2>3 DEF Job
  <2>5. got' = [k \in 1 .. job.n |-> mem[at + k - 1]]
    BY <2>2, <2>4 DEF Content
  <2>6. left \in Nat /\ start \in Nat /\ job.n \in Nat /\ n \in Nat
    <3>1. left \in Nat /\ start \in Nat /\ BlockSize \in Nat /\ n \in Nat
      BY <1>1, WidthAssumption, GeometryAssumption, SessionsAssumption DEF TypeOK
    <3> QED
      BY <2>4, <3>1 DEF Lesser
  <2>7. P.op = "read" /\ Handled(P)
    BY <1>1, <2>2 DEF Places, Sites
  <2>8. /\ Len(moved) \in Nat /\ moved = [k \in 1 .. Len(moved) |-> mem[start + k - 1]]
        /\ at = start + Len(moved) /\ left + Len(moved) = AreaSize(P)
    BY <2>2, <2>6, <2>7 DEF Output
  <2>9. /\ Len(moved') = Len(moved) + job.n
        /\ moved' = [k \in 1 .. Len(moved) + job.n |-> mem[start + k - 1]]
    <3>1. moved' = moved \o [k \in 1 .. job.n |-> mem[(start + Len(moved)) + k - 1]]
      BY <2>1, <2>5, <2>8
    <3> QED
      BY <2>6, <2>8, <3>1, OutputGrows
  <2>10. at' = start' + Len(moved') /\ left' + Len(moved') = AreaSize(P)'
    BY <2>1, <2>2, <2>6, <2>8, <2>9
  <2>11. pc' = "next" => Len(moved') = AreaSize(P)'
    <3>1. pc' = "next" => left' = 0
      BY <2>1, <2>2
    <3>2. Len(moved') \in Nat
      BY <2>6, <2>8, <2>9
    <3>3. \A l \in Nat : 0 + l = l
      OBVIOUS
    <3>4. left' = 0 => Len(moved') = AreaSize(P)'
      BY <2>10, <3>2, <3>3
    <3> QED
      BY <3>1, <3>4
  <2>12. Len(moved') \in Nat /\ moved' = [k \in 1 .. Len(moved') |-> mem'[start' + k - 1]]
    BY <2>2, <2>6, <2>8, <2>9
  <2> QED
    BY <2>10, <2>11, <2>12 DEF Output
<1>7. CASE Handlers /\ ~ BlockRead
  <2>1. UNCHANGED <<ops, n>> /\ P' = P
    BY <1>7 DEF Handlers, EraseOmitted, Erased, EraseVerified, StatusRead, Unlocked, Fill,
                Compared, Written, WriteVerified, Answer, P
  <2>2. pc \in ErasePlaces \cup WritePlaces \cup {"status", "unlock"}
    BY <1>7 DEF Handlers, EraseOmitted, Erased, EraseVerified, StatusRead, Unlocked, Fill,
                Compared, Written, WriteVerified, Answer, ErasePlaces, WritePlaces
  <2>3. P.op # "read"
    BY <1>1, <2>2 DEF Places
  <2> QED
    BY <2>1, <2>3 DEF Output
<1> QED
  BY <1>2, <1>3, <1>4, <1>5, <1>6, <1>7 DEF Next, Steps, Handlers

\* What read puts to the output is the head of the area, and all of it in the
\* end, for areas of any size (entryPoint.cpp:280-300).
THEOREM ReadsTheArea == Spec => []ReadFaithful
<1>1. Init => Output
  BY DEF Init, Output
<1>2. Output => ReadFaithful
  BY DEF Output, ReadFaithful, Content, Job
<1> QED
  BY <1>1, <1>2, ControlInit, ControlStep, OutputStep, PTL DEF Spec

\* A verified unlock that is over has found the chip unprotected.
Unprotected ==
    \A k \in 1 .. n :
        ops[k].op = "unlock" /\ Handled(ops[k]) /\ ops[k].verify /\ (k < n \/ pc = "next")
            => ~ locked

\* Every step keeps it.
LEMMA UnprotectedStep == Control /\ Unprotected /\ [Next]_vars => Unprotected'
<1> SUFFICES ASSUME Control, Unprotected, [Next]_vars PROVE Unprotected'
  OBVIOUS
<1>1. Places /\ Service /\ TypeOK
  BY DEF Control
<1>2. locked' => locked
  BY NothingPending
<1>3. n \in Nat
  BY <1>1, SessionsAssumption DEF TypeOK
<1>4. CASE Begin
  BY <1>1, <1>3, <1>4 DEF Begin, Places, Unprotected
<1>5. CASE EndSession \/ Throw \/ Abort \/ Ask \/ Chip \/ UNCHANGED vars
  <2>1. UNCHANGED <<ops, n>> /\ (pc' = "next" => pc = "next")
    BY <1>5 DEF EndSession, Throw, Abort, Ask, Chip, Others, vars
  <2> QED
    BY <1>2, <2>1 DEF Unprotected, Handled
<1>6. CASE StartOp
  <2>1. n' = n + 1 /\ ops' = ops /\ pc = "next" /\ P' = ops[n + 1]
    BY <1>6, Started
  <2>2. ops[n + 1].op = "unlock" /\ Handled(ops[n + 1]) => pc' # "next"
    BY <1>6 DEF StartOp, FirstSite
  <2> SUFFICES ASSUME NEW k \in 1 .. n',
                      ops[k].op = "unlock", Handled(ops[k]), ops[k].verify, k < n' \/ pc' = "next"
               PROVE  ~ locked'
    BY <2>1 DEF Unprotected, Handled
  <2>3. k # n + 1
    BY <1>3, <2>1, <2>2
  <2>4. k \in 1 .. n /\ (k < n \/ pc = "next")
    BY <1>3, <2>1, <2>3
  <2> QED
    BY <1>2, <2>4 DEF Unprotected
<1>7. CASE Handlers
  <2>1. UNCHANGED <<ops, n>> /\ P' = P /\ P = ops[n]
    BY <1>7 DEF Handlers, EraseOmitted, Erased, EraseVerified, StatusRead, Unlocked, Fill,
                Compared, Written, WriteVerified, BlockRead, Answer, P
  <2>2. CASE StatusRead \/ Unlocked
    <3>1. PICK site \in {"status", "unlock"} : Answer(site)
      BY <2>2 DEF StatusRead, Unlocked
    <3>2. /\ pc = site /\ job = Request /\ locked' = locked
          /\ got' = CASE job.op = "read" -> Content(mem, job)
                       [] job.op \in {"status", "getStatus"} -> <<locked>>
                       [] OTHER -> <<>>
      BY <3>1, Answered
    <3>3. job.op \in {"status", "getStatus"}
      BY <3>1, <3>2 DEF Request, Job
    <3>4. got' = <<locked>>
      BY <3>2, <3>3
    <3>5. locked \in BOOLEAN
      BY <1>1 DEF TypeOK
    <3>6. P.verify /\ pc' = "next" => ~ locked
      BY <2>2, <3>4, <3>5 DEF StatusRead, Unlocked, Finish
    <3> QED
      BY <1>3, <2>1, <3>2, <3>6 DEF Unprotected, Handled
  <2>3. CASE ~ StatusRead /\ ~ Unlocked
    <3>1. pc \in ErasePlaces \cup WritePlaces \cup {"read"}
      BY <1>7, <2>3 DEF Handlers, EraseOmitted, Erased, EraseVerified, Fill,
                  Compared, Written, WriteVerified, BlockRead, Answer, ErasePlaces, WritePlaces
    <3>2. P.op # "unlock"
      BY <1>1, <3>1 DEF Places
    <3> QED
      BY <1>2, <1>3, <2>1, <3>2 DEF Unprotected, Handled
  <2> QED
    BY <2>2, <2>3
<1> QED
  BY <1>4, <1>5, <1>6, <1>7 DEF Next, Steps

\* After a verified unlock the chip is and stays unprotected
\* (entryPoint.cpp:131-160).
THEOREM UnlocksForGood == Spec => []UnlockLasts
<1>1. Init => Unprotected
  BY DEF Init, Unprotected
<1>2. Unprotected => UnlockLasts
  BY DEF Unprotected, UnlockLasts, Done
<1> QED
  BY <1>1, <1>2, ControlInit, ControlStep, UnprotectedStep, PTL DEF Spec
=============================================================================
