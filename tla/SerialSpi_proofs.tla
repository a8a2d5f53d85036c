-------------------------- MODULE SerialSpi_proofs --------------------------
(***************************************************************************)
(* Proofs about the chunked transfer, for every packet size that carries   *)
(* at least a byte, every boundary of the variable length fields and every *)
(* set of calls that satisfies TransferAssumption.                         *)
(***************************************************************************)
EXTENDS SerialSpi, Lexicographic, TLAPS

-----------------------------------------------------------------------------
(***************************************************************************)
(* The arithmetic of the chunks.  A message asks for gt bytes out, gs      *)
(* skipped and gr in.  Aligned says that after c clocks, t bytes out, s    *)
(* skipped and r in, the clocks account for all of them, and that the next *)
(* byte in will be the device's answer on the clock it should be.          *)
(***************************************************************************)
Aligned(c, t, s, r, gt, gs, gr) ==
    /\ t <= gt /\ s <= gs /\ r <= gr
    /\ t < gt => c = t
    /\ t = gt => c = (IF gt > s + r THEN gt ELSE s + r)
    /\ s + r <= c
    /\ s + r = c \/ (s = gs /\ r = gr)
    /\ r > 0 => s = gs
    /\ c > 0 /\ t = gt => s = gs

Least(a, b) == IF a < b THEN a ELSE b
Most(a, b)  == IF a > b THEN a ELSE b

\* A message in progress with lt, ls and lr left to send, skip and receive.
Unfinished(c, t, s, r, gt, gs, gr, lt, ls, lr) ==
    /\ {gt, gs, gr, c, t, s, r, lt, ls, lr} \subseteq Nat
    /\ gr = 0 \/ gs >= gt
    /\ Aligned(c, t, s, r, gt, gs, gr)
    /\ t + lt = gt /\ s + ls = gs /\ r + lr = gr
    /\ lt > 0 \/ ls > 0 \/ lr > 0

\* How NextChunk cuts a chunk from what is left, given room for T bytes out and
\* R in; n is its number of clocks.
Cut(ct, cs1, cr, n, T, R, lt, ls, lr) ==
    /\ {ct, cs1, cr, n, T, R} \subseteq Nat
    /\ T >= 1 /\ R >= T
    /\ ct = Least(T, lt)
    /\ cs1 = (IF ct = lt THEN ls ELSE Least(ls, ct))
    /\ cr = (IF ct = lt THEN Least(R, lr) ELSE Least(lr, ct - cs1))
    /\ n = Most(ct, cs1 + cr)

\* The chunk continues the message, and the message is aligned after it.
Continues(c, t, s, r, gt, gs, gr, lt, ls, lr, ct, cs1, cr, n, T, R) ==
    /\ Aligned(c + n, t + ct, s + cs1, r + cr, gt, gs, gr)
    /\ n >= 1
    /\ c + n <= Most(gt, gs + gr)
    /\ c + n = Most(gt, gs + gr) <=> (ct = lt /\ cs1 = ls /\ cr = lr)
    /\ cr > 0 => c + cs1 = gs + r /\ gs + r + cr <= c + n
    /\ ct > 0 => c = t
    /\ n > ct => c + ct >= gt
    /\ cr = 0 \/ cs1 >= ct
    /\ ct <= T /\ cr <= R /\ cs1 <= gs

\* One chunk, as NextChunk cuts it, takes an aligned state to an aligned state,
\* provided an answer has at least as much room as a request (R >= T).
LEMMA ChunkAlgebra ==
  ASSUME NEW gt, NEW gs, NEW gr, NEW c, NEW t, NEW s, NEW r, NEW lt, NEW ls, NEW lr,
         NEW ct, NEW cs1, NEW cr, NEW n, NEW T, NEW R,
         Unfinished(c, t, s, r, gt, gs, gr, lt, ls, lr),
         Cut(ct, cs1, cr, n, T, R, lt, ls, lr)
  PROVE  Continues(c, t, s, r, gt, gs, gr, lt, ls, lr, ct, cs1, cr, n, T, R)
<1> USE DEF Continues
<1> /\ gt \in Nat /\ gs \in Nat /\ gr \in Nat
    /\ c \in Nat /\ t \in Nat /\ s \in Nat /\ r \in Nat
    /\ lt \in Nat /\ ls \in Nat /\ lr \in Nat
    /\ gr = 0 \/ gs >= gt
    /\ Aligned(c, t, s, r, gt, gs, gr)
    /\ t + lt = gt /\ s + ls = gs /\ r + lr = gr
    /\ lt > 0 \/ ls > 0 \/ lr > 0
  BY DEF Unfinished
<1> /\ ct \in Nat /\ cs1 \in Nat /\ cr \in Nat /\ n \in Nat /\ T \in Nat /\ R \in Nat
    /\ T >= 1 /\ R >= T
  BY DEF Cut
<1>0. /\ ct = Least(T, lt)
      /\ cs1 = (IF ct = lt THEN ls ELSE Least(ls, ct))
      /\ cr = (IF ct = lt THEN Least(R, lr) ELSE Least(lr, ct - cs1))
      /\ n = Most(ct, cs1 + cr)
  BY DEF Cut
<1>1. CASE ct = lt
  <2>1. cs1 = ls /\ cr = Least(R, lr)
    BY <1>0, <1>1
  <2>2. t + ct = gt /\ s + cs1 = gs
    BY <1>1, <2>1
  <2>3. CASE lt > 0
    BY <1>0, <1>1, <2>1, <2>3 DEF Aligned, Least, Most
  <2>4. CASE lt = 0
    BY <1>0, <1>1, <2>1, <2>4 DEF Aligned, Least, Most
  <2> QED
    BY <2>3, <2>4
<1>2. CASE ct # lt
  <2>1. ct = T /\ ct < lt /\ c = t
    BY <1>0, <1>2 DEF Aligned, Least
  <2>2. cs1 = Least(ls, ct) /\ cr = Least(lr, ct - cs1)
    BY <1>0, <1>2
  <2> QED
    BY <1>0, <2>1, <2>2 DEF Aligned, Least, Most
<1> QED
  BY <1>1, <1>2

-----------------------------------------------------------------------------
(***************************************************************************)
(* The inductive invariant.  What a caller sees (DataFaithful) says nothing *)
(* of the counters, so it is not inductive: what it needs is that the       *)
(* counters and the clocks agree, counting the chunk in flight, and that    *)
(* this chunk continues where the last one ended.                           *)
(***************************************************************************)
Taken   == msgs[m].rx - rxSize
Skipped == msgs[m].skip - rxSkip
OnTrack(clocks) ==
    Aligned(clocks, txWritten, Skipped, Taken, msgs[m].tx, msgs[m].skip, msgs[m].rx)

Counters ==
    /\ txWritten + txSize = msgs[m].tx
    /\ rxSkip <= msgs[m].skip /\ rxSize <= msgs[m].rx
    /\ rxWritten <= Taken

AtLoop == pc = "loop" => OnTrack(Len(mosi)) /\ rxWritten = Taken

\* The chunk prepared continues the message and is what a packet carries.
AtExchange ==
    pc = "exchange" =>
        /\ OnTrack(Len(mosi) + Clocks(chunk))
        /\ rxWritten + chunk.rx = Taken
        /\ 1 <= Clocks(chunk)
        /\ Len(mosi) + Clocks(chunk) <= Most(msgs[m].tx, msgs[m].skip + msgs[m].rx)
        /\ chunk.rx > 0 => /\ Len(mosi) + chunk.skip = msgs[m].skip + rxWritten
                           /\ Taken + msgs[m].skip <= Len(mosi) + Clocks(chunk)
        /\ chunk.tx > 0 => chunk.from = Len(mosi) /\ Len(mosi) + chunk.tx <= msgs[m].tx
        /\ Clocks(chunk) > chunk.tx => Len(mosi) + chunk.tx >= msgs[m].tx
        /\ chunk.rx = 0 \/ chunk.skip >= chunk.tx
        /\ chunk.tx <= TxRoom /\ chunk.rx <= RxRoom /\ chunk.skip <= msgs[m].skip
        /\ Len(mosi) + Clocks(chunk) = Most(msgs[m].tx, msgs[m].skip + msgs[m].rx) <=> ~ Remaining
        /\ Remaining => chunk.keep
        /\ chunk.keep \in (IF Remaining \/ ~ msgs[m].deselect THEN {TRUE} ELSE StackFlags)

AtReply ==
    pc = "reply" =>
        /\ OnTrack(Len(mosi))
        /\ rxWritten + chunk.rx = Taken
        /\ Len(reply) = chunk.rx
        /\ \A k \in 1 .. chunk.rx : reply[k] = msgs[m].skip + rxWritten + k - 1
        /\ chunk.rx > 0 => Taken + msgs[m].skip <= Len(mosi)

IInv ==
    /\ TypeOK
    /\ msgs \in Transfers
    /\ Counters /\ AtLoop /\ AtExchange /\ AtReply
    /\ DataFaithful
    /\ HeldThroughMessage

-----------------------------------------------------------------------------
\* What the assumptions say of the message in progress.
LEMMA CurrentMessage ==
  ASSUME TypeOK, msgs \in Transfers
  PROVE  /\ msgs[m] \in Message
         /\ msgs[m].tx \in Nat /\ msgs[m].skip \in Nat /\ msgs[m].rx \in Nat
         /\ msgs[m].deselect \in BOOLEAN
         /\ msgs[m].skip < Half
         /\ msgs[m].rx = 0 \/ msgs[m].skip >= msgs[m].tx
<1>1. msgs[m] \in Message
  BY DEF TypeOK
<1>2. msgs[m].skip < Half /\ (msgs[m].rx = 0 \/ msgs[m].skip >= msgs[m].tx)
  BY TransferAssumption DEF TypeOK
<1> QED
  BY <1>1, <1>2 DEF Message

LEMMA FirstMessage ==
  ASSUME NEW call \in Transfers
  PROVE  call \in Seq(Message) /\ 1 \in 1 .. Len(call) /\ call[1] \in Message
BY TransferAssumption

\* A packet holds at least a byte each way, and more for an answer.
LEMMA Rooms ==
  /\ Room \in Nat /\ TxRoom \in Nat /\ RxRoom \in Nat
  /\ TxRoom = Room - 7 /\ RxRoom = Room - 1
  /\ TxRoom >= 1 /\ RxRoom >= TxRoom
<1>1. Room \in Nat
  BY MemAssumption, HalfAssumption DEF Room, MaxPayload, VlenSize
<1> QED
  BY <1>1, MemAssumption DEF TxRoom, RxRoom, RequestRoom, ResponseRoom

LEMMA ClocksAreMost ==
  ASSUME NEW r, r.tx \in Nat, r.skip \in Nat, r.rx \in Nat
  PROVE  Clocks(r) = Most(r.tx, r.skip + r.rx) /\ Clocks(r) \in Nat
BY DEF Clocks, Most

\* A chunk that receives only after its last byte sent loses none of its data.
LEMMA NothingRunOver ==
  ASSUME TypeOK, chunk.rx = 0 \/ chunk.skip >= chunk.tx,
         NEW n \in Nat, n < chunk.tx
  PROVE  ~ RunOver(n)
BY DEF RunOver, TypeOK

-----------------------------------------------------------------------------
\* The type of everything, step by step.
LEMMA TypeInit == Init => TypeOK /\ msgs \in Transfers
<1> SUFFICES ASSUME Init PROVE TypeOK /\ msgs \in Transfers
  OBVIOUS
<1>1. msgs \in Transfers /\ m = 1
  BY DEF Init
<1>2. msgs \in Seq(Message) /\ m \in 1 .. Len(msgs) /\ msgs[1] \in Message
  BY <1>1, FirstMessage
<1>3. msgs[1].tx \in Nat /\ msgs[1].skip \in Nat /\ msgs[1].rx \in Nat
  BY <1>2 DEF Message
<1>4. recv \in [1 .. msgs[m].rx -> Int]
  BY <1>1 DEF Init, Unset
<1> QED
  BY <1>1, <1>2, <1>3, <1>4 DEF Init, TypeOK, NoChunk

\* What a prepared chunk looks like, before anything is said of its fit.
LEMMA PreparedChunk ==
  ASSUME TypeOK, msgs \in Transfers, Prepare
  PROVE  /\ chunk' \in [tx : Nat, skip : Nat, rx : Nat, keep : BOOLEAN, from : Nat]
         /\ chunk'.tx = Least(TxRoom, txSize)
         /\ chunk'.skip = (IF chunk'.tx = txSize THEN rxSkip ELSE Least(rxSkip, chunk'.tx))
         /\ chunk'.rx = (IF chunk'.tx = txSize THEN Least(RxRoom, rxSize)
                         ELSE Least(rxSize, chunk'.tx - chunk'.skip))
         /\ chunk'.from = txWritten
         /\ chunk'.tx <= txSize /\ chunk'.skip <= rxSkip /\ chunk'.rx <= rxSize
         /\ txSize' > 0 \/ rxSize' > 0 \/ rxSkip' > 0 => chunk'.keep
         /\ ~ msgs[m].deselect => chunk'.keep
         /\ ~ (txSize' > 0 \/ rxSize' > 0 \/ rxSkip' > 0) /\ msgs[m].deselect
               => chunk'.keep \in StackFlags
<1>1. PICK garbage \in StackFlags : chunk' = NextChunk(garbage)
  BY DEF Prepare
<1> DEFINE tx == chunk'.tx  skip == chunk'.skip  rx == chunk'.rx
<1>2. tx = Least(TxRoom, txSize)
  BY <1>1 DEF NextChunk, Less, Least
<1>3. skip = (IF tx = txSize THEN rxSkip ELSE Least(rxSkip, tx))
  BY <1>1 DEF NextChunk, Less, Least
<1>4. rx = (IF tx = txSize THEN Least(RxRoom, rxSize) ELSE Least(rxSize, tx - skip))
  BY <1>1 DEF NextChunk, Less, Least
<1>5. /\ chunk'.from = txWritten
      /\ chunk'.keep = (garbage \/ ~ msgs[m].deselect
                          \/ txSize > tx \/ rxSkip > skip \/ rxSize > rx)
  BY <1>1 DEF NextChunk, Less
<1>6. chunk' = [tx |-> tx, skip |-> skip, rx |-> rx, from |-> chunk'.from, keep |-> chunk'.keep]
  BY <1>1 DEF NextChunk
<1>7. txSize \in Nat /\ rxSize \in Nat /\ rxSkip \in Nat /\ txWritten \in Nat
  BY DEF TypeOK
<1>8. tx \in Nat /\ tx <= txSize
  BY <1>2, <1>7, Rooms DEF Least
<1>9. skip \in Nat /\ skip <= rxSkip /\ (tx # txSize => skip <= tx)
  BY <1>3, <1>7, <1>8 DEF Least
<1>10. rx \in Nat /\ rx <= rxSize
  BY <1>4, <1>7, <1>8, <1>9, Rooms DEF Least
<1>11. chunk'.keep \in BOOLEAN
  BY <1>5
<1>12. chunk' \in [tx : Nat, skip : Nat, rx : Nat, keep : BOOLEAN, from : Nat]
  BY <1>5, <1>6, <1>7, <1>8, <1>9, <1>10, <1>11
<1>13. txSize' = txSize - tx /\ rxSkip' = rxSkip - skip /\ rxSize' = rxSize - rx
  BY DEF Prepare
<1>14. (txSize' > 0 \/ rxSize' > 0 \/ rxSkip' > 0) <=> (txSize > tx \/ rxSkip > skip \/ rxSize > rx)
  BY <1>7, <1>8, <1>9, <1>10, <1>13
<1>15. txSize' > 0 \/ rxSize' > 0 \/ rxSkip' > 0 => chunk'.keep
  BY <1>5, <1>14
<1>16. ~ msgs[m].deselect => chunk'.keep
  BY <1>5
<1>17. ASSUME ~ (txSize' > 0 \/ rxSize' > 0 \/ rxSkip' > 0), msgs[m].deselect
       PROVE  chunk'.keep \in StackFlags
  <2>1. chunk'.keep <=> garbage
    BY <1>5, <1>14, <1>17
  <2>2. garbage \in BOOLEAN
    BY FlagAssumption
  <2> QED
    BY <1>11, <2>1, <2>2
<1> QED
  BY <1>2, <1>3, <1>4, <1>5, <1>8, <1>9, <1>10, <1>12, <1>15, <1>16, <1>17

LEMMA TypeNext == TypeOK /\ msgs \in Transfers /\ [Next]_vars => TypeOK' /\ (msgs \in Transfers)'
<1> SUFFICES ASSUME TypeOK, msgs \in Transfers, [Next]_vars
             PROVE  TypeOK' /\ (msgs \in Transfers)'
  OBVIOUS
<1> USE DEF host
<1>1. CASE Prepare
  <2>1. chunk' \in [tx : Nat, skip : Nat, rx : Nat, keep : BOOLEAN, from : Nat]
        /\ chunk'.tx \in Nat /\ chunk'.skip \in Nat /\ chunk'.rx \in Nat
        /\ chunk'.tx <= txSize /\ chunk'.skip <= rxSkip /\ chunk'.rx <= rxSize
    BY <1>1, PreparedChunk
  <2> /\ txSize \in Nat /\ rxSize \in Nat /\ rxSkip \in Nat /\ txWritten \in Nat
    BY DEF TypeOK
  <2>3. /\ txSize' = txSize - chunk'.tx /\ rxSkip' = rxSkip - chunk'.skip
        /\ rxSize' = rxSize - chunk'.rx /\ txWritten' = txWritten + chunk'.tx
    BY <1>1 DEF Prepare
  <2>2. txSize' \in Nat /\ rxSize' \in Nat /\ rxSkip' \in Nat /\ txWritten' \in Nat
    BY <2>1, <2>3
  <2> QED
    BY <1>1, <2>1, <2>2 DEF Prepare, TypeOK
<1>2. CASE Exchange
  <2>1. Clocks(chunk) \in Nat
    BY ClocksAreMost DEF TypeOK
  <2>2. \A n \in 0 .. Clocks(chunk) : MosiByte(n) \in Int
    BY DEF MosiByte, Filler, Echo, TypeOK
  <2>3. Len(mosi) \in Nat /\ \A k \in 1 .. Len(mosi) : mosi[k] \in Int
    BY DEF TypeOK
  <2> DEFINE before == Len(mosi)
             now == before + Clocks(chunk)
             out == [k \in 1 .. now |->
                        IF k <= before THEN mosi[k] ELSE MosiByte(k - before - 1)]
             in  == [k \in 1 .. chunk.rx |-> before + chunk.skip + k - 1]
  <2>4. now \in Nat /\ before \in Nat
    BY <2>1, <2>3
  <2>5. \A k \in 1 .. now : (IF k <= before THEN mosi[k] ELSE MosiByte(k - before - 1)) \in Int
    BY <2>1, <2>2, <2>3
  <2>6. out \in Seq(Int)
    <3> HIDE DEF now, before
    <3> QED
      BY <2>4, <2>5
  <2>10. chunk.rx \in Nat /\ chunk.skip \in Nat
    BY DEF TypeOK
  <2>11. \A k \in 1 .. chunk.rx : before + chunk.skip + k - 1 \in Nat
    BY <2>4, <2>10
  <2>7. in \in Seq(Nat)
    <3> HIDE DEF before
    <3> QED
      BY <2>10, <2>11
  <2>8. mosi' = out /\ reply' = in /\ cs' = chunk.keep /\ pc' = "reply"
    BY <1>2 DEF Exchange
  <2>9. UNCHANGED <<msgs, m, txSize, rxSize, rxSkip, txWritten, rxWritten, chunk, recv>>
    BY <1>2 DEF Exchange
  <2> HIDE DEF out, in
  <2> QED
    BY <2>6, <2>7, <2>8, <2>9 DEF TypeOK
<1>3. CASE Deliver
  <2>1. Len(reply) \in Nat /\ \A k \in 1 .. Len(reply) : reply[k] \in Int
    BY DEF TypeOK
  <2>2. \A k \in 1 .. msgs[m].rx :
           (IF k > rxWritten /\ k - rxWritten <= Len(reply)
            THEN reply[k - rxWritten] ELSE recv[k]) \in Int
    <3> SUFFICES ASSUME NEW k \in 1 .. msgs[m].rx
                 PROVE  (IF k > rxWritten /\ k - rxWritten <= Len(reply)
                         THEN reply[k - rxWritten] ELSE recv[k]) \in Int
      OBVIOUS
    <3>1. recv[k] \in Int /\ rxWritten \in Nat /\ k \in Int
      BY CurrentMessage, SMTT(30) DEF TypeOK
    <3>2. k > rxWritten /\ k - rxWritten <= Len(reply) => k - rxWritten \in 1 .. Len(reply)
      BY <2>1, <3>1
    <3> QED
      BY <2>1, <3>1, <3>2
  <2>3. recv' \in [1 .. msgs[m].rx -> Int]
    BY <1>3, <2>2 DEF Deliver
  <2> QED
    BY <1>3, <2>1, <2>3 DEF Deliver, TypeOK
<1>4. CASE NextMessage
  <2>1. m + 1 \in 1 .. Len(msgs) /\ msgs[m + 1] \in Message
    BY <1>4 DEF NextMessage, TypeOK
  <2>2. msgs[m + 1].tx \in Nat /\ msgs[m + 1].rx \in Nat /\ msgs[m + 1].skip \in Nat
    BY <2>1 DEF Message
  <2>3. recv' \in [1 .. msgs[m + 1].rx -> Int] /\ mosi' \in Seq(Int)
    BY <1>4 DEF NextMessage, Load, Unset
  <2>4. m' = m + 1 /\ msgs' = msgs
    BY <1>4 DEF NextMessage
  <2> QED
    BY <1>4, <2>1, <2>2, <2>3, <2>4 DEF NextMessage, Load, TypeOK
<1>5. CASE Return
  BY <1>5 DEF Return, TypeOK
<1>6. CASE Throw
  BY <1>6 DEF Throw, TypeOK
<1>7. CASE Detach
  BY <1>7 DEF Detach, TypeOK
<1>8. CASE UNCHANGED vars
  BY <1>8 DEF vars, TypeOK
<1> QED
  BY <1>1, <1>2, <1>3, <1>4, <1>5, <1>6, <1>7, <1>8 DEF Next

\* TypeOK is an invariant: counters never go below zero, whatever the calls.
THEOREM TypeCorrect == Spec => []TypeOK
<1>1. TypeOK /\ msgs \in Transfers /\ [Next]_vars => (TypeOK /\ msgs \in Transfers)'
  BY TypeNext
<1> QED
  BY <1>1, TypeInit, PTL DEF Spec

-----------------------------------------------------------------------------
\* The invariant, step by step.  A message starts with nothing accounted for.
LEMMA FreshMessage ==
  ASSUME NEW tx \in Nat, NEW skip \in Nat, NEW rx \in Nat
  PROVE  Aligned(0, 0, skip - skip, rx - rx, tx, skip, rx)
<1>1. skip - skip = 0 /\ rx - rx = 0
  OBVIOUS
<1>2. Aligned(0, 0, 0, 0, tx, skip, rx)
  BY DEF Aligned
<1> QED
  BY <1>1, <1>2

LEMMA InitInv == Init => IInv
<1> SUFFICES ASSUME Init PROVE IInv
  OBVIOUS
<1>1. TypeOK /\ msgs \in Transfers
  BY TypeInit
<1>2. m = 1 /\ txSize = msgs[m].tx /\ rxSize = msgs[m].rx /\ rxSkip = msgs[m].skip
      /\ txWritten = 0 /\ rxWritten = 0 /\ mosi = <<>> /\ pc = "loop"
  BY DEF Init
<1>3. msgs[m].tx \in Nat /\ msgs[m].skip \in Nat /\ msgs[m].rx \in Nat
  BY <1>1, CurrentMessage
<1>4. Counters /\ AtExchange /\ AtReply /\ HeldThroughMessage
  BY <1>2, <1>3 DEF Counters, AtExchange, AtReply, HeldThroughMessage, Taken
<1>5. AtLoop
  <2>1. OnTrack(0)
    BY <1>2, <1>3, FreshMessage DEF OnTrack, Taken, Skipped
  <2> QED
    BY <1>2, <1>3, <2>1 DEF AtLoop, Taken
<1>6. DataFaithful
  BY <1>2, <1>3 DEF DataFaithful, Promise!Sent, Promise!Total
<1> QED
  BY <1>1, <1>4, <1>5, <1>6 DEF IInv

LEMMA PrepareInv ==
  ASSUME IInv, Prepare
  PROVE  Counters' /\ AtLoop' /\ AtExchange' /\ AtReply' /\ DataFaithful' /\ HeldThroughMessage'
<1> DEFINE gt == msgs[m].tx  gs == msgs[m].skip  gr == msgs[m].rx
           c == Len(mosi)  t == txWritten  s == Skipped  r == rxWritten
           ct == chunk'.tx  cs1 == chunk'.skip  cr == chunk'.rx
           n == Clocks(chunk')
<1>1. TypeOK /\ msgs \in Transfers /\ Counters /\ AtLoop /\ pc = "loop" /\ Remaining
  BY DEF IInv, Prepare
<1>2. gt \in Nat /\ gs \in Nat /\ gr \in Nat /\ gs < Half /\ (gr = 0 \/ gs >= gt)
  BY <1>1, CurrentMessage
<1>3. /\ txSize \in Nat /\ rxSize \in Nat /\ rxSkip \in Nat
      /\ c \in Nat /\ t \in Nat /\ r \in Nat
  BY <1>1 DEF TypeOK
<1>4. t + txSize = gt /\ rxSkip <= gs /\ rxSize <= gr /\ r = gr - rxSize
  BY <1>1 DEF Counters, AtLoop, Taken
<1>5. s = gs - rxSkip /\ s \in Nat
  BY <1>2, <1>3, <1>4 DEF Skipped
<1>6. Aligned(c, t, s, r, gt, gs, gr)
  BY <1>1 DEF AtLoop, OnTrack
<1>7. txSize > 0 \/ rxSkip > 0 \/ rxSize > 0
  BY <1>1 DEF Remaining
<1> HIDE DEF gt, gs, gr, c, t, s, r, ct, cs1, cr, n
<1>8. txSize = gt - t /\ rxSkip = gs - s /\ rxSize = gr - r
  BY <1>2, <1>3, <1>4, <1>5
<1>9. /\ chunk' \in [tx : Nat, skip : Nat, rx : Nat, keep : BOOLEAN, from : Nat]
      /\ ct = Least(TxRoom, txSize)
      /\ cs1 = (IF ct = txSize THEN rxSkip ELSE Least(rxSkip, ct))
      /\ cr = (IF ct = txSize THEN Least(RxRoom, rxSize) ELSE Least(rxSize, ct - cs1))
      /\ chunk'.from = t
      /\ ct <= txSize /\ cs1 <= rxSkip /\ cr <= rxSize
  BY <1>1, PreparedChunk DEF ct, cs1, cr, t
<1>10. ct \in Nat /\ cs1 \in Nat /\ cr \in Nat
  BY <1>9 DEF ct, cs1, cr
<1>11. n = Most(ct, cs1 + cr) /\ n \in Nat
  BY <1>10, ClocksAreMost DEF n, ct, cs1, cr
<1>12. Cut(ct, cs1, cr, n, TxRoom, RxRoom, txSize, rxSkip, rxSize)
  BY <1>9, <1>10, <1>11, Rooms DEF Cut
<1>24. t + txSize = gt /\ s + rxSkip = gs /\ r + rxSize = gr
  BY <1>2, <1>3, <1>4, <1>5
<1>27. Unfinished(c, t, s, r, gt, gs, gr, txSize, rxSkip, rxSize)
  BY <1>2, <1>3, <1>5, <1>6, <1>7, <1>24 DEF Unfinished
<1>28. Continues(c, t, s, r, gt, gs, gr, txSize, rxSkip, rxSize, ct, cs1, cr, n, TxRoom, RxRoom)
  BY <1>12, <1>27, ChunkAlgebra
<1>13. /\ Aligned(c + n, t + ct, s + cs1, r + cr, gt, gs, gr)
       /\ n >= 1
       /\ c + n <= Most(gt, gs + gr)
       /\ c + n = Most(gt, gs + gr) <=> (ct = txSize /\ cs1 = rxSkip /\ cr = rxSize)
       /\ cr > 0 => c + cs1 = gs + r /\ gs + r + cr <= c + n
       /\ ct > 0 => c = t
       /\ n > ct => c + ct >= gt
       /\ cr = 0 \/ cs1 >= ct
       /\ ct <= TxRoom /\ cr <= RxRoom /\ cs1 <= gs
  BY <1>28 DEF Continues
<1>14. /\ txSize' = txSize - ct /\ rxSkip' = rxSkip - cs1 /\ rxSize' = rxSize - cr
       /\ txWritten' = t + ct /\ pc' = "exchange"
       /\ UNCHANGED <<msgs, m, rxWritten, reply, recv, mosi, cs>>
  BY DEF Prepare, ct, cs1, cr, t
<1>15. Taken' = r + cr /\ Skipped' = s + cs1
  <2>1. Taken' = gr - rxSize' /\ Skipped' = gs - rxSkip'
    BY <1>14 DEF Taken, Skipped, gr, gs
  <2> QED
    BY <2>1, <1>2, <1>3, <1>4, <1>5, <1>8, <1>9, <1>10, <1>14
<1>16. Counters'
  <2>1. t + ct + (txSize - ct) = gt /\ rxSkip - cs1 <= gs /\ rxSize - cr <= gr /\ r <= r + cr
    BY <1>2, <1>3, <1>4, <1>9, <1>10
  <2>2. msgs'[m'].tx = gt /\ msgs'[m'].skip = gs /\ msgs'[m'].rx = gr /\ rxWritten' = r
    BY <1>14 DEF gt, gs, gr, r
  <2> QED
    BY <1>14, <1>15, <2>1, <2>2 DEF Counters
<1>17. DataFaithful'
  <2>1. DataFaithful
    BY DEF IInv
  <2> QED
    BY <1>14, <2>1 DEF DataFaithful, Promise!Sent, Promise!Total
<1>18. HeldThroughMessage'
  BY <1>1, <1>14 DEF IInv, HeldThroughMessage
<1>19. (txSize' = 0 /\ rxSkip' = 0 /\ rxSize' = 0) <=> (ct = txSize /\ cs1 = rxSkip /\ cr = rxSize)
  BY <1>3, <1>9, <1>10, <1>14
<1>20. txSize' \in Nat /\ rxSkip' \in Nat /\ rxSize' \in Nat
  BY <1>3, <1>9, <1>10, <1>14
<1>21. ~ Remaining' <=> (ct = txSize /\ cs1 = rxSkip /\ cr = rxSize)
  BY <1>19, <1>20 DEF Remaining
<1>22. /\ Remaining' => chunk'.keep
       /\ chunk'.keep \in (IF Remaining' \/ ~ msgs[m].deselect THEN {TRUE} ELSE StackFlags)
  <2>1. /\ chunk'.keep \in BOOLEAN
        /\ Remaining' => chunk'.keep
        /\ ~ msgs[m].deselect => chunk'.keep
        /\ ~ Remaining' /\ msgs[m].deselect => chunk'.keep \in StackFlags
    BY <1>1, PreparedChunk DEF Remaining
  <2> QED
    BY <2>1
<1>23. ct > 0 => t + ct <= gt
  BY <1>2, <1>3, <1>8, <1>9, <1>10
<1>26. AtExchange'
  <2>1. /\ c + n = (Len(mosi) + Clocks(chunk))' /\ gt = msgs'[m'].tx
        /\ gs = msgs'[m'].skip /\ gr = msgs'[m'].rx /\ c = Len(mosi') /\ rxWritten' = r
        /\ msgs'[m'].deselect = msgs[m].deselect
    BY <1>14 DEF gt, gs, gr, c, t, s, r, n
  <2>2. OnTrack(Len(mosi) + Clocks(chunk))'
    BY <1>13, <1>14, <1>15, <2>1 DEF OnTrack
  <2>3. cr > 0 => gs + r + cr = Taken' + gs
    BY <1>2, <1>3, <1>10, <1>15
  <2>4. 1 <= n
    BY <1>11, <1>13
  <2>5. n = Clocks(chunk)' /\ ct = chunk'.tx /\ cs1 = chunk'.skip /\ cr = chunk'.rx
    BY DEF n, ct, cs1, cr
  <2>6. ct > 0 => chunk'.from = c /\ c + ct <= gt
    BY <1>9, <1>13, <1>23
  <2>7. TxRoom' = TxRoom /\ RxRoom' = RxRoom
    BY DEF TxRoom, RxRoom, Room
  <2> QED
    BY <1>13, <1>15, <1>21, <1>22, <2>1, <2>2, <2>3, <2>4, <2>5, <2>6, <2>7 DEF AtExchange
<1>25. AtLoop' /\ AtReply'
  BY <1>14 DEF AtLoop, AtReply
<1> QED
  BY <1>16, <1>17, <1>18, <1>26, <1>25

LEMMA ExchangeInv ==
  ASSUME IInv, Exchange
  PROVE  Counters' /\ AtLoop' /\ AtExchange' /\ AtReply' /\ DataFaithful' /\ HeldThroughMessage'
<1> DEFINE gt == msgs[m].tx  gs == msgs[m].skip  gr == msgs[m].rx
           c == Len(mosi)  n == Clocks(chunk)
<1>1. TypeOK /\ msgs \in Transfers /\ Counters /\ DataFaithful /\ pc = "exchange"
  BY DEF IInv, Exchange
<1>2. gt \in Nat /\ gs \in Nat /\ gr \in Nat
  BY <1>1, CurrentMessage
<1>3. /\ chunk.tx \in Nat /\ chunk.skip \in Nat /\ chunk.rx \in Nat
      /\ txWritten \in Nat /\ rxWritten \in Nat /\ c \in Nat
      /\ Len(mosi) \in Nat
  BY <1>1 DEF TypeOK
<1>4. n = Most(chunk.tx, chunk.skip + chunk.rx) /\ n \in Nat
  BY <1>3, ClocksAreMost
<1>5. /\ OnTrack(c + n)
      /\ rxWritten + chunk.rx = Taken
      /\ c + n <= Most(gt, gs + gr)
      /\ chunk.rx > 0 => c + chunk.skip = gs + rxWritten /\ Taken + gs <= c + n
      /\ chunk.tx > 0 => chunk.from = c /\ c + chunk.tx <= gt
      /\ n > chunk.tx => c + chunk.tx >= gt
      /\ chunk.rx = 0 \/ chunk.skip >= chunk.tx
      /\ Remaining => chunk.keep
  BY <1>1 DEF IInv, AtExchange
<1>6. /\ mosi' = [k \in 1 .. c + n |-> IF k <= c THEN mosi[k] ELSE MosiByte(k - c - 1)]
      /\ reply' = [k \in 1 .. chunk.rx |-> c + chunk.skip + k - 1]
      /\ cs' = chunk.keep /\ pc' = "reply"
      /\ UNCHANGED <<msgs, m, txSize, rxSize, rxSkip, txWritten, rxWritten, chunk, recv>>
  BY DEF Exchange, host
<1> HIDE DEF gt, gs, gr, c, n
<1>7. /\ msgs'[m'].tx = gt /\ msgs'[m'].skip = gs /\ msgs'[m'].rx = gr
      /\ Taken' = Taken /\ Skipped' = Skipped /\ (Remaining' <=> Remaining)
  BY <1>6 DEF gt, gs, gr, Taken, Skipped, Remaining
<1>8. c + n \in Nat /\ Len(mosi') = c + n
  BY <1>3, <1>4, <1>6
<1>9. Counters'
  BY <1>1, <1>6, <1>7 DEF Counters
<1>10. HeldThroughMessage'
  BY <1>5, <1>6, <1>7 DEF HeldThroughMessage
<1>11. AtLoop' /\ AtExchange'
  BY <1>6 DEF AtLoop, AtExchange
<1>12. AtReply'
  <2>1. OnTrack(Len(mosi))'
    BY <1>5, <1>6, <1>7, <1>8 DEF OnTrack, gt, gs, gr
  <2>2. Len(reply') = chunk.rx
    BY <1>3, <1>6
  <2>3. \A k \in 1 .. chunk.rx : reply'[k] = gs + rxWritten + k - 1
    BY <1>2, <1>3, <1>5, <1>6
  <2>4. chunk.rx > 0 => Taken + gs <= Len(mosi')
    BY <1>5, <1>8
  <2> QED
    BY <1>5, <1>6, <1>7, <2>1, <2>2, <2>3, <2>4 DEF AtReply
<1>13. mosi' = Promise!Sent(msgs[m], Len(mosi'))
  <2>1. mosi = Promise!Sent(msgs[m], c)
    BY <1>1 DEF DataFaithful, c
  <2>2. \A k \in 1 .. c : mosi[k] = IF k <= gt THEN k - 1 ELSE Filler
    BY <1>3, <2>1 DEF Promise!Sent, Promise!Filler, Filler, gt
  <2>3. ASSUME NEW k \in 1 .. c + n, k > c
        PROVE  MosiByte(k - c - 1) = IF k <= gt THEN k - 1 ELSE Filler
    <3>1. k - c - 1 \in Nat /\ k - c - 1 < n
      BY <1>3, <1>4, <2>3
    <3>2. PICK i \in Nat : i = k - c - 1
      BY <3>1
    <3>3. k = c + i + 1 /\ i < n
      BY <1>3, <1>4, <3>1, <3>2
    <3>4. CASE i >= chunk.tx
      <4>1. k > gt
        BY <1>2, <1>3, <1>4, <1>5, <3>3, <3>4
      <4>2. MosiByte(i) = Filler
        BY <1>3, <3>4 DEF MosiByte
      <4> QED
        BY <1>2, <3>2, <4>1, <4>2
    <3>5. CASE i < chunk.tx
      <4>1. k <= gt /\ chunk.from + i = k - 1
        BY <1>2, <1>3, <1>5, <3>3, <3>5
      <4>2. ~ RunOver(i)
        BY <1>1, <1>5, <3>5, NothingRunOver
      <4>3. MosiByte(i) = chunk.from + i
        BY <1>3, <3>5, <4>2 DEF MosiByte
      <4> QED
        BY <3>2, <4>1, <4>3
    <3> QED
      BY <1>3, <3>4, <3>5
  <2>4. \A k \in 1 .. c + n :
           (IF k <= c THEN mosi[k] ELSE MosiByte(k - c - 1)) = IF k <= gt THEN k - 1 ELSE Filler
    <3> TAKE k \in 1 .. c + n
    <3>1. CASE k <= c
      BY <1>3, <2>2, <3>1
    <3>2. CASE k > c
      BY <1>3, <2>3, <3>2
    <3> QED
      BY <1>3, <3>1, <3>2
  <2> QED
    BY <1>6, <1>8, <2>4 DEF Promise!Sent, Promise!Filler, Filler, gt
<1>14. DataFaithful'
  <2>1. Len(mosi') <= Promise!Total(msgs[m])
    BY <1>2, <1>5, <1>8 DEF Promise!Total, Most, gt, gs, gr
  <2>2. \A k \in 1 .. rxWritten : recv[k] = msgs[m].skip + k - 1
    BY <1>1 DEF DataFaithful
  <2> QED
    BY <1>6, <1>13, <2>1, <2>2 DEF DataFaithful, Promise!Sent, Promise!Total
<1> QED
  BY <1>9, <1>10, <1>11, <1>12, <1>14

LEMMA DeliverInv ==
  ASSUME IInv, Deliver
  PROVE  Counters' /\ AtLoop' /\ AtExchange' /\ AtReply' /\ DataFaithful' /\ HeldThroughMessage'
<1>1. TypeOK /\ msgs \in Transfers /\ Counters /\ DataFaithful /\ HeldThroughMessage /\ pc = "reply"
  BY DEF IInv, Deliver
<1>2. msgs[m].tx \in Nat /\ msgs[m].skip \in Nat /\ msgs[m].rx \in Nat
  BY <1>1, CurrentMessage
<1>3. chunk.rx \in Nat /\ rxWritten \in Nat /\ rxSize \in Nat
  BY <1>1 DEF TypeOK
<1>4. /\ OnTrack(Len(mosi)) /\ rxWritten + chunk.rx = Taken /\ Len(reply) = chunk.rx
      /\ \A k \in 1 .. chunk.rx : reply[k] = msgs[m].skip + rxWritten + k - 1
  BY <1>1 DEF IInv, AtReply
<1>5. /\ recv' = [k \in 1 .. msgs[m].rx |->
                     IF k > rxWritten /\ k - rxWritten <= Len(reply)
                     THEN reply[k - rxWritten] ELSE recv[k]]
      /\ rxWritten' = rxWritten + Len(reply) /\ pc' = "loop"
      /\ UNCHANGED <<msgs, m, txSize, rxSize, rxSkip, txWritten, chunk, reply, mosi, cs>>
  BY DEF Deliver
<1>6. Taken' = Taken /\ Skipped' = Skipped /\ (Remaining' <=> Remaining) /\ rxWritten' = Taken
  BY <1>4, <1>5 DEF Taken, Skipped, Remaining
<1>7. Taken \in Nat /\ Taken <= msgs[m].rx
  BY <1>1, <1>2, <1>3 DEF Counters, Taken
<1>8. Counters'
  BY <1>1, <1>5, <1>6, <1>7 DEF Counters
<1>9. AtLoop' /\ AtExchange' /\ AtReply'
  BY <1>4, <1>5, <1>6 DEF AtLoop, AtExchange, AtReply, OnTrack
<1>10. HeldThroughMessage'
  BY <1>1, <1>5, <1>6 DEF HeldThroughMessage
<1>11. \A k \in 1 .. rxWritten' : recv'[k] = msgs[m].skip + k - 1
  <2> SUFFICES ASSUME NEW k \in 1 .. Taken PROVE recv'[k] = msgs[m].skip + k - 1
    BY <1>6
  <2>1. k \in 1 .. msgs[m].rx
    BY <1>2, <1>7
  <2>2. CASE k <= rxWritten
    <3>1. recv'[k] = recv[k]
      BY <1>3, <1>5, <2>1, <2>2
    <3> QED
      BY <1>1, <1>3, <2>2, <3>1 DEF DataFaithful
  <2>3. CASE k > rxWritten
    <3>1. PICK i \in 1 .. chunk.rx : i = k - rxWritten
      BY <1>3, <1>4, <1>7, <2>3
    <3>2. recv'[k] = reply[i]
      BY <1>3, <1>4, <1>5, <2>1, <2>3, <3>1
    <3>3. reply[i] = msgs[m].skip + rxWritten + i - 1
      BY <1>4
    <3> QED
      BY <1>2, <1>3, <3>1, <3>2, <3>3
  <2> QED
    BY <1>3, <2>2, <2>3
<1>12. DataFaithful'
  <2>1. mosi = Promise!Sent(msgs[m], Len(mosi)) /\ Len(mosi) <= Promise!Total(msgs[m])
    BY <1>1 DEF DataFaithful
  <2> QED
    BY <1>5, <1>11, <2>1 DEF DataFaithful, Promise!Sent, Promise!Total
<1> QED
  BY <1>8, <1>9, <1>10, <1>12

LEMMA NextMessageInv ==
  ASSUME IInv, NextMessage
  PROVE  Counters' /\ AtLoop' /\ AtExchange' /\ AtReply' /\ DataFaithful' /\ HeldThroughMessage'
<1>1. TypeOK' /\ (msgs \in Transfers)'
  BY TypeNext DEF IInv, Next
<1>2. /\ txSize' = msgs'[m'].tx /\ rxSize' = msgs'[m'].rx /\ rxSkip' = msgs'[m'].skip
      /\ txWritten' = 0 /\ rxWritten' = 0 /\ mosi' = <<>> /\ pc' = "loop"
  BY DEF NextMessage, Load
<1>3. msgs'[m'].tx \in Nat /\ msgs'[m'].skip \in Nat /\ msgs'[m'].rx \in Nat
  <2>1. msgs'[m'] \in Message
    BY <1>1 DEF TypeOK
  <2> QED
    BY <2>1 DEF Message
<1>4. Counters' /\ AtExchange' /\ AtReply' /\ HeldThroughMessage'
  BY <1>2, <1>3 DEF Counters, AtExchange, AtReply, HeldThroughMessage, Taken
<1>5. AtLoop'
  <2>1. OnTrack(0)'
    BY <1>2, <1>3, FreshMessage DEF OnTrack, Taken, Skipped
  <2> QED
    BY <1>2, <1>3, <2>1 DEF AtLoop, OnTrack, Taken
<1>6. DataFaithful'
  BY <1>2, <1>3 DEF DataFaithful, Promise!Sent, Promise!Total
<1> QED
  BY <1>4, <1>5, <1>6

\* The host's other steps end the call and touch no data; the chip is only
\* released once the call has ended.
LEMMA EndInv ==
  ASSUME IInv, Return \/ Throw \/ Detach \/ UNCHANGED vars
  PROVE  Counters' /\ AtLoop' /\ AtExchange' /\ AtReply' /\ DataFaithful' /\ HeldThroughMessage'
<1>1. UNCHANGED <<msgs, m, txSize, rxSize, rxSkip, txWritten, rxWritten, chunk, reply, recv, mosi>>
  BY DEF Return, Throw, Detach, vars, host
<1>2. (pc' = pc /\ cs' = cs) \/ (pc' \in {"done", "failed"} /\ cs' = cs
                                 /\ pc # "released" /\ pc # "aborted")
      \/ pc' \in {"released", "aborted"}
  BY DEF Return, Throw, Detach, vars
<1>3. Counters'
  BY <1>1 DEF IInv, Counters, Taken
<1>4. AtLoop' /\ AtExchange' /\ AtReply'
  <2>1. CASE pc' = pc
    BY <1>1, <2>1 DEF IInv, AtLoop, AtExchange, AtReply, OnTrack, Taken, Skipped, Remaining
  <2>2. CASE pc' \notin {"loop", "exchange", "reply"}
    BY <2>2 DEF AtLoop, AtExchange, AtReply
  <2> QED
    BY <1>2, <2>1, <2>2
<1>5. DataFaithful'
  BY <1>1 DEF IInv, DataFaithful, Promise!Sent, Promise!Total
<1>6. HeldThroughMessage'
  BY <1>1, <1>2 DEF IInv, HeldThroughMessage, Remaining
<1> QED
  BY <1>3, <1>4, <1>5, <1>6

LEMMA NextInv == IInv /\ [Next]_vars => IInv'
<1> SUFFICES ASSUME IInv, [Next]_vars PROVE IInv'
  OBVIOUS
<1>1. TypeOK' /\ (msgs \in Transfers)'
  BY TypeNext DEF IInv
<1>2. Counters' /\ AtLoop' /\ AtExchange' /\ AtReply' /\ DataFaithful' /\ HeldThroughMessage'
  BY PrepareInv, ExchangeInv, DeliverInv, NextMessageInv, EndInv DEF Next
<1> QED
  BY <1>1, <1>2 DEF IInv

LEMMA Invariance == Spec => []IInv
BY InitInv, NextInv, PTL DEF Spec

(***************************************************************************)
(* transfer() with any chunking delivers the right data: the bytes sent    *)
(* are the message's in order, then filler, and what is stored is the      *)
(* device's output from clock skip on, whatever the KEEP_CS bit reads.     *)
(***************************************************************************)
THEOREM ChunksCarryTheMessage == Spec => []DataFaithful
BY Invariance, PTL DEF IInv

(***************************************************************************)
(* The flags computed by transfer() keep the chip selected between the     *)
(* chunks of a message, whatever the uninitialised bit reads.              *)
(***************************************************************************)
THEOREM ChipStaysSelected == Spec => []HeldThroughMessage
BY Invariance, PTL DEF IInv

(***************************************************************************)
(* No chunk fills a packet to the last byte (proto_pkt_prepare would leave *)
(* its payload NULL) or asks for more than a variable length field holds.  *)
(***************************************************************************)
THEOREM ChunksFitPackets == Spec => []ChunkAcceptable
<1>1. IInv => ChunkAcceptable
  <2> SUFFICES ASSUME IInv, pc = "exchange"
               PROVE  /\ RequestSize(chunk.tx, chunk.skip, chunk.rx) < Room
                      /\ chunk.rx <= RxRoom
                      /\ {chunk.tx, chunk.skip, chunk.rx} \subseteq VlenValues
    BY DEF ChunkAcceptable
  <2>1. /\ chunk.tx \in Nat /\ chunk.skip \in Nat /\ chunk.rx \in Nat
        /\ chunk.tx <= Room - 7 /\ chunk.rx <= Room - 1 /\ chunk.rx <= RxRoom
        /\ chunk.skip < Half
    <3>1. TypeOK /\ msgs \in Transfers /\ AtExchange
      BY DEF IInv
    <3>2. chunk.tx \in Nat /\ chunk.skip \in Nat /\ chunk.rx \in Nat
      BY <3>1 DEF TypeOK
    <3>3. chunk.tx <= TxRoom /\ chunk.rx <= RxRoom /\ chunk.skip <= msgs[m].skip
      BY <3>1 DEF AtExchange
    <3>4. msgs[m].skip \in Nat /\ msgs[m].skip < Half
      BY <3>1, CurrentMessage
    <3> QED
      BY <3>2, <3>3, <3>4, Rooms, HalfAssumption
  <2>2. VlenSize(chunk.skip) = 1
    BY <2>1, HalfAssumption DEF VlenSize
  <2>3. VlenSize(chunk.tx) \in 1 .. 2 /\ VlenSize(chunk.rx) \in 1 .. 2
    BY DEF VlenSize
  <2>4. RequestSize(chunk.tx, chunk.skip, chunk.rx) < Room
    BY <2>1, <2>2, <2>3, Rooms DEF RequestSize
  <2>5. \A v \in Nat : v <= Room => v \in VlenValues
    BY VlenAssumption, HalfAssumption, Rooms DEF VlenValues
  <2>6. chunk.skip \in VlenValues
    <3>1. 0 \in VlenValues /\ VlenValues = 0 .. Half * (2 * Half) - 1
      BY <2>5, Rooms DEF VlenValues
    <3>2. Half * (2 * Half) >= 4 * Half
      BY HalfAssumption
    <3> QED
      BY <2>1, <3>1, <3>2, HalfAssumption
  <2> QED
    BY <2>1, <2>4, <2>5, <2>6, Rooms
<1> QED
  BY <1>1, Invariance, PTL

-----------------------------------------------------------------------------
(***************************************************************************)
(* The refinement.  Each exchange is one Burst of the promised transfer:   *)
(* the flags are what transfer() computes, with the bit it found on the    *)
(* stack, which can tell only where the promise leaves the release open.   *)
(***************************************************************************)
Received == [k \in 1 .. rxWritten |-> recv[k]]
Result   == IF pc \in {"loop", "exchange", "reply"} THEN "running" ELSE pc

LEMMA MessageOver ==
  ASSUME IInv, pc = "loop", ~ Remaining
  PROVE  Len(mosi) = Promise!Total(msgs[m]) /\ rxWritten = msgs[m].rx
<1>1. TypeOK /\ msgs \in Transfers /\ Counters /\ AtLoop
  BY DEF IInv
<1>2. msgs[m].tx \in Nat /\ msgs[m].skip \in Nat /\ msgs[m].rx \in Nat
  BY <1>1, CurrentMessage
<1>3. txSize = 0 /\ rxSize = 0 /\ rxSkip = 0 /\ txWritten \in Nat /\ Len(mosi) \in Nat
  BY <1>1 DEF Remaining, TypeOK
<1>4. txWritten = msgs[m].tx /\ Taken = msgs[m].rx /\ Skipped = msgs[m].skip
  BY <1>1, <1>2, <1>3 DEF Counters, Taken, Skipped
<1>5. Aligned(Len(mosi), msgs[m].tx, msgs[m].skip, msgs[m].rx, msgs[m].tx, msgs[m].skip, msgs[m].rx)
  BY <1>1, <1>4 DEF AtLoop, OnTrack
<1>6. Len(mosi) = Promise!Total(msgs[m])
  BY <1>2, <1>3, <1>5 DEF Aligned, Promise!Total
<1> QED
  BY <1>1, <1>4, <1>6 DEF AtLoop

LEMMA ExchangeIsBurst ==
  ASSUME IInv, DataFaithful', Exchange
  PROVE  Promise!Burst
<1> DEFINE total == Promise!Total(msgs[m])  n == Len(mosi')
<1>1. TypeOK /\ msgs \in Transfers /\ AtExchange /\ pc = "exchange"
  BY DEF IInv, Exchange
<1>2. /\ msgs[m].tx \in Nat /\ msgs[m].skip \in Nat /\ msgs[m].rx \in Nat
      /\ msgs[m].deselect \in BOOLEAN
  BY <1>1, CurrentMessage
<1>3. Len(mosi) \in Nat /\ Clocks(chunk) \in Nat
  BY <1>1, ClocksAreMost, SMTT(30) DEF TypeOK
<1>4. n = Len(mosi) + Clocks(chunk)
  BY <1>3 DEF Exchange
<1>5. /\ pc' = "reply" /\ cs' = chunk.keep
      /\ UNCHANGED <<msgs, m, rxWritten, recv>>
  BY DEF Exchange, host
<1>6. total = Most(msgs[m].tx, msgs[m].skip + msgs[m].rx) /\ total \in Nat
  BY <1>2 DEF Promise!Total, Most
<1>7. /\ 1 <= Clocks(chunk) /\ Len(mosi) + Clocks(chunk) <= total
      /\ Len(mosi) + Clocks(chunk) = total <=> ~ Remaining
      /\ chunk.keep \in (IF Remaining \/ ~ msgs[m].deselect THEN {TRUE} ELSE StackFlags)
  BY <1>1, <1>6 DEF AtExchange
<1>8. n \in Len(mosi) + 1 .. total
  BY <1>3, <1>4, <1>6, <1>7
<1>9. mosi' = Promise!Sent(msgs[m], n)
  BY <1>5 DEF DataFaithful, Promise!Sent
<1>10. cs' \in (IF n = total /\ msgs[m].deselect THEN StackFlags ELSE {TRUE})
  <2>1. (n = total /\ msgs[m].deselect) <=> ~ (Remaining \/ ~ msgs[m].deselect)
    BY <1>4, <1>7
  <2> QED
    BY <1>5, <1>7, <2>1
<1>11. Received' = Received /\ Result = "running" /\ Result' = "running"
  BY <1>1, <1>5 DEF Received, Result
<1> HIDE DEF n, total
<1> QED
  BY <1>5, <1>8, <1>9, <1>10, <1>11
     DEF Promise!Burst, Promise!Current, Received, Result, n, total

\* An answer without data changes nothing a caller could see.
LEMMA DeliverIsDeliver ==
  ASSUME IInv, IInv', Deliver
  PROVE  Promise!Deliver \/ UNCHANGED Promise!vars
<1>1. TypeOK /\ msgs \in Transfers /\ Counters /\ DataFaithful /\ AtReply /\ pc = "reply"
  BY DEF IInv, Deliver
<1>2. msgs[m].tx \in Nat /\ msgs[m].skip \in Nat /\ msgs[m].rx \in Nat
  BY <1>1, CurrentMessage
<1>3. chunk.rx \in Nat /\ rxWritten \in Nat /\ rxSize \in Nat /\ Len(mosi) \in Nat
  BY <1>1 DEF TypeOK
<1>4. /\ rxWritten' = rxWritten + chunk.rx /\ pc' = "loop"
      /\ UNCHANGED <<msgs, m, mosi, cs>>
  BY <1>1 DEF Deliver, AtReply
<1>5. Result = "running" /\ Result' = "running"
  BY <1>1, <1>4 DEF Result
<1>6. \A k \in 1 .. rxWritten' : recv'[k] = msgs[m].skip + k - 1
  BY <1>4 DEF IInv, DataFaithful
<1>7. CASE chunk.rx = 0
  <2>1. rxWritten' = rxWritten
    BY <1>3, <1>4, <1>7
  <2>2. \A k \in 1 .. rxWritten : recv'[k] = recv[k]
    BY <1>1, <1>6, <2>1 DEF DataFaithful
  <2>3. Received' = Received
    BY <2>1, <2>2 DEF Received
  <2> QED
    BY <1>4, <1>5, <2>3 DEF Promise!vars, Received, Result
<1>8. CASE chunk.rx > 0
  <2>1. PICK n \in Nat : n = rxWritten'
    BY <1>3, <1>4
  <2>2. n = Taken /\ n <= msgs[m].rx
    BY <1>1, <1>2, <1>3, <1>4, <2>1 DEF AtReply, Counters, Taken
  <2>3. msgs[m].skip + n <= Len(mosi)
    BY <1>1, <1>2, <1>3, <1>8, <2>2 DEF AtReply
  <2>4. Len(Received) = rxWritten
    BY <1>3 DEF Received
  <2>5. n \in Len(Received) + 1 .. msgs[m].rx
    BY <1>2, <1>3, <1>4, <1>8, <2>1, <2>2, <2>4
  <2>6. Received' = Promise!Answered(msgs[m], n)
    BY <1>6, <2>1 DEF Received, Promise!Answered
  <2> QED
    BY <1>4, <1>5, <2>3, <2>5, <2>6 DEF Promise!Deliver, Promise!Current, Received, Result
<1> QED
  BY <1>3, <1>7, <1>8

LEMMA NextIsPromised ==
  ASSUME IInv, IInv', [Next]_vars
  PROVE  [Promise!Next]_(Promise!vars)
<1> USE DEF Promise!vars
<1>1. CASE Prepare
  <2>1. UNCHANGED <<msgs, m, mosi, cs, recv, rxWritten>> /\ Received' = Received /\ Result' = Result
    BY <1>1 DEF Prepare, Received, Result
  <2> QED
    BY <2>1 DEF Received, Result
<1>2. CASE Exchange
  BY <1>2, ExchangeIsBurst DEF Promise!Next, IInv
<1>3. CASE Deliver
  BY <1>3, DeliverIsDeliver DEF Promise!Next
<1>4. CASE NextMessage \/ Return
  <2>1. pc = "loop" /\ ~ Remaining
    BY <1>4 DEF NextMessage, Return
  <2>2. Len(mosi) = Promise!Total(msgs[m]) /\ rxWritten = msgs[m].rx /\ rxWritten \in Nat
    BY <2>1, MessageOver DEF IInv, TypeOK
  <2>3. Len(Received) = msgs[m].rx
    BY <2>2 DEF Received
  <2>4. CASE NextMessage
    <3>1. /\ m < Len(msgs) /\ m' = m + 1 /\ rxWritten' = 0 /\ mosi' = <<>>
          /\ UNCHANGED <<pc, msgs, cs>>
      BY <2>4 DEF NextMessage, Load
    <3>2. Received' = <<>> /\ Result' = Result /\ Result = "running"
      BY <2>1, <3>1 DEF Received, Result
    <3> QED
      BY <2>2, <2>3, <3>1, <3>2
         DEF Promise!Next, Promise!NextMessage, Promise!Current, Received, Result
  <2>5. CASE Return
    <3>1. m = Len(msgs) /\ pc' = "done" /\ UNCHANGED <<msgs, m, mosi, recv, rxWritten, cs>>
      BY <2>5 DEF Return, host
    <3>2. Received' = Received /\ Result' = "done" /\ Result = "running"
      BY <2>1, <3>1 DEF Received, Result
    <3> QED
      BY <2>2, <2>3, <3>1, <3>2
         DEF Promise!Next, Promise!NextMessage, Promise!Current, Received, Result
  <2> QED
    BY <1>4, <2>4, <2>5
<1>5. CASE Throw
  <2>1. pc' = "failed" /\ UNCHANGED <<msgs, m, mosi, recv, rxWritten, cs>>
    BY <1>5 DEF Throw, host
  <2>2. Result = "running" /\ Result' = "failed" /\ Received' = Received
    BY <1>5, <2>1 DEF Throw, Received, Result
  <2> QED
    BY <2>1, <2>2 DEF Promise!Next, Promise!Fail, Received, Result
<1>6. CASE Detach
  <2>1. UNCHANGED <<msgs, m, mosi, recv, rxWritten>> /\ Received' = Received
    BY <1>6 DEF Detach, host, Received
  <2>2. Result \in {"done", "failed"}
    BY <1>6 DEF Detach, Result
  <2>3. \/ Result' = "released" /\ cs' = FALSE
        \/ Result' = "aborted" /\ cs' \in {cs, FALSE}
    BY <1>6 DEF Detach, Result
  <2> QED
    BY <2>1, <2>2, <2>3 DEF Promise!Next, Promise!Release, Received, Result
<1>7. CASE UNCHANGED vars
  BY <1>7 DEF vars, host
<1> QED
  BY <1>1, <1>2, <1>3, <1>4, <1>5, <1>6, <1>7 DEF Next

(***************************************************************************)
(* transfer() keeps the promise of Spi::transfer, for every packet size    *)
(* and every call, whatever the uninitialised KEEP_CS bit reads: a device  *)
(* is released too late at worst, at the end of a message that asked for   *)
(* it, and never within one.                                               *)
(***************************************************************************)
THEOREM TransferKeepsPromise == Spec => KeepsPromise
<1>1. Init => Promise!Init
  <2> SUFFICES ASSUME Init PROVE Promise!Init
    OBVIOUS
  <2>1. Received = <<>> /\ Result = "running"
    BY DEF Init, Received, Result
  <2> QED
    BY <2>1 DEF Init, Promise!Init, Received, Result
<1>2. IInv /\ IInv' /\ [Next]_vars => [Promise!Next]_(Promise!vars)
  BY NextIsPromised
<1> QED
  BY <1>1, <1>2, Invariance, PTL DEF Spec, KeepsPromise, Promise!Spec

-----------------------------------------------------------------------------
(* Every transfer comes to an end.                                         *)

\* What is left to do: the end of the call and detach(), the messages, the
\* bytes of one, the steps of a chunk.
StagesLeft ==
    CASE pc \in {"loop", "exchange", "reply"} -> 2
      [] pc \in {"done", "failed"} -> 1
      [] OTHER -> 0

StepsLeft == CASE pc = "exchange" -> 2 [] pc = "reply" -> 1 [] OTHER -> 0

ToDo == <<StagesLeft, Len(msgs) - m, txSize + rxSkip + rxSize, StepsLeft>>

(***************************************************************************)
(* Every step leaves less to do: no iteration of transfer() prepares a     *)
(* chunk of nothing, whatever is left to send, to skip and to receive      *)
(* (serial.cpp:72-133).                                                    *)
(***************************************************************************)
LessToDo == [][Below(ToDo', ToDo)]_vars

\* Below for the parts of ToDo.
LEMMA BelowByPart ==
  ASSUME NEW a1, NEW a2, NEW a3, NEW a4, NEW b1, NEW b2, NEW b3, NEW b4,
         \/ a1 \in 0 .. b1 - 1
         \/ a1 = b1 /\ a2 \in 0 .. b2 - 1
         \/ a1 = b1 /\ a2 = b2 /\ a3 \in 0 .. b3 - 1
         \/ a1 = b1 /\ a2 = b2 /\ a3 = b3 /\ a4 \in 0 .. b4 - 1
  PROVE  Below(<<a1, a2, a3, a4>>, <<b1, b2, b3, b4>>)
<1> DEFINE s == <<a1, a2, a3, a4>>
           t == <<b1, b2, b3, b4>>
<1>1. SUFFICES \E i \in 1 .. 4 : s[i] \in 0 .. t[i] - 1 /\ \A j \in 1 .. i - 1 : s[j] = t[j]
  BY DEF Below
<1>2. 1 .. 1 - 1 = {} /\ 1 .. 2 - 1 = {1} /\ 1 .. 3 - 1 = {1, 2} /\ 1 .. 4 - 1 = {1, 2, 3}
  OBVIOUS
<1>3. /\ s[1] = a1 /\ s[2] = a2 /\ s[3] = a3 /\ s[4] = a4
      /\ t[1] = b1 /\ t[2] = b2 /\ t[3] = b3 /\ t[4] = b4
  OBVIOUS
<1> HIDE DEF s, t
<1>4. CASE a1 \in 0 .. b1 - 1
  <2> WITNESS 1 \in 1 .. 4
  <2> QED
    BY <1>2, <1>3, <1>4
<1>5. CASE a1 = b1 /\ a2 \in 0 .. b2 - 1
  <2> WITNESS 2 \in 1 .. 4
  <2> QED
    BY <1>2, <1>3, <1>5
<1>6. CASE a1 = b1 /\ a2 = b2 /\ a3 \in 0 .. b3 - 1
  <2> WITNESS 3 \in 1 .. 4
  <2> QED
    BY <1>2, <1>3, <1>6
<1>7. CASE a1 = b1 /\ a2 = b2 /\ a3 = b3 /\ a4 \in 0 .. b4 - 1
  <2> WITNESS 4 \in 1 .. 4
  <2> QED
    BY <1>2, <1>3, <1>7
<1> QED
  BY <1>4, <1>5, <1>6, <1>7

\* A chunk takes something off what is left.
LEMMA ChunkNotEmpty ==
  ASSUME TypeOK, msgs \in Transfers, Prepare
  PROVE  txSize' + rxSkip' + rxSize' \in 0 .. (txSize + rxSkip + rxSize) - 1
<1> DEFINE tx == chunk'.tx  skip == chunk'.skip  rx == chunk'.rx
<1>1. /\ tx \in Nat /\ skip \in Nat /\ rx \in Nat
      /\ tx <= txSize /\ skip <= rxSkip /\ rx <= rxSize
      /\ tx = Least(TxRoom, txSize)
      /\ tx = txSize => skip = rxSkip /\ rx = Least(RxRoom, rxSize)
  BY PreparedChunk
<1>2. txSize' = txSize - tx /\ rxSkip' = rxSkip - skip /\ rxSize' = rxSize - rx
  BY DEF Prepare
<1>3. txSize \in Nat /\ rxSkip \in Nat /\ rxSize \in Nat
  BY DEF TypeOK
<1>4. rxSize > 0 \/ txSize > 0 \/ rxSkip > 0
  BY DEF Prepare, Remaining
<1> HIDE DEF tx, skip, rx
<1>5. tx + skip + rx > 0
  <2>1. CASE txSize > 0
    <3>1. tx > 0
      BY <1>1, <1>3, <2>1, Rooms DEF Least
    <3> QED
      BY <1>1, <3>1
  <2>2. CASE txSize = 0
    <3>1. skip = rxSkip /\ rx = Least(RxRoom, rxSize)
      BY <1>1, <1>3, <2>2
    <3>2. rxSize > 0 => rx > 0
      BY <1>3, <3>1, Rooms DEF Least
    <3> QED
      BY <1>1, <1>3, <1>4, <2>2, <3>1, <3>2
  <2> QED
    BY <1>3, <2>1, <2>2
<1> QED
  BY <1>1, <1>2, <1>3, <1>5

\* A step leaves less to do.
LEMMA StepShortens ==
  ASSUME TypeOK, msgs \in Transfers, Next
  PROVE  Below(ToDo', ToDo)
<1> DEFINE bytes == txSize + rxSkip + rxSize
           more == Len(msgs) - m
<1>1. SUFFICES \/ StagesLeft' \in 0 .. StagesLeft - 1
               \/ StagesLeft' = StagesLeft /\ more' \in 0 .. more - 1
               \/ StagesLeft' = StagesLeft /\ more' = more /\ bytes' \in 0 .. bytes - 1
               \/ StagesLeft' = StagesLeft /\ more' = more /\ bytes' = bytes /\ StepsLeft' \in 0 .. StepsLeft - 1
  <2>1. Below(<<StagesLeft', more', bytes', StepsLeft'>>, <<StagesLeft, more, bytes, StepsLeft>>)
    BY <1>1, BelowByPart
  <2> QED
    BY <2>1 DEF ToDo
<1>2. CASE Prepare
  <2>1. bytes' \in 0 .. bytes - 1
    BY <1>2, ChunkNotEmpty
  <2>2. StagesLeft' = StagesLeft /\ more' = more
    BY <1>2 DEF Prepare, StagesLeft
  <2> QED
    BY <2>1, <2>2
<1>3. CASE Exchange \/ Deliver
  <2>1. /\ \/ pc = "exchange" /\ pc' = "reply"
           \/ pc = "reply" /\ pc' = "loop"
        /\ UNCHANGED <<msgs, m, txSize, rxSkip, rxSize>>
    BY <1>3 DEF Exchange, Deliver, host
  <2> QED
    BY <2>1 DEF StagesLeft, StepsLeft
<1>4. CASE NextMessage
  <2>1. UNCHANGED <<pc, msgs>> /\ m' = m + 1 /\ m < Len(msgs)
    BY <1>4 DEF NextMessage
  <2>2. m \in Nat /\ Len(msgs) \in Nat
    BY DEF TypeOK
  <2>3. more' \in 0 .. more - 1
    BY <2>1, <2>2
  <2> QED
    BY <2>1, <2>3 DEF StagesLeft
<1>5. CASE Return \/ Throw \/ Detach
  <2>1. \/ pc \in {"loop", "exchange", "reply"} /\ pc' \in {"done", "failed"}
        \/ pc \in {"done", "failed"} /\ pc' \in {"released", "aborted"}
    BY <1>5 DEF Return, Throw, Detach
  <2> QED
    BY <2>1 DEF StagesLeft
<1> QED
  BY <1>2, <1>3, <1>4, <1>5 DEF Next

(***************************************************************************)
(* transfer() does not go on for ever, with messages of any length and     *)
(* packets of any size that MemAssumption allows: each of its chunks sends *)
(* something, skips something or receives something (serial.cpp:72-133).   *)
(***************************************************************************)
THEOREM TransfersComeToAnEnd == Spec => LessToDo
<1>1. TypeOK /\ msgs \in Transfers /\ [Next]_vars => [Below(ToDo', ToDo)]_vars
  BY StepShortens
<1> QED
  BY <1>1, TypeInit, TypeNext, PTL DEF Spec, LessToDo
=============================================================================
