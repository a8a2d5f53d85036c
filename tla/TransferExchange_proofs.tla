----------------------- MODULE TransferExchange_proofs -----------------------
(***************************************************************************)
(* Proofs about one SPI transfer in the shared buffers, for every buffer   *)
(* size, every boundary of the variable length fields and every set of     *)
(* requests within the room the protocol offers.                           *)
(***************************************************************************)
EXTENDS TransferExchange, TLAPS

-----------------------------------------------------------------------------
(* Sizes.                                                                  *)

LEMMA VlenSizeRange == \A v \in Nat : VlenSize(v) \in {1, 2}
  BY DEF VlenSize

\* The sizes a request may carry.
LEMMA RequestRange ==
  ASSUME NEW r \in Requests
  PROVE  /\ r = [tx |-> r.tx, skip |-> r.skip, rx |-> r.rx, keep |-> r.keep]
         /\ r.tx \in Nat /\ r.skip \in Nat /\ r.rx \in Nat /\ r.keep \in BOOLEAN
         /\ r.tx \in VlenValues /\ r.skip \in VlenValues /\ r.rx \in VlenValues
         /\ r.rx <= Room - 1 /\ r.tx <= Room - 7
<1>1. Room \in Nat /\ Half * (2 * Half) \in Nat /\ Room <= Half * (2 * Half) - 1
  <2>1. 2 * Half \in Nat /\ \A m, n \in Nat : m * n \in Nat
    BY HalfAssumption
  <2> QED
    BY <2>1, HalfAssumption, VlenAssumption DEF VlenValues
<1>2. RequestRoom(Room) = Room - 7 /\ ResponseRoom(Room) = Room - 1
  BY <1>1, MemAssumption DEF RequestRoom, ResponseRoom
<1>3. r \in [tx : 0 .. Room - 7, skip : VlenValues, rx : 0 .. Room - 1, keep : BOOLEAN]
  BY <1>2, RequestAssumption
<1>4. r = [tx |-> r.tx, skip |-> r.skip, rx |-> r.rx, keep |-> r.keep]
  BY <1>3
<1>5. r.tx \in 0 .. Room - 7 /\ r.skip \in VlenValues /\ r.rx \in 0 .. Room - 1 /\ r.keep \in BOOLEAN
  BY <1>3
<1> QED
  BY <1>1, <1>4, <1>5, MemAssumption DEF VlenValues

\* A buffer has room for a frame whose payload is one byte short of Room: the
\* check value _getMaxPayloadSize forgets is paid for by ResponseRoom.
LEMMA RoomForFrame ==
  ASSUME NEW p \in Nat, p < Room
  PROVE  FrameSize(p) <= MemSize
<1>1. MemSize \in Nat /\ MemSize > 3 /\ Half \in Nat
  BY MemAssumption, HalfAssumption DEF Room, MaxPayload
<1>2. CASE VlenSize(MemSize - 3) = 2
  <2>1. Room = MemSize - 4 /\ VlenSize(p) \in {1, 2}
    BY <1>1, <1>2, VlenSizeRange DEF Room, MaxPayload
  <2> QED
    BY <1>1, <2>1 DEF FrameSize
<1>3. CASE VlenSize(MemSize - 3) # 2
  <2>1. Room = MemSize - 3 /\ VlenSize(p) = 1
    BY <1>1, <1>3 DEF Room, MaxPayload, VlenSize
  <2> QED
    BY <1>1, <2>1 DEF FrameSize
<1> QED
  BY <1>2, <1>3

-----------------------------------------------------------------------------
(* The variable length fields.                                             *)

LEMMA DivisionTheorem ==
  ASSUME NEW a \in Nat, NEW b \in Nat, b > 0
  PROVE  a \div b \in Nat /\ a % b \in Nat /\ (a \div b) * b + (a % b) = a
<1>1. a \div b \in Nat
  OBVIOUS
<1>2. a % b \in Nat
  OBVIOUS
<1>3. (a \div b) * b + (a % b) = a
  OBVIOUS
<1> QED
  BY <1>1, <1>2, <1>3

LEMMA EncodeVlenType ==
  ASSUME NEW v \in Nat
  PROVE  /\ EncodeVlen(v) \in Seq(Cell) /\ Len(EncodeVlen(v)) = VlenSize(v)
<1>1. Half \in Nat /\ Half + (v \div (2 * Half)) \in Nat /\ v % (2 * Half) \in Nat
  BY HalfAssumption
<1>2. \A n \in Nat : Num(n) \in Cell
  BY DEF Num, Cell
<1> QED
  BY <1>1, <1>2, HalfAssumption DEF EncodeVlen, VlenSize

\* What is encoded is what is decoded, over the whole 15-bit range.
LEMMA VlenRoundTrip ==
  ASSUME NEW m, NEW c \in Nat, NEW v \in VlenValues,
         \A k \in 1 .. VlenSize(v) : m[c + k - 1] = EncodeVlen(v)[k]
  PROVE  DecodeVlen(m, c) = v
<1>1. Half \in Nat /\ v \in Nat
  BY HalfAssumption DEF VlenValues
<1>2. CASE v < Half
  <2>1. m[c] = Num(v)
    BY <1>1, <1>2 DEF VlenSize, EncodeVlen
  <2> QED
    BY <1>1, <1>2, <2>1 DEF DecodeVlen, Num
<1>3. CASE v >= Half
  <2>1. m[c] = Num(Half + (v \div (2 * Half))) /\ m[c + 1] = Num(v % (2 * Half))
    BY <1>1, <1>3 DEF VlenSize, EncodeVlen
  <2> DEFINE hi == v \div (2 * Half)
             lo == v % (2 * Half)
  <2>2. hi \in Nat /\ lo \in Nat /\ hi * (2 * Half) + lo = v
    BY <1>1, HalfAssumption, DivisionTheorem
  <2>3. m[c].n = Half + hi /\ m[c + 1].n = lo
    BY <2>1 DEF Num
  <2> HIDE DEF hi, lo
  <2>4. Half + hi >= Half /\ (Half + hi) - Half = hi
    BY <1>1, <2>2
  <2> QED
    BY <2>2, <2>3, <2>4 DEF DecodeVlen
<1> QED
  BY <1>1, <1>2, <1>3

-----------------------------------------------------------------------------
(* The request's layout: where each field starts.                          *)

DataOf(r) == [n \in 1 .. r.tx |-> Tx(n - 1)]
SkipAt(r) == 1 + VlenSize(r.tx) + r.tx
RxAt(r)   == SkipAt(r) + VlenSize(r.skip)

\* u is s followed by t, whose lengths are m and n.
IsConcat(u, s, m, t, n) ==
    /\ u \in Seq(Cell) /\ Len(u) = m + n
    /\ \A k \in 1 .. m : u[k] = s[k]
    /\ \A k \in 1 .. n : u[m + k] = t[k]

LEMMA Concat ==
  ASSUME NEW s \in Seq(Cell), NEW t \in Seq(Cell), NEW m \in Nat, NEW n \in Nat,
         Len(s) = m, Len(t) = n
  PROVE  IsConcat(s \o t, s, m, t, n)
  BY DEF IsConcat

\* p is the concatenation of five sequences whose lengths are l1 .. l5.
InOrder(p, s1, l1, s2, l2, s3, l3, s4, l4, s5, l5) ==
    /\ p \in Seq(Cell) /\ Len(p) = l1 + l2 + l3 + l4 + l5
    /\ \A k \in 1 .. l1 : p[k] = s1[k]
    /\ \A k \in 1 .. l2 : p[l1 + k] = s2[k]
    /\ \A k \in 1 .. l3 : p[(l1 + l2) + k] = s3[k]
    /\ \A k \in 1 .. l4 : p[(l1 + l2 + l3) + k] = s4[k]
    /\ \A k \in 1 .. l5 : p[(l1 + l2 + l3 + l4) + k] = s5[k]

LEMMA ConcatFive ==
  ASSUME NEW s1 \in Seq(Cell), NEW s2 \in Seq(Cell), NEW s3 \in Seq(Cell),
         NEW s4 \in Seq(Cell), NEW s5 \in Seq(Cell),
         NEW l1 \in Nat, NEW l2 \in Nat, NEW l3 \in Nat, NEW l4 \in Nat, NEW l5 \in Nat,
         Len(s1) = l1, Len(s2) = l2, Len(s3) = l3, Len(s4) = l4, Len(s5) = l5
  PROVE  InOrder(s1 \o s2 \o s3 \o s4 \o s5, s1, l1, s2, l2, s3, l3, s4, l4, s5, l5)
<1>1. PICK m2 \in Nat, m3 \in Nat, m4 \in Nat :
          m2 = l1 + l2 /\ m3 = l1 + l2 + l3 /\ m4 = l1 + l2 + l3 + l4
  OBVIOUS
<1>2. PICK p2 : p2 = s1 \o s2
  OBVIOUS
<1>3. PICK p3 : p3 = p2 \o s3
  OBVIOUS
<1>4. PICK p4 : p4 = p3 \o s4
  OBVIOUS
<1>5. PICK p5 : p5 = p4 \o s5
  OBVIOUS
<1>6. IsConcat(p2, s1, l1, s2, l2)
  BY <1>2, Concat
<1>7. p2 \in Seq(Cell) /\ Len(p2) = m2
  BY <1>1, <1>6 DEF IsConcat
<1>8. IsConcat(p3, p2, m2, s3, l3)
  BY <1>3, <1>7, Concat
<1>9. p3 \in Seq(Cell) /\ Len(p3) = m3
  BY <1>1, <1>8 DEF IsConcat
<1>10. IsConcat(p4, p3, m3, s4, l4)
  BY <1>4, <1>9, Concat
<1>11. p4 \in Seq(Cell) /\ Len(p4) = m4
  BY <1>1, <1>10 DEF IsConcat
<1>12. IsConcat(p5, p4, m4, s5, l5)
  BY <1>5, <1>11, Concat
<1>13. \A k \in 1 .. m3 : p5[k] = p3[k]
  <2>1. \A k \in 1 .. m4 : p5[k] = p4[k]
    BY <1>12 DEF IsConcat
  <2>2. \A k \in 1 .. m3 : p4[k] = p3[k]
    BY <1>10 DEF IsConcat
  <2>3. \A k \in 1 .. m3 : k \in 1 .. m4
    BY <1>1
  <2> QED
    BY <2>1, <2>2, <2>3, Zenon
<1>14. \A k \in 1 .. m2 : p5[k] = p2[k]
  <2>1. \A k \in 1 .. m2 : p3[k] = p2[k]
    BY <1>8 DEF IsConcat
  <2>2. \A k \in 1 .. m2 : k \in 1 .. m3
    BY <1>1
  <2> QED
    BY <1>13, <2>1, <2>2, Zenon
<1>15. \A k \in 1 .. l1 : p5[k] = s1[k]
  BY <1>1, <1>6, <1>14 DEF IsConcat
<1>16. \A k \in 1 .. l2 : p5[l1 + k] = s2[k]
  BY <1>1, <1>6, <1>14 DEF IsConcat
<1>17. \A k \in 1 .. l3 : p5[m2 + k] = s3[k]
  BY <1>1, <1>8, <1>13 DEF IsConcat
<1>18. \A k \in 1 .. l4 : p5[m3 + k] = s4[k]
  BY <1>1, <1>10, <1>12 DEF IsConcat
<1>19. p5 = s1 \o s2 \o s3 \o s4 \o s5
  BY <1>2, <1>3, <1>4, <1>5
<1>20. Len(p5) = l1 + l2 + l3 + l4 + l5
  BY <1>1, <1>12 DEF IsConcat
<1>21. p5 \in Seq(Cell) /\ \A k \in 1 .. l5 : p5[m4 + k] = s5[k]
  BY <1>12 DEF IsConcat
<1> QED
  BY <1>1, <1>21, <1>15, <1>16, <1>17, <1>18, <1>19, <1>20 DEF InOrder

LEMMA RequestLayout ==
  ASSUME NEW r \in Requests
  PROVE  LET p == EncodeRequest(r)
         IN  /\ p \in Seq(Cell)
             /\ Len(p) = RequestSize(r.tx, r.skip, r.rx)
             /\ p[1] = Num(IF r.keep THEN 1 ELSE 0)
             /\ \A k \in 1 .. VlenSize(r.tx) : p[1 + k] = EncodeVlen(r.tx)[k]
             /\ \A k \in 1 .. r.tx : p[(1 + VlenSize(r.tx)) + k] = Tx(k - 1)
             /\ \A k \in 1 .. VlenSize(r.skip) : p[SkipAt(r) + k] = EncodeVlen(r.skip)[k]
             /\ \A k \in 1 .. VlenSize(r.rx) : p[RxAt(r) + k] = EncodeVlen(r.rx)[k]
<1> DEFINE f == <<Num(IF r.keep THEN 1 ELSE 0)>>
<1>1. r.tx \in Nat /\ r.skip \in Nat /\ r.rx \in Nat
  BY RequestRange
<1>2. VlenSize(r.tx) \in Nat /\ VlenSize(r.skip) \in Nat /\ VlenSize(r.rx) \in Nat
  BY <1>1, VlenSizeRange
<1>3. f \in Seq(Cell) /\ Len(f) = 1 /\ f[1] = Num(IF r.keep THEN 1 ELSE 0)
  <2>1. Num(IF r.keep THEN 1 ELSE 0) \in Cell
    BY DEF Num, Cell
  <2> QED
    BY <2>1
<1>4. DataOf(r) \in Seq(Cell) /\ Len(DataOf(r)) = r.tx /\ \A k \in 1 .. r.tx : DataOf(r)[k] = Tx(k - 1)
  <2>1. \A k \in 1 .. r.tx : Tx(k - 1) \in Cell
    BY <1>1 DEF Tx, Cell
  <2> QED
    BY <1>1, <2>1 DEF DataOf
<1>5. /\ EncodeVlen(r.tx) \in Seq(Cell) /\ Len(EncodeVlen(r.tx)) = VlenSize(r.tx)
      /\ EncodeVlen(r.skip) \in Seq(Cell) /\ Len(EncodeVlen(r.skip)) = VlenSize(r.skip)
      /\ EncodeVlen(r.rx) \in Seq(Cell) /\ Len(EncodeVlen(r.rx)) = VlenSize(r.rx)
  BY <1>1, EncodeVlenType
<1> DEFINE p == f \o EncodeVlen(r.tx) \o DataOf(r) \o EncodeVlen(r.skip) \o EncodeVlen(r.rx)
<1>6. EncodeRequest(r) = p
  BY DEF EncodeRequest, DataOf
<1> HIDE DEF f
<1>7. PICK one \in Nat : one = 1
  OBVIOUS
<1>8. InOrder(p, f, one, EncodeVlen(r.tx), VlenSize(r.tx), DataOf(r), r.tx,
              EncodeVlen(r.skip), VlenSize(r.skip), EncodeVlen(r.rx), VlenSize(r.rx))
  <2>1. Len(f) = one
    BY <1>3, <1>7
  <2> QED
    BY <1>1, <1>2, <1>3, <1>4, <1>5, <2>1, ConcatFive
<1> HIDE DEF p
<1> QED
  BY <1>1, <1>2, <1>3, <1>4, <1>6, <1>7, <1>8 DEF InOrder, RequestSize, SkipAt, RxAt

\* A buffer that starts with the request's payload decodes to the request, and
\* holds the data to send where the firmware will look for it.
LEMMA DecodeEncoded ==
  ASSUME NEW r \in Requests, NEW m,
         \A c \in 0 .. RequestSize(r.tx, r.skip, r.rx) - 1 : m[c] = EncodeRequest(r)[c + 1]
  PROVE  /\ DecodeRequest(m) = r
         /\ \A n \in 0 .. r.tx - 1 : m[TxCell(r, n)] = Tx(n)
<1> DEFINE p == EncodeRequest(r)
           size == RequestSize(r.tx, r.skip, r.rx)
<1>1. /\ r.tx \in Nat /\ r.skip \in Nat /\ r.rx \in Nat /\ r.keep \in BOOLEAN
      /\ r.tx \in VlenValues /\ r.skip \in VlenValues /\ r.rx \in VlenValues
      /\ r = [tx |-> r.tx, skip |-> r.skip, rx |-> r.rx, keep |-> r.keep]
  BY RequestRange
<1>2. VlenSize(r.tx) \in {1, 2} /\ VlenSize(r.skip) \in {1, 2} /\ VlenSize(r.rx) \in {1, 2}
  BY <1>1, VlenSizeRange
<1>3. size = RxAt(r) + VlenSize(r.rx) /\ SkipAt(r) \in Nat /\ RxAt(r) \in Nat /\ size \in Nat
  BY <1>1, <1>2 DEF RequestSize, RxAt, SkipAt
<1>4. /\ p[1] = Num(IF r.keep THEN 1 ELSE 0)
      /\ \A k \in 1 .. VlenSize(r.tx) : p[1 + k] = EncodeVlen(r.tx)[k]
      /\ \A k \in 1 .. r.tx : p[(1 + VlenSize(r.tx)) + k] = Tx(k - 1)
      /\ \A k \in 1 .. VlenSize(r.skip) : p[SkipAt(r) + k] = EncodeVlen(r.skip)[k]
      /\ \A k \in 1 .. VlenSize(r.rx) : p[RxAt(r) + k] = EncodeVlen(r.rx)[k]
  BY RequestLayout
<1> HIDE DEF p, size
<1>5. \A c \in 0 .. size - 1 : m[c] = p[c + 1]
  BY DEF p, size
<1>6. m[0].n = IF r.keep THEN 1 ELSE 0
  <2>1. m[0] = p[1]
    BY <1>2, <1>3, <1>5
  <2> QED
    BY <1>4, <2>1 DEF Num
<1>7. DecodeVlen(m, 1) = r.tx
  <2>1. \A k \in 1 .. VlenSize(r.tx) : m[1 + k - 1] = EncodeVlen(r.tx)[k]
    <3> TAKE k \in 1 .. VlenSize(r.tx)
    <3>1. k \in 0 .. size - 1 /\ 1 + k - 1 = k /\ 1 + k = k + 1
      BY <1>1, <1>2, <1>3 DEF RxAt, SkipAt
    <3> QED
      BY <1>4, <1>5, <3>1
  <2> QED
    BY <1>1, <2>1, VlenRoundTrip
<1>8. DecodeVlen(m, SkipAt(r)) = r.skip
  <2>1. \A k \in 1 .. VlenSize(r.skip) : m[SkipAt(r) + k - 1] = EncodeVlen(r.skip)[k]
    <3> TAKE k \in 1 .. VlenSize(r.skip)
    <3>1. SkipAt(r) + k - 1 \in 0 .. size - 1 /\ (SkipAt(r) + k - 1) + 1 = SkipAt(r) + k
      BY <1>1, <1>2, <1>3 DEF RxAt
    <3> QED
      BY <1>4, <1>5, <3>1
  <2> QED
    BY <1>1, <1>3, <2>1, VlenRoundTrip
<1>9. DecodeVlen(m, RxAt(r)) = r.rx
  <2>1. \A k \in 1 .. VlenSize(r.rx) : m[RxAt(r) + k - 1] = EncodeVlen(r.rx)[k]
    <3> TAKE k \in 1 .. VlenSize(r.rx)
    <3>1. RxAt(r) + k - 1 \in 0 .. size - 1 /\ (RxAt(r) + k - 1) + 1 = RxAt(r) + k
      BY <1>1, <1>2, <1>3
    <3> QED
      BY <1>4, <1>5, <3>1
  <2> QED
    BY <1>1, <1>3, <2>1, VlenRoundTrip
<1>10. DecodeRequest(m) = r
  <2>1. DecodeRequest(m) = [tx |-> r.tx, skip |-> r.skip, rx |-> r.rx, keep |-> m[0].n = 1]
    BY <1>7, <1>8, <1>9 DEF DecodeRequest, SkipAt, RxAt
  <2>2. (m[0].n = 1) = r.keep
    BY <1>1, <1>6
  <2> QED
    BY <1>1, <2>1, <2>2
<1>11. \A n \in 0 .. r.tx - 1 : m[TxCell(r, n)] = Tx(n)
  <2> TAKE n \in 0 .. r.tx - 1
  <2>1. /\ TxCell(r, n) \in 0 .. size - 1 /\ n + 1 \in 1 .. r.tx /\ (n + 1) - 1 = n
        /\ TxCell(r, n) + 1 = (1 + VlenSize(r.tx)) + (n + 1)
    BY <1>1, <1>2, <1>3 DEF TxCell, RxAt, SkipAt
  <2> QED
    BY <1>4, <1>5, <2>1
<1> QED
  BY <1>10, <1>11

-----------------------------------------------------------------------------
(***************************************************************************)
(* The inductive invariant.  Through the burst: the bytes already sent are *)
(* right, the data still to be sent is still in the buffer, the bytes      *)
(* already read are in their cells, and toRecv counts those that are not.  *)
(***************************************************************************)
Stored(r, n) == IF n <= r.skip THEN 0 ELSE IF n - r.skip < r.rx THEN n - r.skip ELSE r.rx

SentSoFar ==
    /\ Len(mosi) = i
    /\ MosiFaithful

StillToSend ==
    Separate(request) =>
        \A n \in 0 .. request.tx - 1 : n >= i => mem[TxCell(request, n)] = Tx(n)

AnswerSoFar ==
    \A k \in 0 .. Stored(request, i) - 1 : mem[RxCell(request, k)] = Miso(request.skip + k)

BuildInv  == pc \in {"build", "decode", "fault"} => mosi = <<>>
DecodeInv ==
    pc = "decode" =>
        /\ payload = EncodeRequest(request)
        /\ RequestSize(request.tx, request.skip, request.rx) < Room
BurstInv ==
    pc \in {"burst", "reply"} =>
        /\ got = request
        /\ i <= Clocks(request)
        /\ toRecv = request.rx - Stored(request, i)
        /\ SentSoFar /\ StillToSend /\ AnswerSoFar
ReplyInv == pc = "reply" => i = Clocks(request)
FaultInv == pc = "fault" => RequestSize(request.tx, request.skip, request.rx) >= Room
DoneInv  == pc = "done" => got = request /\ MosiFaithful /\ AnswerFaithful

IInv == TypeOK /\ BuildInv /\ DecodeInv /\ BurstInv /\ ReplyInv /\ FaultInv /\ DoneInv

-----------------------------------------------------------------------------
(* What the requests allow: the cells of the answer are in the buffer, and *)
(* those of a separate answer are never cells of data still to be sent.    *)

LEMMA Numbers ==
  ASSUME NEW r \in Requests
  PROVE  /\ r.tx \in Nat /\ r.skip \in Nat /\ r.rx \in Nat
         /\ VlenSize(r.tx) \in {1, 2} /\ VlenSize(r.rx) \in {1, 2}
         /\ MemSize \in Nat /\ Room \in Nat /\ Room < MemSize
         /\ Clocks(r) \in Nat
<1>1. r.tx \in Nat /\ r.skip \in Nat /\ r.rx \in Nat
  BY RequestRange
<1>2. MemSize \in Nat /\ Room \in Nat /\ Room < MemSize
  BY MemAssumption, HalfAssumption DEF Room, MaxPayload
<1> QED
  BY <1>1, <1>2, VlenSizeRange DEF Clocks

LEMMA AnswerFits ==
  ASSUME NEW r \in Requests
  PROVE  /\ FrameSize(r.rx) <= MemSize /\ RxCell(r, r.rx) < MemSize
         /\ \A k \in 0 .. r.rx - 1 : RxCell(r, k) \in Cells
<1>1. r.rx \in Nat /\ r.rx < Room
  BY RequestRange, Numbers
<1>2. FrameSize(r.rx) <= MemSize
  BY <1>1, RoomForFrame
<1> QED
  BY <1>1, <1>2, Numbers DEF FrameSize, RxCell, Cells

LEMMA DataInBuffer ==
  ASSUME NEW r \in Requests, NEW n \in 0 .. r.tx - 1
  PROVE  TxCell(r, n) \in Cells
  BY RequestRange, Numbers DEF TxCell, Cells

LEMMA AnswerBehindData ==
  ASSUME NEW r \in Requests, Separate(r), NEW n \in Nat, r.skip <= n, n - r.skip < r.rx,
         NEW t \in 0 .. r.tx - 1, t >= n + 1
  PROVE  RxCell(r, n - r.skip) # TxCell(r, t)
  BY Numbers DEF Separate, RxCell, TxCell

LEMMA CellTypes == \A n \in Nat : Tx(n) \in Cell /\ Miso(n) \in Cell /\ Filler \in Cell /\ Junk \in Cell
  BY DEF Tx, Miso, Filler, Junk, Cell

-----------------------------------------------------------------------------
(* Every action preserves the inductive invariant.                         *)

LEMMA InitInv == Init => IInv
<1> SUFFICES ASSUME Init PROVE IInv
  OBVIOUS
<1>1. TypeOK
  BY CellTypes DEF Init, TypeOK
<1> QED
  BY <1>1
  DEF Init, IInv, BuildInv, DecodeInv, BurstInv, ReplyInv, FaultInv, DoneInv

LEMMA BuildStep == IInv /\ Build => IInv'
<1> SUFFICES ASSUME IInv, Build PROVE IInv'
  OBVIOUS
<1>1. EncodeRequest(request) \in Seq(Cell)
  BY RequestLayout DEF IInv, TypeOK
<1>2. TypeOK'
  BY <1>1 DEF IInv, TypeOK, Build
<1>3. BuildInv' /\ DecodeInv' /\ BurstInv' /\ ReplyInv' /\ FaultInv' /\ DoneInv'
  BY DEF IInv, Build, BuildInv, DecodeInv, BurstInv, ReplyInv, FaultInv, DoneInv
<1> QED
  BY <1>2, <1>3 DEF IInv

LEMMA DecodeStep == IInv /\ Decode => IInv'
<1> SUFFICES ASSUME IInv, Decode PROVE IInv'
  OBVIOUS
<1> DEFINE size == RequestSize(request.tx, request.skip, request.rx)
<1>1. request \in Requests /\ request' = request /\ mosi = <<>> /\ mosi' = <<>>
  BY DEF IInv, TypeOK, BuildInv, Decode
<1>2. payload = EncodeRequest(request) /\ size < Room
  BY DEF IInv, DecodeInv, Decode
<1>3. Len(payload) = size /\ payload \in Seq(Cell) /\ size \in Nat
  BY <1>1, <1>2, RequestLayout
<1>4. \A c \in 0 .. size - 1 : mem'[c] = EncodeRequest(request)[c + 1]
  <2> TAKE c \in 0 .. size - 1
  <2>1. c \in Cells /\ c < Len(payload)
    BY <1>1, <1>2, <1>3, Numbers DEF Cells
  <2> QED
    BY <1>2, <2>1 DEF Decode
<1>5. got' = request /\ \A n \in 0 .. request.tx - 1 : mem'[TxCell(request, n)] = Tx(n)
  BY <1>1, <1>4, DecodeEncoded DEF Decode
<1>6. mem' \in [Cells -> Cell]
  <2>1. ASSUME NEW c \in Cells PROVE (IF c < Len(payload) THEN payload[c + 1] ELSE mem[c]) \in Cell
    <3>1. c \in Nat /\ mem[c] \in Cell
      <4>1. MemSize \in Nat
        BY <1>1, Numbers
      <4>2. mem \in [Cells -> Cell]
        BY DEF IInv, TypeOK
      <4>3. c \in Nat
        BY <2>1, <4>1 DEF Cells
      <4> QED
        BY <2>1, <4>2, <4>3
    <3>2. c < Len(payload) => payload[c + 1] \in Cell
      BY <1>3, <3>1
    <3> QED
      BY <3>1, <3>2
  <2> QED
    BY <2>1 DEF Decode
<1>7. got' \in [tx : Nat, skip : Nat, rx : Nat, keep : BOOLEAN] /\ toRecv' = request.rx
  BY <1>1, <1>5, RequestRange DEF Decode
<1>8. TypeOK'
  BY <1>1, <1>6, <1>7, RequestRange DEF IInv, TypeOK, Decode
<1>9. BurstInv'
  <2>1. i' = 0 /\ Stored(request', i') = 0
    BY <1>1, Numbers DEF Decode, Stored
  <2>2. SentSoFar'
    BY <1>1, <2>1 DEF SentSoFar, MosiFaithful
  <2>3. StillToSend' /\ AnswerSoFar'
    BY <1>1, <1>5, <2>1 DEF StillToSend, AnswerSoFar
  <2> QED
    BY <1>1, <1>5, <1>7, <2>1, <2>2, <2>3, Numbers DEF BurstInv
<1> QED
  BY <1>8, <1>9 DEF IInv, Decode, BuildInv, DecodeInv, ReplyInv, FaultInv, DoneInv

\* The heart of the matter: one byte out of the buffer and one byte into it.
LEMMA ClockStep == IInv /\ Clock => IInv'
<1> SUFFICES ASSUME IInv, Clock PROVE IInv'
  OBVIOUS
<1> DEFINE r == request
<1>1. /\ r \in Requests /\ request' = r /\ got = r /\ got' = r /\ pc = "burst" /\ pc' = "burst"
      /\ i \in Nat /\ i' = i + 1 /\ i < Clocks(r)
      /\ mem \in [Cells -> Cell] /\ mosi \in Seq(Cell)
  BY DEF IInv, TypeOK, BurstInv, Clock
<1>2. /\ toRecv = r.rx - Stored(r, i) /\ Len(mosi) = i
      /\ MosiFaithful /\ StillToSend /\ AnswerSoFar
  BY <1>1 DEF IInv, BurstInv, SentSoFar
<1>3. /\ r.tx \in Nat /\ r.skip \in Nat /\ r.rx \in Nat
      /\ VlenSize(r.tx) \in {1, 2} /\ VlenSize(r.rx) \in {1, 2} /\ Clocks(r) \in Nat
  BY <1>1, Numbers
<1> DEFINE storing == i >= r.skip /\ i - r.skip < r.rx
           out == IF i < r.tx THEN mem[TxCell(r, i)] ELSE Filler
<1>4. storing <=> toRecv > 0 /\ i >= r.skip
  BY <1>1, <1>2, <1>3 DEF Stored
<1>5. /\ storing => mem' = [mem EXCEPT ![RxCell(r, i - r.skip)] = Miso(i)] /\ toRecv' = toRecv - 1
      /\ ~ storing => mem' = mem /\ toRecv' = toRecv
      /\ mosi' = Append(mosi, out)
  BY <1>1, <1>4 DEF Clock
<1>6. /\ storing => Stored(r, i + 1) = Stored(r, i) + 1 /\ Stored(r, i) = i - r.skip
      /\ ~ storing => Stored(r, i + 1) = Stored(r, i)
      /\ Stored(r, i) \in Nat /\ Stored(r, i) <= r.rx
  BY <1>1, <1>3 DEF Stored
<1>7. toRecv' = r.rx - Stored(r, i') /\ toRecv' \in Nat /\ i' <= Clocks(r)
  <2>1. Stored(r, i') = Stored(r, i + 1) /\ i' <= Clocks(r)
    BY <1>1, <1>3
  <2>2. CASE storing
    <3>1. toRecv' = toRecv - 1 /\ Stored(r, i') = Stored(r, i) + 1 /\ toRecv > 0
      BY <1>4, <1>5, <1>6, <2>1, <2>2
    <3>2. toRecv = r.rx - Stored(r, i) /\ r.rx \in Nat /\ Stored(r, i) \in Nat
      BY <1>2, <1>3, <1>6
    <3>3. \A n, s \in Nat : n - s > 0 => (n - s) - 1 = n - (s + 1) /\ (n - s) - 1 \in Nat
      OBVIOUS
    <3>4. r.rx - Stored(r, i) > 0
      BY <3>1, <3>2
    <3>5. (r.rx - Stored(r, i)) - 1 = r.rx - (Stored(r, i) + 1) /\ (r.rx - Stored(r, i)) - 1 \in Nat
      BY <3>2, <3>3, <3>4
    <3> QED
      BY <2>1, <3>1, <3>2, <3>5
  <2>3. CASE ~ storing
    BY <1>2, <1>3, <1>5, <1>6, <2>1, <2>3
  <2> QED
    BY <2>1, <2>2, <2>3
<1>8. out \in Cell
  <2>1. i < r.tx => TxCell(r, i) \in Cells
    BY <1>1, <1>3, DataInBuffer
  <2> QED
    BY <1>1, <2>1, CellTypes
<1>9. mem' \in [Cells -> Cell]
  BY <1>1, <1>5, CellTypes
<1>10. mosi' \in Seq(Cell) /\ Len(mosi') = i + 1 /\ mosi'[i + 1] = out
       /\ \A n \in 1 .. i : mosi'[n] = mosi[n]
  <2> HIDE DEF out
  <2> QED
    BY <1>1, <1>2, <1>5, <1>8
<1>11. TypeOK'
  BY <1>1, <1>7, <1>9, <1>10 DEF IInv, TypeOK, Clock
<1>12. MosiFaithful'
  <2> SUFFICES ASSUME Separate(r), NEW n \in 1 .. i + 1
               PROVE  mosi'[n] = IF n <= r.tx THEN Tx(n - 1) ELSE Filler
    BY <1>1, <1>10 DEF MosiFaithful
  <2>1. CASE n = i + 1
    <3>1. i < r.tx => mem[TxCell(r, i)] = Tx(i)
      BY <1>1, <1>2, <1>3 DEF StillToSend
    <3>2. n - 1 = i /\ (n <= r.tx <=> i < r.tx) /\ mosi'[n] = out
      BY <1>1, <1>3, <1>10, <2>1
    <3> QED
      BY <3>1, <3>2
  <2>2. CASE n # i + 1
    <3>1. n \in 1 .. i /\ n \in 1 .. Len(mosi)
      BY <1>1, <1>2, <2>2
    <3> QED
      BY <1>2, <1>10, <3>1 DEF MosiFaithful
  <2> QED
    BY <2>1, <2>2
<1>13. StillToSend'
  <2> SUFFICES ASSUME Separate(r), NEW n \in 0 .. r.tx - 1, n >= i + 1
               PROVE  mem'[TxCell(r, n)] = Tx(n)
    BY <1>1 DEF StillToSend
  <2>1. mem[TxCell(r, n)] = Tx(n)
    BY <1>1, <1>2 DEF StillToSend
  <2>2. CASE storing
    <3>1. RxCell(r, i - r.skip) # TxCell(r, n)
      BY <1>1, <1>3, <2>2, AnswerBehindData
    <3>2. TxCell(r, n) \in Cells
      BY <1>1, DataInBuffer
    <3> QED
      BY <1>1, <1>5, <2>1, <2>2, <3>1, <3>2
  <2>3. CASE ~ storing
    BY <1>5, <2>1, <2>3
  <2> QED
    BY <2>2, <2>3
<1>14. AnswerSoFar'
  <2> SUFFICES ASSUME NEW k \in 0 .. Stored(r, i + 1) - 1
               PROVE  mem'[RxCell(r, k)] = Miso(r.skip + k)
    BY <1>1 DEF AnswerSoFar
  <2>1. CASE storing
    <3>1. RxCell(r, i - r.skip) \in Cells /\ i - r.skip \in Nat
      BY <1>1, <1>3, <2>1, AnswerFits
    <3>2. CASE k = i - r.skip
      BY <1>1, <1>3, <1>5, <2>1, <3>1, <3>2
    <3>3. CASE k # i - r.skip
      <4>1. k \in 0 .. Stored(r, i) - 1 /\ k \in Nat
        BY <1>1, <1>3, <1>6, <2>1, <3>3
      <4>2. mem[RxCell(r, k)] = Miso(r.skip + k)
        BY <1>2, <4>1 DEF AnswerSoFar
      <4>3. RxCell(r, k) # RxCell(r, i - r.skip)
        BY <1>3, <3>1, <3>3, <4>1 DEF RxCell
      <4>4. RxCell(r, k) \in Cells
        BY <1>1, <1>3, <1>6, <4>1, AnswerFits
      <4> QED
        BY <1>1, <1>5, <2>1, <4>2, <4>3, <4>4
    <3> QED
      BY <3>2, <3>3
  <2>2. CASE ~ storing
    BY <1>2, <1>5, <1>6, <2>2 DEF AnswerSoFar
  <2> QED
    BY <2>1, <2>2
<1>15. BurstInv'
  <2>1. SentSoFar'
    BY <1>1, <1>10, <1>12 DEF SentSoFar
  <2> QED
    BY <1>1, <1>7, <1>13, <1>14, <2>1 DEF BurstInv
<1> QED
  BY <1>1, <1>11, <1>15 DEF IInv, BuildInv, DecodeInv, ReplyInv, FaultInv, DoneInv

LEMMA ReplyStep == IInv /\ Reply => IInv'
<1> SUFFICES ASSUME IInv, Reply PROVE IInv'
  OBVIOUS
<1>1. request \in Requests /\ got = request /\ i \in Nat /\ i <= Clocks(request) /\ i >= Clocks(got)
  BY DEF IInv, TypeOK, BurstInv, Reply
<1>2. i = Clocks(request)
  BY <1>1, Numbers
<1>3. TypeOK'
  BY DEF IInv, TypeOK, Reply
<1>4. BurstInv'
  BY DEF IInv, BurstInv, SentSoFar, MosiFaithful, StillToSend, AnswerSoFar, Reply
<1> QED
  BY <1>2, <1>3, <1>4 DEF IInv, BuildInv, DecodeInv, ReplyInv, FaultInv, DoneInv, Reply

LEMMA CopyOutStep == IInv /\ CopyOut => IInv'
<1> SUFFICES ASSUME IInv, CopyOut PROVE IInv'
  OBVIOUS
<1> DEFINE r == request
<1>1. /\ r \in Requests /\ got = r /\ i = Clocks(r) /\ Len(mosi) = i /\ MosiFaithful /\ AnswerSoFar
      /\ received' = [n \in 1 .. r.rx |-> mem[RxCell(r, n - 1)]]
      /\ mem \in [Cells -> Cell]
  BY DEF IInv, TypeOK, BurstInv, ReplyInv, SentSoFar, CopyOut
<1>2. r.tx \in Nat /\ r.skip \in Nat /\ r.rx \in Nat
  BY <1>1, Numbers
<1>3. Stored(r, i) = r.rx
  BY <1>1, <1>2 DEF Stored, Clocks
<1>4. \A n \in 1 .. r.rx : mem[RxCell(r, n - 1)] = Miso(r.skip + n - 1)
  <2> TAKE n \in 1 .. r.rx
  <2>1. n - 1 \in 0 .. Stored(r, i) - 1 /\ r.skip + (n - 1) = r.skip + n - 1
    BY <1>2, <1>3
  <2> QED
    BY <1>1, <2>1 DEF AnswerSoFar
<1>5. received' = [n \in 1 .. r.rx |-> Miso(r.skip + n - 1)]
  BY <1>1, <1>4
<1>6. received' \in Seq(Cell)
  <2>1. \A n \in 1 .. r.rx : Miso(r.skip + n - 1) \in Cell
    BY <1>2, CellTypes
  <2> QED
    BY <1>2, <1>5, <2>1
<1>7. TypeOK'
  BY <1>6 DEF IInv, TypeOK, CopyOut
<1>8. DoneInv'
  BY <1>1, <1>5 DEF DoneInv, MosiFaithful, AnswerFaithful, CopyOut
<1> QED
  BY <1>7, <1>8 DEF IInv, BuildInv, DecodeInv, BurstInv, ReplyInv, FaultInv, CopyOut

LEMMA NextInv == IInv /\ [Next]_vars => IInv'
<1> SUFFICES ASSUME IInv, [Next]_vars PROVE IInv'
  OBVIOUS
<1>1. CASE UNCHANGED vars
  BY <1>1
  DEF vars, IInv, TypeOK, BuildInv, DecodeInv, BurstInv, ReplyInv, FaultInv, DoneInv,
      SentSoFar, MosiFaithful, StillToSend, AnswerSoFar, AnswerFaithful
<1> QED
  BY <1>1, BuildStep, DecodeStep, ClockStep, ReplyStep, CopyOutStep DEF Next

LEMMA Invariance == Spec => []IInv
  BY InitInv, NextInv, PTL DEF Spec

-----------------------------------------------------------------------------
(* The theorems.                                                           *)

\* Every variable of the exchange keeps its type; in particular no store of
\* the burst leaves the buffer, and toRecv never goes below zero.
THEOREM TypeCorrect == Spec => []TypeOK
<1>1. IInv => TypeOK
  BY DEF IInv
<1> QED
  BY <1>1, Invariance, PTL

\* The firmware decodes the request the host encoded (request.c:88-152), for
\* every size of every field.
THEOREM RequestArrives == Spec => []RequestSurvives
<1>1. IInv => RequestSurvives
  BY DEF IInv, BurstInv, DoneInv, RequestSurvives
<1> QED
  BY <1>1, Invariance, PTL

\* The answer growing in the buffer never changes a byte still to be sent
\* (arduino/src/main.c:132-149), for every separate request.
THEOREM DeviceSeesTheMessage == Spec => []MosiFaithful
<1>1. IInv => MosiFaithful
  BY DEF IInv, TypeOK, BuildInv, BurstInv, SentSoFar, DoneInv, MosiFaithful
<1> QED
  BY <1>1, Invariance, PTL

\* What the host copies out is what the device said on the clocks asked for.
THEOREM HostSeesTheAnswer == Spec => []AnswerFaithful
<1>1. IInv => AnswerFaithful
  BY DEF IInv, DoneInv, AnswerFaithful
<1> QED
  BY <1>1, Invariance, PTL

\* Request and response frames fit the buffer, check value included, although
\* _getMaxPayloadSize leaves no room for it.
THEOREM FramesFit == Spec => []FrameFits
<1>1. IInv => FrameFits
  <2> SUFFICES ASSUME IInv PROVE FrameFits
    OBVIOUS
  <2>1. request \in Requests
    BY DEF IInv, TypeOK
  <2>2. pc = "burst" => RxCell(got, got.rx) < MemSize /\ FrameSize(got.rx) <= MemSize
    BY <2>1, AnswerFits DEF IInv, BurstInv
  <2>3. pc = "decode" => FrameSize(Len(payload)) <= MemSize
    <3> SUFFICES ASSUME pc = "decode" PROVE FrameSize(Len(payload)) <= MemSize
      OBVIOUS
    <3>1. /\ payload = EncodeRequest(request)
          /\ RequestSize(request.tx, request.skip, request.rx) < Room
      BY DEF IInv, DecodeInv
    <3>2. payload \in Seq(Cell) /\ Len(payload) = RequestSize(request.tx, request.skip, request.rx)
      BY <2>1, <3>1, RequestLayout
    <3>3. Len(payload) \in Nat
      BY <3>2
    <3> QED
      BY <3>1, <3>2, <3>3, RoomForFrame
  <2> QED
    BY <2>2, <2>3 DEF FrameFits
<1> QED
  BY <1>1, Invariance, PTL

\* The NULL payload of proto_pkt_prepare is met only by a request all of whose
\* three length fields are in the long form.
THEOREM FaultOnlyLong == Spec => []FaultNeedsLongFields
<1>1. IInv => FaultNeedsLongFields
  <2> SUFFICES ASSUME IInv, pc = "fault" PROVE FaultNeedsLongFields
    BY DEF FaultNeedsLongFields
  <2> DEFINE r == request
  <2>1. r \in Requests /\ RequestSize(r.tx, r.skip, r.rx) >= Room
    BY DEF IInv, TypeOK, FaultInv
  <2>2. /\ r.tx \in Nat /\ r.skip \in Nat /\ r.rx \in Nat /\ r.tx <= Room - 7
        /\ Room \in Nat /\ Half \in Nat
    BY <2>1, RequestRange, Numbers, HalfAssumption
  <2>3. VlenSize(r.tx) = 2 /\ VlenSize(r.skip) = 2 /\ VlenSize(r.rx) = 2
    BY <2>1, <2>2 DEF RequestSize, VlenSize
  <2>4. r.tx >= Half /\ r.skip >= Half /\ r.rx >= Half
    BY <2>3 DEF VlenSize
  <2> QED
    BY <2>2, <2>4 DEF FaultNeedsLongFields
<1> QED
  BY <1>1, Invariance, PTL
=============================================================================
