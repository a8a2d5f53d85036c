------------------------ MODULE PacketDecoder_proofs ------------------------
(***************************************************************************)
(* Proofs about the frame decoder, for every byte width, buffer size,      *)
(* command map and CRC step that satisfy the assumptions of PacketDecoder. *)
(***************************************************************************)
EXTENDS PacketDecoder, TLAPS

(***************************************************************************)
(* The inductive invariant: in each control state the bytes taken so far   *)
(* are the corresponding prefix of a frame, the context's fields are those *)
(* of its header, and the payload read so far is at the front of mem.  A   *)
(* payload still has a byte to come, unless its length was a long zero.    *)
(***************************************************************************)
Opened == frame # <<>> /\ frame[1] \in SyncBytes /\ code = CmdOf(frame[1])

Copied == \A i \in 1 .. dataRead : mem[i - 1] = frame[HeaderLen(frame) + i]

InBody ==
    /\ Opened
    /\ HasHeader(frame)
    /\ id = frame[2]
    /\ dataSize = Declared(frame)
    /\ dataSize <= MemSize
    /\ Len(frame) = HeaderLen(frame) + dataRead
    /\ Copied

WaitSyncInv ==
    state = "WAIT_SYNC" =>
        /\ dataSize = 0 /\ dataRead = 0
        /\ ret = "IDLE" => frame = <<>>
        /\ AcceptedFrame
        /\ RefusedLength

HeaderInv ==
    /\ state # "WAIT_SYNC" => ret = "IDLE"
    /\ state = "ID" => Opened /\ Len(frame) = 1 /\ dataRead = 0
    /\ state = "VLEN_HI" => Opened /\ Len(frame) = 2 /\ id = frame[2] /\ dataRead = 0
    /\ state = "VLEN_LO" =>
           /\ Opened /\ Len(frame) = 3 /\ id = frame[2] /\ dataRead = 0
           /\ Probe(frame[3]) = 2 /\ mem[0] = frame[3]

BodyInv ==
    /\ state = "PAYLOAD" => InBody /\ (dataRead < dataSize \/ LongZero(frame))
    /\ state = "CRC"     => InBody /\ dataRead = dataSize

IInv == TypeOK /\ WaitSyncInv /\ HeaderInv /\ BodyInv

\* Where a store that leaves the buffer is made.
OverrunInv == overrun => state = "PAYLOAD" /\ dataRead >= MemSize

-----------------------------------------------------------------------------
(* Facts about the number ranges the decoder computes with.                *)

\* The range of the uint16_t counter is that of a natural number, not empty.
LEMMA UInt16SizeNat == UInt16Size \in Nat /\ UInt16Size > 0
<1>1. 2 * Half \in Nat /\ 2 * Half > 0
  BY HalfAssumption
<1>2. \A m \in Nat : m > 0 => m * m \in Nat /\ m * m > 0
  OBVIOUS
<1> QED
  BY <1>1, <1>2 DEF UInt16Size

LEMMA ZeroByte == 0 \in Byte
  BY HalfAssumption DEF Byte

\* A length in two bytes decodes to a natural number.
LEMMA DecodeNat ==
  ASSUME NEW hi \in Byte, NEW lo \in Byte, Probe(hi) = 2
  PROVE  Decode(hi, lo) \in Nat
<1>1. hi - Half \in Nat /\ 2 * Half \in Nat /\ lo \in Nat
  BY HalfAssumption DEF Byte, Probe
<1>2. \A a, b, c \in Nat : a * b + c \in Nat
  OBVIOUS
<1> QED
  BY <1>1, <1>2 DEF Decode

\* The uint16_t counter does not wrap below the size of the buffer.
LEMMA NoWrap ==
  ASSUME NEW n \in Nat, n < MemSize
  PROVE  (n + 1) % UInt16Size = n + 1
<1>1. n + 1 \in Nat /\ n + 1 < UInt16Size
  BY MemAssumption, UInt16SizeNat DEF UInt16
<1> QED
  BY <1>1, UInt16SizeNat

\* Taking one more byte leaves the bytes already taken where they are.
LEMMA FrameGrows ==
  ASSUME TypeOK, NEW byte \in Byte, frame' = Append(frame, byte)
  PROVE  /\ frame' \in Seq(Byte)
         /\ frame' # <<>>
         /\ Len(frame') = Len(frame) + 1
         /\ Len(frame) \in Nat
         /\ frame'[Len(frame) + 1] = byte
         /\ \A i \in 1 .. Len(frame) : frame'[i] = frame[i]
<1>1. frame \in Seq(Byte)
  BY DEF TypeOK
<1> QED
  BY <1>1

-----------------------------------------------------------------------------
(* Every action preserves the inductive invariant.                         *)

LEMMA InitInv == Init => IInv
<1> SUFFICES ASSUME Init PROVE IInv
  OBVIOUS
<1>1. TypeOK
  <2>1. overrun \in BOOLEAN
    BY DEF Init
  <2>2. frame \in Seq(Byte) /\ packet \in [code : Byte, id : Byte, payloadSize : Nat]
    BY HalfAssumption DEF Init, Byte
  <2> QED
    BY <2>1, <2>2, HalfAssumption, MemAssumption, UInt16SizeNat
    DEF Init, TypeOK, State, Ret, Byte, UInt16
<1>2. WaitSyncInv /\ HeaderInv /\ BodyInv
  BY DEF Init, WaitSyncInv, HeaderInv, BodyInv, AcceptedFrame, RefusedLength
<1> QED
  BY <1>1, <1>2 DEF IInv

LEMMA WaitSyncStep ==
  ASSUME IInv, NEW byte \in Byte, WaitSync(byte), UNCHANGED overrun
  PROVE  IInv'
<1> USE DEF IInv, WaitSync
<1>1. TypeOK'
  <2>1. CmdOf(byte) \in Byte \/ byte \notin SyncBytes
    BY CmdAssumption
  <2>2. CrcByte(byte, 0) \in Byte
    BY ZeroByte, CrcAssumption
  <2>3. frame' \in Seq(Byte)
    <3>1. <<byte>> \in Seq(Byte) /\ <<>> \in Seq(Byte)
      OBVIOUS
    <3> QED
      BY <3>1
  <2> QED
    BY <2>1, <2>2, <2>3 DEF TypeOK, State, Ret
<1>2. CASE byte \in SyncBytes
  <2>1. state' = "ID" /\ frame' = <<byte>> /\ code' = CmdOf(byte) /\ dataRead' = 0
    BY <1>2 DEF WaitSyncInv
  <2> QED
    BY <1>1, <1>2, <2>1 DEF WaitSyncInv, HeaderInv, BodyInv, Opened
<1>3. CASE byte \notin SyncBytes
  BY <1>1, <1>3 DEF WaitSyncInv, HeaderInv, BodyInv, AcceptedFrame, RefusedLength
<1> QED
  BY <1>2, <1>3

LEMMA IdStep ==
  ASSUME IInv, NEW byte \in Byte, Id(byte), UNCHANGED overrun
  PROVE  IInv'
<1> USE DEF IInv, Id
<1>1. TypeOK'
  BY CrcAssumption DEF TypeOK, State, Ret
<1>2. Len(frame) = 1 /\ Opened /\ dataRead = 0
  BY DEF HeaderInv
<1>3. Len(frame') = 2 /\ frame'[2] = byte /\ frame'[1] = frame[1] /\ frame' # <<>>
  BY <1>2, FrameGrows
<1> QED
  BY <1>1, <1>2, <1>3 DEF WaitSyncInv, HeaderInv, BodyInv, Opened

\* What a call that completes VLEN leaves behind, whichever form VLEN had.
LEMMA CheckPayloadStep ==
  ASSUME TypeOK, Opened, id = frame[2], dataRead = 0, Len(frame) >= 2,
         NEW byte \in Byte, NEW size \in Nat, size # 0 \/ LongZero(frame'),
         frame' = Append(frame, byte), HasHeader(frame'),
         Len(frame') = HeaderLen(frame'), Declared(frame') = size,
         mem' \in [0 .. MemSize - 1 -> Byte],
         CheckPayload(byte, size), UNCHANGED overrun
  PROVE  IInv'
<1>1. frame'[1] = frame[1] /\ frame'[2] = frame[2] /\ frame' # <<>> /\ frame' \in Seq(Byte)
  BY FrameGrows
<1>2. CASE size > MemSize
  <2>1. TypeOK'
    BY <1>1, <1>2, ZeroByte DEF TypeOK, CheckPayload, AwaitPayload, Fail, DecReset, State, Ret
  <2>2. AcceptedFrame' /\ RefusedLength'
    BY <1>2 DEF AcceptedFrame, RefusedLength, CheckPayload, AwaitPayload, Fail
  <2> QED
    BY <1>2, <2>1, <2>2
    DEF IInv, WaitSyncInv, HeaderInv, BodyInv, CheckPayload, AwaitPayload, Fail, DecReset
<1>3. CASE ~ (size > MemSize)
  <2>1. TypeOK'
    BY <1>1, <1>3, CrcAssumption DEF TypeOK, CheckPayload, AwaitPayload, State, Ret
  <2>2. InBody'
    <3>1. Opened'
      BY <1>1, <1>3 DEF CheckPayload, AwaitPayload, Opened
    <3>2. dataSize' = size /\ size <= MemSize /\ dataRead' = 0 /\ id' = frame'[2]
      BY <1>1, <1>3, MemAssumption DEF CheckPayload, AwaitPayload, UInt16
    <3>3. Copied'
      BY <3>2 DEF Copied
    <3>4. Len(frame') \in Nat
      BY <1>1
    <3> QED
      BY <3>1, <3>2, <3>3, <3>4 DEF InBody
  <2>3. dataRead' < dataSize' \/ LongZero(frame')
    BY <1>3 DEF CheckPayload, AwaitPayload
  <2> QED
    BY <1>3, <2>1, <2>2, <2>3 DEF IInv, WaitSyncInv, HeaderInv, BodyInv, CheckPayload, AwaitPayload
<1> QED
  BY <1>2, <1>3

LEMMA VlenHiStep ==
  ASSUME IInv, NEW byte \in Byte, VlenHi(byte), UNCHANGED overrun
  PROVE  IInv'
<1> USE DEF IInv
<1>1. /\ Opened /\ Len(frame) = 2 /\ id = frame[2] /\ dataRead = 0
      /\ frame' = Append(frame, byte)
  BY DEF VlenHi, HeaderInv
<1>2. /\ Len(frame') = 3 /\ frame'[3] = byte /\ frame'[2] = frame[2] /\ frame'[1] = frame[1]
      /\ frame' # <<>> /\ frame' \in Seq(Byte)
  BY <1>1, FrameGrows
<1>3. CASE Probe(byte) = 1 /\ byte # 0
  <2>1. CheckPayload(byte, byte) /\ mem' = mem
    BY <1>3 DEF VlenHi
  <2>2. HasHeader(frame') /\ Len(frame') = HeaderLen(frame') /\ Declared(frame') = byte
    BY <1>2, <1>3 DEF HasHeader, HeaderLen, Declared
  <2>3. byte \in Nat /\ byte # 0 /\ mem' \in [0 .. MemSize - 1 -> Byte]
    BY <1>3, <2>1, HalfAssumption DEF Byte, TypeOK
  <2> QED
    BY <1>1, <2>1, <2>2, <2>3, CheckPayloadStep
<1>4. CASE Probe(byte) = 1 /\ byte = 0
  <2>1. TypeOK'
    BY <1>2, <1>4, CrcAssumption DEF VlenHi, TypeOK, State, Ret, Probe
  <2>2. InBody'
    BY <1>1, <1>2, <1>4, MemAssumption
    DEF VlenHi, InBody, Opened, HasHeader, HeaderLen, Declared, Copied, UInt16
  <2> QED
    BY <1>1, <1>4, <2>1, <2>2 DEF VlenHi, WaitSyncInv, HeaderInv, BodyInv
<1>5. CASE Probe(byte) = 2
  <2>1. mem'[0] = byte /\ mem' \in [0 .. MemSize - 1 -> Byte]
    BY <1>5, MemAssumption DEF VlenHi, TypeOK, UInt16
  <2>2. TypeOK'
    BY <1>2, <1>5, <2>1, CrcAssumption DEF VlenHi, TypeOK, State, Ret
  <2> QED
    BY <1>1, <1>2, <1>5, <2>1, <2>2
    DEF VlenHi, WaitSyncInv, HeaderInv, BodyInv, Opened
<1> QED
  BY <1>3, <1>4, <1>5 DEF VlenHi

LEMMA VlenLoStep ==
  ASSUME IInv, NEW byte \in Byte, VlenLo(byte), UNCHANGED overrun
  PROVE  IInv'
<1> USE DEF IInv
<1>1. /\ Opened /\ Len(frame) = 3 /\ id = frame[2] /\ dataRead = 0
      /\ Probe(frame[3]) = 2 /\ mem[0] = frame[3]
      /\ frame' = Append(frame, byte)
  BY DEF VlenLo, HeaderInv
<1>2. Len(frame') = 4 /\ frame'[3] = frame[3] /\ frame'[4] = byte
  BY <1>1, FrameGrows
<1>3. HasHeader(frame') /\ Len(frame') = HeaderLen(frame') /\ Declared(frame') = Decode(mem[0], byte)
  BY <1>1, <1>2 DEF HasHeader, HeaderLen, Declared
<1>4. mem[0] \in Byte /\ mem' \in [0 .. MemSize - 1 -> Byte]
  BY MemAssumption DEF VlenLo, TypeOK, UInt16
<1>5. Decode(mem[0], byte) \in Nat
  BY <1>1, <1>4, DecodeNat
<1>6. CheckPayload(byte, Decode(mem[0], byte))
  BY DEF VlenLo
<1>7. Decode(mem[0], byte) # 0 \/ LongZero(frame')
  BY <1>1, <1>2, <1>3 DEF LongZero
<1> QED
  BY <1>1, <1>3, <1>4, <1>5, <1>6, <1>7, CheckPayloadStep

LEMMA PayloadStep ==
  ASSUME IInv, NEW byte \in Byte, Payload(byte), UNCHANGED overrun
  PROVE  IInv'
<1> USE DEF IInv
<1>1. /\ InBody /\ (dataRead < dataSize \/ LongZero(frame))
      /\ dataRead \in Nat /\ MemSize \in Nat /\ dataRead < MemSize
      /\ frame' = Append(frame, byte)
  BY MemAssumption DEF Payload, BodyInv, TypeOK, UInt16
<1>2. dataRead' = dataRead + 1
  BY <1>1, NoWrap DEF Payload
<1>3. /\ Len(frame') = Len(frame) + 1 /\ frame'[Len(frame) + 1] = byte
      /\ \A i \in 1 .. Len(frame) : frame'[i] = frame[i]
      /\ frame' # <<>> /\ frame' \in Seq(Byte) /\ Len(frame) \in Nat
  BY <1>1, FrameGrows
<1>4. /\ frame'[1] = frame[1] /\ frame'[2] = frame[2] /\ HeaderLen(frame') = HeaderLen(frame)
      /\ Declared(frame') = Declared(frame) /\ HasHeader(frame')
      /\ LongZero(frame) => LongZero(frame')
  <2>1. Len(frame) >= 3 /\ HeaderLen(frame) \in {3, 4} /\ Len(frame) >= HeaderLen(frame)
    BY <1>1 DEF InBody, HasHeader, HeaderLen, Probe
  <2>2. frame'[1] = frame[1] /\ frame'[2] = frame[2] /\ frame'[3] = frame[3]
    BY <1>3, <2>1
  <2>3. HeaderLen(frame) = 4 => frame'[4] = frame[4]
    BY <1>3, <2>1
  <2> QED
    BY <1>3, <2>1, <2>2, <2>3 DEF HasHeader, HeaderLen, Declared, Probe, LongZero
<1>5. mem' \in [0 .. MemSize - 1 -> Byte] /\ Copied'
  <2>1. /\ dataRead \in 0 .. MemSize - 1 /\ mem \in [0 .. MemSize - 1 -> Byte]
        /\ mem' = [mem EXCEPT ![dataRead] = byte]
    BY <1>1 DEF Payload, InBody, TypeOK
  <2>2. HeaderLen(frame) \in Nat /\ Len(frame) = HeaderLen(frame) + dataRead
    BY <1>1 DEF InBody, HeaderLen, Probe
  <2>3. ASSUME NEW i \in 1 .. dataRead + 1
        PROVE  mem'[i - 1] = frame'[HeaderLen(frame) + i]
    <3>1. CASE i = dataRead + 1
      BY <1>1, <1>3, <2>1, <2>2, <3>1
    <3>2. CASE i # dataRead + 1
      <4>1. i \in 1 .. dataRead /\ HeaderLen(frame) + i \in 1 .. Len(frame)
        BY <1>1, <2>2, <3>2
      <4>2. mem[i - 1] = frame[HeaderLen(frame) + i]
        BY <1>1, <4>1 DEF InBody, Copied
      <4>3. mem'[i - 1] = mem[i - 1]
        BY <1>1, <2>1, <4>1
      <4> QED
        BY <1>3, <4>1, <4>2, <4>3
    <3> QED
      BY <3>1, <3>2
  <2> QED
    BY <1>2, <1>4, <2>1, <2>3 DEF Copied
<1>6. TypeOK'
  <2>1. dataRead' \in UInt16
    <3>1. dataRead' \in Nat /\ dataRead' <= MemSize
      BY <1>1, <1>2 DEF InBody, TypeOK
    <3> QED
      BY <3>1, MemAssumption, UInt16SizeNat DEF UInt16
  <2> QED
    BY <1>3, <1>5, <2>1, CrcAssumption DEF Payload, TypeOK, State, Ret
<1>7. InBody'
  <2>1. Len(frame') = HeaderLen(frame') + dataRead'
    BY <1>1, <1>2, <1>3, <1>4 DEF InBody, HeaderLen, Probe
  <2>2. Opened'
    BY <1>1, <1>3, <1>4 DEF InBody, Opened, Payload
  <2>3. id' = frame'[2] /\ dataSize' = Declared(frame') /\ dataSize' <= MemSize
    BY <1>1, <1>4 DEF InBody, Payload
  <2> QED
    BY <1>4, <1>5, <2>1, <2>2, <2>3 DEF InBody
<1>8. dataRead' # dataSize' => dataRead' < dataSize' \/ LongZero(frame')
  BY <1>1, <1>2, <1>4 DEF Payload, TypeOK
<1> QED
  BY <1>6, <1>7, <1>8 DEF Payload, WaitSyncInv, HeaderInv, BodyInv

LEMMA CrcStep ==
  ASSUME IInv, NEW byte \in Byte, Crc(byte), UNCHANGED overrun
  PROVE  IInv'
<1> USE DEF IInv
<1>1. InBody /\ dataRead = dataSize /\ dataSize \in Nat /\ frame' = Append(frame, byte)
  BY DEF Crc, BodyInv, TypeOK
<1>2. /\ Len(frame') = Len(frame) + 1
      /\ \A i \in 1 .. Len(frame) : frame'[i] = frame[i]
      /\ frame' # <<>> /\ frame' \in Seq(Byte) /\ Len(frame) \in Nat
  BY <1>1, FrameGrows
<1>3. TypeOK'
  BY <1>2, ZeroByte, UInt16SizeNat DEF Crc, Fail, DecReset, TypeOK, State, Ret, UInt16
<1>4. AcceptedFrame'
  <2>1. Len(frame) >= 3 /\ HeaderLen(frame) \in {3, 4} /\ Len(frame) = HeaderLen(frame) + dataSize
    BY <1>1 DEF InBody, HasHeader, HeaderLen, Probe
  <2>2. frame'[1] = frame[1] /\ frame'[2] = frame[2] /\ frame'[3] = frame[3]
    BY <1>2, <2>1
  <2>3. HeaderLen(frame) = 4 => frame'[4] = frame[4]
    BY <1>1, <1>2, <2>1
  <2>4. HeaderLen(frame') = HeaderLen(frame) /\ Declared(frame') = dataSize
    BY <1>1, <2>1, <2>2, <2>3 DEF InBody, HeaderLen, Declared, Probe
  <2>5. Complete(frame')
    BY <1>1, <1>2, <2>1, <2>4 DEF Complete, HasHeader
  <2>6. \A i \in 1 .. dataSize : mem[i - 1] = frame'[HeaderLen(frame) + i]
    BY <1>1, <1>2, <2>1 DEF InBody, Copied
  <2>7. CASE ret' = "NO_ERROR"
    <3>1. packet' = [code |-> code, id |-> id, payloadSize |-> dataSize] /\ mem' = mem
      BY <2>7 DEF Crc, Fail
    <3> QED
      BY <1>1, <2>2, <2>4, <2>5, <2>6, <3>1 DEF AcceptedFrame, InBody, Opened
  <2> QED
    BY <2>7 DEF AcceptedFrame
<1>5. RefusedLength'
  BY DEF Crc, Fail, RefusedLength
<1> QED
  BY <1>3, <1>4, <1>5 DEF Crc, Fail, DecReset, WaitSyncInv, HeaderInv, BodyInv

LEMMA ResetStep ==
  ASSUME IInv, Reset, UNCHANGED overrun
  PROVE  IInv'
<1>1. TypeOK'
  BY ZeroByte, UInt16SizeNat DEF IInv, Reset, DecReset, TypeOK, State, Ret, UInt16
<1> QED
  BY <1>1
  DEF IInv, Reset, DecReset, WaitSyncInv, HeaderInv, BodyInv, AcceptedFrame, RefusedLength

LEMMA NextInv == IInv /\ OverrunInv /\ [Next]_vars => IInv' /\ OverrunInv'
<1> SUFFICES ASSUME IInv, OverrunInv, [Next]_vars PROVE IInv' /\ OverrunInv'
  OBVIOUS
<1>1. ASSUME NEW byte \in Byte, ~ overrun, PutByte(byte), UNCHANGED overrun
      PROVE  IInv' /\ OverrunInv'
  <2>1. ~ PayloadOutside
    BY <1>1 DEF PayloadOutside
  <2>2. IInv'
    BY <1>1, <2>1, WaitSyncStep, IdStep, VlenHiStep, VlenLoStep, PayloadStep, CrcStep DEF PutByte
  <2> QED
    BY <1>1, <2>2 DEF OverrunInv
<1>2. CASE PayloadOutside
  BY <1>2 DEF PayloadOutside, OverrunInv, IInv, TypeOK, WaitSyncInv, HeaderInv, BodyInv, InBody,
              Opened, Copied, AcceptedFrame, RefusedLength
<1>3. CASE ~ overrun /\ Reset /\ UNCHANGED overrun
  BY <1>3, ResetStep DEF OverrunInv
<1>4. CASE UNCHANGED vars
  BY <1>4 DEF vars, IInv, OverrunInv, TypeOK, WaitSyncInv, HeaderInv, BodyInv, InBody, Opened, Copied,
              AcceptedFrame, RefusedLength
<1> QED
  BY <1>1, <1>2, <1>3, <1>4 DEF Next, PutByte

LEMMA Invariance == Spec => [](IInv /\ OverrunInv)
<1>1. Init => OverrunInv
  BY DEF Init, OverrunInv
<1> QED
  BY <1>1, InitInv, NextInv, PTL DEF Spec

-----------------------------------------------------------------------------
(* The theorems.                                                           *)

(***************************************************************************)
(* The decoder's context, the buffer and the packet keep their types: no   *)
(* field leaves its range and the counter of payload bytes never wraps     *)
(* (packet.c:100-216, on any input).                                       *)
(***************************************************************************)
THEOREM TypeCorrect == Spec => []TypeOK
<1>1. IInv => TypeOK
  BY DEF IInv
<1> QED
  BY <1>1, Invariance, PTL

(***************************************************************************)
(* Any bytes may come, in any order and with resets anywhere: a payload    *)
(* stays in the caller's buffer and within its declared length, for every  *)
(* buffer size, unless the length is a zero in two bytes (packet.c:150,    *)
(* 158, 192).                                                              *)
(***************************************************************************)
THEOREM PayloadStaysInBuffer == Spec => []OnlyLongZeroOverruns
<1>1. IInv /\ OverrunInv => OnlyLongZeroOverruns
  <2> SUFFICES ASSUME IInv, OverrunInv, ~ LongZero(frame)
               PROVE  ~ overrun /\ (state = "PAYLOAD" => dataRead < dataSize /\ dataSize <= MemSize)
    BY DEF OnlyLongZeroOverruns
  <2>1. state = "PAYLOAD" => dataRead < dataSize /\ dataSize <= MemSize
    BY DEF IInv, BodyInv, InBody
  <2>2. dataRead \in Nat /\ dataSize \in Nat /\ MemSize \in Nat
    BY MemAssumption DEF IInv, TypeOK, UInt16
  <2> QED
    BY <2>1, <2>2 DEF OverrunInv
<1> QED
  BY <1>1, Invariance, PTL

(***************************************************************************)
(* What proto_pkt_dec_putByte hands over is the frame that was received.   *)
(***************************************************************************)
THEOREM AcceptsOnlyFrames == Spec => []AcceptedFrame
<1>1. IInv => AcceptedFrame
  <2> SUFFICES ASSUME IInv, ret = "NO_ERROR" PROVE AcceptedFrame
    BY DEF AcceptedFrame
  <2>1. state = "WAIT_SYNC"
    BY DEF IInv, HeaderInv
  <2> QED
    BY <2>1 DEF IInv, WaitSyncInv
<1> QED
  BY <1>1, Invariance, PTL

(***************************************************************************)
(* A frame is refused for its length only if its declared length exceeds   *)
(* the buffer, and right after its header (packet.c:191-198).              *)
(***************************************************************************)
THEOREM RefusesOnlyLongFrames == Spec => []RefusedLength
<1>1. IInv => RefusedLength
  <2> SUFFICES ASSUME IInv, ret = "INVALID_LENGTH" PROVE RefusedLength
    BY DEF RefusedLength
  <2>1. state = "WAIT_SYNC"
    BY DEF IInv, HeaderInv
  <2> QED
    BY <2>1 DEF IInv, WaitSyncInv
<1> QED
  BY <1>1, Invariance, PTL

(***************************************************************************)
(* The decoder answers on the very byte that completes a frame, never      *)
(* later, unless the frame has a length of zero in two bytes.              *)
(***************************************************************************)
THEOREM AnswersEveryFrame == Spec => []OnlyLongZeroMissed
<1>1. IInv => OnlyLongZeroMissed
  <2> SUFFICES ASSUME IInv, ret = "IDLE", Complete(frame), ~ LongZero(frame) PROVE FALSE
    BY DEF OnlyLongZeroMissed
  <2>1. CASE state = "WAIT_SYNC"
    BY <2>1 DEF IInv, WaitSyncInv, Complete, HasHeader
  <2>2. CASE state \in {"ID", "VLEN_HI", "VLEN_LO"}
    BY <2>2 DEF IInv, HeaderInv, Complete, HasHeader, HeaderLen
  <2>3. CASE state \in {"PAYLOAD", "CRC"}
    <3>1. /\ HeaderLen(frame) \in Nat /\ dataRead \in Nat /\ dataSize \in Nat
          /\ Len(frame) = HeaderLen(frame) + dataRead
          /\ dataRead <= dataSize /\ dataSize = Declared(frame)
      BY <2>3 DEF IInv, BodyInv, InBody, TypeOK, UInt16, HeaderLen, Probe
    <3> QED
      BY <3>1 DEF Complete
  <2> QED
    BY <2>1, <2>2, <2>3 DEF IInv, TypeOK, State
<1> QED
  BY <1>1, Invariance, PTL

-----------------------------------------------------------------------------
(***************************************************************************)
(* The check value.  CrcOf is a recursion over the frame, the decoder runs *)
(* it a call at a time: the induction is over the calls.  The invariant    *)
(* says of every g that is such a recursion over the bytes taken so far    *)
(* that it ends in crc, and that there is one.                             *)
(***************************************************************************)
IsCrcs(g, f, n) == g[0] = 0 /\ \A i \in 1 .. n : g[i] = CrcByte(f[i], g[i - 1])

CrcsEndIn(f, n, c) ==
    /\ \E g : IsCrcs(g, f, n)
    /\ \A g : IsCrcs(g, f, n) => g[n] = c

CrcInv ==
    /\ frame \in Seq(Byte)
    /\ state # "WAIT_SYNC" => ret = "IDLE" /\ CrcsEndIn(frame, Len(frame), crc)
    /\ CrcVerdict

\* The recursion of CrcOf is one of them, and the only value they end in.
LEMMA CrcOfEnd ==
  ASSUME NEW f, NEW n \in Nat, NEW c, CrcsEndIn(f, n, c)
  PROVE  CrcOf(f, n) = c
<1> DEFINE Rec(h) == h = [i \in 0 .. n |-> IF i = 0 THEN 0 ELSE CrcByte(f[i], h[i - 1])]
           r == CHOOSE h : Rec(h)
<1>1. CrcOf(f, n) = r[n]
  BY DEF CrcOf
<1>2. \E h : Rec(h)
  <2>1. PICK g : IsCrcs(g, f, n)
    BY DEF CrcsEndIn
  <2> DEFINE h == [i \in 0 .. n |-> g[i]]
  <2>2. \A i \in 0 .. n : h[i] = IF i = 0 THEN 0 ELSE CrcByte(f[i], h[i - 1])
    <3> SUFFICES ASSUME NEW i \in 0 .. n
                 PROVE  h[i] = IF i = 0 THEN 0 ELSE CrcByte(f[i], h[i - 1])
      OBVIOUS
    <3>1. CASE i = 0
      BY <2>1, <3>1 DEF IsCrcs
    <3>2. CASE i # 0
      <4>1. i \in 1 .. n /\ i - 1 \in 0 .. n
        BY <3>2
      <4> QED
        BY <2>1, <3>2, <4>1 DEF IsCrcs
    <3> QED
      BY <3>1, <3>2
  <2>3. Rec(h)
    BY <2>2
  <2> QED
    BY <2>3
<1>3. Rec(r)
  BY <1>2
<1> HIDE DEF r
<1>4. IsCrcs(r, f, n)
  <2>1. \A i \in 0 .. n : r[i] = IF i = 0 THEN 0 ELSE CrcByte(f[i], r[i - 1])
    BY <1>3
  <2>2. 0 \in 0 .. n /\ \A i \in 1 .. n : i \in 0 .. n /\ i # 0
    OBVIOUS
  <2> QED
    BY <2>1, <2>2 DEF IsCrcs
<1> QED
  BY <1>1, <1>4 DEF CrcsEndIn

\* One more byte, one more step of the recursion.
LEMMA CrcsGrow ==
  ASSUME NEW f, NEW n \in Nat, NEW c, CrcsEndIn(f, n, c), NEW byte, NEW h,
         \A i \in 1 .. n : h[i] = f[i], h[n + 1] = byte
  PROVE  CrcsEndIn(h, n + 1, CrcByte(byte, c)) /\ CrcsEndIn(h, n, c)
<1>1. \A g : IsCrcs(g, h, n) <=> IsCrcs(g, f, n)
  BY DEF IsCrcs
<1>2. CrcsEndIn(h, n, c)
  BY <1>1 DEF CrcsEndIn
<1>3. ASSUME NEW g, IsCrcs(g, h, n + 1) PROVE g[n + 1] = CrcByte(byte, c)
  <2>1. IsCrcs(g, h, n)
    BY <1>3 DEF IsCrcs
  <2>2. g[n] = c
    BY <1>2, <2>1 DEF CrcsEndIn
  <2>3. n + 1 \in 1 .. n + 1 /\ (n + 1) - 1 = n
    OBVIOUS
  <2> QED
    BY <1>3, <2>2, <2>3 DEF IsCrcs
<1>4. \E g : IsCrcs(g, h, n + 1)
  <2>1. PICK e : IsCrcs(e, h, n)
    BY <1>2 DEF CrcsEndIn
  <2> DEFINE g == [i \in 0 .. n + 1 |-> IF i <= n THEN e[i] ELSE CrcByte(byte, e[n])]
  <2>2. g[0] = 0
    BY <2>1 DEF IsCrcs
  <2>3. ASSUME NEW i \in 1 .. n + 1 PROVE g[i] = CrcByte(h[i], g[i - 1])
    <3>1. CASE i <= n
      <4>1. i \in 1 .. n /\ i \in 0 .. n + 1 /\ i - 1 \in 0 .. n + 1 /\ i - 1 <= n
        BY <3>1
      <4>2. g[i] = e[i] /\ g[i - 1] = e[i - 1]
        BY <3>1, <4>1
      <4> QED
        BY <2>1, <4>1, <4>2 DEF IsCrcs
    <3>2. CASE ~ (i <= n)
      <4>1. i = n + 1 /\ i \in 0 .. n + 1 /\ i - 1 = n /\ n \in 0 .. n + 1
        BY <3>2
      <4>2. g[i] = CrcByte(byte, e[n]) /\ g[i - 1] = e[n]
        BY <3>2, <4>1
      <4> QED
        BY <4>1, <4>2
    <3> QED
      BY <3>1, <3>2
  <2>4. IsCrcs(g, h, n + 1)
    BY <2>2, <2>3 DEF IsCrcs
  <2> QED
    BY <2>4
<1> QED
  BY <1>2, <1>3, <1>4 DEF CrcsEndIn

\* A frame of one byte.
LEMMA CrcsStart ==
  ASSUME NEW byte
  PROVE  CrcsEndIn(<<byte>>, 1, CrcByte(byte, 0))
<1>1. CrcsEndIn(<<>>, 0, 0)
  <2>1. IsCrcs([i \in 0 .. 0 |-> 0], <<>>, 0)
    BY DEF IsCrcs
  <2> QED
    BY <2>1 DEF CrcsEndIn, IsCrcs
<1>2. CrcsEndIn(<<byte>>, 0 + 1, CrcByte(byte, 0))
  <2>1. <<byte>>[0 + 1] = byte /\ \A i \in 1 .. 0 : <<byte>>[i] = <<>>[i]
    OBVIOUS
  <2> QED
    BY <1>1, <2>1, CrcsGrow
<1> QED
  BY <1>2

\* A byte inside a frame: it goes into frame and check value, or ends the frame.
LEMMA ByteTaken ==
  ASSUME NEW byte \in Byte, PutByte(byte), ~ PayloadOutside, state # "WAIT_SYNC"
  PROVE  /\ frame' = Append(frame, byte)
         /\ \/ crc' = CrcByte(byte, crc) /\ ret' = "IDLE"
            \/ state' = "WAIT_SYNC" /\ ret' = "INVALID_LENGTH"
            \/ state' = "WAIT_SYNC" /\ ret' \in {"NO_ERROR", "INVALID_CRC"}
               /\ (ret' = "NO_ERROR" <=> byte = crc)
BY DEF PutByte, WaitSync, Id, VlenHi, VlenLo, Payload, Crc, CheckPayload, AwaitPayload, Fail, DecReset

\* Every byte keeps it.
LEMMA CrcInvStep == CrcInv /\ [Next]_vars => CrcInv'
<1> SUFFICES ASSUME CrcInv, [Next]_vars PROVE CrcInv'
  OBVIOUS
<1>1. CASE Reset
  BY <1>1 DEF Reset, DecReset, CrcInv, CrcVerdict
<1>2. CASE UNCHANGED vars
  BY <1>2 DEF vars, CrcInv, CrcVerdict
<1>5. CASE PayloadOutside
  BY <1>5 DEF PayloadOutside, CrcInv, CrcVerdict
<1>3. ASSUME NEW byte \in Byte, PutByte(byte), ~ PayloadOutside, state = "WAIT_SYNC" PROVE CrcInv'
  <2>1. WaitSync(byte)
    BY <1>3 DEF PutByte, Id, VlenHi, VlenLo, Payload, Crc
  <2>2. ret' = "IDLE"
    BY <2>1 DEF WaitSync
  <2>3. \/ frame' = <<byte>> /\ crc' = CrcByte(byte, 0)
        \/ frame' = <<>> /\ state' = "WAIT_SYNC"
    BY <1>3, <2>1 DEF WaitSync
  <2>4. <<byte>> \in Seq(Byte) /\ <<>> \in Seq(Byte) /\ Len(<<byte>>) = 1
    OBVIOUS
  <2> QED
    BY <2>2, <2>3, <2>4, CrcsStart DEF CrcInv, CrcVerdict
<1>4. ASSUME NEW byte \in Byte, PutByte(byte), ~ PayloadOutside, state # "WAIT_SYNC" PROVE CrcInv'
  <2> DEFINE n == Len(frame)
  <2>1. frame \in Seq(Byte) /\ CrcsEndIn(frame, n, crc)
    BY <1>4 DEF CrcInv
  <2>2. frame' = Append(frame, byte)
    BY <1>4, ByteTaken
  <2>3. /\ frame' \in Seq(Byte) /\ n \in Nat /\ Len(frame') = n + 1 /\ frame'[n + 1] = byte
        /\ \A i \in 1 .. n : frame'[i] = frame[i]
    BY <2>1, <2>2
  <2>4. CrcsEndIn(frame', n + 1, CrcByte(byte, crc)) /\ CrcsEndIn(frame', n, crc)
    <3> HIDE DEF n
    <3> QED
      BY <2>1, <2>3, CrcsGrow
  <2>5. CASE crc' = CrcByte(byte, crc) /\ ret' = "IDLE"
    BY <2>3, <2>4, <2>5 DEF CrcInv, CrcVerdict
  <2>6. CASE state' = "WAIT_SYNC" /\ ret' = "INVALID_LENGTH"
    BY <2>3, <2>6 DEF CrcInv, CrcVerdict
  <2>7. CASE /\ state' = "WAIT_SYNC" /\ ret' \in {"NO_ERROR", "INVALID_CRC"}
             /\ (ret' = "NO_ERROR" <=> byte = crc)
    <3>1. CrcOf(frame', n) = crc
      BY <2>3, <2>4, CrcOfEnd
    <3>2. Len(frame') - 1 = n /\ frame'[Len(frame')] = byte
      BY <2>3
    <3>3. CrcVerdict'
      BY <2>7, <3>1, <3>2 DEF CrcVerdict
    <3> QED
      BY <2>3, <2>7, <3>3 DEF CrcInv
  <2> QED
    BY <1>4, <2>5, <2>6, <2>7, ByteTaken
<1> QED
  BY <1>1, <1>2, <1>3, <1>4, <1>5 DEF Next

(***************************************************************************)
(* The verdict of the decoder is crc8_get's on the bytes of the frame, for *)
(* every input whatever (packet.c:108-216 against crc8.c, whatever the     *)
(* step of the check value).                                               *)
(***************************************************************************)
THEOREM VerdictOnTheBytes == Spec => []CrcVerdict
<1>1. Init => CrcInv
  BY DEF Init, CrcInv, CrcVerdict
<1>2. CrcInv => CrcVerdict
  BY DEF CrcInv
<1> QED
  BY <1>1, <1>2, CrcInvStep, PTL DEF Spec
=============================================================================
