------------------------------ MODULE SerialSpi ------------------------------
(***************************************************************************)
(* SerialSpi::Impl::transfer (flashutil/src/flashutil/spi/serial.cpp): an  *)
(* SPI message of any length carried out as a series of CMD_SPI_TRANSFER   *)
(* exchanges, each of what fits in one packet, against the firmware that   *)
(* runs one burst per exchange (firmware/arduino/src/main.c:121-160).      *)
(*                                                                         *)
(* An exchange has two steps, the firmware's and the host's; the link may  *)
(* lose the request before the first or the answer before the second, and  *)
(* executeCmd then throws.  What happens inside one exchange is            *)
(* TransferExchange's subject and enters here as its outcome.              *)
(*                                                                         *)
(* executeCmd declares the request on the stack and proto_req_init leaves  *)
(* its flags unset; transfer() only ORs into them (serial.cpp:103-110).    *)
(* StackFlags is the set of values the KEEP_CS bit may have there.         *)
(***************************************************************************)
EXTENDS ProtocolSizes, Integers, Sequences

CONSTANTS
    MemSize,     \* packet buffer size, the same at both ends after attach()
    Transfers,   \* calls of transfer(): sequences of messages [tx, skip, rx, deselect]
    StackFlags   \* values of an uninitialised KEEP_CS bit

Room   == MaxPayload(MemSize)
TxRoom == RequestRoom(Room)
RxRoom == ResponseRoom(Room)

Message == [tx : Nat, skip : Nat, rx : Nat, deselect : BOOLEAN]

\* A packet has room for at least one byte each way; with less transfer() loops forever.
ASSUME MemAssumption  == MemSize \in Nat /\ Room > 7
ASSUME FlagAssumption == StackFlags \subseteq BOOLEAN

\* What all the messages of flashutil/programmer.cpp have in common: they read,
\* if at all, after their last byte sent, and skip less than a two-byte VLEN of
\* bytes (no more than one, in fact).
ASSUME TransferAssumption ==
    \A call \in Transfers :
        /\ call \in Seq(Message) /\ call # <<>>
        /\ \A k \in 1 .. Len(call) :
               /\ call[k].skip < Half
               /\ call[k].rx = 0 \/ call[k].skip >= call[k].tx

ASSUME VlenAssumption == Room \in VlenValues

VARIABLES
    pc,         \* "loop", "exchange", "reply", then "done", "failed", "released", "aborted"
    msgs, m,    \* the call's messages; the index of the one in progress
    txSize, rxSize, rxSkip,    \* what is left to send, to receive, to skip
    txWritten, rxWritten,      \* offsets into the message's buffers
    chunk,      \* the request in flight: [tx, skip, rx, keep, from]
    reply,      \* the data of the answer in flight
    recv,       \* the message's receive buffer
    mosi,       \* bytes the device was sent for the message
    cs          \* TRUE while the chip is selected

host == <<txSize, rxSize, rxSkip, txWritten, rxWritten>>
vars == <<pc, msgs, m, host, chunk, reply, recv, mosi, cs>>

Filler == -1    \* 0xff after the data
Unset  == -2    \* a receive buffer cell nothing was stored in
Echo   == -3    \* an answer's byte sent in place of a data byte it ran over

NoChunk == [tx |-> 0, skip |-> 0, rx |-> 0, keep |-> FALSE, from |-> 0]

Less(a, b) == IF a < b THEN a ELSE b     \* std::min
Remaining  == rxSize > 0 \/ txSize > 0 \/ rxSkip > 0

TypeOK ==
    /\ pc \in {"loop", "exchange", "reply", "done", "failed", "released", "aborted"}
    /\ msgs \in Seq(Message)
    /\ m \in 1 .. Len(msgs)
    /\ txSize \in Nat /\ rxSize \in Nat /\ rxSkip \in Nat
    /\ txWritten \in Nat /\ rxWritten \in Nat
    /\ chunk \in [tx : Nat, skip : Nat, rx : Nat, keep : BOOLEAN, from : Nat]
    /\ reply \in Seq(Nat)
    /\ recv \in [1 .. msgs[m].rx -> Int]
    /\ mosi \in Seq(Int)
    /\ cs \in BOOLEAN

\* Mutant of Load: the offset of the data to send survives the message.
LoadStaleOffset(g) ==
    /\ txSize' = g.tx /\ rxSize' = g.rx /\ rxSkip' = g.skip
    /\ rxWritten' = 0
    /\ recv' = [k \in 1 .. g.rx |-> Unset]
    /\ mosi' = <<>>
    /\ UNCHANGED txWritten

\* The counters, which transfer() declares inside its loop over the messages.
Load(g) ==
    /\ txSize' = g.tx /\ rxSize' = g.rx /\ rxSkip' = g.skip
    /\ txWritten' = 0 /\ rxWritten' = 0
    /\ recv' = [k \in 1 .. g.rx |-> Unset]
    /\ mosi' = <<>>

Init ==
    /\ pc = "loop"
    /\ msgs \in Transfers
    /\ m = 1
    /\ txSize = msgs[1].tx /\ rxSize = msgs[1].rx /\ rxSkip = msgs[1].skip
    /\ txWritten = 0 /\ rxWritten = 0
    /\ chunk = NoChunk /\ reply = <<>>
    /\ recv = [k \in 1 .. msgs[1].rx |-> Unset]
    /\ mosi = <<>>
    /\ cs \in BOOLEAN

-----------------------------------------------------------------------------
(* The host's loop.                                                        *)

\* Mutants of NextChunk: a request always full; an answer of any length; the
\* chip released after each chunk.
NextChunkFull(garbage) ==
    LET last == TxRoom >= txSize
        skip == IF last THEN rxSkip ELSE Less(rxSkip, TxRoom)
        rx   == IF last THEN Less(RxRoom, rxSize) ELSE Less(rxSize, TxRoom - skip)
    IN  [tx |-> TxRoom, skip |-> skip, rx |-> rx, from |-> txWritten, keep |-> TRUE]

NextChunkLongAnswer(garbage) ==
    LET tx   == Less(TxRoom, txSize)
        last == tx = txSize
        skip == IF last THEN rxSkip ELSE Less(rxSkip, tx)
        rx   == IF last THEN rxSize ELSE Less(rxSize, tx - skip)
    IN  [tx |-> tx, skip |-> skip, rx |-> rx, from |-> txWritten, keep |-> TRUE]

NextChunkReleased(garbage) ==
    LET tx   == Less(TxRoom, txSize)
        last == tx = txSize
        skip == IF last THEN rxSkip ELSE Less(rxSkip, tx)
        rx   == IF last THEN Less(RxRoom, rxSize) ELSE Less(rxSize, tx - skip)
    IN  [tx |-> tx, skip |-> skip, rx |-> rx, from |-> txWritten,
         keep |-> garbage \/ ~ msgs[m].deselect]

\* The request of one iteration: as much data as a request offers; when it is
\* the last of it, all that is left to skip and as much answer as a response
\* offers, and else only what the data's own clocks can skip and receive.
NextChunk(garbage) ==
    LET tx   == Less(TxRoom, txSize)
        last == tx = txSize
        skip == IF last THEN rxSkip ELSE Less(rxSkip, tx)
        rx   == IF last THEN Less(RxRoom, rxSize) ELSE Less(rxSize, tx - skip)
        more == txSize > tx \/ rxSkip > skip \/ rxSize > rx
    IN  [tx |-> tx, skip |-> skip, rx |-> rx, from |-> txWritten,
         keep |-> garbage \/ ~ msgs[m].deselect \/ more]

Prepare ==
    /\ pc = "loop" /\ Remaining
    /\ \E garbage \in StackFlags : chunk' = NextChunk(garbage)
    /\ txSize' = txSize - chunk'.tx
    /\ rxSkip' = rxSkip - chunk'.skip
    /\ rxSize' = rxSize - chunk'.rx
    /\ txWritten' = txWritten + chunk'.tx
    /\ pc' = "exchange"
    /\ UNCHANGED <<msgs, m, rxWritten, reply, recv, mosi, cs>>

\* Mutant of Deliver: every answer is copied to the front.
DeliverToFront ==
    /\ pc = "reply"
    /\ recv' = [k \in 1 .. msgs[m].rx |-> IF k <= Len(reply) THEN reply[k] ELSE recv[k]]
    /\ rxWritten' = rxWritten + Len(reply)
    /\ pc' = "loop"
    /\ UNCHANGED <<msgs, m, txSize, rxSize, rxSkip, txWritten, chunk, reply, mosi, cs>>

\* The answer's data is copied behind what the message already has.
Deliver ==
    /\ pc = "reply"
    /\ recv' = [k \in 1 .. msgs[m].rx |->
                   IF k > rxWritten /\ k - rxWritten <= Len(reply)
                   THEN reply[k - rxWritten] ELSE recv[k]]
    /\ rxWritten' = rxWritten + Len(reply)
    /\ pc' = "loop"
    /\ UNCHANGED <<msgs, m, txSize, rxSize, rxSkip, txWritten, chunk, reply, mosi, cs>>

NextMessage ==
    /\ pc = "loop" /\ ~ Remaining /\ m < Len(msgs)
    /\ m' = m + 1
    /\ Load(msgs[m + 1])
    /\ UNCHANGED <<pc, msgs, chunk, reply, cs>>

Return ==
    /\ pc = "loop" /\ ~ Remaining /\ m = Len(msgs)
    /\ pc' = "done"
    /\ UNCHANGED <<msgs, m, host, chunk, reply, recv, mosi, cs>>

\* executeCmd throws: the request, or the answer, did not get through.
Throw ==
    /\ pc \in {"exchange", "reply"}
    /\ pc' = "failed"
    /\ UNCHANGED <<msgs, m, host, chunk, reply, recv, mosi, cs>>

\* detach(): chipSelect(false), a transfer of nothing whose flags are set.
\* Programmer::~Programmer calls it after an exception too; when that exchange
\* fails as well the program is aborted (an exception from a destructor).
Detach ==
    /\ pc \in {"done", "failed"}
    /\ \/ pc' = "released" /\ cs' = FALSE
       \/ pc' = "aborted" /\ cs' \in {cs, FALSE}
    /\ UNCHANGED <<msgs, m, host, chunk, reply, recv, mosi>>

-----------------------------------------------------------------------------
(* The firmware's burst.                                                   *)

\* A data byte not sent yet that a byte of the answer was stored over.
RunOver(n) ==
    \E i \in 0 .. n - 1 :
        i >= chunk.skip /\ i - chunk.skip < chunk.rx /\ RxCell(chunk, i - chunk.skip) = TxCell(chunk, n)

MosiByte(n) ==
    IF n >= chunk.tx THEN Filler ELSE IF RunOver(n) THEN Echo ELSE chunk.from + n

\* Selects the chip, clocks it, releases it unless KEEP_CS is set, and answers
\* with the device's output of the clocks after the skipped ones.
Exchange ==
    /\ pc = "exchange"
    /\ LET before == Len(mosi)
       IN  /\ mosi' = [k \in 1 .. before + Clocks(chunk) |->
                          IF k <= before THEN mosi[k] ELSE MosiByte(k - before - 1)]
           /\ reply' = [k \in 1 .. chunk.rx |-> before + chunk.skip + k - 1]
    /\ cs' = chunk.keep
    /\ pc' = "reply"
    /\ UNCHANGED <<msgs, m, host, chunk, recv>>

Next == Prepare \/ Exchange \/ Deliver \/ NextMessage \/ Return \/ Throw \/ Detach

\* The host blocks in read() with a timeout, so it always gets on.
Spec == Init /\ [][Next]_vars /\ WF_vars(Next)

-----------------------------------------------------------------------------
(* Properties.                                                             *)

Promise == INSTANCE SpiTransfer WITH
    recv   <- [k \in 1 .. rxWritten |-> recv[k]],
    result <- IF pc \in {"loop", "exchange", "reply"} THEN "running" ELSE pc

(***************************************************************************)
(* However long the message and however small the packets, the chunks add  *)
(* up to the message: the device is sent its bytes in order with nothing   *)
(* repeated, the answer is the clocks asked for, the chip is selected from *)
(* the first chunk to the last, and a failure leaves a prefix.  It is      *)
(* released by no chunk but the last of a message that asks for it, and by *)
(* that one unless the KEEP_CS bit, which nobody initialises, reads 1      *)
(* (serial.cpp:103-110); detach() releases it whatever the bit was.        *)
(***************************************************************************)
KeepsPromise == Promise!Spec

(***************************************************************************)
(* Whatever the uninitialised bit reads, the data is right: MOSI is a      *)
(* prefix of the message's bytes and filler, and what has been received    *)
(* is the device's output from clock skip on.                              *)
(***************************************************************************)
DataFaithful ==
    LET g == msgs[m]
    IN  /\ mosi = Promise!Sent(g, Len(mosi)) /\ Len(mosi) <= Promise!Total(g)
        /\ \A k \in 1 .. rxWritten : recv[k] = g.skip + k - 1

(***************************************************************************)
(* Between two chunks of a message the chip is never released: a device    *)
(* would take the rest for a new command.                                  *)
(***************************************************************************)
HeldThroughMessage == mosi # <<>> /\ Remaining /\ pc # "released" /\ pc # "aborted" => cs

(***************************************************************************)
(* A chunk never meets the NULL payload of proto_pkt_prepare, never asks   *)
(* the firmware for more than it refuses (programmer.c:79), and fits VLEN. *)
(***************************************************************************)
ChunkAcceptable ==
    pc = "exchange" => /\ RequestSize(chunk.tx, chunk.skip, chunk.rx) < Room
                       /\ chunk.rx <= RxRoom
                       /\ {chunk.tx, chunk.skip, chunk.rx} \subseteq VlenValues

(***************************************************************************)
(* transfer() returns or throws: every iteration makes progress.           *)
(***************************************************************************)
TransferEnds == <>(pc \in {"done", "failed"})
=============================================================================
