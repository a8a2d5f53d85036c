------------------------------ MODULE HwSerial ------------------------------
(***************************************************************************)
(* HwSerial::read (flashutil/src/flashutil/serial/hw.cpp:127-193): a read  *)
(* with a timeout out of an asynchronous read and a deadline timer, whose  *)
(* two handlers (lines 32-55) race to decide the outcome.                  *)
(*                                                                         *)
(* boost::asio is external.  What the code relies on: a handler runs from  *)
(* service.run() only, one at a time, in the order the operations ended;   *)
(* run() returns when no operation is left; cancel() ends an operation     *)
(* that is still waiting with operation_aborted, and does nothing to one   *)
(* that has ended and whose handler is queued; an async_read takes what    *)
(* has arrived, and waits again until its buffer is full.                  *)
(*                                                                         *)
(* Bytes are numbered in the order the device sends them.                  *)
(***************************************************************************)
EXTENDS Naturals, Sequences

CONSTANTS
    Sizes,      \* how many bytes a read may ask for (executeCmd always reads one)
    MaxBytes,   \* bound: bytes the device sends
    MaxReads    \* bound: calls of read

ASSUME SizeAssumption  == Sizes \subseteq Nat \ {0}
ASSUME BoundAssumption == MaxBytes \in Nat /\ MaxReads \in Nat

VARIABLES
    line,       \* received by the port and not read yet
    sent,       \* how many bytes the device has sent
    reads,      \* how many reads have been started
    size,       \* bytes the current one asks for
    call,       \* "idle", "run" (in service.run()), "ok" (read returned), "thrown"
    timer,      \* "off", "armed"
    reading,    \* TRUE while the async_read waits for bytes
    ready,      \* queued handlers, in the order their operations ended
    readResult, \* self->readResult
    buffer,     \* what this read has stored
    delivered,  \* bytes that reads which returned handed to the caller
    dropped     \* bytes taken off the line or flushed by reads that threw

vars == <<line, sent, reads, size, call, timer, reading, ready, readResult, buffer, delivered, dropped>>

Event  == {"expired", "timerAborted", "taken", "failed", "readAborted"}
Result == {"IN_PROGRESS", "SUCCESS", "ERROR", "TIMEOUT"}

TypeOK ==
    /\ line \in Seq(Nat) /\ buffer \in Seq(Nat) /\ delivered \in Seq(Nat)
    /\ sent \in 0 .. MaxBytes /\ reads \in 0 .. MaxReads /\ size \in Sizes
    /\ call \in {"idle", "run", "ok", "thrown"}
    /\ timer \in {"off", "armed"}
    /\ reading \in BOOLEAN
    /\ ready \in Seq(Event)
    /\ readResult \in Result
    /\ dropped \subseteq 1 .. MaxBytes

\* Mutant of Init: the constructor does not set the result.
InitUnset ==
    /\ line = <<>> /\ sent = 0 /\ reads = 0 /\ size \in Sizes
    /\ call = "idle" /\ timer = "off" /\ reading = FALSE /\ ready = <<>>
    /\ readResult = "UNSET"
    /\ buffer = <<>> /\ delivered = <<>> /\ dropped = {}

Init ==
    /\ line = <<>> /\ sent = 0 /\ reads = 0 /\ size \in Sizes
    /\ call = "idle" /\ timer = "off" /\ reading = FALSE /\ ready = <<>>
    /\ readResult = "SUCCESS"
    /\ buffer = <<>> /\ delivered = <<>> /\ dropped = {}

BytesOf(s) == {s[k] : k \in 1 .. Len(s)}

-----------------------------------------------------------------------------
(* boost::asio and the port.                                               *)

\* timer.cancel(), with the events queued before it.
CancelTimer(queue) ==
    /\ timer' = "off"
    /\ ready' = IF timer = "armed" THEN Append(queue, "timerAborted") ELSE queue

\* serial.cancel(), with the events queued before it.
CancelRead(queue) ==
    /\ reading' = FALSE
    /\ ready' = IF reading THEN Append(queue, "readAborted") ELSE queue

Arrive ==
    /\ sent < MaxBytes
    /\ sent' = sent + 1
    /\ line' = Append(line, sent')
    /\ UNCHANGED <<reads, size, call, timer, reading, ready, readResult, buffer, delivered, dropped>>

Expire ==
    /\ timer = "armed"
    /\ timer' = "off"
    /\ ready' = Append(ready, "expired")
    /\ UNCHANGED <<line, sent, reads, size, call, reading, readResult, buffer, delivered, dropped>>

\* The waiting read takes some of what has arrived.
Take ==
    /\ reading /\ line # <<>>
    /\ \E n \in 1 .. Len(line) :
           /\ Len(buffer) + n <= size
           /\ buffer' = buffer \o SubSeq(line, 1, n)
           /\ line' = SubSeq(line, n + 1, Len(line))
    /\ reading' = FALSE
    /\ ready' = Append(ready, "taken")
    /\ UNCHANGED <<sent, reads, size, call, timer, readResult, delivered, dropped>>

PortFails ==
    /\ reading
    /\ reading' = FALSE
    /\ ready' = Append(ready, "failed")
    /\ UNCHANGED <<line, sent, reads, size, call, timer, readResult, buffer, delivered, dropped>>

\* An async_read whose buffer is not full yet waits again (no handler of ours).
WaitAgain ==
    /\ call = "run" /\ ready # <<>> /\ Head(ready) = "taken" /\ Len(buffer) < size
    /\ reading' = TRUE
    /\ ready' = Tail(ready)
    /\ UNCHANGED <<line, sent, reads, size, call, timer, readResult, buffer, delivered, dropped>>

-----------------------------------------------------------------------------
(* The program.                                                            *)

Read ==
    /\ call \in {"idle", "ok", "thrown"} /\ reads < MaxReads
    /\ reads' = reads + 1
    /\ size' \in Sizes
    /\ call' = "run"
    /\ timer' = "armed" /\ reading' = TRUE
    /\ readResult' = "IN_PROGRESS"
    /\ buffer' = <<>>
    /\ UNCHANGED <<line, sent, ready, delivered, dropped>>

\* Impl::onCompleted
OnCompleted ==
    /\ call = "run" /\ ready # <<>>
    /\ \/ /\ Head(ready) = "taken" /\ Len(buffer) = size
          /\ readResult' = "SUCCESS"
          /\ CancelTimer(Tail(ready))
       \/ /\ Head(ready) = "failed"
          /\ readResult' = "ERROR"
          /\ CancelTimer(Tail(ready))
       \/ /\ Head(ready) = "readAborted"
          /\ ready' = Tail(ready)
          /\ UNCHANGED <<timer, readResult>>
    /\ UNCHANGED <<line, sent, reads, size, call, reading, buffer, delivered, dropped>>

\* Mutants of OnTimedOut: the result is not set; the read is not cancelled.
OnTimedOutNoResult ==
    /\ call = "run" /\ ready # <<>>
    /\ \/ Head(ready) = "expired" /\ CancelRead(Tail(ready))
       \/ Head(ready) = "timerAborted" /\ ready' = Tail(ready) /\ UNCHANGED reading
    /\ UNCHANGED <<line, sent, reads, size, call, timer, readResult, buffer, delivered, dropped>>

OnTimedOutNoCancel ==
    /\ call = "run" /\ ready # <<>>
    /\ Head(ready) \in {"expired", "timerAborted"}
    /\ readResult' = IF Head(ready) = "expired" THEN "TIMEOUT" ELSE readResult
    /\ ready' = Tail(ready)
    /\ UNCHANGED <<line, sent, reads, size, call, timer, reading, buffer, delivered, dropped>>

\* Impl::onTimedOut
OnTimedOut ==
    /\ call = "run" /\ ready # <<>>
    /\ \/ /\ Head(ready) = "expired"
          /\ readResult' = "TIMEOUT"
          /\ CancelRead(Tail(ready))
       \/ /\ Head(ready) = "timerAborted"
          /\ ready' = Tail(ready)
          /\ UNCHANGED <<reading, readResult>>
    /\ UNCHANGED <<line, sent, reads, size, call, timer, buffer, delivered, dropped>>

\* Mutant of Finish: the port is flushed on every way out.
FinishFlushes ==
    /\ call = "run" /\ ready = <<>> /\ ~ reading /\ timer = "off"
    /\ \/ /\ readResult \in {"SUCCESS", "IN_PROGRESS"}
          /\ call' = "ok"
          /\ delivered' = delivered \o buffer
          /\ UNCHANGED dropped
       \/ /\ readResult \in {"ERROR", "TIMEOUT"}
          /\ call' = "thrown"
          /\ dropped' = dropped \cup BytesOf(buffer) \cup BytesOf(line)
          /\ UNCHANGED delivered
    /\ line' = <<>>
    /\ UNCHANGED <<sent, reads, size, timer, reading, ready, readResult, buffer>>

\* service.run() has nothing left: the switch of lines 160-192.  A throw
\* flushes the port first.
Finish ==
    /\ call = "run" /\ ready = <<>> /\ ~ reading /\ timer = "off"
    /\ \/ /\ readResult \in {"SUCCESS", "IN_PROGRESS"}
          /\ call' = "ok"
          /\ delivered' = delivered \o buffer
          /\ UNCHANGED <<line, dropped>>
       \/ /\ readResult \in {"ERROR", "TIMEOUT"}
          /\ call' = "thrown"
          /\ dropped' = dropped \cup BytesOf(buffer) \cup BytesOf(line)
          /\ line' = <<>>
          /\ UNCHANGED delivered
    /\ UNCHANGED <<sent, reads, size, timer, reading, ready, readResult, buffer>>

Handle == WaitAgain \/ OnCompleted \/ OnTimedOut \/ Finish

Next == Arrive \/ Expire \/ Take \/ PortFails \/ Read \/ Handle

\* Time passes, so an armed timer expires; service.run() runs what is queued.
\* Nothing is assumed of the device or the port.
Spec == Init /\ [][Next]_vars /\ WF_vars(Expire) /\ WF_vars(Handle)

-----------------------------------------------------------------------------
(* Properties.                                                             *)

(***************************************************************************)
(* A read that returns has filled the caller's buffer: the outcome is      *)
(* never left at IN_PROGRESS, which line 161 would let through, and no     *)
(* order of the two handlers reports SUCCESS without the bytes.            *)
(***************************************************************************)
ReturnsFullBuffer == call = "ok" => readResult = "SUCCESS" /\ Len(buffer) = size

(***************************************************************************)
(* The caller gets the device's bytes in order, none twice, and a byte is  *)
(* missing only when the read that took or flushed it threw.               *)
(***************************************************************************)
NoSilentLoss ==
    /\ \A k \in 1 .. Len(delivered) - 1 : delivered[k] < delivered[k + 1]
    /\ LET kept == BytesOf(delivered) \cup BytesOf(line)
                       \cup (IF call = "run" THEN BytesOf(buffer) ELSE {})
       IN  kept \cap dropped = {} /\ kept \cup dropped = 1 .. sent

(***************************************************************************)
(* read() ends, whatever the device does: it returns or throws.  True of   *)
(* the one byte executeCmd reads; an async_read of more that waits again   *)
(* after onTimedOut has run is cancelled by nobody.                        *)
(***************************************************************************)
ReadEnds == call = "run" /\ size = 1 ~> call # "run"
=============================================================================
