--------------------------- MODULE HwSerial_proofs ---------------------------
(***************************************************************************)
(* Theorems about HwSerial and their proofs: a read that returns has       *)
(* filled the buffer, and no byte is lost, doubled or reordered by the     *)
(* race of the two handlers, for any number of bytes, reads and sizes.     *)
(***************************************************************************)
EXTENDS HwSerial, Lexicographic, SequenceTheorems, TLAPS

-----------------------------------------------------------------------------
(* The queue of handlers.                                                  *)

ReadEvent == {"taken", "failed", "readAborted"}

\* The read has ended at most once, and has not while it waits.
Once(queue, waits) ==
    /\ \A i, j \in 1 .. Len(queue) : queue[i] \in ReadEvent /\ queue[j] \in ReadEvent => i = j
    /\ waits => \A i \in 1 .. Len(queue) : queue[i] \notin ReadEvent

\* The deadline is in the queue.
Expired(queue) == \E i \in 1 .. Len(queue) : queue[i] = "expired"

\* Running a handler takes the first one.
LEMMA Dequeue ==
  ASSUME NEW q \in Seq(Event), q # <<>>, NEW waits \in BOOLEAN, Once(q, waits)
  PROVE  /\ Tail(q) \in Seq(Event)
         /\ Once(Tail(q), waits)
         /\ Head(q) \in ReadEvent => ~ waits /\ Once(Tail(q), TRUE)
         /\ Expired(q) /\ Head(q) # "expired" => Expired(Tail(q))
<1>1. /\ Tail(q) \in Seq(Event) /\ Len(Tail(q)) = Len(q) - 1 /\ Len(q) \in Nat \ {0}
      /\ Head(q) = q[1]
  OBVIOUS
<1>2. \A i \in 1 .. Len(Tail(q)) : i + 1 \in 1 .. Len(q) /\ Tail(q)[i] = q[i + 1]
  BY <1>1
<1>3. Once(Tail(q), waits)
  BY <1>1, <1>2 DEF Once
<1>4. ASSUME Head(q) \in ReadEvent PROVE ~ waits /\ Once(Tail(q), TRUE)
  <2>1. \A i \in 1 .. Len(Tail(q)) : Tail(q)[i] \notin ReadEvent
    BY <1>1, <1>2, <1>4 DEF Once
  <2> QED
    BY <1>1, <1>4, <2>1 DEF Once
<1>5. ASSUME Expired(q), Head(q) # "expired" PROVE Expired(Tail(q))
  <2>1. PICK i \in 1 .. Len(q) : q[i] = "expired"
    BY <1>5 DEF Expired
  <2>2. i - 1 \in 1 .. Len(Tail(q)) /\ Tail(q)[i - 1] = q[i]
    BY <1>1, <1>5, <2>1
  <2> QED
    BY <2>1, <2>2 DEF Expired
<1> QED
  BY <1>1, <1>3, <1>4, <1>5

\* An operation that ends queues its handler.
LEMMA Enqueue ==
  ASSUME NEW q \in Seq(Event), NEW e \in Event, NEW waits \in BOOLEAN, Once(q, waits)
  PROVE  /\ Append(q, e) \in Seq(Event)
         /\ e \notin ReadEvent => Once(Append(q, e), waits)
         /\ waits => Once(Append(q, e), FALSE)
         /\ Expired(q) \/ e = "expired" => Expired(Append(q, e))
<1> DEFINE new == Append(q, e)
<1>1. /\ new \in Seq(Event) /\ Len(new) = Len(q) + 1 /\ Len(q) \in Nat
      /\ new[Len(q) + 1] = e /\ \A i \in 1 .. Len(q) : new[i] = q[i]
  OBVIOUS
<1>2. \A i \in 1 .. Len(new) : i = Len(q) + 1 \/ i \in 1 .. Len(q)
  BY <1>1
<1> HIDE DEF new
<1>3. ASSUME e \notin ReadEvent PROVE Once(new, waits)
  BY <1>1, <1>2, <1>3 DEF Once
<1>4. ASSUME waits PROVE Once(new, FALSE)
  BY <1>1, <1>2, <1>4 DEF Once
<1>5. ASSUME Expired(q) \/ e = "expired" PROVE Expired(new)
  <2>1. CASE e = "expired"
    BY <1>1, <2>1 DEF Expired
  <2>2. CASE Expired(q)
    <3>1. PICK i \in 1 .. Len(q) : q[i] = "expired"
      BY <2>2 DEF Expired
    <3>2. i \in 1 .. Len(new) /\ new[i] = "expired"
      BY <1>1, <3>1
    <3> QED
      BY <3>2 DEF Expired
  <2> QED
    BY <1>5, <2>1, <2>2
<1> QED
  BY <1>1, <1>3, <1>4, <1>5 DEF new

-----------------------------------------------------------------------------
(* The outcome of a read.                                                  *)

Typed ==
    /\ sent \in 0 .. MaxBytes /\ reads \in 0 .. MaxReads /\ size \in Sizes
    /\ call \in {"idle", "run", "ok", "thrown"}
    /\ timer \in {"off", "armed"}
    /\ reading \in BOOLEAN
    /\ ready \in Seq(Event)
    /\ readResult \in Result

\* A read is in progress until its deadline at the latest, and a success has
\* filled the buffer, which nothing writes any more.
Control ==
    /\ Typed
    /\ call # "run" => ready = <<>> /\ ~ reading /\ timer = "off"
    /\ Once(ready, reading)
    /\ call = "run" /\ readResult = "IN_PROGRESS" => timer = "armed" \/ Expired(ready)
    /\ call \in {"run", "ok"} /\ readResult = "SUCCESS" => ~ reading /\ Len(buffer) = size
    /\ call = "ok" => readResult = "SUCCESS"

\* Cancelling the timer queues its handler, and leaves the read alone.
LEMMA TimerCancelled ==
  ASSUME NEW q \in Seq(Event), NEW waits \in BOOLEAN, Once(q, waits), CancelTimer(q)
  PROVE  timer' = "off" /\ ready' \in Seq(Event) /\ Once(ready', waits)
<1>1. "timerAborted" \in Event \ ReadEvent
  BY DEF Event, ReadEvent
<1> QED
  BY <1>1, Enqueue DEF CancelTimer

\* Cancelling the read queues its handler if it waits.
LEMMA ReadCancelled ==
  ASSUME NEW q \in Seq(Event), reading \in BOOLEAN, Once(q, reading), CancelRead(q)
  PROVE  ~ reading' /\ reading' \in BOOLEAN /\ ready' \in Seq(Event) /\ Once(ready', reading')
<1>1. "readAborted" \in Event
  BY DEF Event
<1>2. CASE reading
  BY <1>1, <1>2, Enqueue DEF CancelRead
<1>3. CASE ~ reading
  BY <1>3 DEF CancelRead
<1> QED
  BY <1>2, <1>3

\* Control holds at first.
LEMMA ControlInit == Init => Control
<1> SUFFICES ASSUME Init PROVE Control
  OBVIOUS
<1>1. Typed
  <2>1. sent \in 0 .. MaxBytes /\ reads \in 0 .. MaxReads
    BY BoundAssumption DEF Init
  <2>2. ready \in Seq(Event) /\ readResult \in Result
    BY DEF Init, Result
  <2> QED
    BY <2>1, <2>2 DEF Init, Typed
<1>2. Once(ready, reading)
  BY DEF Init, Once
<1> QED
  BY <1>1, <1>2 DEF Init, Control

\* Every event and every handler keeps it.
LEMMA ControlStep == Control /\ [Next]_vars => Control'
<1> SUFFICES ASSUME Control, [Next]_vars PROVE Control'
  OBVIOUS
<1> USE DEF Result
<1>1. Typed /\ Once(ready, reading) /\ reading \in BOOLEAN /\ ready \in Seq(Event)
  BY DEF Control, Typed
<1>2. CASE Arrive \/ UNCHANGED vars
  <2>1. UNCHANGED <<reads, size, call, timer, reading, ready, readResult, buffer>>
    BY <1>2 DEF Arrive, vars
  <2>2. sent' \in 0 .. MaxBytes
    BY <1>1, <1>2, BoundAssumption DEF Arrive, vars, Typed
  <2>3. Typed'
    BY <1>1, <2>1, <2>2 DEF Typed
  <2> QED
    BY <2>1, <2>3 DEF Control
<1>3. CASE Expire
  <2>1. /\ timer = "armed" /\ timer' = "off" /\ ready' = Append(ready, "expired") /\ "expired" \in Event \ ReadEvent
        /\ UNCHANGED <<sent, reads, size, call, reading, readResult, buffer>>
    BY <1>3 DEF Expire, Event, ReadEvent
  <2>2. ready' \in Seq(Event) /\ Once(ready', reading) /\ Expired(ready')
    BY <1>1, <2>1, Enqueue
  <2>3. Typed'
    BY <1>1, <2>1, <2>2 DEF Typed
  <2> QED
    BY <2>1, <2>2, <2>3 DEF Control
<1>4. CASE Take \/ PortFails
  <2>1. PICK e \in {"taken", "failed"} : ready' = Append(ready, e)
    BY <1>4 DEF Take, PortFails
  <2>2. /\ reading /\ reading' = FALSE
        /\ UNCHANGED <<sent, reads, size, call, timer, readResult>>
    BY <1>4 DEF Take, PortFails
  <2>3. e \in Event
    BY <2>1 DEF Event
  <2>4. ready' \in Seq(Event) /\ Once(ready', reading') /\ (Expired(ready) => Expired(ready'))
    BY <1>1, <2>1, <2>2, <2>3, Enqueue
  <2>5. Typed'
    BY <1>1, <2>2, <2>4 DEF Typed
  <2> QED
    BY <2>2, <2>4, <2>5 DEF Control
<1>5. CASE Read
  <2>1. /\ ready' = ready /\ ready = <<>> /\ reading' = TRUE /\ timer' = "armed" /\ call' = "run"
        /\ readResult' = "IN_PROGRESS" /\ sent' = sent /\ size' \in Sizes /\ reads' = reads + 1 /\ reads < MaxReads
    BY <1>5 DEF Read, Control
  <2>2. Once(ready', reading')
    BY <2>1 DEF Once
  <2>3. Typed'
    BY <1>1, <2>1, BoundAssumption DEF Typed
  <2> QED
    BY <2>1, <2>2, <2>3 DEF Control
<1>6. CASE WaitAgain
  <2>1. /\ call = "run" /\ ready # <<>> /\ Head(ready) = "taken" /\ Len(buffer) < size
        /\ reading' = TRUE /\ ready' = Tail(ready)
        /\ UNCHANGED <<sent, reads, size, call, timer, readResult, buffer>>
    BY <1>6 DEF WaitAgain
  <2>2. Head(ready) \in ReadEvent /\ Head(ready) # "expired"
    BY <2>1 DEF ReadEvent
  <2>3. ready' \in Seq(Event) /\ Once(ready', reading') /\ (Expired(ready) => Expired(ready'))
    BY <1>1, <2>1, <2>2, Dequeue
  <2>4. Typed'
    BY <1>1, <2>1, <2>3 DEF Typed
  <2>5. readResult # "SUCCESS"
    <3>1. size # Len(buffer)
      BY <1>1, <2>1, SizeAssumption DEF Typed
    <3> QED
      BY <2>1, <3>1 DEF Control
  <2> QED
    BY <2>1, <2>3, <2>4, <2>5 DEF Control
<1>7. CASE OnCompleted
  <2>1. /\ call = "run" /\ ready # <<>> /\ UNCHANGED <<sent, reads, size, call, reading, buffer>>
        /\ Head(ready) \in ReadEvent
    BY <1>7 DEF OnCompleted, ReadEvent
  <2>2. ~ reading /\ Tail(ready) \in Seq(Event) /\ Once(Tail(ready), reading)
    BY <1>1, <2>1, Dequeue
  <2>3. CASE Head(ready) \in {"taken", "failed"}
    <3>1. /\ CancelTimer(Tail(ready)) /\ readResult' \in {"SUCCESS", "ERROR"}
          /\ readResult' = "SUCCESS" => Len(buffer) = size
      BY <1>7, <2>3 DEF OnCompleted
    <3>2. timer' = "off" /\ ready' \in Seq(Event) /\ Once(ready', reading)
      BY <2>2, <3>1, <1>1, TimerCancelled
    <3>3. Typed'
      BY <1>1, <2>1, <3>1, <3>2 DEF Typed
    <3> QED
      BY <2>1, <2>2, <3>1, <3>2, <3>3 DEF Control
  <2>4. CASE Head(ready) = "readAborted"
    <3>1. ready' = Tail(ready) /\ timer' = timer /\ readResult' = readResult
      BY <1>7, <2>4 DEF OnCompleted
    <3>2. Expired(ready) => Expired(ready')
      BY <1>1, <2>1, <2>4, <3>1, Dequeue
    <3>3. Typed'
      BY <1>1, <2>1, <2>2, <3>1 DEF Typed
    <3> QED
      BY <2>1, <2>2, <3>1, <3>2, <3>3 DEF Control
  <2> QED
    BY <2>1, <2>3, <2>4 DEF ReadEvent
<1>8. CASE OnTimedOut
  <2>1. /\ call = "run" /\ ready # <<>> /\ UNCHANGED <<sent, reads, size, call, timer, buffer>>
        /\ Head(ready) \in {"expired", "timerAborted"}
    BY <1>8 DEF OnTimedOut
  <2>2. Tail(ready) \in Seq(Event) /\ Once(Tail(ready), reading)
    BY <1>1, <2>1, Dequeue
  <2>3. CASE Head(ready) = "expired"
    <3>1. CancelRead(Tail(ready)) /\ readResult' = "TIMEOUT"
      BY <1>8, <2>3 DEF OnTimedOut
    <3>2. ~ reading' /\ reading' \in BOOLEAN /\ ready' \in Seq(Event) /\ Once(ready', reading')
      BY <1>1, <2>2, <3>1, ReadCancelled
    <3>3. Typed'
      BY <1>1, <2>1, <3>1, <3>2 DEF Typed
    <3> QED
      BY <2>1, <3>1, <3>2, <3>3 DEF Control
  <2>4. CASE Head(ready) = "timerAborted"
    <3>1. ready' = Tail(ready) /\ reading' = reading /\ readResult' = readResult
      BY <1>8, <2>4 DEF OnTimedOut
    <3>2. Expired(ready) => Expired(ready')
      BY <1>1, <2>1, <2>4, <3>1, Dequeue
    <3>3. Typed'
      BY <1>1, <2>1, <2>2, <3>1 DEF Typed
    <3> QED
      BY <2>1, <2>2, <3>1, <3>2, <3>3 DEF Control
  <2> QED
    BY <2>1, <2>3, <2>4
<1>9. CASE Finish
  <2>1. /\ call = "run" /\ ready = <<>> /\ ~ reading /\ timer = "off" /\ call' \in {"ok", "thrown"}
        /\ UNCHANGED <<sent, reads, size, timer, reading, ready, readResult, buffer>>
        /\ call' = "ok" => readResult \in {"SUCCESS", "IN_PROGRESS"}
    BY <1>9 DEF Finish
  <2>2. ~ Expired(ready)
    BY <2>1 DEF Expired
  <2>3. Typed'
    BY <1>1, <2>1 DEF Typed
  <2> QED
    BY <2>1, <2>2, <2>3 DEF Control
<1> QED
  BY <1>2, <1>3, <1>4, <1>5, <1>6, <1>7, <1>8, <1>9 DEF Next, Handle

\* A read that returns has filled the caller's buffer, in every order of the
\* handlers and for every size (hw.cpp:32-55, 160-192).
THEOREM ReturnsFull == Spec => []ReturnsFullBuffer
<1>1. Control => ReturnsFullBuffer
  BY DEF Control, ReturnsFullBuffer
<1> QED
  BY <1>1, ControlInit, ControlStep, PTL DEF Spec

-----------------------------------------------------------------------------
(* The bytes.                                                              *)

\* What the read in progress has taken.
Held == IF call = "run" THEN buffer ELSE <<>>

\* From the caller back to the device.
Flow == (delivered \o Held) \o line

Ascends(s) == \A i, j \in 1 .. Len(s) : i < j => s[i] < s[j]

Data ==
    /\ line \in Seq(Nat) /\ buffer \in Seq(Nat) /\ delivered \in Seq(Nat)
    /\ Ascends(Flow)
    /\ BytesOf(Flow) \cap dropped = {}
    /\ BytesOf(Flow) \cup dropped = 1 .. sent

\* The elements of two sequences in a row.
LEMMA Concatenated ==
  ASSUME NEW s \in Seq(Nat), NEW t \in Seq(Nat)
  PROVE  /\ s \o t \in Seq(Nat) /\ Len(s \o t) = Len(s) + Len(t)
         /\ \A i \in 1 .. Len(s) + Len(t) : (s \o t)[i] = IF i <= Len(s) THEN s[i] ELSE t[i - Len(s)]
BY ConcatProperties

\* The bytes of two sequences, and their order.
LEMMA Joined ==
  ASSUME NEW s \in Seq(Nat), NEW t \in Seq(Nat)
  PROVE  /\ s \o t \in Seq(Nat)
         /\ BytesOf(s \o t) = BytesOf(s) \cup BytesOf(t)
         /\ Ascends(s \o t) => Ascends(s) /\ BytesOf(s) \cap BytesOf(t) = {}
<1> DEFINE u == s \o t
<1>1. /\ u \in Seq(Nat) /\ Len(u) = Len(s) + Len(t) /\ Len(s) \in Nat /\ Len(t) \in Nat
      /\ \A i \in 1 .. Len(s) + Len(t) : u[i] = IF i <= Len(s) THEN s[i] ELSE t[i - Len(s)]
  BY ConcatProperties
<1> HIDE DEF u
<1>2. \A i \in 1 .. Len(s) : i \in 1 .. Len(u) /\ u[i] = s[i]
  BY <1>1
<1>3. \A j \in 1 .. Len(t) : Len(s) + j \in 1 .. Len(u) /\ u[Len(s) + j] = t[j]
  <2> SUFFICES ASSUME NEW j \in 1 .. Len(t) PROVE Len(s) + j \in 1 .. Len(u) /\ u[Len(s) + j] = t[j]
    OBVIOUS
  <2>1. /\ Len(s) + j \in 1 .. Len(s) + Len(t) /\ ~ (Len(s) + j <= Len(s))
        /\ (Len(s) + j) - Len(s) = j
    BY <1>1
  <2> QED
    BY <1>1, <2>1
<1>4. \A i \in 1 .. Len(u) : i \in 1 .. Len(s) \/ (i - Len(s) \in 1 .. Len(t) /\ u[i] = t[i - Len(s)])
  BY <1>1
<1>5. BytesOf(u) = BytesOf(s) \cup BytesOf(t)
  <2>1. \A i \in 1 .. Len(u) : u[i] \in BytesOf(s) \cup BytesOf(t)
    BY <1>2, <1>4 DEF BytesOf
  <2>2. \A i \in 1 .. Len(s) : s[i] \in BytesOf(u)
    BY <1>2 DEF BytesOf
  <2>3. \A j \in 1 .. Len(t) : t[j] \in BytesOf(u)
    BY <1>3 DEF BytesOf
  <2> QED
    BY <2>1, <2>2, <2>3 DEF BytesOf
<1>6. ASSUME Ascends(u) PROVE Ascends(s)
  BY <1>2, <1>6 DEF Ascends
<1>7. ASSUME Ascends(u) PROVE BytesOf(s) \cap BytesOf(t) = {}
  <2> SUFFICES ASSUME NEW i \in 1 .. Len(s), NEW j \in 1 .. Len(t), s[i] = t[j] PROVE FALSE
    BY DEF BytesOf
  <2>1. i < Len(s) + j /\ u[i] \in Nat
    <3>1. i \in Nat /\ j \in Nat /\ i <= Len(s) /\ 1 <= j /\ i \in 1 .. Len(u)
      BY <1>1, <1>2
    <3>2. u[i] \in Nat
      <4>1. s[i] \in Nat
        OBVIOUS
      <4> QED
        BY <1>2, <4>1
    <3>3. i < Len(s) + j
      BY <1>1, <3>1
    <3> QED
      BY <3>2, <3>3
  <2>2. u[i] < u[Len(s) + j]
    BY <1>2, <1>3, <1>7, <2>1 DEF Ascends
  <2> QED
    BY <1>2, <1>3, <2>1, <2>2
<1> QED
  BY <1>1, <1>5, <1>6, <1>7 DEF u

\* Concatenation of bytes is associative.
LEMMA Regrouped ==
  ASSUME NEW s \in Seq(Nat), NEW t \in Seq(Nat), NEW u \in Seq(Nat)
  PROVE  (s \o t) \o u = s \o (t \o u)
<1> DEFINE l == (s \o t) \o u
           r == s \o (t \o u)
<1>1. /\ s \o t \in Seq(Nat) /\ Len(s \o t) = Len(s) + Len(t)
      /\ \A i \in 1 .. Len(s) + Len(t) : (s \o t)[i] = IF i <= Len(s) THEN s[i] ELSE t[i - Len(s)]
  BY Concatenated
<1>2. /\ t \o u \in Seq(Nat) /\ Len(t \o u) = Len(t) + Len(u)
      /\ \A i \in 1 .. Len(t) + Len(u) : (t \o u)[i] = IF i <= Len(t) THEN t[i] ELSE u[i - Len(t)]
  BY Concatenated
<1>3. /\ l \in Seq(Nat) /\ Len(l) = Len(s \o t) + Len(u)
      /\ \A i \in 1 .. Len(s \o t) + Len(u) :
            l[i] = IF i <= Len(s \o t) THEN (s \o t)[i] ELSE u[i - Len(s \o t)]
  BY <1>1, Concatenated
<1>4. /\ r \in Seq(Nat) /\ Len(r) = Len(s) + Len(t \o u)
      /\ \A i \in 1 .. Len(s) + Len(t \o u) :
            r[i] = IF i <= Len(s) THEN s[i] ELSE (t \o u)[i - Len(s)]
  BY <1>2, Concatenated
<1>5. Len(s) \in Nat /\ Len(t) \in Nat /\ Len(u) \in Nat
  OBVIOUS
<1>6. Len(l) = Len(s) + Len(t) + Len(u) /\ Len(r) = Len(l)
  BY <1>1, <1>2, <1>3, <1>4, <1>5
<1> HIDE DEF l, r
<1>7. ASSUME NEW i \in 1 .. Len(l) PROVE l[i] = r[i]
  <2>1. i \in 1 .. Len(s \o t) + Len(u) /\ i \in 1 .. Len(s) + Len(t \o u) /\ i \in Nat
    BY <1>1, <1>2, <1>5, <1>6
  <2>2. CASE i <= Len(s)
    <3>1. i <= Len(s \o t) /\ i \in 1 .. Len(s) + Len(t)
      BY <1>1, <1>5, <2>1, <2>2
    <3> QED
      BY <1>1, <1>3, <1>4, <2>1, <2>2, <3>1
  <2>3. CASE ~ (i <= Len(s)) /\ i <= Len(s) + Len(t)
    <3>1. /\ i <= Len(s \o t) /\ i \in 1 .. Len(s) + Len(t) /\ i - Len(s) \in 1 .. Len(t) + Len(u)
          /\ i - Len(s) <= Len(t)
      BY <1>1, <1>5, <2>1, <2>3
    <3>2. l[i] = t[i - Len(s)]
      BY <1>1, <1>3, <2>1, <2>3, <3>1
    <3>3. r[i] = t[i - Len(s)]
      BY <1>2, <1>4, <2>1, <2>3, <3>1
    <3> QED
      BY <3>2, <3>3
  <2>4. CASE ~ (i <= Len(s) + Len(t))
    <3>1. /\ ~ (i <= Len(s \o t)) /\ ~ (i <= Len(s)) /\ i - Len(s) \in 1 .. Len(t) + Len(u)
          /\ ~ (i - Len(s) <= Len(t)) /\ (i - Len(s)) - Len(t) = i - Len(s \o t)
      BY <1>1, <1>5, <1>6, <2>1, <2>4
    <3>2. l[i] = u[i - Len(s \o t)]
      BY <1>3, <2>1, <3>1
    <3>3. r[i] = u[i - Len(s \o t)]
      BY <1>2, <1>4, <2>1, <3>1
    <3> QED
      BY <3>2, <3>3
  <2> QED
    BY <1>5, <2>1, <2>2, <2>3, <2>4
<1>8. l = r
  BY <1>3, <1>4, <1>6, <1>7, SeqEqual
<1> QED
  BY <1>8 DEF l, r

\* A sequence of bytes is what it is cut into.
LEMMA Cut ==
  ASSUME NEW s \in Seq(Nat), NEW n \in 1 .. Len(s)
  PROVE  LET front == SubSeq(s, 1, n)
             back  == SubSeq(s, n + 1, Len(s))
         IN  front \in Seq(Nat) /\ back \in Seq(Nat) /\ front \o back = s
<1> DEFINE front == SubSeq(s, 1, n)
           back  == SubSeq(s, n + 1, Len(s))
<1>1. n \in Nat /\ Len(s) \in Nat /\ n <= Len(s) /\ 1 <= n
  OBVIOUS
<1>2. front \in Seq(Nat) /\ Len(front) = n /\ \A i \in 1 .. n : front[i] = s[i]
  BY <1>1
<1>3. back \in Seq(Nat) /\ Len(back) = Len(s) - n /\ \A i \in 1 .. Len(s) - n : back[i] = s[i + n]
  BY <1>1
<1> HIDE DEF front, back
<1> DEFINE u == front \o back
<1>4. /\ u \in Seq(Nat) /\ Len(u) = Len(s)
      /\ \A i \in 1 .. Len(s) : u[i] = IF i <= n THEN front[i] ELSE back[i - n]
  <2>1. /\ u \in Seq(Nat) /\ Len(u) = Len(front) + Len(back)
        /\ \A i \in 1 .. Len(front) + Len(back) :
              u[i] = IF i <= Len(front) THEN front[i] ELSE back[i - Len(front)]
    BY <1>2, <1>3, Concatenated
  <2>2. Len(front) + Len(back) = Len(s) /\ Len(front) = n
    BY <1>1, <1>2, <1>3
  <2> HIDE DEF u
  <2> QED
    BY <2>1, <2>2
<1> HIDE DEF u
<1>5. \A i \in 1 .. Len(s) : u[i] = s[i]
  <2> SUFFICES ASSUME NEW i \in 1 .. Len(s) PROVE u[i] = s[i]
    OBVIOUS
  <2>1. CASE i <= n
    <3>1. i \in 1 .. n
      BY <1>1, <2>1
    <3> QED
      BY <1>2, <1>4, <2>1, <3>1
  <2>2. CASE ~ (i <= n)
    <3>1. i - n \in 1 .. Len(s) - n /\ (i - n) + n = i
      BY <1>1, <2>2
    <3> QED
      BY <1>3, <1>4, <2>2, <3>1
  <2> QED
    BY <2>1, <2>2
<1>6. u = s
  BY <1>4, <1>5, SeqEqual
<1> QED
  BY <1>2, <1>3, <1>6 DEF u, front, back

\* The next byte of the device goes to the end.
LEMMA Arrived ==
  ASSUME NEW s \in Seq(Nat), NEW n \in Nat, Ascends(s), BytesOf(s) \subseteq 1 .. n
  PROVE  Ascends(Append(s, n + 1)) /\ BytesOf(Append(s, n + 1)) = BytesOf(s) \cup {n + 1}
<1> DEFINE u == Append(s, n + 1)
<1>1. /\ Len(u) = Len(s) + 1 /\ Len(s) \in Nat /\ u[Len(s) + 1] = n + 1
      /\ \A i \in 1 .. Len(s) : u[i] = s[i] /\ s[i] \in BytesOf(s)
  BY DEF BytesOf
<1> HIDE DEF u
<1>2. \A i \in 1 .. Len(s) : u[i] < n + 1
  BY <1>1
<1>3. Ascends(u)
  <2> SUFFICES ASSUME NEW i \in 1 .. Len(u), NEW j \in 1 .. Len(u), i < j PROVE u[i] < u[j]
    BY DEF Ascends
  <2>1. CASE j = Len(s) + 1
    <3>1. i \in 1 .. Len(s)
      BY <1>1, <2>1
    <3> QED
      BY <1>1, <1>2, <2>1, <3>1
  <2>2. CASE j # Len(s) + 1
    <3>0. i \in Nat /\ j \in Nat /\ 1 <= i /\ i < j /\ j <= Len(s) + 1
      BY <1>1
    <3>1. i \in 1 .. Len(s) /\ j \in 1 .. Len(s)
      BY <1>1, <2>2, <3>0
    <3>2. s[i] < s[j]
      BY <3>1 DEF Ascends
    <3> QED
      BY <1>1, <3>1, <3>2
  <2> QED
    BY <2>1, <2>2
<1>4. BytesOf(u) = BytesOf(s) \cup {n + 1}
  <2>1. \A i \in 1 .. Len(u) : i \in 1 .. Len(s) \/ i = Len(s) + 1
    BY <1>1
  <2>2. \A i \in 1 .. Len(s) : i \in 1 .. Len(u)
    BY <1>1
  <2>3. \A i \in 1 .. Len(u) : u[i] \in BytesOf(s) \cup {n + 1}
    BY <1>1, <2>1
  <2>4. \A i \in 1 .. Len(s) : s[i] \in BytesOf(u)
    BY <1>1, <2>2 DEF BytesOf
  <2>5. n + 1 \in BytesOf(u)
    <3>1. Len(s) + 1 \in 1 .. Len(u)
      BY <1>1
    <3> QED
      BY <1>1, <3>1 DEF BytesOf
  <2> QED
    BY <2>3, <2>4, <2>5 DEF BytesOf
<1> QED
  BY <1>3, <1>4 DEF u

\* Data holds at first.
LEMMA DataInit == Init => Data
<1> SUFFICES ASSUME Init PROVE Data
  OBVIOUS
<1>1. Flow = <<>> /\ line = <<>> /\ buffer = <<>> /\ delivered = <<>> /\ dropped = {} /\ sent = 0
  BY DEF Init, Flow, Held
<1>2. BytesOf(<<>>) = {} /\ Ascends(<<>>) /\ <<>> \in Seq(Nat) /\ 1 .. 0 = {}
  BY DEF BytesOf, Ascends
<1> QED
  BY <1>1, <1>2 DEF Data

\* Bytes only move along the flow, or are dropped by a read that throws.
LEMMA DataStep == Control /\ Data /\ [Next]_vars => Data'
<1> SUFFICES ASSUME Control, Data, [Next]_vars PROVE Data'
  OBVIOUS
<1>1. /\ line \in Seq(Nat) /\ buffer \in Seq(Nat) /\ delivered \in Seq(Nat) /\ Held \in Seq(Nat)
      /\ sent \in Nat /\ delivered \o Held \in Seq(Nat) /\ Flow \in Seq(Nat)
  <2>1. line \in Seq(Nat) /\ buffer \in Seq(Nat) /\ delivered \in Seq(Nat) /\ Held \in Seq(Nat) /\ sent \in Nat
    BY BoundAssumption DEF Data, Held, Control, Typed
  <2> QED
    BY <2>1, Joined DEF Flow
<1>2. ASSUME /\ line' \in Seq(Nat) /\ buffer' \in Seq(Nat) /\ delivered' \in Seq(Nat)
             /\ Flow' = Flow /\ sent' = sent /\ dropped' = dropped
      PROVE  Data'
  BY <1>2 DEF Data, BytesOf, Ascends
<1>3. CASE Arrive
  <2>1. /\ sent' = sent + 1 /\ line' = Append(line, sent + 1) /\ Held' = Held
        /\ UNCHANGED <<buffer, delivered, dropped>>
    BY <1>3 DEF Arrive, Held
  <2>2. line' \in Seq(Nat)
    BY <1>1, <2>1
  <2>3. Flow' = Append(Flow, sent + 1)
    <3>1. line' = line \o <<sent + 1>> /\ <<sent + 1>> \in Seq(Nat)
      BY <1>1, <2>1
    <3>2. Flow' = Flow \o <<sent + 1>>
      BY <1>1, <2>1, <3>1, Regrouped DEF Flow
    <3> QED
      BY <1>1, <3>2
  <2>4. Ascends(Flow') /\ BytesOf(Flow') = BytesOf(Flow) \cup {sent + 1}
    BY <1>1, <2>3, Arrived DEF Data
  <2>5. sent + 1 \notin dropped /\ (1 .. sent) \cup {sent + 1} = 1 .. sent + 1
    BY <1>1 DEF Data
  <2>6. BytesOf(Flow') \cap dropped' = {} /\ BytesOf(Flow') \cup dropped' = 1 .. sent'
    BY <2>1, <2>4, <2>5 DEF Data
  <2> QED
    BY <1>1, <2>1, <2>2, <2>4, <2>6 DEF Data, BytesOf, Ascends
<1>4. CASE Take
  <2>1. PICK n \in 1 .. Len(line) :
          buffer' = buffer \o SubSeq(line, 1, n) /\ line' = SubSeq(line, n + 1, Len(line))
    BY <1>4 DEF Take
  <2>2. call = "run" /\ UNCHANGED <<call, sent, delivered, dropped>>
    BY <1>4 DEF Take, Control
  <2>3. SubSeq(line, 1, n) \in Seq(Nat) /\ line' \in Seq(Nat) /\ SubSeq(line, 1, n) \o line' = line
    BY <1>1, <2>1, Cut
  <2>4. Flow' = (delivered \o (buffer \o SubSeq(line, 1, n))) \o line'
    BY <2>1, <2>2 DEF Flow, Held
  <2>5. Flow = (delivered \o buffer) \o (SubSeq(line, 1, n) \o line')
    BY <2>2, <2>3 DEF Flow, Held
  <2>6. Flow' = Flow
    <3> DEFINE front == SubSeq(line, 1, n)
    <3>1. front \in Seq(Nat) /\ line' \in Seq(Nat) /\ buffer \in Seq(Nat) /\ delivered \in Seq(Nat)
      BY <1>1, <2>3
    <3>2. /\ Flow' = (delivered \o (buffer \o front)) \o line'
          /\ Flow = (delivered \o buffer) \o (front \o line')
      BY <2>4, <2>5
    <3> HIDE DEF front
    <3>3. buffer \o front \in Seq(Nat) /\ delivered \o buffer \in Seq(Nat)
      BY <3>1, Concatenated
    <3>4. (delivered \o (buffer \o front)) \o line' = (delivered \o buffer) \o (front \o line')
      <4>1. \A a, b, c \in Seq(Nat) : (a \o b) \o c = a \o (b \o c)
        BY Regrouped, Zenon
      <4>2. delivered \o (buffer \o front) = (delivered \o buffer) \o front
        BY <3>1, <4>1
      <4>3. ((delivered \o buffer) \o front) \o line' = (delivered \o buffer) \o (front \o line')
        <5>1. PICK x \in Seq(Nat) : x = delivered \o buffer
          BY <3>3
        <5>2. x \in Seq(Nat) /\ front \in Seq(Nat) /\ line' \in Seq(Nat)
          BY <3>1, <5>1
        <5>3. (x \o front) \o line' = x \o (front \o line')
          BY <4>1, <5>2
        <5> QED
          BY <5>1, <5>3, Zenon
      <4> QED
        BY <4>2, <4>3, Zenon
    <3> QED
      BY <3>2, <3>4, Zenon
  <2>7. buffer' \in Seq(Nat)
    BY <1>1, <2>1, <2>3, Joined
  <2> QED
    BY <1>1, <1>2, <2>2, <2>3, <2>6, <2>7
<1>5. CASE Read
  <2>1. buffer' = <<>> /\ call # "run" /\ UNCHANGED <<line, sent, delivered, dropped>>
    BY <1>5 DEF Read
  <2>2. Held = <<>> /\ Held' = <<>>
    BY <2>1 DEF Held
  <2>3. Flow' = Flow /\ buffer' \in Seq(Nat)
    BY <2>1, <2>2 DEF Flow
  <2> QED
    BY <1>1, <1>2, <2>1, <2>3
<1>6. CASE Finish
  <2>1. call = "run" /\ call' \in {"ok", "thrown"} /\ UNCHANGED <<sent, buffer>>
    BY <1>6 DEF Finish
  <2>2. Held = buffer /\ Held' = <<>>
    BY <2>1 DEF Held
  <2>3. CASE call' = "ok"
    <3>1. delivered' = delivered \o buffer /\ UNCHANGED <<line, dropped>>
      BY <1>6, <2>3 DEF Finish
    <3>2. delivered' \in Seq(Nat) /\ delivered' \o <<>> = delivered'
      BY <1>1, <3>1, Joined
    <3>3. Flow' = Flow
      BY <2>2, <3>1, <3>2 DEF Flow
    <3> QED
      BY <1>1, <1>2, <2>1, <3>1, <3>2, <3>3
  <2>4. CASE call' = "thrown"
    <3>1. /\ delivered' = delivered /\ line' = <<>>
          /\ dropped' = dropped \cup BytesOf(buffer) \cup BytesOf(line)
      BY <1>6, <2>4 DEF Finish
    <3>2. Flow' = delivered
      <4>1. delivered \o <<>> = delivered
        BY <1>1
      <4> QED
        BY <2>2, <3>1, <4>1 DEF Flow
    <3>3. Flow = delivered \o (buffer \o line) /\ buffer \o line \in Seq(Nat)
      <4>1. Flow = (delivered \o buffer) \o line
        BY <2>2 DEF Flow
      <4>2. (delivered \o buffer) \o line = delivered \o (buffer \o line)
        <5>2. delivered \in Seq(Nat) /\ buffer \in Seq(Nat) /\ line \in Seq(Nat)
          BY <1>1
        <5>1. \A a, b, c \in Seq(Nat) : (a \o b) \o c = a \o (b \o c)
          BY Regrouped, Zenon
        <5> QED
          BY <5>2, <5>1
      <4>3. buffer \o line \in Seq(Nat)
        BY <1>1, Concatenated
      <4> QED
        BY <4>1, <4>2, <4>3
    <3>4. BytesOf(buffer \o line) = BytesOf(buffer) \cup BytesOf(line)
      BY <1>1, Joined
    <3>5. /\ BytesOf(Flow) = BytesOf(delivered) \cup BytesOf(buffer) \cup BytesOf(line)
          /\ BytesOf(delivered) \cap (BytesOf(buffer) \cup BytesOf(line)) = {}
          /\ Ascends(delivered)
      BY <1>1, <3>3, <3>4, Joined DEF Data
    <3>6. /\ BytesOf(delivered) \cap dropped' = {}
          /\ BytesOf(delivered) \cup dropped' = 1 .. sent
      BY <3>1, <3>5 DEF Data
    <3>7. Ascends(Flow)' /\ BytesOf(Flow)' = BytesOf(delivered)
      BY <3>2, <3>5 DEF BytesOf, Ascends
    <3>8. line' \in Seq(Nat) /\ buffer' \in Seq(Nat) /\ delivered' \in Seq(Nat)
      BY <1>1, <2>1, <3>1
    <3> QED
      BY <2>1, <3>6, <3>7, <3>8 DEF Data
  <2> QED
    BY <2>1, <2>3, <2>4
<1>7. CASE Expire \/ PortFails \/ WaitAgain \/ OnCompleted \/ OnTimedOut \/ UNCHANGED vars
  <2>1. UNCHANGED <<line, sent, call, buffer, delivered, dropped>>
    BY <1>7 DEF Expire, PortFails, WaitAgain, OnCompleted, OnTimedOut, vars
  <2>2. Flow' = Flow
    BY <2>1 DEF Flow, Held
  <2> QED
    BY <1>1, <1>2, <2>1, <2>2
<1> QED
  BY <1>3, <1>4, <1>5, <1>6, <1>7 DEF Next, Handle

\* Both hold for ever.
LEMMA Invariance == Spec => [](Control /\ Data)
BY ControlInit, ControlStep, DataInit, DataStep, PTL DEF Spec

\* Every variable has its type.
THEOREM TypeCorrect == Spec => []TypeOK
<1>1. Control /\ Data => TypeOK
  <2> SUFFICES ASSUME Control, Data PROVE TypeOK
    OBVIOUS
  <2>1. dropped \subseteq 1 .. sent /\ sent \in 0 .. MaxBytes
    BY DEF Control, Typed, Data
  <2>2. dropped \subseteq 1 .. MaxBytes
    BY <2>1, BoundAssumption
  <2> QED
    BY <2>2 DEF Control, Typed, Data, TypeOK
<1> QED
  BY <1>1, Invariance, PTL

\* The caller gets the device's bytes in order, none twice, and misses only
\* those that a read which threw took or flushed (hw.cpp:127-193).
THEOREM LosesNothingSilently == Spec => []NoSilentLoss
<1>1. Control /\ Data => NoSilentLoss
  <2> SUFFICES ASSUME Control, Data PROVE NoSilentLoss
    OBVIOUS
  <2>1. /\ line \in Seq(Nat) /\ delivered \in Seq(Nat) /\ Held \in Seq(Nat)
    BY DEF Data, Held
  <2>2. delivered \o Held \in Seq(Nat) /\ Ascends(delivered \o Held) /\ Ascends(delivered)
    BY <2>1, Joined DEF Data, Flow
  <2>3. BytesOf(Flow) = BytesOf(delivered) \cup BytesOf(Held) \cup BytesOf(line)
    <3>1. BytesOf(delivered \o Held) = BytesOf(delivered) \cup BytesOf(Held)
      BY <2>1, Joined
    <3>2. BytesOf((delivered \o Held) \o line) = BytesOf(delivered \o Held) \cup BytesOf(line)
      BY <2>1, <2>2, Joined
    <3> QED
      BY <3>1, <3>2 DEF Flow
  <2>4. BytesOf(Held) = IF call = "run" THEN BytesOf(buffer) ELSE {}
    BY DEF Held, BytesOf
  <2>5. \A k \in 1 .. Len(delivered) - 1 : delivered[k] < delivered[k + 1]
    <3> SUFFICES ASSUME NEW k \in 1 .. Len(delivered) - 1 PROVE delivered[k] < delivered[k + 1]
      OBVIOUS
    <3>1. k \in 1 .. Len(delivered) /\ k + 1 \in 1 .. Len(delivered) /\ k < k + 1
      BY <2>1
    <3> QED
      BY <2>2, <3>1 DEF Ascends
  <2> QED
    BY <2>3, <2>4, <2>5 DEF NoSilentLoss, Data
<1> QED
  BY <1>1, Invariance, PTL

-----------------------------------------------------------------------------
(* The end of a read.                                                      *)

Queued(event) == \E k \in 1 .. Len(ready) : ready[k] = event

(***************************************************************************)
(* A one-byte read that waits has a timer running or an expired one whose  *)
(* handler is still to come: no order of the events leaves it waiting with *)
(* nobody to cancel it (hw.cpp:44-53, 137-158).                            *)
(***************************************************************************)
NeverAbandoned == reading /\ size = 1 => timer = "armed" \/ Queued("expired")

\* One byte has been taken by the time it is announced, and until then there is
\* a deadline.
Guarded ==
    /\ Queued("taken") => buffer # <<>>
    /\ NeverAbandoned

\* Which events a step adds to the queue.
LEMMA QueuedAppended ==
  ASSUME NEW q \in Seq(Event), NEW e \in Event, NEW f
  PROVE  (\E k \in 1 .. Len(Append(q, e)) : Append(q, e)[k] = f)
            <=> (e = f \/ \E k \in 1 .. Len(q) : q[k] = f)
<1> DEFINE new == Append(q, e)
<1>1. /\ Len(new) = Len(q) + 1 /\ Len(q) \in Nat
      /\ new[Len(q) + 1] = e /\ \A i \in 1 .. Len(q) : new[i] = q[i]
  OBVIOUS
<1>2. \A i \in 1 .. Len(new) : i = Len(q) + 1 \/ i \in 1 .. Len(q)
  BY <1>1
<1>3. 1 .. Len(q) \subseteq 1 .. Len(new) /\ Len(q) + 1 \in 1 .. Len(new)
  BY <1>1
<1> HIDE DEF new
<1>4. (\E k \in 1 .. Len(new) : new[k] = f) <=> (e = f \/ \E k \in 1 .. Len(q) : q[k] = f)
  BY <1>1, <1>2, <1>3
<1> QED
  BY <1>4 DEF new

\* Which it takes off.
LEMMA QueuedDequeued ==
  ASSUME NEW q \in Seq(Event), q # <<>>, NEW f
  PROVE  (\E k \in 1 .. Len(q) : q[k] = f)
            <=> (Head(q) = f \/ \E k \in 1 .. Len(Tail(q)) : Tail(q)[k] = f)
<1>1. Len(Tail(q)) = Len(q) - 1 /\ Len(q) \in Nat \ {0} /\ Head(q) = q[1]
  OBVIOUS
<1>2. \A i \in 1 .. Len(Tail(q)) : i + 1 \in 1 .. Len(q) /\ Tail(q)[i] = q[i + 1]
  BY <1>1
<1>3. \A i \in 1 .. Len(q) : i = 1 \/ (i - 1 \in 1 .. Len(Tail(q)) /\ Tail(q)[i - 1] = q[i])
  BY <1>1
<1>4. 1 \in 1 .. Len(q)
  BY <1>1
<1> QED
  BY <1>1, <1>2, <1>3, <1>4

\* Cancelling adds the handler of what is cancelled.
LEMMA QueuedCancelled ==
  ASSUME NEW q \in Seq(Event), CancelTimer(q) \/ CancelRead(q), NEW f \in {"taken", "expired"}
  PROVE  (\E k \in 1 .. Len(ready') : ready'[k] = f) <=> (\E k \in 1 .. Len(q) : q[k] = f)
<1>1. PICK e \in {"timerAborted", "readAborted"} : ready' \in {q, Append(q, e)}
  BY DEF CancelTimer, CancelRead
<1>2. e \in Event /\ e # f
  BY DEF Event
<1> QED
  BY <1>1, <1>2, QueuedAppended

\* Guarded holds at first.
LEMMA GuardedInit == Init => Guarded
BY DEF Init, Guarded, NeverAbandoned, Queued

\* Every step keeps it: only the announcement of an incomplete buffer starts a
\* read anew, and a buffer of one byte is complete.
LEMMA GuardedStep == Control /\ Data /\ Guarded /\ [Next]_vars => Guarded'
<1> SUFFICES ASSUME Control, Data, Guarded, [Next]_vars PROVE Guarded'
  OBVIOUS
<1>1. ready \in Seq(Event) /\ Once(ready, reading) /\ reading \in BOOLEAN /\ size \in Nat \ {0}
  BY SizeAssumption DEF Control, Typed
<1>2. buffer \in Seq(Nat) /\ line \in Seq(Nat)
  BY DEF Data
<1>3. CASE Arrive \/ Finish \/ UNCHANGED vars
  BY <1>3 DEF Arrive, Finish, vars, Guarded, NeverAbandoned, Queued
<1>4. CASE Expire
  <2>1. ready' = Append(ready, "expired") /\ "expired" \in Event /\ UNCHANGED <<buffer, reading, size>>
    BY <1>4 DEF Expire, Event
  <2>2. Queued("expired")' /\ (Queued("taken")' <=> Queued("taken"))
    BY <1>1, <2>1, QueuedAppended DEF Queued
  <2> QED
    BY <2>1, <2>2 DEF Guarded, NeverAbandoned
<1>5. CASE Take
  <2>1. PICK k \in 1 .. Len(line) : buffer' = buffer \o SubSeq(line, 1, k)
    BY <1>5 DEF Take
  <2>2. SubSeq(line, 1, k) \in Seq(Nat) /\ Len(SubSeq(line, 1, k)) = k /\ k >= 1
    BY <1>2
  <2>3. Len(buffer') = Len(buffer) + k /\ Len(buffer) \in Nat
    BY <1>2, <2>1, <2>2, Concatenated
  <2>4. buffer' # <<>>
    BY <2>2, <2>3
  <2> QED
    BY <1>5, <2>4 DEF Take, Guarded, NeverAbandoned
<1>6. CASE PortFails
  <2>1. ready' = Append(ready, "failed") /\ "failed" \in Event /\ reading' = FALSE /\ UNCHANGED buffer
    BY <1>6 DEF PortFails, Event
  <2>2. Queued("taken")' <=> Queued("taken")
    BY <1>1, <2>1, QueuedAppended DEF Queued
  <2> QED
    BY <2>1, <2>2 DEF Guarded, NeverAbandoned
<1>7. CASE Read
  <2>1. ready' = <<>> /\ timer' = "armed"
    BY <1>7 DEF Read, Control
  <2> QED
    BY <2>1 DEF Guarded, NeverAbandoned, Queued
<1>8. CASE WaitAgain
  <2>1. /\ ready # <<>> /\ Head(ready) = "taken" /\ Len(buffer) < size /\ ready' = Tail(ready)
        /\ UNCHANGED <<buffer, size>>
    BY <1>8 DEF WaitAgain
  <2>2. Queued("taken") /\ (Queued("taken")' => Queued("taken"))
    BY <1>1, <2>1, QueuedDequeued DEF Queued
  <2>3. buffer # <<>> /\ Len(buffer) \in Nat
    BY <1>2, <2>2 DEF Guarded
  <2>4. Len(buffer) # 0
    BY <1>2, <2>3
  <2>5. size # 1
    BY <1>1, <2>1, <2>3, <2>4
  <2> QED
    BY <2>1, <2>3, <2>5 DEF Guarded, NeverAbandoned
<1>9. CASE OnCompleted
  <2>1. /\ ready # <<>> /\ Head(ready) \in ReadEvent /\ UNCHANGED <<buffer, size, reading>>
        /\ ready' = Tail(ready) \/ CancelTimer(Tail(ready))
    BY <1>9 DEF OnCompleted, ReadEvent
  <2>2. ~ reading /\ Tail(ready) \in Seq(Event)
    BY <1>1, <2>1, Dequeue
  <2>3. Queued("taken")' => Queued("taken")
    <3>1. Queued("taken")' => \E k \in 1 .. Len(Tail(ready)) : Tail(ready)[k] = "taken"
      <4>1. CASE ready' = Tail(ready)
        BY <4>1 DEF Queued
      <4>2. CASE CancelTimer(Tail(ready)) \/ CancelRead(Tail(ready))
        BY <2>2, <4>2, QueuedCancelled DEF Queued
      <4> QED
        BY <2>1, <4>1, <4>2
    <3> QED
      BY <1>1, <2>1, <3>1, QueuedDequeued DEF Queued
  <2> QED
    BY <2>1, <2>2, <2>3 DEF Guarded, NeverAbandoned
<1>10. CASE OnTimedOut
  <2>1. /\ ready # <<>> /\ UNCHANGED <<buffer, size, timer>>
        /\ \/ CancelRead(Tail(ready))
           \/ Head(ready) = "timerAborted" /\ ready' = Tail(ready) /\ UNCHANGED reading
    BY <1>10 DEF OnTimedOut
  <2>2. Tail(ready) \in Seq(Event)
    BY <1>1, <2>1, Dequeue
  <2>3. Queued("taken")' => Queued("taken")
    <3>1. Queued("taken")' => \E k \in 1 .. Len(Tail(ready)) : Tail(ready)[k] = "taken"
      <4>1. CASE ready' = Tail(ready)
        BY <4>1 DEF Queued
      <4>2. CASE CancelTimer(Tail(ready)) \/ CancelRead(Tail(ready))
        BY <2>2, <4>2, QueuedCancelled DEF Queued
      <4> QED
        BY <2>1, <4>1, <4>2
    <3> QED
      BY <1>1, <2>1, <3>1, QueuedDequeued DEF Queued
  <2>4. CASE CancelRead(Tail(ready))
    BY <2>1, <2>3, <2>4 DEF CancelRead, Guarded, NeverAbandoned
  <2>5. CASE Head(ready) = "timerAborted" /\ ready' = Tail(ready) /\ UNCHANGED reading
    <3>1. Queued("expired") => Queued("expired")'
      BY <1>1, <2>1, <2>5, QueuedDequeued DEF Queued
    <3> QED
      BY <2>1, <2>3, <2>5, <3>1 DEF Guarded, NeverAbandoned
  <2> QED
    BY <2>1, <2>4, <2>5
<1> QED
  BY <1>3, <1>4, <1>5, <1>6, <1>7, <1>8, <1>9, <1>10 DEF Next, Handle

\* A read of one byte is never left waiting without a deadline (hw.cpp:44-53,
\* 137-158).
THEOREM OneByteIsAwaitedWithATimer == Spec => []NeverAbandoned
<1>1. Guarded => NeverAbandoned
  BY DEF Guarded
<1> QED
  BY <1>1, ControlInit, ControlStep, DataInit, DataStep, GuardedInit, GuardedStep, PTL DEF Spec

\* What a read still has to do: the bytes it asks for, a wait for more of them,
\* the operations in progress and the handlers they leave.
OperationsLeft ==
    (IF call = "run" THEN 1 ELSE 0) + (IF reading THEN 2 ELSE 0)
      + (IF timer = "armed" THEN 2 ELSE 0) + Len(ready)

ToDo == <<size - Len(buffer), IF Queued("taken") THEN 1 ELSE 0, OperationsLeft>>

(***************************************************************************)
(* Whatever happens during a read, but for the arrival of a byte, leaves   *)
(* it less to do: the handlers, each of which cancels the other's          *)
(* operation, start nothing twice (hw.cpp:32-55).                          *)
(***************************************************************************)
LessToDo == [][(call = "run" /\ sent' = sent) => Below(ToDo', ToDo)]_vars

\* Below for the parts of ToDo.
LEMMA BelowByPart ==
  ASSUME NEW a1, NEW a2, NEW a3, NEW b1, NEW b2, NEW b3,
         \/ a1 \in 0 .. b1 - 1
         \/ a1 = b1 /\ a2 \in 0 .. b2 - 1
         \/ a1 = b1 /\ a2 = b2 /\ a3 \in 0 .. b3 - 1
  PROVE  Below(<<a1, a2, a3>>, <<b1, b2, b3>>)
<1> DEFINE s == <<a1, a2, a3>>
           t == <<b1, b2, b3>>
<1>1. DOMAIN t = {1, 2, 3} /\ 1 .. 1 - 1 = {} /\ 1 .. 2 - 1 = {1} /\ 1 .. 3 - 1 = {1, 2}
  OBVIOUS
<1>2. s[1] = a1 /\ s[2] = a2 /\ s[3] = a3 /\ t[1] = b1 /\ t[2] = b2 /\ t[3] = b3
  OBVIOUS
<1> HIDE DEF s, t
<1>3. \E i \in DOMAIN t : s[i] \in 0 .. t[i] - 1 /\ \A j \in 1 .. i - 1 : s[j] = t[j]
  <2>1. CASE a1 \in 0 .. b1 - 1
    <3>1. 1 \in DOMAIN t /\ s[1] \in 0 .. t[1] - 1 /\ \A j \in 1 .. 1 - 1 : s[j] = t[j]
      BY <1>1, <1>2, <2>1
    <3> QED
      BY <3>1
  <2>2. CASE a1 = b1 /\ a2 \in 0 .. b2 - 1
    <3>1. 2 \in DOMAIN t /\ s[2] \in 0 .. t[2] - 1 /\ \A j \in 1 .. 2 - 1 : s[j] = t[j]
      BY <1>1, <1>2, <2>2
    <3> QED
      BY <3>1
  <2>3. CASE a1 = b1 /\ a2 = b2 /\ a3 \in 0 .. b3 - 1
    <3>1. 3 \in DOMAIN t /\ s[3] \in 0 .. t[3] - 1 /\ \A j \in 1 .. 3 - 1 : s[j] = t[j]
      BY <1>1, <1>2, <2>3
    <3> QED
      BY <3>1
  <2> QED
    BY <2>1, <2>2, <2>3
<1> QED
  BY <1>3 DEF Below, s, t

\* What is queued and waited for, counted.
Waits == (IF reading THEN 2 ELSE 0) + (IF timer = "armed" THEN 2 ELSE 0) + Len(ready)

\* Cancelling makes no more of it.
LEMMA CancelLessens ==
  ASSUME NEW q \in Seq(Event),
         \/ CancelTimer(q) /\ UNCHANGED reading
         \/ CancelRead(q) /\ UNCHANGED timer,
         reading \in BOOLEAN, timer \in {"off", "armed"}
  PROVE  /\ Waits' \in Nat
         /\ Waits' <= (IF reading THEN 2 ELSE 0) + (IF timer = "armed" THEN 2 ELSE 0) + Len(q)
<1>1. /\ Len(q) \in Nat /\ Len(Append(q, "timerAborted")) = Len(q) + 1
      /\ Len(Append(q, "readAborted")) = Len(q) + 1
  OBVIOUS
<1>2. CASE CancelTimer(q) /\ UNCHANGED reading
  <2>1. CASE timer = "armed"
    BY <1>1, <1>2, <2>1 DEF CancelTimer, Waits
  <2>2. CASE timer # "armed"
    BY <1>1, <1>2, <2>2 DEF CancelTimer, Waits
  <2> QED
    BY <2>1, <2>2
<1>3. CASE CancelRead(q) /\ UNCHANGED timer
  <2>1. CASE reading
    BY <1>1, <1>3, <2>1 DEF CancelRead, Waits
  <2>2. CASE ~ reading
    BY <1>1, <1>3, <2>2 DEF CancelRead, Waits
  <2> QED
    BY <2>1, <2>2
<1> QED
  BY <1>2, <1>3

\* No more is taken than was asked for.
Fits == Len(buffer) <= size

\* It stays so.
LEMMA FitsStep == Control /\ Data /\ Fits /\ [Next]_vars => Fits'
<1> SUFFICES ASSUME Control, Data, Fits, [Next]_vars PROVE Fits'
  OBVIOUS
<1>1. size \in Nat \ {0} /\ buffer \in Seq(Nat) /\ line \in Seq(Nat)
  BY SizeAssumption DEF Control, Typed, Data
<1>2. CASE Take
  <2>1. PICK k \in 1 .. Len(line) : Len(buffer) + k <= size /\ buffer' = buffer \o SubSeq(line, 1, k)
    BY <1>2 DEF Take
  <2>2. SubSeq(line, 1, k) \in Seq(Nat) /\ Len(SubSeq(line, 1, k)) = k
    BY <1>1
  <2>3. Len(buffer') = Len(buffer) + k
    BY <1>1, <2>1, <2>2, Concatenated
  <2> QED
    BY <1>2, <2>1, <2>3 DEF Take, Fits
<1>3. CASE Read
  <2>1. buffer' = <<>> /\ size' \in Nat
    BY <1>3, SizeAssumption DEF Read
  <2> QED
    BY <2>1 DEF Fits
<1>4. CASE ~ (Take \/ Read)
  <2>1. UNCHANGED <<buffer, size>>
    BY <1>4 DEF Next, Handle, Arrive, Expire, PortFails, WaitAgain, OnCompleted, OnTimedOut, Finish, vars
  <2> QED
    BY <2>1 DEF Fits
<1> QED
  BY <1>2, <1>3, <1>4

\* Whatever happens during a read but the arrival of a byte.
LEMMA ReadShortens ==
  ASSUME Control, Data, Fits, Next, call = "run", sent' = sent
  PROVE  Below(ToDo', ToDo)
<1> DEFINE room  == size - Len(buffer)
           taken == IF Queued("taken") THEN 1 ELSE 0
<1>1. SUFFICES \/ room' \in 0 .. room - 1
               \/ room' = room /\ taken' \in 0 .. taken - 1
               \/ room' = room /\ taken' = taken /\ OperationsLeft' \in 0 .. OperationsLeft - 1
  <2>1. Below(<<room', taken', OperationsLeft'>>, <<room, taken, OperationsLeft>>)
    BY <1>1, BelowByPart
  <2> QED
    BY <2>1 DEF ToDo
<1>2. /\ ready \in Seq(Event) /\ Once(ready, reading) /\ reading \in BOOLEAN
      /\ timer \in {"off", "armed"} /\ size \in Nat \ {0} /\ sent \in Nat
      /\ buffer \in Seq(Nat) /\ line \in Seq(Nat) /\ Len(ready) \in Nat
  BY SizeAssumption, BoundAssumption DEF Control, Typed, Data
<1>3. OperationsLeft = 1 + Waits /\ Waits \in Nat
  BY <1>2 DEF OperationsLeft, Waits
<1>4. ASSUME call' = "run", UNCHANGED <<size, buffer>>, Queued("taken")' <=> Queued("taken"),
             Waits' \in Nat, Waits' < Waits
      PROVE  room' = room /\ taken' = taken /\ OperationsLeft' \in 0 .. OperationsLeft - 1
  <2>1. OperationsLeft' = 1 + Waits'
    BY <1>4 DEF OperationsLeft, Waits
  <2>2. OperationsLeft' \in 0 .. OperationsLeft - 1
    <3>1. ASSUME NEW a, NEW b \in Nat, NEW c, NEW d \in Nat, a = 1 + b, c = 1 + d, d < b
          PROVE  c \in 0 .. a - 1
      BY <3>1
    <3>2. Waits \in Nat /\ Waits' \in Nat /\ Waits' < Waits
      BY <1>3, <1>4
    <3> HIDE DEF Waits, OperationsLeft
    <3> QED
      BY <1>3, <2>1, <3>1, <3>2
  <2>3. room' = room
    BY <1>4
  <2>4. taken' = taken
    BY <1>4
  <2> QED
    BY <2>2, <2>3, <2>4
<1>5. ASSUME ready # <<>>, UNCHANGED <<size, buffer>>, Head(ready) = "taken",
             Queued("taken")' => \E k \in 1 .. Len(Tail(ready)) : Tail(ready)[k] = "taken"
      PROVE  room' = room /\ taken' \in 0 .. taken - 1
  <2>1. "taken" \in ReadEvent
    BY DEF ReadEvent
  <2>2. Once(Tail(ready), TRUE)
    BY <1>2, <1>5, <2>1, Dequeue
  <2>3. ~ Queued("taken")'
    BY <1>5, <2>1, <2>2 DEF Once
  <2>4. Queued("taken")
    BY <1>2, <1>5, QueuedDequeued DEF Queued
  <2> QED
    BY <1>5, <2>3, <2>4
<1>6. CASE Arrive
  BY <1>2, <1>6 DEF Arrive
<1>7. CASE Expire
  <2>1. /\ ready' = Append(ready, "expired") /\ "expired" \in Event /\ timer = "armed" /\ timer' = "off"
        /\ UNCHANGED <<buffer, reading, size, call>>
    BY <1>7 DEF Expire, Event
  <2>2. Len(ready') = Len(ready) + 1
    BY <1>2, <2>1
  <2>3. Waits' \in Nat /\ Waits' < Waits
    BY <1>2, <2>1, <2>2 DEF Waits
  <2>4. Queued("taken")' <=> Queued("taken")
    BY <1>2, <2>1, QueuedAppended DEF Queued
  <2> QED
    BY <1>4, <2>1, <2>3, <2>4
<1>8. CASE Take
  <2>1. PICK k \in 1 .. Len(line) : Len(buffer) + k <= size /\ buffer' = buffer \o SubSeq(line, 1, k)
    BY <1>8 DEF Take
  <2>2. SubSeq(line, 1, k) \in Seq(Nat) /\ Len(SubSeq(line, 1, k)) = k /\ k \in Nat \ {0}
    BY <1>2
  <2>3. Len(buffer') = Len(buffer) + k /\ Len(buffer) \in Nat
    BY <1>2, <2>1, <2>2, Concatenated
  <2>4. size' = size
    BY <1>8 DEF Take
  <2>5. room' \in 0 .. room - 1
    BY <1>2, <2>1, <2>2, <2>3, <2>4
  <2> QED
    BY <2>5
<1>9. CASE PortFails
  <2>1. /\ ready' = Append(ready, "failed") /\ "failed" \in Event /\ reading /\ reading' = FALSE
        /\ UNCHANGED <<buffer, timer, size, call>>
    BY <1>9 DEF PortFails, Event
  <2>2. Len(ready') = Len(ready) + 1
    BY <1>2, <2>1
  <2>3. Waits' \in Nat /\ Waits' < Waits
    BY <1>2, <2>1, <2>2 DEF Waits
  <2>4. Queued("taken")' <=> Queued("taken")
    BY <1>2, <2>1, QueuedAppended DEF Queued
  <2> QED
    BY <1>4, <2>1, <2>3, <2>4
<1>10. CASE Read
  BY <1>10 DEF Read
<1>11. CASE WaitAgain
  <2>1. /\ ready # <<>> /\ Head(ready) = "taken" /\ ready' = Tail(ready) /\ UNCHANGED <<buffer, size>>
    BY <1>11 DEF WaitAgain
  <2>2. Queued("taken")' => \E k \in 1 .. Len(Tail(ready)) : Tail(ready)[k] = "taken"
    BY <2>1 DEF Queued
  <2> QED
    BY <1>5, <2>1, <2>2
<1>12. CASE OnCompleted \/ OnTimedOut
  <2>1. /\ ready # <<>> /\ UNCHANGED <<buffer, size, call>>
        /\ \/ ready' = Tail(ready) /\ UNCHANGED <<timer, reading>>
           \/ CancelTimer(Tail(ready)) /\ UNCHANGED reading
           \/ CancelRead(Tail(ready)) /\ UNCHANGED timer
    BY <1>12 DEF OnCompleted, OnTimedOut
  <2>2. Tail(ready) \in Seq(Event) /\ Len(Tail(ready)) = Len(ready) - 1
    BY <1>2, <2>1
  <2>3. Waits' \in Nat /\ Waits' < Waits
    <3>1. CASE ready' = Tail(ready) /\ UNCHANGED <<timer, reading>>
      BY <1>2, <2>2, <3>1 DEF Waits
    <3>2. CASE ~ (ready' = Tail(ready) /\ UNCHANGED <<timer, reading>>)
      <4>1. Waits' \in Nat
            /\ Waits' <= (IF reading THEN 2 ELSE 0) + (IF timer = "armed" THEN 2 ELSE 0) + Len(Tail(ready))
        BY <1>2, <2>1, <2>2, <3>2, CancelLessens
      <4> QED
        BY <1>2, <2>2, <4>1 DEF Waits
    <3> QED
      BY <3>1, <3>2
  <2>4. Queued("taken")' <=> \E k \in 1 .. Len(Tail(ready)) : Tail(ready)[k] = "taken"
    <3>1. CASE ready' = Tail(ready)
      BY <3>1 DEF Queued
    <3>2. CASE CancelTimer(Tail(ready)) \/ CancelRead(Tail(ready))
      BY <2>2, <3>2, QueuedCancelled DEF Queued
    <3> QED
      BY <2>1, <3>1, <3>2
  <2>5. CASE Head(ready) = "taken"
    BY <1>5, <2>1, <2>4, <2>5
  <2>6. CASE Head(ready) # "taken"
    <3>1. Queued("taken")' <=> Queued("taken")
      BY <1>2, <2>1, <2>4, <2>6, QueuedDequeued DEF Queued
    <3> QED
      BY <1>4, <2>1, <2>3, <3>1
  <2> QED
    BY <2>5, <2>6
<1>13. CASE Finish
  <2>1. call' # "run" /\ UNCHANGED <<size, buffer, timer, reading, ready>>
    BY <1>13 DEF Finish
  <2>2. OperationsLeft' = Waits /\ taken' = taken /\ room' = room
    BY <1>2, <2>1 DEF OperationsLeft, Waits, Queued
  <2> QED
    BY <1>3, <2>2
<1> QED
  BY <1>6, <1>7, <1>8, <1>9, <1>10, <1>11, <1>12, <1>13 DEF Next, Handle

(***************************************************************************)
(* No read goes round in circles, of however many bytes: the handlers that *)
(* cancel each other's operation start none anew, and those for a part of  *)
(* the bytes are as many as there are bytes (hw.cpp:32-55).                *)
(***************************************************************************)
THEOREM ReadsComeToAnEnd == Spec => LessToDo
<1>1. Init => Fits
  BY SizeAssumption DEF Init, Fits
<1>2. Control /\ Data /\ [Next]_vars /\ Fits =>
        [(call = "run" /\ sent' = sent) => Below(ToDo', ToDo)]_vars
  BY ReadShortens
<1> QED
  BY <1>1, <1>2, ControlInit, ControlStep, DataInit, DataStep, FitsStep, PTL DEF Spec, LessToDo
=============================================================================
