--------------------------------- MODULE Link ---------------------------------
(***************************************************************************)
(* executeCmd of the host (flashutil/src/flashutil/spi/serial.cpp:165-243) *)
(* and the firmware's loop, over a serial line that loses and damages      *)
(* bytes, with answers that come too late and programs that die.           *)
(*                                                                         *)
(* A frame travels as two tokens, its head (which opens a frame) and its   *)
(* tail (which completes it); what is cut off or damaged is noise, some of *)
(* which may look like the head of a frame.  A check value that is right   *)
(* by accident is not modelled.                                            *)
(***************************************************************************)
EXTENDS Naturals, Sequences, FirmwareProgrammer

CONSTANTS
    Requests,       \* the kinds of request that are sent
    HasReset,       \* TRUE for the Arduino, whose loop resets an idle decoder
    MaxSent,        \* bound on the commands of a behaviour
    MaxFaults       \* bound on its faults

ASSUME RequestsAssumption == Requests \subseteq Kinds
ASSUME ResetAssumption == HasReset \in BOOLEAN
ASSUME BoundAssumption == MaxSent \in Nat /\ MaxFaults \in Nat

VARIABLES
    pc,         \* the host: "closed", "idle", "waiting" for the answer to a command,
                \* "detaching" (so does it for detach's), "unwinding" an exception
    id,         \* Impl::id
    sent,       \* the number of the last command
    hostDec,    \* the decoder of executeCmd
    toFw, toHost,
    fw,         \* the firmware's decoder
    done,       \* the last command carried out
    faults,     \* so far
    clean,      \* the session began on a line at rest and has met no fault
    outcome,    \* how its last command ended: "none", "returned", "thrown"
    before,     \* history: the last command of earlier sessions
    foreign     \* history: the session has taken for an answer what answers a
                \* command of an earlier one, or is a refusal

session == <<before, foreign>>
host == <<pc, id, sent, hostDec, outcome, session>>
vars == <<host, toFw, toHost, fw, done, faults, clean>>

Calling == {"waiting", "detaching"}

Token(part, frame) == [part |-> part, frame |-> frame]
Tokens(frame) == <<Token("head", frame), Token("tail", frame)>>

NoFrame == Reply(0, 0, NoError)
Noise   == Token("noise", NoFrame)

\* A decoder: between frames, in a frame of the peer's, or in what it takes for one.
Decoder(at, frame) == [at |-> at, frame |-> frame]
Between == Decoder("between", NoFrame)
Astray  == Decoder("astray", NoFrame)

\* What the bytes of a token do to a decoder: its new state and a verdict.
Outcomes(dec, token) ==
    CASE dec = Between /\ token.part = "head" ->
            {[dec |-> Decoder("in", token.frame), verdict |-> "none"]}
      [] dec.at = "in" /\ token = Token("tail", dec.frame) ->
            {[dec |-> Between, verdict |-> "frame"]}
      [] OTHER ->
            {o \in [dec : {Between, Astray}, verdict : {"none", "error"}] :
                dec # Between /\ o.dec = Between => o.verdict = "error"}

Init ==
    /\ pc = "closed" /\ id = 0 /\ sent = 0 /\ hostDec = Between
    /\ toFw = <<>> /\ toHost = <<>> /\ fw = Between /\ done = 0
    /\ faults = 0 /\ clean = FALSE /\ outcome = "none"
    /\ before = 0 /\ foreign = FALSE

Fault == faults < MaxFaults /\ faults' = faults + 1 /\ clean' = FALSE
NoFault == UNCHANGED <<faults, clean>>

-----------------------------------------------------------------------------
(* The host.                                                               *)

\* TCIOFLUSH: what the host has received is gone, and what it has not sent yet;
\* what is on the wire comes all the same.
Flush ==
    /\ toHost' \in {SubSeq(toHost, n + 1, Len(toHost)) : n \in 0 .. Len(toHost)}
    /\ toFw' \in {SubSeq(toFw, 1, n) : n \in 0 .. Len(toFw)}

\* The constructor of HwSerial flushes; ids start again.
Open ==
    /\ pc = "closed"
    /\ pc' = "idle" /\ id' = 0 /\ outcome' = "none"
    /\ Flush
    /\ clean' = (toFw' = <<>> /\ toHost' = <<>> /\ fw = Between)
    /\ before' = sent /\ foreign' = FALSE
    /\ UNCHANGED <<sent, hostDec, fw, done, faults>>

\* An exception.  After that of attach() nobody detaches; that of detach() ends
\* the program.
Exception(detaches) ==
    /\ pc' \in IF detaches THEN {"closed"} ELSE {"closed", "unwinding"}
    /\ outcome' = "thrown"

\* Mutant of NextId: the id is wider than the byte it is sent in.
NextIdTooLarge == id + 1

NextId == (id + 1) % IdSpace

\* Mutant of Request: the frame is built before the id is counted up.
RequestOfLastId(kind) == [serial |-> sent', id |-> id, kind |-> kind]

Request(kind) == [serial |-> sent', id |-> id', kind |-> kind]

\* write_some takes all of the frame; or less, which is an exception.
Written(tokens, call) ==
    \/ toFw' = toFw \o tokens /\ pc' = call /\ NoFault /\ outcome' = "none"
    \/ toFw' \in {toFw, Append(toFw, tokens[1])} /\ Exception(call = "detaching") /\ Fault

\* A command: any, and detach's in the end or in the course of an exception.
Send(kind) ==
    /\ sent < MaxSent
    /\ id' = NextId
    /\ sent' = sent + 1
    /\ \/ pc = "idle" /\ Written(Tokens(Request(kind)), "waiting")
       \/ pc \in {"idle", "unwinding"} /\ Written(Tokens(Request(kind)), "detaching")
    /\ UNCHANGED <<hostDec, session, toHost, fw, done>>

Return == pc' = (IF pc = "detaching" THEN "closed" ELSE "idle") /\ outcome' = "returned"

\* Mutant of Receive: any answer will do.
ReceiveAny(o) ==
    CASE o.verdict = "none"  -> UNCHANGED <<pc, outcome>>
      [] o.verdict = "error" -> Exception(pc = "detaching")
      [] o.verdict = "frame" -> Return

\* The code of the reply is not looked at.
Receive(o) ==
    CASE o.verdict = "none"  -> UNCHANGED <<pc, outcome>>
      [] o.verdict = "error" -> Exception(pc = "detaching")
      [] o.verdict = "frame" -> IF hostDec.frame.id = id THEN Return
                                                         ELSE Exception(pc = "detaching")

\* The decoder lives as long as the call.
HostByte ==
    /\ pc \in Calling /\ toHost # <<>>
    /\ toHost' = Tail(toHost)
    /\ \E o \in Outcomes(hostDec, Head(toHost)) :
          /\ Receive(o)
          /\ hostDec' = IF pc' \in Calling THEN o.dec ELSE Between
    /\ foreign' = IF outcome' = "returned" /\ hostDec.frame.serial <= before THEN TRUE ELSE foreign
    /\ NoFault
    /\ UNCHANGED <<id, sent, before, toFw, fw, done>>

\* Mutant of Waits: only the first byte is waited for with a timer.
WaitsForFirst == pc \in Calling /\ hostDec = Between

Waits == pc \in Calling

\* The read times out and flushes.  It is a fault, a late answer, unless
\* nothing is on its way.
Timeout ==
    /\ Waits
    /\ Exception(pc = "detaching")
    /\ Flush
    /\ hostDec' = Between
    /\ IF toFw = <<>> /\ toHost = <<>> THEN NoFault ELSE Fault
    /\ UNCHANGED <<id, sent, session, fw, done>>

Kill ==
    /\ pc # "closed"
    /\ pc' = "closed" /\ hostDec' = Between /\ outcome' = "none"
    /\ NoFault
    /\ UNCHANGED <<id, sent, session, toFw, toHost, fw, done>>

-----------------------------------------------------------------------------
(* The firmware.                                                           *)

Answered(reply) == toHost' = toHost \o Tokens(reply)

\* A code of more than the sync nibble leaves is not modelled: what the host
\* would then see is noise, as from the line.
FwByte ==
    /\ toFw # <<>>
    /\ toFw' = Tail(toFw)
    /\ \E o \in Outcomes(fw, Head(toFw)) :
          /\ fw' = o.dec
          /\ CASE o.verdict = "none"  -> UNCHANGED <<toHost, done>>
               [] o.verdict = "error" -> (\E r \in RefusalOf(3) : Answered(r)) /\ UNCHANGED done
               [] o.verdict = "frame" -> Answered(Respond(fw.frame)) /\ done' = fw.frame.serial
    /\ UNCHANGED host /\ NoFault

\* The idle counter of the Arduino's loop; in the middle of a frame whose
\* bytes come slowly it is a fault.
FwReset ==
    /\ HasReset /\ fw # Between
    /\ fw' = Between
    /\ IF toFw = <<>> THEN NoFault ELSE Fault
    /\ UNCHANGED <<host, toFw, toHost, done>>

-----------------------------------------------------------------------------
(* The line.                                                               *)

Without(line, i) == SubSeq(line, 1, i - 1) \o SubSeq(line, i + 1, Len(line))

\* A token is lost, damaged, or noise comes in.
Disturbed(line) ==
    {Without(line, i) : i \in 1 .. Len(line)}
      \cup {[line EXCEPT ![i] = Noise] : i \in 1 .. Len(line)}
      \cup {Append(line, Noise)}

Disturb ==
    /\ Fault
    /\ \/ toFw' \in Disturbed(toFw) /\ UNCHANGED toHost
       \/ toHost' \in Disturbed(toHost) /\ UNCHANGED toFw
    /\ UNCHANGED <<host, fw, done>>

-----------------------------------------------------------------------------
Runs == (\E kind \in Requests : Send(kind)) \/ HostByte \/ Timeout \/ FwByte

Next == Open \/ Runs \/ Kill \/ FwReset \/ Disturb

Spec == Init /\ [][Next]_vars /\ WF_vars(HostByte \/ Timeout \/ FwByte)

-----------------------------------------------------------------------------
(* Properties.                                                             *)

RequestFrames == [serial : 1 .. sent, id : 0 .. IdSpace - 1, kind : Requests]
ReplyFrames   == [serial : 0 .. sent, id : 0 .. IdSpace - 1, code : {NoError} \cup Errors]

TokensOf(frames)  == {Token(part, f) : part \in {"head", "tail"}, f \in frames} \cup {Noise}
DecodersOf(frames) == {Decoder("in", f) : f \in frames} \cup {Between, Astray}

TypeOK ==
    /\ pc \in {"closed", "idle", "waiting", "detaching", "unwinding"}
    /\ id \in 0 .. IdSpace - 1 /\ sent \in Nat /\ done \in 0 .. sent
    /\ toFw \in Seq(TokensOf(RequestFrames)) /\ fw \in DecodersOf(RequestFrames)
    /\ toHost \in Seq(TokensOf(ReplyFrames)) /\ hostDec \in DecodersOf(ReplyFrames)
    /\ faults \in 0 .. MaxFaults /\ clean \in BOOLEAN
    /\ outcome \in {"none", "returned", "thrown"}
    /\ before \in 0 .. sent /\ foreign \in BOOLEAN

Promise == INSTANCE LinkPromise WITH call <- IF pc \in Calling THEN "given" ELSE outcome

\* Commands are carried out in order and once, and the one that returns has
\* been, although requests and answers get lost, come late or stop in the
\* middle, unless the session has been fooled by an answer to an earlier one's
\* command or by a refusal: no answer to a command of its own ever passes for
\* that to another (serial.cpp:206-240, hw.cpp:112, main.c:195).
KeepsPromise == Promise!Spec

\* The response is recognised by its id (protocol.h:44): a command that returns
\* has been carried out.
ReturnedIsDone == outcome = "returned" => done = sent

\* A session that begins with nothing on the line and the firmware between
\* frames, and meets no fault, sees no exception and is not fooled, whatever
\* happened to earlier sessions (serial.cpp:224-230, hw.cpp:63-108).
CleanSession == clean => outcome # "thrown" /\ ~ foreign

\* Every command comes back, with an answer or with an exception
\* (serial.cpp:216-240).
CommandEnds == pc \in Calling ~> pc \notin Calling

\* The reply to a request that the firmware refuses carries an error code
\* (programmer.c:80 and 89).
RefusalReported ==
    [][done' # done /\ fw.frame.kind \in {"long", "unknown"}
          => toHost'[Len(toHost')].frame.code # NoError]_vars
=============================================================================
