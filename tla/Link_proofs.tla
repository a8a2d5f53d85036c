----------------------------- MODULE Link_proofs -----------------------------
(***************************************************************************)
(* Theorems about Link and their proofs: types; the link does what         *)
(* LinkPromise says; an undisturbed session meets no exception and is not  *)
(* fooled; every wait comes to an end.                                     *)
(***************************************************************************)
EXTENDS Link, Lexicographic, TLAPS

-----------------------------------------------------------------------------
(* Lines.                                                                  *)

Ids == 0 .. IdSpace - 1

\* The tail of a frame is what completes it, if the frame is a command or the
\* answer to one.
Live(t) == t.part = "tail" /\ t.frame.serial # 0

LiveAt(line) == {i \in DOMAIN line : Live(line[i])}

LiveFrames(line) == {line[i].frame : i \in LiveAt(line)}

Ordered(line) ==
    \A i, j \in LiveAt(line) : i < j => line[i].frame.serial < line[j].frame.serial

\* What is live in new is live in line, in the same order.
Thinned(new, line) ==
    \E m \in [DOMAIN new -> Nat] :
        /\ \A i, j \in DOMAIN new : i < j => m[i] < m[j]
        /\ \A i \in LiveAt(new) : m[i] \in DOMAIN line /\ new[i] = line[m[i]]

\* A line that gets thinner stays in order and has no new frames.
LEMMA ThinnedKeeps ==
  ASSUME NEW S, NEW line \in Seq(S), NEW new \in Seq(S), Thinned(new, line)
  PROVE  /\ Ordered(line) => Ordered(new)
         /\ LiveFrames(new) \subseteq LiveFrames(line)
<1>1. PICK m \in [DOMAIN new -> Nat] :
        /\ \A i, j \in DOMAIN new : i < j => m[i] < m[j]
        /\ \A i \in LiveAt(new) : m[i] \in DOMAIN line /\ new[i] = line[m[i]]
  BY DEF Thinned
<1>2. \A i \in LiveAt(new) : i \in DOMAIN new /\ m[i] \in LiveAt(line) /\ new[i] = line[m[i]]
  BY <1>1 DEF LiveAt
<1>3. Ordered(line) => Ordered(new)
  BY <1>1, <1>2 DEF Ordered
<1>4. LiveFrames(new) \subseteq LiveFrames(line)
  BY <1>2 DEF LiveFrames
<1> QED
  BY <1>3, <1>4

\* Taking the first token off thins a line.
LEMMA TailThinned ==
  ASSUME NEW S, NEW line \in Seq(S), line # <<>>
  PROVE  Tail(line) \in Seq(S) /\ Thinned(Tail(line), line)
<1>1. Tail(line) \in Seq(S) /\ DOMAIN Tail(line) = 1 .. Len(line) - 1 /\ DOMAIN line = 1 .. Len(line)
  OBVIOUS
<1>2. \A i \in DOMAIN Tail(line) : Tail(line)[i] = line[i + 1]
  OBVIOUS
<1> DEFINE m == [i \in DOMAIN Tail(line) |-> i + 1]
<1>3. m \in [DOMAIN Tail(line) -> Nat]
  BY <1>1
<1>4. \A i \in DOMAIN Tail(line) : m[i] \in DOMAIN line /\ Tail(line)[i] = line[m[i]]
  BY <1>1, <1>2
<1>5. \A i, j \in DOMAIN Tail(line) : i < j => m[i] < m[j]
  BY <1>1
<1> QED
  BY <1>1, <1>3, <1>4, <1>5 DEF Thinned, LiveAt

\* So does cutting its end off,
LEMMA PrefixThinned ==
  ASSUME NEW S, NEW line \in Seq(S), NEW n \in 0 .. Len(line)
  PROVE  SubSeq(line, 1, n) \in Seq(S) /\ Thinned(SubSeq(line, 1, n), line)
<1> DEFINE new == SubSeq(line, 1, n)
<1>1. new \in Seq(S) /\ DOMAIN new = 1 .. n /\ DOMAIN line = 1 .. Len(line)
  OBVIOUS
<1>2. \A i \in DOMAIN new : new[i] = line[i]
  OBVIOUS
<1> DEFINE m == [i \in DOMAIN new |-> i]
<1> HIDE DEF new
<1>3. m \in [DOMAIN new -> Nat]
  BY <1>1
<1>4. \A i \in DOMAIN new : m[i] \in DOMAIN line /\ new[i] = line[m[i]]
  BY <1>1, <1>2
<1>5. \A i, j \in DOMAIN new : i < j => m[i] < m[j]
  OBVIOUS
<1>6. Thinned(new, line)
  BY <1>3, <1>4, <1>5 DEF Thinned, LiveAt
<1> QED
  BY <1>1, <1>6 DEF new

\* cutting off what has come first,
LEMMA SuffixThinned ==
  ASSUME NEW S, NEW line \in Seq(S), NEW n \in 0 .. Len(line)
  PROVE  LET new == SubSeq(line, n + 1, Len(line)) IN new \in Seq(S) /\ Thinned(new, line)
<1> DEFINE new == SubSeq(line, n + 1, Len(line))
<1>1. new \in Seq(S) /\ DOMAIN new = 1 .. Len(line) - n /\ DOMAIN line = 1 .. Len(line)
  OBVIOUS
<1>2. \A i \in 1 .. Len(line) - n : new[i] = line[n + i]
  OBVIOUS
<1> DEFINE m == [i \in DOMAIN new |-> n + i]
<1> HIDE DEF new
<1>3. n \in Nat /\ Len(line) \in Nat
  OBVIOUS
<1>4. m \in [DOMAIN new -> Nat]
  BY <1>1, <1>3
<1>5. \A i \in DOMAIN new : m[i] \in DOMAIN line /\ new[i] = line[m[i]]
  BY <1>1, <1>2, <1>3
<1>6. \A i, j \in DOMAIN new : i < j => m[i] < m[j]
  BY <1>1, <1>3
<1>7. Thinned(new, line)
  BY <1>4, <1>5, <1>6 DEF Thinned, LiveAt
<1> QED
  BY <1>1, <1>7 DEF new

\* losing a token,
LEMMA WithoutThinned ==
  ASSUME NEW S, NEW line \in Seq(S), NEW k \in 1 .. Len(line)
  PROVE  Without(line, k) \in Seq(S) /\ Thinned(Without(line, k), line)
<1> DEFINE a == SubSeq(line, 1, k - 1)
           b == SubSeq(line, k + 1, Len(line))
           new == a \o b
<1>1. a \in Seq(S) /\ Len(a) = k - 1 /\ \A i \in 1 .. k - 1 : a[i] = line[i]
  OBVIOUS
<1>2. b \in Seq(S) /\ Len(b) = Len(line) - k /\ \A i \in 1 .. Len(line) - k : b[i] = line[k + i]
  OBVIOUS
<1> HIDE DEF a, b
<1>3. new \in Seq(S) /\ DOMAIN new = 1 .. Len(line) - 1 /\ DOMAIN line = 1 .. Len(line)
  BY <1>1, <1>2
<1>4. \A i \in DOMAIN new : new[i] = line[IF i < k THEN i ELSE i + 1]
  <2>1. \A i \in 1 .. Len(line) - 1 : i < k => new[i] = line[i]
    BY <1>1, <1>2, SMTT(30)
  <2>2. \A i \in 1 .. Len(line) - 1 : i >= k => new[i] = b[i - (k - 1)]
    BY <1>1, <1>2, SMTT(30)
  <2>3. \A i \in 1 .. Len(line) - 1 : i >= k => new[i] = line[i + 1]
    <3> HIDE DEF new
    <3>1. Len(line) \in Nat /\ k \in Nat
      OBVIOUS
    <3> SUFFICES ASSUME NEW i \in 1 .. Len(line) - 1, i >= k PROVE new[i] = line[i + 1]
      OBVIOUS
    <3>2. i - (k - 1) \in 1 .. Len(line) - k /\ k + (i - (k - 1)) = i + 1
      BY <3>1
    <3> QED
      BY <1>2, <2>2, <3>2
  <2> HIDE DEF new
  <2> QED
    BY <1>3, <2>1, <2>3
<1> HIDE DEF new
<1> DEFINE m == [i \in DOMAIN new |-> IF i < k THEN i ELSE i + 1]
<1>5. m \in [DOMAIN new -> Nat]
  BY <1>3
<1>6. \A i \in DOMAIN new : m[i] \in DOMAIN line /\ new[i] = line[m[i]]
  BY <1>3, <1>4
<1>7. \A i, j \in DOMAIN new : i < j => m[i] < m[j]
  BY <1>3
<1>8. Thinned(new, line)
  BY <1>5, <1>6, <1>7 DEF Thinned, LiveAt
<1> QED
  BY <1>3, <1>8 DEF new, a, b, Without

\* A token that is not live may come in or take the place of another.
LEMMA AppendThinned ==
  ASSUME NEW S, NEW line \in Seq(S), NEW t \in S, ~ Live(t)
  PROVE  Append(line, t) \in Seq(S) /\ Thinned(Append(line, t), line)
<1> DEFINE new == Append(line, t)
<1>1. new \in Seq(S) /\ DOMAIN new = 1 .. Len(line) + 1 /\ DOMAIN line = 1 .. Len(line)
  OBVIOUS
<1>2. new[Len(line) + 1] = t /\ \A i \in 1 .. Len(line) : new[i] = line[i]
  OBVIOUS
<1> HIDE DEF new
<1> DEFINE m == [i \in DOMAIN new |-> i]
<1>3. m \in [DOMAIN new -> Nat]
  BY <1>1
<1>4. \A i \in LiveAt(new) : m[i] \in DOMAIN line /\ new[i] = line[m[i]]
  BY <1>1, <1>2 DEF LiveAt
<1>5. \A i, j \in DOMAIN new : i < j => m[i] < m[j]
  OBVIOUS
<1>6. Thinned(new, line)
  BY <1>3, <1>4, <1>5 DEF Thinned
<1> QED
  BY <1>1, <1>6 DEF new

\* damaging one,
LEMMA ReplacedThinned ==
  ASSUME NEW S, NEW line \in Seq(S), NEW t \in S, ~ Live(t), NEW k \in 1 .. Len(line)
  PROVE  [line EXCEPT ![k] = t] \in Seq(S) /\ Thinned([line EXCEPT ![k] = t], line)
<1> DEFINE new == [line EXCEPT ![k] = t]
<1>1. new \in Seq(S) /\ DOMAIN new = DOMAIN line /\ DOMAIN line = 1 .. Len(line)
  OBVIOUS
<1>2. new[k] = t /\ \A i \in DOMAIN line : i # k => new[i] = line[i]
  OBVIOUS
<1> HIDE DEF new
<1> DEFINE m == [i \in DOMAIN new |-> i]
<1>3. m \in [DOMAIN new -> Nat]
  BY <1>1
<1>4. \A i \in LiveAt(new) : m[i] \in DOMAIN line /\ new[i] = line[m[i]]
  BY <1>1, <1>2 DEF LiveAt
<1>5. \A i, j \in DOMAIN new : i < j => m[i] < m[j]
  OBVIOUS
<1>6. Thinned(new, line)
  BY <1>3, <1>4, <1>5 DEF Thinned
<1> QED
  BY <1>1, <1>6 DEF new

\* doing nothing,
LEMMA SameThinned ==
  ASSUME NEW S, NEW line \in Seq(S)
  PROVE  Thinned(line, line)
<1> DEFINE m == [i \in DOMAIN line |-> i]
<1>1. m \in [DOMAIN line -> Nat]
  OBVIOUS
<1> QED
  BY <1>1 DEF Thinned, LiveAt

\* Noise completes nothing.
LEMMA NoiseDead == ~ Live(Noise)
BY DEF Live, Noise, Token

\* hence whatever disturbs it.
LEMMA DisturbedThinned ==
  ASSUME NEW S, NEW line \in Seq(S), Noise \in S, NEW new \in Disturbed(line)
  PROVE  new \in Seq(S) /\ Thinned(new, line)
<1>1. CASE \E i \in 1 .. Len(line) : new = Without(line, i)
  BY <1>1, WithoutThinned
<1>2. CASE \E i \in 1 .. Len(line) : new = [line EXCEPT ![i] = Noise]
  <2>1. PICK i \in 1 .. Len(line) : new = [line EXCEPT ![i] = Noise]
    BY <1>2
  <2>2. [line EXCEPT ![i] = Noise] \in Seq(S) /\ Thinned([line EXCEPT ![i] = Noise], line)
    BY NoiseDead, ReplacedThinned
  <2> QED
    BY <2>1, <2>2
<1>3. CASE new = Append(line, Noise)
  BY <1>3, AppendThinned, NoiseDead
<1>4. \/ \E i \in 1 .. Len(line) : new = Without(line, i)
      \/ \E i \in 1 .. Len(line) : new = [line EXCEPT ![i] = Noise]
      \/ new = Append(line, Noise)
  BY Zenon DEF Disturbed
<1> QED
  BY <1>1, <1>2, <1>3, <1>4

\* A frame put on a line is two tokens behind what was there.
LEMMA Concatenated ==
  ASSUME NEW S, NEW line \in Seq(S), NEW a \in S, NEW b \in S
  PROVE  LET new == line \o <<a, b>>
             n   == Len(line) IN
         /\ new \in Seq(S) /\ DOMAIN new = 1 .. n + 2 /\ n \in Nat /\ DOMAIN line = 1 .. n
         /\ \A i \in 1 .. n : new[i] = line[i]
         /\ new[n + 1] = a /\ new[n + 2] = b
<1> DEFINE new == line \o <<a, b>>
<1>1. <<a, b>> \in Seq(S) /\ Len(<<a, b>>) = 2 /\ <<a, b>>[1] = a /\ <<a, b>>[2] = b
  OBVIOUS
<1>2. new \in Seq(S) /\ Len(new) = Len(line) + 2
  BY <1>1
<1>3. \A i \in 1 .. Len(line) : new[i] = line[i]
  BY <1>1
<1>4. new[Len(line) + 1] = a /\ new[Len(line) + 2] = b
  BY <1>1
<1>5. Len(line) \in Nat /\ DOMAIN line = 1 .. Len(line) /\ DOMAIN new = 1 .. Len(new)
  BY <1>2
<1> QED
  BY <1>2, <1>3, <1>4, <1>5

\* A frame joins the end of a line.
LEMMA Joined ==
  ASSUME NEW F, NEW line \in Seq(TokensOf(F)), NEW f \in F
  PROVE  /\ line \o Tokens(f) \in Seq(TokensOf(F))
         /\ LiveFrames(line \o Tokens(f)) \subseteq LiveFrames(line) \cup {f}
         /\ f.serial = 0 => LiveFrames(line \o Tokens(f)) \subseteq LiveFrames(line)
         /\ /\ Ordered(line)
            /\ f.serial # 0 => \A g \in LiveFrames(line) : g.serial < f.serial
            => Ordered(line \o Tokens(f))
<1> DEFINE new == line \o Tokens(f)
           n == Len(line)
<1>1. Token("head", f) \in TokensOf(F) /\ Token("tail", f) \in TokensOf(F)
  BY DEF TokensOf
<1>3. /\ new \in Seq(TokensOf(F)) /\ DOMAIN new = 1 .. n + 2 /\ n \in Nat /\ DOMAIN line = 1 .. n
      /\ \A i \in 1 .. n : new[i] = line[i]
      /\ new[n + 1] = Token("head", f) /\ new[n + 2] = Token("tail", f)
  BY <1>1, Concatenated DEF Tokens
<1> HIDE DEF new, n
<1>4. \A i \in LiveAt(new) : \/ i \in LiveAt(line) /\ new[i] = line[i]
                             \/ i = n + 2 /\ new[i].frame = f /\ f.serial # 0
  <2> TAKE i \in LiveAt(new)
  <2>1. i \in 1 .. n \/ i = n + 1 \/ i = n + 2
    BY <1>3 DEF LiveAt
  <2>2. i # n + 1
    BY <1>3 DEF LiveAt, Live, Token
  <2> QED
    BY <2>1, <2>2, <1>3 DEF LiveAt, Live, Token
<1>5. LiveFrames(new) \subseteq LiveFrames(line) \cup {f}
  BY <1>4 DEF LiveFrames
<1>6. f.serial = 0 => LiveFrames(new) \subseteq LiveFrames(line)
  BY <1>4 DEF LiveFrames
<1>7. ASSUME Ordered(line), f.serial # 0 => \A g \in LiveFrames(line) : g.serial < f.serial
      PROVE  Ordered(new)
  <2> SUFFICES ASSUME NEW i \in LiveAt(new), NEW j \in LiveAt(new), i < j
               PROVE  new[i].frame.serial < new[j].frame.serial
    BY DEF Ordered
  <2>1. i \in LiveAt(line) /\ new[i] = line[i]
    <3>1. i \in 1 .. n + 2 /\ j \in 1 .. n + 2
      BY <1>3 DEF LiveAt
    <3>2. i # n + 2
      BY <3>1, <1>3
    <3> QED
      BY <3>2, <1>4
  <2>2. CASE j \in LiveAt(line) /\ new[j] = line[j]
    BY <2>1, <2>2, <1>7 DEF Ordered
  <2>3. CASE j = n + 2 /\ new[j].frame = f /\ f.serial # 0
    BY <2>1, <2>3, <1>7 DEF LiveFrames
  <2> QED
    BY <2>2, <2>3, <1>4
<1> QED
  BY <1>3, <1>5, <1>6, <1>7 DEF new

-----------------------------------------------------------------------------
(* Types.                                                                  *)

\* A larger set of sequences.
LEMMA SeqGrows ==
  ASSUME NEW S, NEW T, S \subseteq T, NEW line \in Seq(S)
  PROVE  line \in Seq(T)
OBVIOUS

\* Frames that may travel stay so when a command is added.
LEMMA FramesGrow ==
  ASSUME sent \in Nat, sent' \in {sent, sent + 1}
  PROVE  /\ TokensOf(RequestFrames) \subseteq TokensOf(RequestFrames')
         /\ TokensOf(ReplyFrames) \subseteq TokensOf(ReplyFrames')
         /\ DecodersOf(RequestFrames) \subseteq DecodersOf(RequestFrames')
         /\ DecodersOf(ReplyFrames) \subseteq DecodersOf(ReplyFrames')
<1>1. 1 .. sent \subseteq 1 .. sent' /\ 0 .. sent \subseteq 0 .. sent'
  OBVIOUS
<1>2. RequestFrames \subseteq RequestFrames' /\ ReplyFrames \subseteq ReplyFrames'
  BY <1>1 DEF RequestFrames, ReplyFrames
<1> QED
  BY <1>2 DEF TokensOf, DecodersOf

\* What a decoder can be after a token, and what it takes for a frame.
LEMMA OutcomesTyped ==
  ASSUME NEW F, NEW dec \in DecodersOf(F), NEW t \in TokensOf(F), NEW o \in Outcomes(dec, t)
  PROVE  /\ o.dec \in DecodersOf(F) /\ o.verdict \in {"none", "error", "frame"}
         /\ o.verdict = "frame" => t = Token("tail", dec.frame) /\ dec.frame \in F
<1>1. CASE dec = Between /\ t.part = "head"
  <2>1. t.frame \in F
    BY <1>1 DEF TokensOf, Token, Noise
  <2>2. o = [dec |-> Decoder("in", t.frame), verdict |-> "none"]
    BY <1>1 DEF Outcomes, Between, Decoder
  <2> QED
    BY <2>1, <2>2 DEF DecodersOf
<1>2. CASE ~ (dec = Between /\ t.part = "head") /\ dec.at = "in" /\ t = Token("tail", dec.frame)
  <2>1. dec.frame \in F
    BY <1>2 DEF DecodersOf, Decoder, Between, Astray
  <2>2. o = [dec |-> Between, verdict |-> "frame"]
    BY <1>2 DEF Outcomes
  <2> QED
    BY <1>2, <2>1, <2>2 DEF DecodersOf
<1>3. CASE ~ (dec = Between /\ t.part = "head") /\ ~ (dec.at = "in" /\ t = Token("tail", dec.frame))
  <2>1. o \in [dec : {Between, Astray}, verdict : {"none", "error"}]
    BY <1>3 DEF Outcomes
  <2> QED
    BY <2>1 DEF DecodersOf
<1> QED
  BY <1>1, <1>2, <1>3

\* The reply to a refused frame.
LEMMA RefusalTyped ==
  ASSUME sent \in Nat, NEW r \in RefusalOf(3)
  PROVE  r \in ReplyFrames /\ r.serial = 0
<1>1. PICK i \in StackIds, c \in StackCodes : r = Reply(0, i, c)
  BY DEF RefusalOf, SendError
<1> QED
  BY <1>1, StackAssumption DEF Reply, ReplyFrames

\* The reply to an accepted request.
LEMMA ReplyTyped ==
  ASSUME sent \in Nat, NEW f \in RequestFrames
  PROVE  /\ Respond(f) \in ReplyFrames
         /\ Respond(f).serial = f.serial /\ Respond(f).id = f.id
<1>1. f.serial \in 0 .. sent /\ f.id \in 0 .. IdSpace - 1 /\ f.kind \in Kinds
  BY RequestsAssumption DEF RequestFrames
<1>2. Respond(f) = Reply(f.serial, f.id, NoError)
  BY <1>1 DEF Respond, SendError, Kinds
<1> QED
  BY <1>1, <1>2 DEF Reply, ReplyFrames

\* Initially.
LEMMA TypeInit == Init => TypeOK
<1> SUFFICES ASSUME Init PROVE TypeOK
  OBVIOUS
<1>1. Between \in DecodersOf(RequestFrames) /\ Between \in DecodersOf(ReplyFrames)
  BY DEF DecodersOf
<1>2. toFw \in Seq(TokensOf(RequestFrames)) /\ toHost \in Seq(TokensOf(ReplyFrames))
  BY DEF Init
<1>3. id \in 0 .. IdSpace - 1 /\ sent \in Nat /\ done \in 0 .. sent /\ faults \in 0 .. MaxFaults
      /\ before \in 0 .. sent
  BY IdAssumption, BoundAssumption DEF Init
<1>4. fw \in DecodersOf(RequestFrames) /\ hostDec \in DecodersOf(ReplyFrames)
  BY <1>1 DEF Init
<1> QED
  BY <1>2, <1>3, <1>4 DEF Init, TypeOK

\* What every action but FwByte leaves of the types.
Steady ==
    /\ pc \in {"closed", "idle", "waiting", "detaching", "unwinding"}
    /\ id \in 0 .. IdSpace - 1
    /\ faults \in 0 .. MaxFaults /\ clean \in BOOLEAN
    /\ outcome \in {"none", "returned", "thrown"} /\ foreign \in BOOLEAN

Lines ==
    /\ sent \in Nat /\ done \in 0 .. sent /\ before \in 0 .. sent
    /\ toFw \in Seq(TokensOf(RequestFrames)) /\ fw \in DecodersOf(RequestFrames)
    /\ toHost \in Seq(TokensOf(ReplyFrames)) /\ hostDec \in DecodersOf(ReplyFrames)

\* Types: control, and lines.
LEMMA TypeParts == TypeOK <=> Steady /\ Lines
BY DEF TypeOK, Steady, Lines

\* There are three verdicts.
LEMMA Verdicts ==
  ASSUME NEW dec, NEW t, NEW o \in Outcomes(dec, t)
  PROVE  o.verdict \in {"none", "error", "frame"}
<1>1. CASE dec = Between /\ t.part = "head"
  BY <1>1 DEF Outcomes, Between, Decoder
<1>2. CASE ~ (dec = Between /\ t.part = "head") /\ dec.at = "in" /\ t = Token("tail", dec.frame)
  BY <1>2 DEF Outcomes
<1>3. CASE ~ (dec = Between /\ t.part = "head") /\ ~ (dec.at = "in" /\ t = Token("tail", dec.frame))
  BY <1>3 DEF Outcomes
<1> QED
  BY <1>1, <1>2, <1>3

\* Control, ids and counters.
LEMMA SteadyStep == Steady /\ [Next]_vars => Steady'
<1> SUFFICES ASSUME Steady, [Next]_vars PROVE Steady'
  OBVIOUS
<1> USE DEF Steady
<1>1. (id + 1) % IdSpace \in 0 .. IdSpace - 1 /\ 0 \in 0 .. IdSpace - 1
  BY IdAssumption
<1>2. ASSUME Fault PROVE faults' \in 0 .. MaxFaults /\ clean' \in BOOLEAN
  <2>1. faults < MaxFaults /\ faults' = faults + 1 /\ clean' = FALSE
    BY <1>2 DEF Fault
  <2>2. faults' \in 0 .. MaxFaults
    BY <2>1, BoundAssumption
  <2> QED
    BY <2>1, <2>2
<1>3. ASSUME NoFault PROVE faults' \in 0 .. MaxFaults /\ clean' \in BOOLEAN
  BY <1>3 DEF NoFault
<1>4. ASSUME NEW d \in BOOLEAN, Exception(d)
      PROVE  /\ pc' \in {"closed", "idle", "waiting", "detaching", "unwinding"}
             /\ outcome' \in {"none", "returned", "thrown"}
  BY <1>4 DEF Exception
<1>5. CASE Open
  BY <1>5, <1>1 DEF Open
<1>6. ASSUME NEW kind \in Requests, Send(kind) PROVE Steady'
  <2>1. PICK call \in {"waiting", "detaching"} : Written(Tokens(Request(kind)), call)
    BY <1>6 DEF Send
  <2>2. (call = "detaching") \in BOOLEAN
    OBVIOUS
  <2>3. id' \in 0 .. IdSpace - 1
    BY <1>1, <1>6 DEF Send, NextId
  <2> QED
    BY <1>6, <2>1, <2>2, <2>3, <1>2, <1>3, <1>4 DEF Written, Send, session
<1>7. CASE HostByte
  <2>1. PICK o \in Outcomes(hostDec, Head(toHost)) : Receive(o)
    BY <1>7 DEF HostByte
  <2>4. o.verdict \in {"none", "error", "frame"}
    BY Verdicts
  <2>2. (pc = "detaching") \in BOOLEAN
    OBVIOUS
  <2>3. /\ pc' \in {"closed", "idle", "waiting", "detaching", "unwinding"}
        /\ outcome' \in {"none", "returned", "thrown"}
    BY <2>1, <2>2, <2>4, <1>4 DEF Receive, Return
  <2> QED
    BY <2>3, <1>3, <1>7 DEF HostByte, session
<1>8. CASE Timeout
  <2>1. (pc = "detaching") \in BOOLEAN
    OBVIOUS
  <2> QED
    BY <2>1, <1>2, <1>3, <1>4, <1>8 DEF Timeout, session
<1>9. CASE Kill
  BY <1>9, <1>3 DEF Kill, session
<1>10. CASE FwByte
  BY <1>10, <1>3 DEF FwByte, host, session
<1>11. CASE FwReset
  BY <1>11, <1>2, <1>3 DEF FwReset, host, session
<1>12. CASE Disturb
  BY <1>12, <1>2 DEF Disturb, host, session
<1>13. CASE UNCHANGED vars
  BY <1>13 DEF vars, host, session
<1> QED
  BY <1>5, <1>6, <1>7, <1>8, <1>9, <1>10, <1>11, <1>12, <1>13 DEF Next, Runs

\* A flush leaves the head of what was on its way out, and the end of what was
\* on its way in.
LEMMA Flushed ==
  ASSUME NEW S, NEW T, toFw \in Seq(S), toHost \in Seq(T), Flush
  PROVE  /\ toFw' \in Seq(S) /\ Thinned(toFw', toFw)
         /\ toHost' \in Seq(T) /\ Thinned(toHost', toHost)
<1>1. PICK n \in 0 .. Len(toFw) : toFw' = SubSeq(toFw, 1, n)
  BY DEF Flush
<1>2. PICK k \in 0 .. Len(toHost) : toHost' = SubSeq(toHost, k + 1, Len(toHost))
  BY DEF Flush
<1>3. toFw' \in Seq(S) /\ Thinned(toFw', toFw)
  BY <1>1, PrefixThinned
<1>4. toHost' \in Seq(T) /\ Thinned(toHost', toHost)
  BY <1>2, SuffixThinned
<1> QED
  BY <1>3, <1>4

\* What a command puts on the line.
LEMMA Sending ==
  ASSUME Lines, Steady, NEW kind \in Requests, Send(kind)
  PROVE  /\ sent' = sent + 1 /\ Request(kind) \in RequestFrames'
         /\ Request(kind).serial = sent' /\ Request(kind).id = id'
         /\ id' = (id + 1) % IdSpace /\ id' \in Ids /\ id' # id
         /\ toFw \in Seq(TokensOf(RequestFrames'))
         /\ \/ toFw' = toFw \o Tokens(Request(kind))
            \/ toFw' \in Seq(TokensOf(RequestFrames')) /\ Thinned(toFw', toFw)
<1> DEFINE f == Request(kind)
<1>1. sent \in Nat /\ sent' = sent + 1 /\ id' = (id + 1) % IdSpace /\ id \in 0 .. IdSpace - 1
  BY DEF Lines, Steady, Send, NextId
<1>2. id' \in Ids /\ id' # id
  BY <1>1, IdAssumption DEF Ids
<1>3. f.serial = sent' /\ f.id = id' /\ f.kind = kind
  BY DEF Request
<1>4. f \in RequestFrames'
  BY <1>1, <1>2, RequestsAssumption DEF Request, RequestFrames, Ids
<1>5. toFw \in Seq(TokensOf(RequestFrames'))
  BY <1>1, FramesGrow, SeqGrows DEF Lines
<1>6. Token("head", f) \in TokensOf(RequestFrames') /\ ~ Live(Token("head", f))
  BY <1>4 DEF TokensOf, Live, Token
<1>7. Append(toFw, Token("head", f)) \in Seq(TokensOf(RequestFrames'))
      /\ Thinned(Append(toFw, Token("head", f)), toFw)
  BY <1>5, <1>6, AppendThinned
<1>8. Thinned(toFw, toFw)
  BY <1>5, SameThinned
<1>9. \/ toFw' = toFw \o Tokens(f)
      \/ toFw' = toFw
      \/ toFw' = Append(toFw, Tokens(f)[1])
  BY DEF Send, Written
<1>10. Tokens(f)[1] = Token("head", f)
  BY DEF Tokens
<1> HIDE DEF f
<1>11. \/ toFw' = toFw \o Tokens(f)
       \/ toFw' \in Seq(TokensOf(RequestFrames')) /\ Thinned(toFw', toFw)
  BY <1>5, <1>7, <1>8, <1>9, <1>10
<1> QED
  BY <1>1, <1>2, <1>3, <1>4, <1>5, <1>11 DEF f

\* What a token makes of the firmware and the line to the host.
LEMMA Serving ==
  ASSUME Lines, FwByte
  PROVE  /\ sent' = sent /\ before' = before /\ foreign' = foreign
         /\ fw' \in DecodersOf(RequestFrames)
         /\ toFw' \in Seq(TokensOf(RequestFrames)) /\ Thinned(toFw', toFw)
         /\ \/ UNCHANGED <<toHost, done>>
            \/ /\ \E r \in ReplyFrames : r.serial = 0 /\ toHost' = toHost \o Tokens(r)
               /\ UNCHANGED done
            \/ \E f \in RequestFrames, r \in ReplyFrames :
                  /\ toFw # <<>> /\ Head(toFw) = Token("tail", f)
                  /\ r.serial = f.serial /\ r.id = f.id
                  /\ toHost' = toHost \o Tokens(r) /\ done' = f.serial
<1>1. toFw # <<>> /\ toFw' = Tail(toFw) /\ sent' = sent /\ before' = before /\ foreign' = foreign
  BY DEF FwByte, host, session
<1>2. toFw' \in Seq(TokensOf(RequestFrames)) /\ Thinned(toFw', toFw)
  BY <1>1, TailThinned DEF Lines
<1>3. Head(toFw) \in TokensOf(RequestFrames)
  BY <1>1 DEF Lines
<1>4. PICK o \in Outcomes(fw, Head(toFw)) :
        /\ fw' = o.dec
        /\ CASE o.verdict = "none"  -> UNCHANGED <<toHost, done>>
             [] o.verdict = "error" -> (\E r \in RefusalOf(3) : Answered(r)) /\ UNCHANGED done
             [] o.verdict = "frame" -> Answered(Respond(fw.frame)) /\ done' = fw.frame.serial
  BY DEF FwByte
<1>5. /\ o.dec \in DecodersOf(RequestFrames) /\ o.verdict \in {"none", "error", "frame"}
      /\ o.verdict = "frame" => Head(toFw) = Token("tail", fw.frame) /\ fw.frame \in RequestFrames
  BY <1>3, OutcomesTyped DEF Lines
<1>6. CASE o.verdict = "none"
  BY <1>1, <1>2, <1>4, <1>5, <1>6
<1>7. CASE o.verdict = "error"
  <2>1. PICK r \in RefusalOf(3) : Answered(r)
    BY <1>4, <1>7
  <2>2. UNCHANGED done
    BY <1>4, <1>7
  <2>4. r \in ReplyFrames /\ r.serial = 0
    BY <2>1, RefusalTyped DEF Lines
  <2> QED
    BY <1>1, <1>2, <1>4, <1>5, <2>1, <2>2, <2>4 DEF Answered
<1>8. CASE o.verdict = "frame"
  <2>1. Answered(Respond(fw.frame)) /\ done' = fw.frame.serial
    BY <1>4, <1>8
  <2>2. /\ Respond(fw.frame) \in ReplyFrames
        /\ Respond(fw.frame).serial = fw.frame.serial /\ Respond(fw.frame).id = fw.frame.id
    BY <1>5, <1>8, ReplyTyped DEF Lines
  <2> QED
    BY <1>1, <1>2, <1>4, <1>5, <1>8, <2>1, <2>2 DEF Answered
<1> QED
  BY <1>5, <1>6, <1>7, <1>8

\* The lines and decoders carry nothing but frames and noise.
LEMMA LinesStep == Lines /\ Steady /\ [Next]_vars => Lines'
<1> SUFFICES ASSUME Lines, Steady, [Next]_vars PROVE Lines'
  OBVIOUS
<1>1. Between \in DecodersOf(RequestFrames) /\ Between \in DecodersOf(ReplyFrames)
      /\ Noise \in TokensOf(RequestFrames) /\ Noise \in TokensOf(ReplyFrames)
  BY DEF DecodersOf, TokensOf
<1>2. ASSUME sent' = sent
      PROVE  RequestFrames' = RequestFrames /\ ReplyFrames' = ReplyFrames
  BY <1>2 DEF RequestFrames, ReplyFrames
<1>3. /\ sent \in Nat /\ done \in 0 .. sent /\ before \in 0 .. sent
      /\ toFw \in Seq(TokensOf(RequestFrames)) /\ fw \in DecodersOf(RequestFrames)
      /\ toHost \in Seq(TokensOf(ReplyFrames)) /\ hostDec \in DecodersOf(ReplyFrames)
  BY DEF Lines
<1>5. CASE Open
  <2>1. sent' = sent /\ done' = done /\ before' = sent /\ hostDec' = hostDec /\ fw' = fw /\ Flush
    BY <1>5 DEF Open
  <2>2. toFw' \in Seq(TokensOf(RequestFrames)) /\ toHost' \in Seq(TokensOf(ReplyFrames))
    BY <1>3, <2>1, Flushed
  <2>3. before' \in 0 .. sent'
    BY <1>3, <2>1
  <2> QED
    BY <1>2, <1>3, <2>1, <2>2, <2>3 DEF Lines
<1>6. ASSUME NEW kind \in Requests, Send(kind) PROVE Lines'
  <2>1. hostDec' = hostDec /\ toHost' = toHost /\ fw' = fw /\ done' = done /\ before' = before
    BY <1>6 DEF Send, session
  <2>2. sent' = sent + 1 /\ Request(kind) \in RequestFrames'
        /\ toFw \in Seq(TokensOf(RequestFrames'))
        /\ (toFw' = toFw \o Tokens(Request(kind)) \/ toFw' \in Seq(TokensOf(RequestFrames')))
    BY <1>6, Sending
  <2>3. toFw \o Tokens(Request(kind)) \in Seq(TokensOf(RequestFrames'))
    BY <2>2, Joined
  <2>4. /\ TokensOf(ReplyFrames) \subseteq TokensOf(ReplyFrames')
        /\ DecodersOf(RequestFrames) \subseteq DecodersOf(RequestFrames')
        /\ DecodersOf(ReplyFrames) \subseteq DecodersOf(ReplyFrames')
    BY <1>3, <2>2, FramesGrow
  <2>5. toHost' \in Seq(TokensOf(ReplyFrames'))
    BY <1>3, <2>1, <2>4, SeqGrows
  <2>6. sent' \in Nat /\ done' \in 0 .. sent' /\ before' \in 0 .. sent'
    BY <1>3, <2>1, <2>2
  <2>7. toFw' \in Seq(TokensOf(RequestFrames'))
    BY <2>2, <2>3
  <2>8. fw' \in DecodersOf(RequestFrames') /\ hostDec' \in DecodersOf(ReplyFrames')
    BY <1>3, <2>1, <2>4
  <2> QED
    BY <2>5, <2>6, <2>7, <2>8 DEF Lines, TokensOf, DecodersOf
<1>7. CASE HostByte
  <2>1. /\ sent' = sent /\ done' = done /\ before' = before
        /\ toFw' = toFw /\ fw' = fw /\ toHost # <<>> /\ toHost' = Tail(toHost)
    BY <1>7 DEF HostByte
  <2>2. Head(toHost) \in TokensOf(ReplyFrames) /\ toHost' \in Seq(TokensOf(ReplyFrames))
    BY <1>3, <2>1
  <2>3. hostDec' \in DecodersOf(ReplyFrames)
    BY <1>1, <1>3, <1>7, <2>2, OutcomesTyped DEF HostByte
  <2> QED
    BY <1>2, <1>3, <2>1, <2>2, <2>3 DEF Lines
<1>8. CASE Timeout
  <2>1. sent' = sent /\ done' = done /\ before' = before /\ hostDec' = Between /\ fw' = fw /\ Flush
    BY <1>8 DEF Timeout, session
  <2>2. toFw' \in Seq(TokensOf(RequestFrames)) /\ toHost' \in Seq(TokensOf(ReplyFrames))
    BY <1>3, <2>1, Flushed
  <2> QED
    BY <1>1, <1>2, <1>3, <2>1, <2>2 DEF Lines
<1>9. CASE Kill
  <2>1. /\ sent' = sent /\ done' = done /\ before' = before
        /\ hostDec' = Between /\ fw' = fw /\ toFw' = toFw /\ toHost' = toHost
    BY <1>9 DEF Kill, session
  <2> QED
    BY <1>1, <1>2, <1>3, <2>1 DEF Lines
<1>10. CASE FwByte
  <2>1. hostDec' = hostDec
    BY <1>10 DEF FwByte, host
  <2>2. /\ sent' = sent /\ before' = before /\ fw' \in DecodersOf(RequestFrames)
        /\ toFw' \in Seq(TokensOf(RequestFrames))
    BY <1>10, Serving
  <2>3. toHost' \in Seq(TokensOf(ReplyFrames)) /\ done' \in 0 .. sent
    <3>1. CASE UNCHANGED <<toHost, done>>
      BY <3>1, <1>3
    <3>2. ASSUME NEW r \in ReplyFrames, toHost' = toHost \o Tokens(r), UNCHANGED done
          PROVE  toHost' \in Seq(TokensOf(ReplyFrames)) /\ done' \in 0 .. sent
      BY <3>2, <1>3, Joined
    <3>3. ASSUME NEW f \in RequestFrames, NEW r \in ReplyFrames,
                 toHost' = toHost \o Tokens(r), done' = f.serial
          PROVE  toHost' \in Seq(TokensOf(ReplyFrames)) /\ done' \in 0 .. sent
      <4>1. f.serial \in 1 .. sent
        BY DEF RequestFrames
      <4> QED
        BY <3>3, <4>1, <1>3, Joined
    <3> QED
      BY <1>10, <3>1, <3>2, <3>3, Serving
  <2> QED
    BY <1>2, <1>3, <2>1, <2>2, <2>3 DEF Lines
<1>11. CASE FwReset
  <2>1. /\ sent' = sent /\ done' = done /\ before' = before
        /\ hostDec' = hostDec /\ fw' = Between /\ toFw' = toFw /\ toHost' = toHost
    BY <1>11 DEF FwReset, host, session
  <2> QED
    BY <1>1, <1>2, <1>3, <2>1 DEF Lines
<1>12. CASE Disturb
  <2>1. sent' = sent /\ done' = done /\ before' = before /\ hostDec' = hostDec /\ fw' = fw
    BY <1>12 DEF Disturb, host, session
  <2>2. toFw' \in Seq(TokensOf(RequestFrames)) /\ toHost' \in Seq(TokensOf(ReplyFrames))
    BY <1>1, <1>3, <1>12, DisturbedThinned DEF Disturb
  <2> QED
    BY <1>2, <1>3, <2>1, <2>2 DEF Lines
<1>13. CASE UNCHANGED vars
  <2>1. UNCHANGED <<sent, done, before, hostDec, fw, toFw, toHost>>
    BY <1>13 DEF vars, host, session
  <2> QED
    BY <1>2, <1>3, <2>1 DEF Lines
<1> QED
  BY <1>5, <1>6, <1>7, <1>8, <1>9, <1>10, <1>11, <1>12, <1>13 DEF Next, Runs

\* Every step keeps the types.
LEMMA TypeStep == TypeOK /\ [Next]_vars => TypeOK'
<1> SUFFICES ASSUME TypeOK, [Next]_vars PROVE TypeOK'
  OBVIOUS
<1>1. Steady /\ Lines
  BY TypeParts
<1>2. Steady' /\ Lines'
  BY <1>1, SteadyStep, LinesStep
<1> QED
  BY <1>2 DEF TypeOK, Steady, Lines

\* Ids, frames and decoders keep their types for any width of the id, any kinds
\* of request and any faults (serial.cpp:165-243, programmer.c:35-111).
THEOREM TypeCorrect == Spec => []TypeOK
<1>1. Init => TypeOK
  BY TypeInit
<1>2. TypeOK /\ [Next]_vars => TypeOK'
  BY TypeStep
<1> QED
  BY <1>1, <1>2, PTL DEF Spec

-----------------------------------------------------------------------------
(* What is on its way.                                                     *)

Flying == LiveFrames(toFw) \cup LiveFrames(toHost)

\* Requests wait in the order they were given and are still to be carried out;
\* answers travel in that order and what they answer has been.
Queue ==
    /\ Ordered(toFw) /\ \A f \in LiveFrames(toFw) : done < f.serial
    /\ Ordered(toHost) /\ \A f \in LiveFrames(toHost) : f.serial <= done

\* What is on its way of the session's own commands and answers.
Own == {f \in Flying : f.serial > before}

\* Between commands nothing of its own is on its way that could pass for an
\* answer; during one, nothing but what belongs to it.
Session ==
    /\ ~ foreign =>
         /\ pc = "idle" => Own = {}
         /\ pc \in {"waiting", "unwinding"} => \A f \in Own : f.serial = sent /\ f.id = id
         /\ pc = "detaching" => \A f \in Own : f.id = id => f.serial = sent
    /\ pc \in Calling => outcome = "none"

IInv == TypeOK /\ Queue /\ Session

\* Live frames are frames of the line.
LEMMA LiveTyped ==
  ASSUME NEW F, NEW line \in Seq(TokensOf(F))
  PROVE  \A f \in LiveFrames(line) : f \in F /\ f.serial # 0
<1> SUFFICES ASSUME NEW i \in LiveAt(line) PROVE line[i].frame \in F /\ line[i].frame.serial # 0
  BY DEF LiveFrames
<1>1. line[i] \in TokensOf(F) /\ Live(line[i])
  BY DEF LiveAt
<1> QED
  BY <1>1 DEF TokensOf, Live, Token, Noise

\* The frame at the head of a line comes before all others.
LEMMA HeadFirst ==
  ASSUME NEW F, NEW line \in Seq(TokensOf(F)), line # <<>>, Ordered(line),
         NEW f, Head(line) = Token("tail", f), f.serial # 0
  PROVE  /\ f \in LiveFrames(line)
         /\ \A g \in LiveFrames(Tail(line)) : f.serial < g.serial
<1>1. 1 \in DOMAIN line /\ line[1] = Token("tail", f)
  OBVIOUS
<1>2. 1 \in LiveAt(line) /\ line[1].frame = f
  BY <1>1 DEF LiveAt, Live, Token
<1>3. \A i \in DOMAIN Tail(line) : i \in Nat \ {0} /\ i + 1 \in DOMAIN line /\ Tail(line)[i] = line[i + 1]
  OBVIOUS
<1>4. \A i \in LiveAt(Tail(line)) : i + 1 \in LiveAt(line) /\ Tail(line)[i] = line[i + 1] /\ 1 < i + 1
  BY <1>3 DEF LiveAt
<1>5. \A i \in LiveAt(Tail(line)) : f.serial < Tail(line)[i].frame.serial
  BY <1>2, <1>4 DEF Ordered
<1> QED
  BY <1>2, <1>5 DEF LiveFrames

\* Losses keep the order.
LEMMA ThinQueue ==
  ASSUME Lines, Queue, done' = done, NEW F, NEW G,
         toFw \in Seq(TokensOf(F)), toFw' \in Seq(TokensOf(F)),
         toHost \in Seq(TokensOf(G)), toHost' \in Seq(TokensOf(G)),
         Thinned(toFw', toFw), Thinned(toHost', toHost)
  PROVE  Queue' /\ Flying' \subseteq Flying
<1>1. /\ Ordered(toFw) => Ordered(toFw')
      /\ LiveFrames(toFw') \subseteq LiveFrames(toFw)
  BY ThinnedKeeps
<1>2. /\ Ordered(toHost) => Ordered(toHost')
      /\ LiveFrames(toHost') \subseteq LiveFrames(toHost)
  BY ThinnedKeeps
<1>3. Queue'
  BY <1>1, <1>2 DEF Queue
<1> QED
  BY <1>1, <1>2, <1>3 DEF Flying

\* Every action but a command sent and a byte served only loses.
LEMMA OnlyLosses ==
  ASSUME Lines, Queue,
         Open \/ HostByte \/ Timeout \/ Kill \/ FwReset \/ Disturb \/ UNCHANGED vars
  PROVE  /\ Queue' /\ Flying' \subseteq Flying /\ sent' = sent
         /\ ~ Open => before' = before
<1> DEFINE S == TokensOf(RequestFrames)
           T == TokensOf(ReplyFrames)
<1>1. toFw \in Seq(S) /\ toHost \in Seq(T) /\ Noise \in S /\ Noise \in T
  BY DEF Lines, TokensOf
<1>2. Thinned(toFw, toFw) /\ Thinned(toHost, toHost)
  BY <1>1, SameThinned
<1> HIDE DEF S, T
<1>3. done' = done /\ sent' = sent /\ (~ Open => before' = before)
  BY DEF Open, HostByte, Timeout, Kill, FwReset, Disturb, vars, host, session
<1>4. /\ toFw' \in Seq(S) /\ Thinned(toFw', toFw)
      /\ toHost' \in Seq(T) /\ Thinned(toHost', toHost)
  <2>1. CASE Open \/ Timeout
    <3>1. Flush
      BY <2>1 DEF Open, Timeout
    <3> QED
      BY <3>1, <1>1, <1>2, Flushed
  <2>2. CASE HostByte
    BY <2>2, <1>1, <1>2, TailThinned DEF HostByte
  <2>3. CASE Kill
    BY <2>3, <1>1, <1>2 DEF Kill
  <2>4. CASE FwReset
    BY <2>4, <1>1, <1>2 DEF FwReset
  <2>5. CASE Disturb
    BY <2>5, <1>1, <1>2, DisturbedThinned DEF Disturb
  <2>6. CASE UNCHANGED vars
    BY <2>6, <1>1, <1>2 DEF vars
  <2> QED
    BY <2>1, <2>2, <2>3, <2>4, <2>5, <2>6
<1> QED
  BY <1>1, <1>3, <1>4, ThinQueue DEF S, T

\* A request on the line has been sent,
LEMMA RequestSerials ==
  ASSUME NEW line \in Seq(TokensOf(RequestFrames))
  PROVE  \A f \in LiveFrames(line) : f.serial \in 1 .. sent
<1>1. \A f \in LiveFrames(line) : f \in RequestFrames
  BY LiveTyped
<1>2. \A f \in RequestFrames : f.serial \in 1 .. sent
  BY DEF RequestFrames
<1> QED
  BY <1>1, <1>2

\* and a reply on it answers one, or none.
LEMMA ReplySerials ==
  ASSUME sent \in Nat, NEW line \in Seq(TokensOf(ReplyFrames))
  PROVE  \A f \in LiveFrames(line) : f.serial \in 0 .. sent
<1>1. \A f \in LiveFrames(line) : f \in ReplyFrames
  BY LiveTyped
<1>2. \A f \in ReplyFrames : f.serial \in 0 .. sent
  BY DEF ReplyFrames
<1> QED
  BY <1>1, <1>2

\* A command sent joins the queue behind all others.
LEMMA SendQueue ==
  ASSUME Lines, Steady, Queue, NEW kind \in Requests, Send(kind)
  PROVE  /\ Queue' /\ sent' = sent + 1
         /\ \A f \in Flying' : f \in Flying \/ (f.serial = sent' /\ f.id = id')
         /\ \A f \in Flying : f.serial <= sent
<1> DEFINE r == Request(kind)
<1>1. /\ sent' = sent + 1 /\ r \in RequestFrames' /\ r.serial = sent' /\ r.id = id' /\ id' \in Ids
      /\ toFw \in Seq(TokensOf(RequestFrames'))
      /\ \/ toFw' = toFw \o Tokens(r)
         \/ toFw' \in Seq(TokensOf(RequestFrames')) /\ Thinned(toFw', toFw)
  BY Sending
<1>2. toHost' = toHost /\ done' = done /\ sent \in Nat /\ done \in 0 .. sent
  BY DEF Send, Lines
<1>3. \A f \in LiveFrames(toFw) : f.serial \in 1 .. sent
  BY RequestSerials DEF Lines
<1>4. \A f \in LiveFrames(toHost) : f.serial <= sent
  <2>1. \A f \in LiveFrames(toHost) : f.serial \in 0 .. sent
    BY <1>2, ReplySerials DEF Lines
  <2> QED
    BY <2>1, <1>2
<1> HIDE DEF r
<1>5. CASE toFw' = toFw \o Tokens(r)
  <2>1. LiveFrames(toFw') \subseteq LiveFrames(toFw) \cup {r}
    BY <1>1, <1>5, Joined
  <2>2. \A g \in LiveFrames(toFw) : g.serial < r.serial
    BY <1>1, <1>2, <1>3
  <2>3. Ordered(toFw')
    BY <1>1, <1>5, <2>2, Joined DEF Queue
  <2>4. done < r.serial
    BY <1>1, <1>2
  <2> QED
    BY <1>1, <1>2, <1>3, <1>4, <2>1, <2>3, <2>4 DEF Queue, Flying
<1>6. CASE toFw' \in Seq(TokensOf(RequestFrames')) /\ Thinned(toFw', toFw)
  <2>1. (Ordered(toFw) => Ordered(toFw')) /\ LiveFrames(toFw') \subseteq LiveFrames(toFw)
    BY <1>1, <1>6, ThinnedKeeps
  <2> QED
    BY <1>1, <1>2, <1>3, <1>4, <2>1 DEF Queue, Flying
<1> QED
  BY <1>1, <1>5, <1>6

\* The command that is carried out is the first of those that wait.
LEMMA ServeQueue ==
  ASSUME Lines, Queue, FwByte
  PROVE  /\ Queue' /\ sent' = sent /\ before' = before /\ foreign' = foreign
         /\ \A g \in Flying' : \E f \in Flying : g.serial = f.serial /\ g.id = f.id
         /\ done' = done \/ done' \in done + 1 .. sent
<1>1. /\ sent' = sent /\ sent \in Nat /\ done \in 0 .. sent
      /\ before' = before /\ foreign' = foreign
      /\ toFw \in Seq(TokensOf(RequestFrames)) /\ toHost \in Seq(TokensOf(ReplyFrames))
      /\ toFw' \in Seq(TokensOf(RequestFrames)) /\ Thinned(toFw', toFw)
  BY Serving DEF Lines
<1>2. (Ordered(toFw) => Ordered(toFw')) /\ LiveFrames(toFw') \subseteq LiveFrames(toFw)
  BY <1>1, ThinnedKeeps
<1>3. CASE UNCHANGED <<toHost, done>>
  BY <1>1, <1>2, <1>3 DEF Queue, Flying
<1>4. ASSUME NEW r \in ReplyFrames, r.serial = 0, toHost' = toHost \o Tokens(r), UNCHANGED done
      PROVE  /\ Queue'
             /\ \A g \in Flying' : \E f \in Flying : g.serial = f.serial /\ g.id = f.id
  <2>1. LiveFrames(toHost') \subseteq LiveFrames(toHost) /\ (Ordered(toHost) => Ordered(toHost'))
    BY <1>1, <1>4, Joined
  <2> QED
    BY <1>2, <1>4, <2>1 DEF Queue, Flying
<1>5. ASSUME NEW f \in RequestFrames, NEW r \in ReplyFrames,
             toFw # <<>>, Head(toFw) = Token("tail", f),
             r.serial = f.serial, r.id = f.id, toHost' = toHost \o Tokens(r), done' = f.serial
      PROVE  /\ Queue' /\ done' \in done + 1 .. sent
             /\ \A g \in Flying' : \E h \in Flying : g.serial = h.serial /\ g.id = h.id
  <2>1. f.serial # 0 /\ f.serial \in 1 .. sent
    BY DEF RequestFrames
  <2>2. toFw' = Tail(toFw)
    BY DEF FwByte
  <2>3. f \in LiveFrames(toFw) /\ \A g \in LiveFrames(toFw') : f.serial < g.serial
    BY <1>1, <1>5, <2>1, <2>2, HeadFirst DEF Queue
  <2>4. done < f.serial
    BY <2>3 DEF Queue
  <2>5. \A g \in LiveFrames(toHost) : g.serial \in 0 .. sent
    BY <1>1, ReplySerials
  <2>6. \A g \in LiveFrames(toHost) : g.serial < r.serial
    BY <1>1, <1>5, <2>1, <2>4, <2>5 DEF Queue
  <2>7. LiveFrames(toHost') \subseteq LiveFrames(toHost) \cup {r}
    BY <1>1, <1>5, Joined
  <2>8. Ordered(toHost')
    BY <1>1, <1>5, <2>6, Joined DEF Queue
  <2>9. \A g \in LiveFrames(toHost') : g.serial <= done'
    BY <1>5, <2>1, <2>5, <2>6, <2>7
  <2>10. Queue'
    BY <1>2, <1>5, <2>3, <2>8, <2>9 DEF Queue
  <2>11. done' \in done + 1 .. sent
    BY <1>1, <1>5, <2>1, <2>4
  <2>12. \A g \in Flying' : g \in Flying \/ g = r
    BY <1>2, <2>7 DEF Flying
  <2>13. f \in Flying
    BY <2>3 DEF Flying
  <2> QED
    BY <1>5, <2>10, <2>11, <2>12, <2>13
<1> QED
  BY <1>1, <1>3, <1>4, <1>5, Serving

\* What the host takes for an answer has a number.
LEMMA AnswerSerial ==
  ASSUME Lines, toHost # <<>>, NEW o \in Outcomes(hostDec, Head(toHost)), o.verdict = "frame"
  PROVE  /\ hostDec.frame.serial \in Nat /\ before \in Nat
         /\ ~ (hostDec.frame.serial <= before) => hostDec.frame.serial > before
<1>1. Head(toHost) \in TokensOf(ReplyFrames) /\ hostDec \in DecodersOf(ReplyFrames) /\ sent \in Nat
      /\ before \in 0 .. sent
  BY DEF Lines
<1>2. hostDec.frame \in ReplyFrames
  BY <1>1, OutcomesTyped
<1> QED
  BY <1>1, <1>2 DEF ReplyFrames

\* The answer the host takes, if it answers a command of the session, is that
\* of the command it waits for, which has been carried out, and nothing is left
\* behind.
LEMMA TakesItsAnswer ==
  ASSUME IInv, pc \in Calling, toHost # <<>>, ~ foreign, hostDec.frame.serial > before,
         NEW o \in Outcomes(hostDec, Head(toHost)), o.verdict = "frame", hostDec.frame.id = id
  PROVE  /\ done = sent /\ (pc = "waiting" => LiveFrames(toFw) \cup LiveFrames(Tail(toHost)) = {})
<1> DEFINE f == hostDec.frame
<1>1. /\ sent \in Nat /\ done \in 0 .. sent /\ before \in 0 .. sent /\ id \in Ids
      /\ toFw \in Seq(TokensOf(RequestFrames)) /\ toHost \in Seq(TokensOf(ReplyFrames))
      /\ hostDec \in DecodersOf(ReplyFrames)
  BY DEF IInv, TypeOK, Ids
<1>2. Head(toHost) = Token("tail", f)
  <2>1. Head(toHost) \in TokensOf(ReplyFrames)
    BY <1>1
  <2> QED
    BY <1>1, <2>1, OutcomesTyped
<1>9. f \in ReplyFrames
  BY <1>1, <1>2, OutcomesTyped
<1>10. f.serial # 0 /\ f.serial \in Nat
  BY <1>1, <1>9 DEF ReplyFrames
<1>3. f \in LiveFrames(toHost) /\ \A g \in LiveFrames(Tail(toHost)) : f.serial < g.serial
  BY <1>1, <1>2, <1>10, HeadFirst DEF IInv, Queue
<1>11. f \in Own
  BY <1>3 DEF Own, Flying
<1>4. f.serial = sent
  BY <1>11 DEF IInv, Session, Calling
<1>5. done = sent
  BY <1>1, <1>3, <1>4 DEF IInv, Queue
<1>6. LiveFrames(toFw) = {}
  <2>1. \A g \in LiveFrames(toFw) : g.serial \in 1 .. sent
    BY <1>1, RequestSerials
  <2> QED
    BY <1>1, <1>5, <2>1 DEF IInv, Queue
<1>7. Tail(toHost) \in Seq(TokensOf(ReplyFrames))
  BY <1>1
<1>8. \A g \in LiveFrames(Tail(toHost)) : g.serial \in 0 .. sent
  BY <1>1, <1>7, ReplySerials
<1>12. LiveFrames(Tail(toHost)) = {}
  BY <1>1, <1>3, <1>4, <1>8
<1> QED
  BY <1>5, <1>6, <1>12

\* The invariant holds at first.
LEMMA InvInit == Init => IInv
<1> SUFFICES ASSUME Init PROVE IInv
  OBVIOUS
<1>1. LiveAt(<<>>) = {}
  BY DEF LiveAt
<1>2. LiveFrames(<<>>) = {} /\ Ordered(<<>>)
  BY <1>1 DEF LiveFrames, Ordered
<1> QED
  BY <1>2, TypeInit DEF Init, IInv, Queue, Session, Own, Flying, Calling

\* An exception leaves the session to detach, or ends it.
LEMMA AfterException ==
  ASSUME NEW d \in BOOLEAN, Exception(d), Flying' \subseteq Flying, sent' = sent, id' = id,
         before' = before, foreign' = foreign, Session, pc = "waiting" \/ (pc = "detaching" /\ d)
  PROVE  Session'
<1>1. pc' = "closed" \/ (pc' = "unwinding" /\ pc = "waiting")
  BY DEF Exception
<1> QED
  BY <1>1 DEF Session, Own, Calling

\* Every step keeps it.
LEMMA InvStep == IInv /\ [Next]_vars => IInv'
<1> SUFFICES ASSUME IInv, [Next]_vars PROVE IInv'
  OBVIOUS
<1>1. TypeOK' /\ Lines /\ Steady /\ Queue /\ Session
  BY TypeStep, TypeParts DEF IInv
<1>2. ASSUME Open \/ HostByte \/ Timeout \/ Kill \/ FwReset \/ Disturb \/ UNCHANGED vars
      PROVE  /\ Queue' /\ Flying' \subseteq Flying /\ sent' = sent
             /\ ~ Open => before' = before
  BY <1>1, <1>2, OnlyLosses
<1>3. CASE Open
  <2>1. pc' = "idle" /\ before' = sent
    BY <1>3 DEF Open
  <2>2. sent \in Nat /\ (\A f \in LiveFrames(toFw) : f.serial \in 1 .. sent)
        /\ \A f \in LiveFrames(toHost) : f.serial \in 0 .. sent
    BY <1>1, RequestSerials, ReplySerials DEF Lines
  <2>3. \A f \in Flying' : ~ (f.serial > sent)
    BY <1>2, <1>3, <2>2 DEF Flying
  <2>4. Own' = {}
    BY <2>1, <2>3 DEF Own
  <2> QED
    BY <1>1, <1>2, <1>3, <2>1, <2>4 DEF IInv, Session, Calling
<1>4. ASSUME NEW kind \in Requests, Send(kind) PROVE IInv'
  <2>1. /\ Queue' /\ sent' = sent + 1 /\ sent \in Nat
        /\ \A f \in Flying' : f \in Flying \/ (f.serial = sent' /\ f.id = id')
        /\ \A f \in Flying : f.serial <= sent
    BY <1>1, <1>4, SendQueue DEF Lines
  <2>2. id' # id /\ before' = before /\ foreign' = foreign
    BY <1>1, <1>4, Sending DEF Send, session
  <2>3. CASE pc = "idle" /\ Written(Tokens(Request(kind)), "waiting")
    <3>1. (pc' = "waiting" /\ outcome' = "none") \/ pc' \in {"closed", "unwinding"}
      BY <2>3 DEF Written, Exception
    <3>2. ~ foreign => \A f \in Own' : f.serial = sent' /\ f.id = id'
      BY <1>1, <2>1, <2>2, <2>3 DEF Session, Own
    <3> QED
      BY <1>1, <2>1, <2>2, <3>1, <3>2 DEF IInv, Session, Calling
  <2>4. CASE pc \in {"idle", "unwinding"} /\ Written(Tokens(Request(kind)), "detaching")
    <3>1. (pc' = "detaching" /\ outcome' = "none") \/ pc' = "closed"
      BY <2>4 DEF Written, Exception
    <3>2. ~ foreign => \A f \in Own : f.id = id
      BY <1>1, <2>4 DEF Session
    <3>3. ~ foreign => \A f \in Own' : f.id = id' => f.serial = sent'
      BY <2>1, <2>2, <3>2 DEF Own
    <3> QED
      BY <1>1, <2>1, <2>2, <3>1, <3>3 DEF IInv, Session, Calling
  <2> QED
    BY <1>4, <2>3, <2>4 DEF Send
<1>5. CASE HostByte
  <2>1. pc \in Calling /\ toHost # <<>> /\ id' = id /\ toFw' = toFw /\ toHost' = Tail(toHost)
    BY <1>5 DEF HostByte
  <2>2. PICK o \in Outcomes(hostDec, Head(toHost)) : Receive(o)
    BY <1>5 DEF HostByte
  <2>6. ~ Open /\ before' = before
    BY <2>1, <1>5, <1>2 DEF Open, Calling
  <2>3. CASE o.verdict = "none"
    <3>1. pc' = pc /\ outcome' = outcome /\ outcome = "none"
      BY <1>1, <2>1, <2>2, <2>3 DEF Receive, Session
    <3>2. foreign' = foreign
      BY <1>5, <3>1 DEF HostByte
    <3> QED
      BY <1>1, <1>2, <1>5, <2>1, <2>6, <3>1, <3>2 DEF IInv, Session, Own
  <2>4. CASE o.verdict = "frame" /\ hostDec.frame.id = id
    <3>1. pc' = (IF pc = "detaching" THEN "closed" ELSE "idle") /\ outcome' = "returned"
      BY <2>2, <2>4 DEF Receive, Return
    <3>2. CASE foreign'
      BY <1>1, <1>2, <1>5, <2>1, <3>1, <3>2 DEF IInv, Session, Calling
    <3>3. CASE ~ foreign'
      <4>1. ~ foreign /\ ~ (hostDec.frame.serial <= before)
        BY <1>5, <3>1, <3>3 DEF HostByte
      <4>2. hostDec.frame.serial > before
        BY <1>1, <2>1, <2>4, <4>1, AnswerSerial
      <4>3. pc = "waiting" => Flying' = {}
        BY <2>1, <2>4, <4>1, <4>2, TakesItsAnswer DEF Flying
      <4> QED
        BY <1>1, <1>2, <1>5, <2>1, <3>1, <4>3 DEF IInv, Session, Own, Calling
    <3> QED
      BY <3>2, <3>3
  <2>5. CASE Exception(pc = "detaching")
    <3>1. (pc = "detaching") \in BOOLEAN
      OBVIOUS
    <3>2. foreign' = foreign
      BY <1>5, <2>5 DEF HostByte, Exception
    <3>3. Session'
      BY <1>1, <1>2, <1>5, <2>1, <2>5, <2>6, <3>1, <3>2, AfterException DEF Calling
    <3> QED
      BY <1>1, <1>2, <1>5, <3>3 DEF IInv
  <2> QED
    BY <2>2, <2>3, <2>4, <2>5, Verdicts DEF Receive
<1>6. CASE Timeout
  <2>1. /\ pc \in Calling /\ id' = id /\ Exception(pc = "detaching")
        /\ before' = before /\ foreign' = foreign
    BY <1>6 DEF Timeout, Waits, session
  <2>2. (pc = "detaching") \in BOOLEAN
    OBVIOUS
  <2>3. Session'
    BY <1>1, <1>2, <1>6, <2>1, <2>2, AfterException DEF Calling
  <2> QED
    BY <1>1, <1>2, <1>6, <2>3 DEF IInv
<1>7. CASE Kill
  <2>1. pc' = "closed"
    BY <1>7 DEF Kill
  <2> QED
    BY <1>1, <1>2, <1>7, <2>1 DEF IInv, Session, Calling
<1>8. CASE FwByte
  <2>1. UNCHANGED <<pc, id, outcome>>
    BY <1>8 DEF FwByte, host
  <2>2. /\ Queue' /\ sent' = sent /\ before' = before /\ foreign' = foreign
        /\ \A g \in Flying' : \E f \in Flying : g.serial = f.serial /\ g.id = f.id
    BY <1>1, <1>8, ServeQueue
  <2> QED
    BY <1>1, <2>1, <2>2 DEF IInv, Session, Own
<1>9. CASE FwReset \/ Disturb \/ UNCHANGED vars
  <2>1. UNCHANGED <<pc, id, outcome, before, foreign>>
    BY <1>9 DEF FwReset, Disturb, vars, host, session
  <2> QED
    BY <1>1, <1>2, <1>9, <2>1 DEF IInv, Session, Own
<1> QED
  BY <1>3, <1>4, <1>5, <1>6, <1>7, <1>8, <1>9 DEF Next, Runs

-----------------------------------------------------------------------------
(* The promise.                                                            *)

\* Every step is one of LinkPromise, or a stutter.
LEMMA PromiseStep ==
  ASSUME IInv, [Next]_vars
  PROVE  [Promise!Next]_(Promise!vars)
<1> USE DEF Promise!Next, Promise!vars
<1>1. TypeOK /\ Lines /\ Steady /\ Queue /\ Session
  BY TypeParts DEF IInv
<1>2. outcome # "given" /\ (pc \in Calling => outcome = "none")
  BY <1>1 DEF Steady, Session
<1>3. ASSUME NEW d \in BOOLEAN, Exception(d) PROVE pc' \notin Calling /\ outcome' = "thrown"
  BY <1>3 DEF Exception, Calling
<1>4. CASE Open
  <2>1. pc' \notin Calling /\ outcome' = "none" /\ sent' = sent /\ done' = done /\ foreign' = FALSE
    BY <1>4 DEF Open, Calling
  <2> QED
    BY <2>1 DEF Promise!Restart
<1>5. ASSUME NEW kind \in Requests, Send(kind) PROVE Promise!Give
  <2>1. PICK call \in Calling : Written(Tokens(Request(kind)), call)
    BY <1>5 DEF Send, Calling
  <2>2. (call = "detaching") \in BOOLEAN
    OBVIOUS
  <2>3. pc' \in Calling \/ (pc' \notin Calling /\ outcome' = "thrown")
    BY <2>1, <2>2, <1>3 DEF Written
  <2>4. pc \notin Calling /\ sent' = sent + 1 /\ done' = done /\ foreign' = foreign
    BY <1>5 DEF Send, Calling, session
  <2> QED
    BY <1>2, <2>3, <2>4 DEF Promise!Give
<1>6. CASE HostByte
  <2>1. pc \in Calling /\ toHost # <<>> /\ sent' = sent /\ done' = done
    BY <1>6 DEF HostByte
  <2>2. PICK o \in Outcomes(hostDec, Head(toHost)) : Receive(o)
    BY <1>6 DEF HostByte
  <2>3. CASE o.verdict = "none"
    <3>1. pc' = pc /\ outcome' = outcome /\ outcome = "none"
      BY <1>2, <2>1, <2>2, <2>3 DEF Receive
    <3>2. foreign' = foreign
      BY <1>6, <3>1 DEF HostByte
    <3> QED
      BY <2>1, <3>1, <3>2
  <2>4. CASE o.verdict = "frame" /\ hostDec.frame.id = id
    <3>1. pc' \notin Calling /\ outcome' = "returned"
      BY <2>2, <2>4 DEF Receive, Return, Calling
    <3>2. CASE foreign' = TRUE
      BY <2>1, <3>1, <3>2 DEF Promise!Return
    <3>3. CASE foreign' # TRUE
      <4>1. foreign' = foreign /\ ~ (hostDec.frame.serial <= before)
        BY <1>6, <3>1, <3>3 DEF HostByte
      <4>2. ~ foreign
        BY <1>1, <3>3, <4>1 DEF Steady
      <4>3. hostDec.frame.serial > before
        BY <1>1, <2>1, <2>4, <4>1, AnswerSerial
      <4>4. done = sent
        BY <2>1, <2>4, <4>2, <4>3, TakesItsAnswer
      <4> QED
        BY <2>1, <3>1, <4>1, <4>4 DEF Promise!Return
    <3> QED
      BY <3>2, <3>3
  <2>5. CASE Exception(pc = "detaching")
    <3>1. pc' \notin Calling /\ outcome' = "thrown"
      BY <2>5 DEF Exception, Calling
    <3>2. foreign' = foreign
      BY <1>6, <3>1 DEF HostByte
    <3> QED
      BY <2>1, <3>1, <3>2 DEF Promise!Throw
  <2> QED
    BY <2>2, <2>3, <2>4, <2>5, Verdicts DEF Receive
<1>7. CASE Timeout
  <2>1. /\ pc \in Calling /\ pc' \notin Calling /\ outcome' = "thrown"
        /\ sent' = sent /\ done' = done /\ foreign' = foreign
    BY <1>7 DEF Timeout, Waits, Exception, Calling, session
  <2> QED
    BY <2>1 DEF Promise!Throw
<1>8. CASE Kill
  <2>1. pc' \notin Calling /\ outcome' = "none" /\ UNCHANGED <<sent, done, foreign>>
    BY <1>8 DEF Kill, Calling, session
  <2> QED
    BY <2>1 DEF Promise!Restart
<1>9. CASE FwByte
  <2>1. UNCHANGED <<pc, outcome, sent, foreign>>
    BY <1>9 DEF FwByte, host, session
  <2>2. done' = done \/ done' \in done + 1 .. sent
    BY <1>1, <1>9, ServeQueue
  <2> QED
    BY <2>1, <2>2 DEF Promise!CarryOut
<1>10. CASE FwReset \/ Disturb \/ UNCHANGED vars
  <2>1. UNCHANGED <<pc, outcome, sent, done, foreign>>
    BY <1>10 DEF FwReset, Disturb, vars, host, session
  <2> QED
    BY <2>1
<1> QED
  BY <1>4, <1>5, <1>6, <1>7, <1>8, <1>9, <1>10 DEF Next, Runs

\* Commands are carried out in order and once, and one that returns has been,
\* unless an answer to an earlier program's command or a refusal has fooled the
\* session: for any number of ids but one, any losses, delays and restarts, and
\* whatever a refusal's id is (serial.cpp:206-240, hw.cpp:112, main.c:195).
THEOREM LinkKeepsPromise == Spec => KeepsPromise
<1>1. Init => IInv /\ Promise!Init
  BY InvInit DEF Init, Promise!Init, Calling
<1>2. IInv /\ [Next]_vars => IInv'
  BY InvStep
<1>3. IInv /\ [Next]_vars => [Promise!Next]_(Promise!vars)
  BY PromiseStep
<1> QED
  BY <1>1, <1>2, <1>3, PTL DEF Spec, KeepsPromise, Promise!Spec

-----------------------------------------------------------------------------
(* An undisturbed session.                                                 *)

AtRest == toFw = <<>> /\ toHost = <<>> /\ fw = Between

\* How far a command f and its answer have come.
Asked(f)    == toFw = Tokens(f) /\ fw = Between /\ toHost = <<>> /\ hostDec = Between
Opened(f)   == toFw = <<Token("tail", f)>> /\ fw = Decoder("in", f) /\ toHost = <<>> /\ hostDec = Between
Replied(f)  == toFw = <<>> /\ fw = Between /\ toHost = Tokens(Respond(f)) /\ hostDec = Between
Received(f) == toFw = <<>> /\ fw = Between /\ toHost = <<Token("tail", Respond(f))>>
                 /\ hostDec = Decoder("in", Respond(f))

Undisturbed ==
    /\ IF pc \in Calling THEN outcome = "none" ELSE hostDec = Between
    /\ clean => /\ outcome # "thrown" /\ pc # "unwinding" /\ ~ foreign
                /\ pc = "idle" => AtRest
                /\ pc \in Calling => \E f \in RequestFrames :
                      /\ f.id = id /\ f.serial > before
                      /\ Asked(f) \/ Opened(f) \/ Replied(f) \/ Received(f)

\* Decoders take a frame in two steps.
LEMMA HeadOutcome ==
  ASSUME NEW f, NEW o \in Outcomes(Between, Token("head", f))
  PROVE  o.dec = Decoder("in", f) /\ o.verdict = "none"
BY DEF Outcomes, Token, Between, Decoder

\* The tail completes it.
LEMMA TailOutcome ==
  ASSUME NEW f, NEW o \in Outcomes(Decoder("in", f), Token("tail", f))
  PROVE  o.dec = Between /\ o.verdict = "frame"
BY DEF Outcomes, Token, Between, Decoder

\* The tokens of a frame, one by one.
LEMMA TwoTokens ==
  ASSUME NEW f
  PROVE  /\ Tokens(f) # <<>> /\ Head(Tokens(f)) = Token("head", f) /\ Tail(Tokens(f)) = <<Token("tail", f)>>
         /\ <<Token("tail", f)>> # <<>> /\ Head(<<Token("tail", f)>>) = Token("tail", f)
         /\ Tail(<<Token("tail", f)>>) = <<>>
         /\ <<>> \o Tokens(f) = Tokens(f)
BY DEF Tokens

\* How far the command has come is a witness of Undisturbed.
LEMMA UndisturbedBy ==
  ASSUME pc' \in Calling, outcome' = "none", ~ foreign', NEW g, g \in RequestFrames',
         g.id = id', g.serial > before', Asked(g)' \/ Opened(g)' \/ Replied(g)' \/ Received(g)'
  PROVE  Undisturbed'
<1>1. pc' # "idle" /\ pc' # "unwinding"
  BY DEF Calling
<1>2. \E f \in RequestFrames' : f.id = id' /\ f.serial > before' /\ (Asked(f)' \/ Opened(f)' \/ Replied(f)' \/ Received(f)')
  OBVIOUS
<1> QED
  BY <1>1, <1>2 DEF Undisturbed

\* Every step of an undisturbed session takes the one command further.
LEMMA UndisturbedStep == TypeOK /\ Undisturbed /\ [Next]_vars => Undisturbed'
<1> SUFFICES ASSUME TypeOK, Undisturbed, [Next]_vars PROVE Undisturbed'
  OBVIOUS
<1>1. ASSUME Fault PROVE clean' = FALSE
  BY <1>1 DEF Fault
<1>2. ASSUME NoFault PROVE clean' = clean
  BY <1>2 DEF NoFault
<1>3. CASE Open
  <2>1. pc' = "idle" /\ outcome' = "none" /\ hostDec' = hostDec /\ fw' = fw /\ pc \notin Calling
        /\ clean' = (toFw' = <<>> /\ toHost' = <<>> /\ fw = Between) /\ foreign' = FALSE
    BY <1>3 DEF Open, Calling
  <2> QED
    BY <2>1 DEF Undisturbed, AtRest, Calling
<1>4. ASSUME NEW kind \in Requests, Send(kind) PROVE Undisturbed'
  <2> DEFINE f == Request(kind)
  <2>1. pc \in {"idle", "unwinding"} /\ hostDec = Between /\ hostDec' = Between
        /\ toHost' = toHost /\ fw' = fw /\ before' = before /\ foreign' = foreign
    BY <1>4 DEF Send, Undisturbed, Calling, session
  <2>2. f \in RequestFrames' /\ f.id = id' /\ f.serial > before'
    <3>1. f \in RequestFrames' /\ f.id = id' /\ f.serial = sent' /\ sent' = sent + 1
      BY <1>4, Sending, TypeParts
    <3>2. sent \in Nat /\ before \in 0 .. sent
      BY DEF TypeOK
    <3> HIDE DEF f
    <3> QED
      BY <2>1, <3>1, <3>2
  <2>3. CASE clean'
    <3>1. NoFault /\ toFw' = toFw \o Tokens(f) /\ pc' \in Calling /\ outcome' = "none"
      BY <1>4, <1>1, <2>3 DEF Send, Written, Calling
    <3>2. AtRest
      BY <1>2, <2>1, <2>3, <3>1 DEF Undisturbed
    <3>3. PICK g \in RequestFrames' : g = f
      BY <2>2
    <3>4. Asked(g)'
      BY <2>1, <3>1, <3>2, <3>3, TwoTokens DEF AtRest, Asked
    <3>5. g.id = id' /\ g.serial > before'
      BY <2>2, <3>3
    <3>6. ~ foreign'
      BY <1>2, <2>1, <2>3, <3>1 DEF Undisturbed
    <3> HIDE DEF f
    <3> QED
      BY <3>1, <3>3, <3>4, <3>5, <3>6, UndisturbedBy
  <2>4. CASE ~ clean'
    <3>1. pc' \in Calling => outcome' = "none"
      BY <1>4 DEF Send, Written, Exception, Calling
    <3> QED
      BY <2>1, <2>4, <3>1 DEF Undisturbed
  <2> QED
    BY <2>3, <2>4
<1>5. ASSUME NoFault, clean, pc \in Calling
      PROVE  \E f \in RequestFrames : f.id = id /\ f.serial > before /\ (Asked(f) \/ Opened(f) \/ Replied(f) \/ Received(f))
  BY <1>5 DEF Undisturbed
<1>6. CASE HostByte
  <2>1. /\ pc \in Calling /\ toHost # <<>> /\ toHost' = Tail(toHost) /\ clean' = clean
        /\ id' = id /\ sent' = sent /\ before' = before /\ toFw' = toFw /\ fw' = fw
        /\ foreign' = IF outcome' = "returned" /\ hostDec.frame.serial <= before THEN TRUE ELSE foreign
    BY <1>6, <1>2 DEF HostByte
  <2>2. PICK o \in Outcomes(hostDec, Head(toHost)) :
          Receive(o) /\ hostDec' = IF pc' \in Calling THEN o.dec ELSE Between
    BY <1>6 DEF HostByte
  <2>3. CASE clean
    <3>1. PICK f \in RequestFrames : f.id = id /\ f.serial > before /\ (Replied(f) \/ Received(f))
      BY <2>1, <2>3 DEF Undisturbed, Asked, Opened
    <3>2. f \in RequestFrames'
      BY <2>1 DEF RequestFrames
    <3>5. outcome = "none" /\ ~ foreign
      BY <2>1, <2>3 DEF Undisturbed
    <3>3. CASE Replied(f)
      <4>1. o.dec = Decoder("in", Respond(f)) /\ o.verdict = "none"
        BY <2>2, <3>3, TwoTokens, HeadOutcome DEF Replied
      <4>2. pc' = pc /\ outcome' = outcome
        BY <2>2, <4>1 DEF Receive
      <4>7. ~ foreign'
        BY <2>1, <3>5, <4>2
      <4>3. Received(f)'
        BY <2>1, <2>2, <3>3, <4>1, <4>2, TwoTokens DEF Replied, Received
      <4> QED
        BY <2>1, <2>3, <3>1, <3>2, <3>5, <4>2, <4>3, <4>7, UndisturbedBy
    <3>4. CASE Received(f)
      <4>1. o.dec = Between /\ o.verdict = "frame"
        BY <2>2, <3>4, TwoTokens, TailOutcome DEF Received
      <4>2. hostDec.frame.id = id /\ hostDec.frame.serial = f.serial
        <5>1. sent \in Nat
          BY DEF TypeOK
        <5> QED
          BY <3>1, <3>4, <5>1, ReplyTyped DEF Received, Decoder
      <4>3. Return
        BY <2>2, <4>1, <4>2 DEF Receive
      <4>4. AtRest' /\ pc' \in {"closed", "idle"} /\ outcome' = "returned" /\ hostDec' = Between
        BY <2>1, <2>2, <3>4, <4>3, TwoTokens DEF Received, Return, AtRest, Calling
      <4>5. ~ foreign'
        <5>1. f.serial \in Nat /\ before \in Nat
          BY DEF TypeOK, RequestFrames
        <5>2. ~ (hostDec.frame.serial <= before)
          BY <3>1, <4>2, <5>1
        <5> QED
          BY <2>1, <3>5, <5>2
      <4> QED
        BY <4>4, <4>5 DEF Undisturbed, Calling
    <3> QED
      BY <3>1, <3>3, <3>4
  <2>4. CASE ~ clean
    <3>1. outcome = "none"
      BY <2>1 DEF Undisturbed
    <3>2. o.verdict \in {"none", "error", "frame"}
      BY <2>2 DEF Outcomes
    <3>3. pc' \in Calling => outcome' = "none"
      BY <2>2, <3>1, <3>2 DEF Receive, Return, Exception, Calling
    <3>4. pc' \notin Calling => hostDec' = Between
      BY <2>2
    <3> QED
      BY <2>1, <2>4, <3>3, <3>4 DEF Undisturbed
  <2> QED
    BY <2>3, <2>4
<1>7. CASE Timeout
  <2>1. pc \in Calling /\ hostDec' = Between /\ pc' \notin Calling
    BY <1>7 DEF Timeout, Waits, Exception, Calling
  <2>2. clean' => NoFault /\ toFw = <<>> /\ toHost = <<>>
    BY <1>7, <1>1 DEF Timeout
  <2>3. ~ clean'
    BY <1>2, <1>5, <2>1, <2>2, TwoTokens DEF Asked, Opened, Replied, Received
  <2> QED
    BY <2>1, <2>3 DEF Undisturbed
<1>8. CASE Kill
  <2>1. pc' = "closed" /\ hostDec' = Between /\ outcome' = "none" /\ clean' = clean /\ foreign' = foreign
    BY <1>8, <1>2 DEF Kill, session
  <2> QED
    BY <2>1 DEF Undisturbed, Calling
<1>9. CASE FwByte
  <2>1. /\ toFw # <<>> /\ toFw' = Tail(toFw) /\ clean' = clean
        /\ UNCHANGED <<pc, id, sent, hostDec, outcome, before, foreign>>
    BY <1>9, <1>2 DEF FwByte, host, session
  <2>2. PICK o \in Outcomes(fw, Head(toFw)) :
          /\ fw' = o.dec
          /\ CASE o.verdict = "none"  -> UNCHANGED <<toHost, done>>
               [] o.verdict = "error" -> (\E r \in RefusalOf(3) : Answered(r)) /\ UNCHANGED done
               [] o.verdict = "frame" -> Answered(Respond(fw.frame)) /\ done' = fw.frame.serial
    BY <1>9 DEF FwByte
  <2>3. CASE clean /\ pc \in Calling
    <3>1. PICK f \in RequestFrames : f.id = id /\ f.serial > before /\ (Asked(f) \/ Opened(f))
      BY <2>1, <2>3 DEF Undisturbed, Replied, Received
    <3>2. f \in RequestFrames'
      BY <2>1 DEF RequestFrames
    <3>5. pc' \in Calling /\ outcome' = "none" /\ ~ foreign'
      BY <2>1, <2>3 DEF Undisturbed
    <3>3. CASE Asked(f)
      <4>1. o.dec = Decoder("in", f) /\ o.verdict = "none"
        BY <2>2, <3>3, TwoTokens, HeadOutcome DEF Asked
      <4>2. Opened(f)'
        BY <2>1, <2>2, <3>3, <4>1, TwoTokens DEF Asked, Opened
      <4> QED
        BY <2>1, <3>1, <3>2, <3>5, <4>2, UndisturbedBy
    <3>4. CASE Opened(f)
      <4>1. o.dec = Between /\ o.verdict = "frame"
        BY <2>2, <3>4, TwoTokens, TailOutcome DEF Opened
      <4>2. Answered(Respond(f))
        BY <2>2, <3>4, <4>1 DEF Opened, Decoder
      <4>3. Replied(f)'
        BY <2>1, <2>2, <3>4, <4>1, <4>2, TwoTokens DEF Opened, Replied, Answered
      <4> QED
        BY <2>1, <3>1, <3>2, <3>5, <4>3, UndisturbedBy
    <3> QED
      BY <3>1, <3>3, <3>4
  <2>4. CASE ~ (clean /\ pc \in Calling)
    <3>1. ~ (clean /\ pc = "idle")
      BY <2>1 DEF Undisturbed, AtRest
    <3> QED
      BY <2>1, <2>4, <3>1 DEF Undisturbed
  <2> QED
    BY <2>3, <2>4
<1>10. CASE FwReset
  <2>1. UNCHANGED <<pc, id, sent, hostDec, outcome, before, foreign, toFw, toHost>> /\ fw # Between
    BY <1>10 DEF FwReset, host, session
  <2>2. clean' => NoFault /\ toFw = <<>>
    BY <1>10, <1>1 DEF FwReset
  <2>3. clean' /\ pc \in Calling => FALSE
    BY <1>2, <1>5, <2>1, <2>2, TwoTokens DEF Asked, Opened, Replied, Received
  <2>4. clean' /\ pc = "idle" => FALSE
    BY <1>2, <2>1, <2>2 DEF Undisturbed, AtRest
  <2> QED
    BY <1>2, <2>1, <2>2, <2>3, <2>4 DEF Undisturbed
<1>11. CASE Disturb
  <2>1. UNCHANGED <<pc, hostDec, outcome>> /\ clean' = FALSE
    BY <1>11, <1>1 DEF Disturb, host
  <2> QED
    BY <2>1 DEF Undisturbed
<1>12. CASE UNCHANGED vars
  <2>1. UNCHANGED <<pc, id, sent, hostDec, outcome, before, foreign, toFw, toHost, fw, clean>>
    BY <1>12 DEF vars, host, session
  <2> QED
    BY <2>1 DEF Undisturbed, AtRest, Asked, Opened, Replied, Received, RequestFrames
<1> QED
  BY <1>3, <1>4, <1>6, <1>7, <1>8, <1>9, <1>10, <1>11, <1>12 DEF Next, Runs

\* A session that begins with nothing on the line and meets no fault sees no
\* exception and is not fooled, for any number of ids and whatever earlier
\* sessions have met (serial.cpp:224-230, hw.cpp:63-108).
THEOREM NoFailureWithoutFault == Spec => []CleanSession
<1>1. Init => TypeOK /\ Undisturbed
  BY TypeInit DEF Init, Undisturbed, Calling
<1>2. TypeOK /\ Undisturbed /\ [Next]_vars => TypeOK' /\ Undisturbed'
  BY TypeStep, UndisturbedStep
<1>3. Undisturbed => CleanSession
  BY DEF Undisturbed, CleanSession
<1> QED
  BY <1>1, <1>2, <1>3, PTL DEF Spec

-----------------------------------------------------------------------------
(* The end of a wait.                                                      *)

\* What a command waits for: the bytes on their way to the firmware, the frame
\* it is in, the bytes on their way back.
ToDo == <<Len(toFw), IF fw = Between THEN 0 ELSE 1, Len(toHost)>>

\* While executeCmd waits and the line does nothing amiss, every step of either
\* side leaves less to wait for: no answer calls for another, so that its loop
\* over the answer's bytes comes to an end or to a read that times out
\* (serial.cpp:216-240, programmer.c:107-110).
LessToDo ==
    [][(pc \in Calling /\ pc' \in Calling /\ faults' = faults) => Below(ToDo', ToDo)]_vars

\* Below for the parts of ToDo.
LEMMA BelowByPart ==
  ASSUME NEW a1, NEW a2, NEW a3, NEW b1, NEW b2, NEW b3,
         \/ a1 \in 0 .. b1 - 1
         \/ a1 = b1 /\ a2 \in 0 .. b2 - 1
         \/ a1 = b1 /\ a2 = b2 /\ a3 \in 0 .. b3 - 1
  PROVE  Below(<<a1, a2, a3>>, <<b1, b2, b3>>)
<1> DEFINE s == <<a1, a2, a3>>
           t == <<b1, b2, b3>>
<1>1. DOMAIN t = {1, 2, 3} /\ 1 .. 1 - 1 = {} /\ 1 .. 2 - 1 = {1} /\ 1 .. 3 - 1 = {1, 2}
  OBVIOUS
<1>2. s[1] = a1 /\ s[2] = a2 /\ s[3] = a3 /\ t[1] = b1 /\ t[2] = b2 /\ t[3] = b3
  OBVIOUS
<1> HIDE DEF s, t
<1>3. \E i \in DOMAIN t : s[i] \in 0 .. t[i] - 1 /\ \A j \in 1 .. i - 1 : s[j] = t[j]
  <2>1. CASE a1 \in 0 .. b1 - 1
    <3>1. 1 \in DOMAIN t /\ s[1] \in 0 .. t[1] - 1 /\ \A j \in 1 .. 1 - 1 : s[j] = t[j]
      BY <1>1, <1>2, <2>1
    <3> QED
      BY <3>1
  <2>2. CASE a1 = b1 /\ a2 \in 0 .. b2 - 1
    <3>1. 2 \in DOMAIN t /\ s[2] \in 0 .. t[2] - 1 /\ \A j \in 1 .. 2 - 1 : s[j] = t[j]
      BY <1>1, <1>2, <2>2
    <3> QED
      BY <3>1
  <2>3. CASE a1 = b1 /\ a2 = b2 /\ a3 \in 0 .. b3 - 1
    <3>1. 3 \in DOMAIN t /\ s[3] \in 0 .. t[3] - 1 /\ \A j \in 1 .. 3 - 1 : s[j] = t[j]
      BY <1>1, <1>2, <2>3
    <3> QED
      BY <3>1
  <2> QED
    BY <2>1, <2>2, <2>3
<1> QED
  BY <1>3 DEF Below, s, t

\* A byte read is one less to come.
LEMMA OneLess ==
  ASSUME NEW S, NEW q \in Seq(S), q # <<>>
  PROVE  Len(Tail(q)) \in 0 .. Len(q) - 1
OBVIOUS

\* Who may act while a command waits, and what that leaves.
LEMMA WaitShortens ==
  ASSUME TypeOK, Next, pc \in Calling, pc' \in Calling, faults' = faults
  PROVE  Below(ToDo', ToDo)
<1> DEFINE opened == IF fw = Between THEN 0 ELSE 1
<1>1. SUFFICES \/ Len(toFw)' \in 0 .. Len(toFw) - 1
               \/ Len(toFw)' = Len(toFw) /\ opened' \in 0 .. opened - 1
               \/ Len(toFw)' = Len(toFw) /\ opened' = opened /\ Len(toHost)' \in 0 .. Len(toHost) - 1
  <2>1. Below(<<Len(toFw)', opened', Len(toHost)'>>, <<Len(toFw), opened, Len(toHost)>>)
    BY <1>1, BelowByPart
  <2> QED
    BY <2>1 DEF ToDo
<1>2. ~ Fault
  BY DEF TypeOK, Fault
<1>3. CASE FwByte
  <2>1. Len(toFw)' \in 0 .. Len(toFw) - 1
    BY <1>3, OneLess DEF FwByte, TypeOK
  <2> QED
    BY <2>1
<1>4. CASE HostByte
  <2>1. Len(toHost)' \in 0 .. Len(toHost) - 1 /\ UNCHANGED <<toFw, fw>>
    BY <1>4, OneLess DEF HostByte, TypeOK
  <2> QED
    BY <2>1
<1>5. CASE FwReset
  BY <1>2, <1>5 DEF FwReset
<1>6. CASE Timeout \/ Kill
  BY <1>6 DEF Timeout, Kill, Exception, Calling
<1>7. CASE Open \/ \E kind \in Requests : Send(kind)
  BY <1>7 DEF Open, Send, Calling
<1>8. CASE Disturb
  BY <1>2, <1>8 DEF Disturb
<1> QED
  BY <1>3, <1>4, <1>5, <1>6, <1>7, <1>8 DEF Next, Runs

\* executeCmd does not go on for ever: between two faults of the line there is
\* an end to what it reads, for lines of any length and however many commands
\* were sent before (serial.cpp:216-240, programmer.c:107-110).
THEOREM WaitsComeToAnEnd == Spec => LessToDo
<1>1. TypeOK /\ [Next]_vars =>
        [(pc \in Calling /\ pc' \in Calling /\ faults' = faults) => Below(ToDo', ToDo)]_vars
  BY WaitShortens
<1> QED
  BY <1>1, TypeInit, TypeStep, PTL DEF Spec, LessToDo
=============================================================================
