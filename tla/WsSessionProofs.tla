--------------------------- MODULE WsSessionProofs ---------------------------
(***************************************************************************)
(* Proofs about the live session, for any frame size, thresholds and       *)
(* bounds on what the client sends and the coach says.                     *)
(***************************************************************************)
EXTENDS WsSession, FiniteSetTheorems, SequenceTheorems, TLAPS

Segments == [buf : Seq(Units), speech : Nat, silence : Nat, in : BOOLEAN]
Turns == [audio : Seq(Units), heard : BOOLEAN, phrases : 0 .. MaxPhrases]
Places == {"accept", "greet", "receive", "stt", "reply", "speak", "finalize", "close", "closed"}
Roles == {"user", "assistant"}

\* TypeOK, with a name for every set of records.
Typed ==
    /\ ptt \in BOOLEAN /\ reply \in BOOLEAN /\ stop \in BOOLEAN
    /\ client \in {"open", "done", "left"}
    /\ sent \in 0 .. MaxSent /\ epoch \in 0 .. MaxSent
    /\ wire \in Seq(Messages) /\ inbox \in Seq(Messages)
    /\ reader \in {"off", "reading", "done"}
    /\ loop \in Places
    /\ pending \in Seq(Units)
    /\ ~ptt => Len(pending) < FrameUnits
    /\ seg \in Segments
    /\ turn \in Turns
    /\ history \in Seq(Roles)
    /\ session \in {"none", "open", "ended"}
    /\ out \in Seq(Sendable)
    /\ asked \in Nat /\ published \in Nat
    /\ utterances \in Seq(Seq(Units))

\* What is on its way to the loop.
Stream == inbox \o wire

\* No message is longer than a frame, and an epoch takes a message to begin.
Bounded ==
    /\ epoch <= sent
    /\ \A q \in {wire, inbox} : \A i \in DOMAIN q : Len(q[i].units) <= FrameUnits

\* Nothing was read or asked before the greeting.
Fresh == loop \in {"accept", "greet"} => reader = "off" /\ ~stop /\ asked = 0 /\ out = <<>>

InTurn == loop \in {"stt", "reply", "speak", "finalize"}

\* The running turn is the one take that may be owed a closing message.
ClosingsOwed ==
    /\ Closings <= asked
    /\ InTurn => Closings + 1 <= asked
    /\ ~stop => /\ loop \in {"accept", "greet", "receive"} => Closings = asked
                /\ InTurn => Closings + 1 = asked

\* The transcript of the running turn was sent and not published yet.
TranscriptSent ==
    /\ TurnEndMeansPublished
    /\ loop \in {"reply", "speak", "finalize"} => published + 1 <= Sent({"final"})

\* What the running turn will be remembered by was sent and is not in the history.
WillBeSeen ==
    /\ HistoryWasSeen
    /\ turn.heard => Count(history, {"user"}) + 1 <= Sent({"final"})
    /\ turn.phrases > 0 => Count(history, {"assistant"}) + 1 <= Sent({"reply"})

SpeechIn(audio) == Cardinality({i \in DOMAIN audio : audio[i].speech})

\* Every frame counted as speech is in the buffer.
SpeechBuffered ==
    /\ ptt => seg = EmptySeg
    /\ seg.speech <= SpeechIn(seg.buf)
    /\ TurnsHoldSpeech

EpochsOf(units) == {units[i].epoch : i \in DOMAIN units}
OneTake(audio) == \A x, y \in EpochsOf(audio) : x = y

\* The messages that end a take, with and without the button.
Ends(button, m) == m.kind = "discard" \/ (button /\ m.kind = "end")

\* f is the epoch of every message of s, from the held audio to the client's next.
TakesOf(button, s, held, next, f) ==
    /\ f \in Seq(Nat) /\ Len(f) = Len(s) + 1
    /\ f[Len(s) + 1] = next
    /\ held \subseteq {f[1]}
    /\ \A i \in DOMAIN s : /\ EpochsOf(s[i].units) \subseteq {f[i]}
                           /\ ~Ends(button, s[i]) => f[i + 1] = f[i]

Held == EpochsOf(pending) \cup EpochsOf(seg.buf)
Numbered == \E f \in Seq(Nat) : TakesOf(ptt, Stream, Held, epoch, f)
AllOneTake == OneTake(turn.audio) /\ \A i \in DOMAIN utterances : OneTake(utterances[i])

IInv ==
    /\ Typed /\ Bounded /\ Fresh
    /\ ClosingsOwed /\ TranscriptSent /\ WillBeSeen
    /\ SpeechBuffered
    /\ Numbered /\ AllOneTake

-----------------------------------------------------------------------------
(* The records.                                                            *)

LEMMA TypedIsTypeOK == Typed <=> TypeOK
BY DEF Typed, TypeOK, Segments, Turns, Places, Roles

LEMMA SegmentFields ==
    ASSUME NEW s \in Segments
    PROVE  /\ s.buf \in Seq(Units) /\ s.speech \in Nat /\ s.silence \in Nat
           /\ s.in \in BOOLEAN
BY DEF Segments

LEMMA EmptySegIs ==
    /\ EmptySeg \in Segments /\ EmptySeg.buf = <<>> /\ EmptySeg.speech = 0
    /\ EmptySeg.in = FALSE
BY DEF EmptySeg, Segments

LEMMA TurnFields ==
    ASSUME NEW t \in Turns
    PROVE  /\ t.audio \in Seq(Units) /\ t.heard \in BOOLEAN
           /\ t.phrases \in 0 .. MaxPhrases
BY DEF Turns

LEMMA TurnsAre ==
    /\ NoTurn \in Turns /\ NoTurn.audio = <<>> /\ NoTurn.heard = FALSE
    /\ NoTurn.phrases = 0
    /\ \A a \in Seq(Units) :
         LET t == [NoTurn EXCEPT !.audio = a]
         IN  t \in Turns /\ t.audio = a /\ t.heard = FALSE /\ t.phrases = 0
<1>1. NoTurn \in Turns
  BY BoundsAssumption DEF NoTurn, Turns
<1>2. ASSUME NEW a \in Seq(Units)
      PROVE  LET t == [NoTurn EXCEPT !.audio = a]
             IN  t \in Turns /\ t.audio = a /\ t.heard = FALSE /\ t.phrases = 0
  <2> DEFINE t == [NoTurn EXCEPT !.audio = a]
  <2>1. \A u \in Turns : LET v == [u EXCEPT !.audio = a]
                         IN  /\ v \in Turns /\ v.audio = a
                             /\ v.heard = u.heard /\ v.phrases = u.phrases
    BY DEF Turns
  <2>2. t \in Turns /\ t.audio = a /\ t.heard = NoTurn.heard /\ t.phrases = NoTurn.phrases
    BY <1>1, <2>1
  <2>3. NoTurn.heard = FALSE /\ NoTurn.phrases = 0
    BY DEF NoTurn
  <2>4. QED
    BY <2>2, <2>3
<1>3. QED
  BY <1>1, <1>2 DEF NoTurn

LEMMA HeardTurn ==
    ASSUME NEW t \in Turns, NEW h \in BOOLEAN
    PROVE  LET u == [t EXCEPT !.heard = h]
           IN  u \in Turns /\ u.audio = t.audio /\ u.heard = h /\ u.phrases = t.phrases
BY DEF Turns

LEMMA LongerTurn ==
    ASSUME NEW t \in Turns, t.phrases < MaxPhrases
    PROVE  LET u == [t EXCEPT !.phrases = t.phrases + 1]
           IN  u \in Turns /\ u.audio = t.audio /\ u.heard = t.heard
               /\ u.phrases = t.phrases + 1
BY BoundsAssumption DEF Turns

LEMMA MessagesAre ==
    /\ \A k \in Control \cup {"audio", "disconnect"}, u \in Seq(Units) :
          Message(k, u) \in Messages
    /\ \A k, u : Message(k, u).kind = k /\ Message(k, u).units = u
    /\ \A m \in Messages : /\ m.kind \in Control \cup {"audio", "disconnect"}
                           /\ m.units \in Seq(Units)
BY DEF Messages, Message

-----------------------------------------------------------------------------
(* Counting in a sequence.                                                 *)

LEMMA CountIsNat ==
    ASSUME NEW S, NEW s \in Seq(S), NEW kinds
    PROVE  /\ IsFiniteSet({i \in DOMAIN s : s[i] \in kinds})
           /\ Count(s, kinds) \in Nat
<1> DEFINE K == {i \in DOMAIN s : s[i] \in kinds}
<1>1. DOMAIN s = 1 .. Len(s) /\ Len(s) \in Nat
  OBVIOUS
<1>2. IsFiniteSet(DOMAIN s)
  BY <1>1, FS_Interval
<1>3. K \in SUBSET DOMAIN s
  OBVIOUS
<1> HIDE DEF K
<1>4. IsFiniteSet(K)
  BY <1>2, <1>3, FS_Subset
<1>5. Cardinality(K) \in Nat
  BY <1>4, FS_CardinalityType
<1>6. QED
  BY <1>4, <1>5 DEF K, Count

LEMMA CountNothing == \A kinds : Count(<<>>, kinds) = 0
<1>1. \A kinds : {i \in DOMAIN <<>> : <<>>[i] \in kinds} = {}
  OBVIOUS
<1>2. QED
  BY <1>1, FS_EmptySet DEF Count

LEMMA CountAppend ==
    ASSUME NEW S, NEW s \in Seq(S), NEW m \in S, NEW kinds
    PROVE  Count(Append(s, m), kinds) =
              IF m \in kinds THEN Count(s, kinds) + 1 ELSE Count(s, kinds)
<1> DEFINE n == Len(s)
           a == Append(s, m)
           K == {i \in DOMAIN s : s[i] \in kinds}
           L == {i \in DOMAIN a : a[i] \in kinds}
<1>1. /\ n \in Nat /\ DOMAIN s = 1 .. n /\ DOMAIN a = 1 .. n + 1
      /\ a[n + 1] = m /\ \A i \in 1 .. n : a[i] = s[i]
  OBVIOUS
<1>2. /\ \A i \in 1 .. n + 1 : i \in 1 .. n \/ i = n + 1
      /\ 1 .. n \subseteq 1 .. n + 1 /\ n + 1 \in 1 .. n + 1 /\ n + 1 \notin 1 .. n
  BY <1>1
<1> HIDE DEF n, a
<1>3. IsFiniteSet(K) /\ Cardinality(K) \in Nat
  BY CountIsNat DEF Count
<1>4. CASE m \in kinds
  <2>1. L = K \cup {n + 1} /\ n + 1 \notin K
    BY <1>1, <1>2, <1>4
  <2> HIDE DEF K, L
  <2>2. Cardinality(L) = Cardinality(K) + 1
    BY <1>3, <2>1, FS_AddElement
  <2>3. QED
    BY <1>4, <2>2 DEF Count, K, L, a
<1>5. CASE m \notin kinds
  <2>1. L = K
    BY <1>1, <1>2, <1>5
  <2>2. QED
    BY <1>5, <2>1 DEF Count, a
<1>6. QED
  BY <1>4, <1>5

LEMMA SpeechIsNat ==
    ASSUME NEW s \in Seq(Units)
    PROVE  IsFiniteSet({i \in DOMAIN s : s[i].speech}) /\ SpeechIn(s) \in Nat
<1> DEFINE K == {i \in DOMAIN s : s[i].speech}
<1>1. DOMAIN s = 1 .. Len(s) /\ Len(s) \in Nat
  OBVIOUS
<1>2. IsFiniteSet(DOMAIN s)
  BY <1>1, FS_Interval
<1>3. K \in SUBSET DOMAIN s
  OBVIOUS
<1> HIDE DEF K
<1>4. IsFiniteSet(K)
  BY <1>2, <1>3, FS_Subset
<1>5. Cardinality(K) \in Nat
  BY <1>4, FS_CardinalityType
<1>6. QED
  BY <1>4, <1>5 DEF K, SpeechIn

LEMMA SpeechGrows ==
    ASSUME NEW s \in Seq(Units), NEW f \in Seq(Units)
    PROVE  /\ SpeechIn(s) <= SpeechIn(s \o f)
           /\ Heard(f) => SpeechIn(s) + 1 <= SpeechIn(s \o f)
<1> DEFINE c == s \o f
           n == Len(s)
           K == {i \in DOMAIN s : s[i].speech}
           L == {i \in DOMAIN c : c[i].speech}
<1>1. /\ n \in Nat /\ Len(f) \in Nat /\ DOMAIN s = 1 .. n /\ DOMAIN f = 1 .. Len(f)
      /\ DOMAIN c = 1 .. n + Len(f) /\ c \in Seq(Units)
      /\ \A i \in 1 .. n : c[i] = s[i]
      /\ \A i \in 1 .. Len(f) : c[n + i] = f[i]
  OBVIOUS
<1>2. 1 .. n \subseteq 1 .. n + Len(f)
  BY <1>1
<1>3. K \in SUBSET L
  BY <1>1, <1>2
<1>4. IsFiniteSet(K) /\ IsFiniteSet(L) /\ Cardinality(K) \in Nat /\ Cardinality(L) \in Nat
  BY <1>1, SpeechIsNat DEF SpeechIn
<1>5. Cardinality(K) <= Cardinality(L)
  BY <1>3, <1>4, FS_Subset
<1>6. ASSUME Heard(f) PROVE Cardinality(K) + 1 <= Cardinality(L)
  <2>1. PICK i \in 1 .. Len(f) : f[i].speech
    BY <1>1, <1>6 DEF Heard
  <2>2. n + i \in 1 .. n + Len(f) /\ n + i \notin 1 .. n /\ c[n + i] = f[i]
    BY <1>1
  <2>3. n + i \in L /\ n + i \notin K
    BY <1>1, <2>1, <2>2
  <2> HIDE DEF K, L, n
  <2>4. K \cup {n + i} \in SUBSET L
    BY <1>3, <2>3
  <2>5. Cardinality(K \cup {n + i}) = Cardinality(K) + 1
    BY <1>4, <2>3, FS_AddElement
  <2>6. Cardinality(K \cup {n + i}) <= Cardinality(L)
    BY <1>4, <2>4, FS_Subset
  <2>7. QED
    BY <1>4, <2>5, <2>6
<1>7. QED
  BY <1>4, <1>5, <1>6 DEF SpeechIn

-----------------------------------------------------------------------------
(* Epochs of joined and cut audio.                                         *)

LEMMA EpochsOfNothing == EpochsOf(<<>>) = {} /\ SpeechIn(<<>>) = 0
<1>1. {i \in DOMAIN <<>> : <<>>[i].speech} = {} /\ EpochsOf(<<>>) = {}
  BY DEF EpochsOf
<1>2. QED
  BY <1>1, FS_EmptySet DEF SpeechIn

LEMMA EpochsOfJoined ==
    ASSUME NEW s \in Seq(Units), NEW u \in Seq(Units)
    PROVE  EpochsOf(s \o u) = EpochsOf(s) \cup EpochsOf(u)
<1> DEFINE c == s \o u
           n == Len(s)
<1>1. /\ n \in Nat /\ Len(u) \in Nat /\ DOMAIN s = 1 .. n /\ DOMAIN u = 1 .. Len(u)
      /\ DOMAIN c = 1 .. n + Len(u)
      /\ \A i \in 1 .. n : c[i] = s[i]
      /\ \A i \in 1 .. Len(u) : c[n + i] = u[i]
  OBVIOUS
<1> HIDE DEF c, n
<1>2. ASSUME NEW i \in 1 .. n + Len(u)
      PROVE  i \in 1 .. n \/ \E j \in 1 .. Len(u) : i = n + j
  <2>1. i \in 1 .. n \/ (i - n \in 1 .. Len(u) /\ i = n + (i - n))
    BY <1>1
  <2>2. QED
    BY <2>1
<1>3. \A i \in 1 .. n : i \in 1 .. n + Len(u)
  BY <1>1
<1>4. \A i \in 1 .. Len(u) : n + i \in 1 .. n + Len(u)
  BY <1>1
<1>5. EpochsOf(c) \subseteq EpochsOf(s) \cup EpochsOf(u)
  <2> SUFFICES ASSUME NEW i \in DOMAIN c PROVE c[i].epoch \in EpochsOf(s) \cup EpochsOf(u)
    BY DEF EpochsOf
  <2>1. CASE i \in 1 .. n
    BY <1>1, <2>1 DEF EpochsOf
  <2>2. CASE i \notin 1 .. n
    <3>1. PICK j \in 1 .. Len(u) : i = n + j
      BY <1>1, <1>2, <2>2
    <3>2. QED
      BY <1>1, <3>1 DEF EpochsOf
  <2>3. QED
    BY <2>1, <2>2
<1>6. EpochsOf(s) \subseteq EpochsOf(c)
  BY <1>1, <1>3 DEF EpochsOf
<1>7. EpochsOf(u) \subseteq EpochsOf(c)
  BY <1>1, <1>4 DEF EpochsOf
<1>8. QED
  BY <1>5, <1>6, <1>7 DEF c

LEMMA CutAudio ==
    ASSUME NEW s \in Seq(Units), Len(s) >= FrameUnits
    PROVE  LET frame == SubSeq(s, 1, FrameUnits)
           IN  /\ frame \in Seq(Units) /\ Rest(s) \in Seq(Units)
               /\ Len(Rest(s)) = Len(s) - FrameUnits
               /\ EpochsOf(frame) \subseteq EpochsOf(s)
               /\ EpochsOf(Rest(s)) \subseteq EpochsOf(s)
<1> DEFINE frame == SubSeq(s, 1, FrameUnits)
<1>1. /\ Len(s) \in Nat /\ DOMAIN s = 1 .. Len(s) /\ FrameUnits \in Nat \ {0}
      /\ \A i \in 1 .. Len(s) : s[i] \in Units
  BY FrameAssumption
<1>2. /\ frame \in Seq(Units) /\ DOMAIN frame = 1 .. FrameUnits
      /\ \A i \in 1 .. FrameUnits : frame[i] = s[i]
  BY <1>1
<1>3. /\ Rest(s) \in Seq(Units) /\ Len(Rest(s)) = Len(s) - FrameUnits
      /\ DOMAIN Rest(s) = 1 .. Len(s) - FrameUnits
      /\ \A i \in 1 .. Len(s) - FrameUnits : Rest(s)[i] = s[FrameUnits + i]
  <2> DEFINE m == FrameUnits + 1
             n == Len(s)
  <2>1. /\ m \in Int /\ n \in Int /\ \A i \in m .. n : s[i] \in Units
        /\ Rest(s) = SubSeq(s, m, n)
    BY <1>1 DEF Rest
  <2> HIDE DEF m, n
  <2>2. /\ Rest(s) \in Seq(Units)
        /\ Len(Rest(s)) = IF m <= n THEN n - m + 1 ELSE 0
        /\ \A i \in 1 .. n - m + 1 : Rest(s)[i] = s[m + i - 1]
    BY <2>1, SubSeqProperties
  <2>3x. ASSUME NEW l \in Nat, NEW k \in Nat, l >= k
        PROVE  l - (k + 1) + 1 = l - k /\ (k + 1 > l => l - k = 0)
    BY <2>3x
  <2>4x. n - m + 1 = Len(s) - FrameUnits /\ (m > n => Len(s) - FrameUnits = 0)
    BY <1>1, <2>3x DEF m, n
  <2>5x. m <= n \/ m > n
    BY <2>1
  <2>3. Len(Rest(s)) = Len(s) - FrameUnits /\ n - m + 1 = Len(s) - FrameUnits
    BY <2>1, <2>2, <2>4x, <2>5x
  <2>4. \A i \in 1 .. Len(s) - FrameUnits : m + i - 1 = FrameUnits + i
    BY <1>1 DEF m
  <2>5. DOMAIN Rest(s) = 1 .. Len(Rest(s))
    BY <2>2
  <2>6. ASSUME NEW i \in 1 .. Len(s) - FrameUnits
        PROVE  Rest(s)[i] = s[FrameUnits + i]
    BY <2>2, <2>3, <2>4
  <2>7. QED
    BY <2>2, <2>3, <2>5, <2>6
<1>4. /\ \A i \in 1 .. FrameUnits : i \in 1 .. Len(s)
      /\ \A i \in 1 .. Len(s) - FrameUnits : FrameUnits + i \in 1 .. Len(s)
  BY <1>1
<1> HIDE DEF frame
<1>5. EpochsOf(frame) \subseteq EpochsOf(s)
  BY <1>1, <1>2, <1>4 DEF EpochsOf
<1>6. EpochsOf(Rest(s)) \subseteq EpochsOf(s)
  BY <1>1, <1>3, <1>4 DEF EpochsOf
<1>7. QED
  BY <1>2, <1>3, <1>5, <1>6 DEF frame

-----------------------------------------------------------------------------
(* The messages on their way, and the takes they belong to.                *)

LEMMA StreamMoves ==
    ASSUME NEW q \in Seq(Messages), NEW r \in Seq(Messages), NEW m \in Messages
    PROVE  /\ r # <<>> => Append(q, Head(r)) \o Tail(r) = q \o r
           /\ q \o Append(r, m) = Append(q \o r, m)
           /\ Append(q, m) \o <<>> = Append(q \o <<>>, m)
           /\ q # <<>> => /\ Tail(q) \o r = Tail(q \o r)
                          /\ Head(q \o r) = Head(q) /\ q \o r # <<>>
           /\ q \o r \in Seq(Messages)
<1>1. q \o r \in Seq(Messages)
  OBVIOUS
<1>2. q \o Append(r, m) = Append(q \o r, m)
  BY AppendIsConcat, ConcatAssociative, <1>1
<1>3. Append(q, m) \o <<>> = Append(q \o <<>>, m)
  BY ConcatEmptySeq
<1>4. ASSUME r # <<>> PROVE Append(q, Head(r)) \o Tail(r) = q \o r
  <2> DEFINE a == Append(q, Head(r)) \o Tail(r)
             b == q \o r
  <2>1. /\ Len(q) \in Nat /\ Len(r) \in Nat \ {0} /\ Head(r) = r[1] /\ Head(r) \in Messages
        /\ Tail(r) \in Seq(Messages) /\ Len(Tail(r)) = Len(r) - 1
        /\ \A i \in 1 .. Len(r) - 1 : Tail(r)[i] = r[i + 1]
    BY <1>4
  <2>2. /\ Append(q, Head(r)) \in Seq(Messages) /\ Len(Append(q, Head(r))) = Len(q) + 1
        /\ \A i \in 1 .. Len(q) : Append(q, Head(r))[i] = q[i]
        /\ Append(q, Head(r))[Len(q) + 1] = r[1]
    BY <2>1
  <2>3. /\ a \in Seq(Messages) /\ Len(a) = Len(q) + Len(r)
        /\ \A i \in 1 .. Len(q) + Len(r) :
              a[i] = IF i <= Len(q) + 1 THEN Append(q, Head(r))[i] ELSE Tail(r)[i - (Len(q) + 1)]
    BY <2>1, <2>2, ConcatProperties
  <2>4. /\ b \in Seq(Messages) /\ Len(b) = Len(q) + Len(r)
        /\ \A i \in 1 .. Len(q) + Len(r) : b[i] = IF i <= Len(q) THEN q[i] ELSE r[i - Len(q)]
    BY ConcatProperties
  <2> HIDE DEF a, b
  <2>5. ASSUME NEW i \in 1 .. Len(q) + Len(r) PROVE a[i] = b[i]
    <3>1. CASE i <= Len(q)
      BY <2>1, <2>2, <2>3, <2>4, <3>1
    <3>2. CASE i = Len(q) + 1
      BY <2>1, <2>2, <2>3, <2>4, <3>2
    <3>3. CASE i > Len(q) + 1
      <4>1. /\ i - (Len(q) + 1) \in 1 .. Len(r) - 1
            /\ (i - (Len(q) + 1)) + 1 = i - Len(q)
        BY <2>1, <3>3
      <4>2. a[i] = r[i - Len(q)]
        BY <2>1, <2>3, <3>3, <4>1
      <4>3. QED
        BY <2>1, <2>4, <3>3, <4>2
    <3>4. QED
      BY <2>1, <3>1, <3>2, <3>3
  <2>6. QED
    BY <2>3, <2>4, <2>5, SeqEqual DEF a, b
<1>5. ASSUME q # <<>>
      PROVE  Tail(q) \o r = Tail(q \o r) /\ Head(q \o r) = Head(q) /\ q \o r # <<>>
  <2> DEFINE a == Tail(q) \o r
             c == q \o r
             b == Tail(c)
  <2>1. /\ Len(r) \in Nat /\ Len(q) \in Nat \ {0} /\ Head(q) = q[1]
        /\ Tail(q) \in Seq(Messages) /\ Len(Tail(q)) = Len(q) - 1
        /\ \A i \in 1 .. Len(q) - 1 : Tail(q)[i] = q[i + 1]
    BY <1>5
  <2>2. /\ c \in Seq(Messages) /\ Len(c) = Len(q) + Len(r)
        /\ \A i \in 1 .. Len(q) + Len(r) : c[i] = IF i <= Len(q) THEN q[i] ELSE r[i - Len(q)]
    BY ConcatProperties
  <2>3. /\ a \in Seq(Messages) /\ Len(a) = Len(q) - 1 + Len(r)
        /\ \A i \in 1 .. Len(q) - 1 + Len(r) :
              a[i] = IF i <= Len(q) - 1 THEN Tail(q)[i] ELSE r[i - (Len(q) - 1)]
    BY <2>1, ConcatProperties
  <2> HIDE DEF a, c
  <2>4. c # <<>> /\ Head(c) = q[1]
    BY <2>1, <2>2
  <2>5. /\ b \in Seq(Messages) /\ Len(b) = Len(q) - 1 + Len(r)
        /\ \A i \in 1 .. Len(q) - 1 + Len(r) : b[i] = c[i + 1]
    BY <2>1, <2>2, <2>4
  <2> HIDE DEF b
  <2>6. ASSUME NEW i \in 1 .. Len(q) - 1 + Len(r) PROVE a[i] = b[i]
    <3>1. CASE i <= Len(q) - 1
      <4>1. i \in 1 .. Len(q) - 1 /\ i + 1 \in 1 .. Len(q) + Len(r) /\ i + 1 <= Len(q)
        BY <2>1, <3>1
      <4>2. a[i] = q[i + 1]
        BY <2>1, <2>3, <3>1, <4>1
      <4>3. b[i] = q[i + 1]
        BY <2>2, <2>5, <4>1
      <4>4. QED
        BY <4>2, <4>3
    <3>2. CASE i > Len(q) - 1
      <4>1. /\ i + 1 \in 1 .. Len(q) + Len(r) /\ i + 1 > Len(q)
            /\ (i + 1) - Len(q) = i - (Len(q) - 1) /\ ~(i <= Len(q) - 1)
            /\ ~(i + 1 <= Len(q))
        BY <2>1, <3>2
      <4>2. a[i] = r[i - (Len(q) - 1)]
        BY <2>3, <4>1
      <4>3. b[i] = c[i + 1]
        BY <2>5
      <4>4. c[i + 1] = r[(i + 1) - Len(q)]
        BY <2>2, <4>1
      <4>5. QED
        BY <4>1, <4>2, <4>3, <4>4
    <3>3. QED
      BY <2>1, <3>1, <3>2
  <2>7. a = b
    BY <2>3, <2>5, <2>6, SeqEqual
  <2>8. QED
    BY <2>1, <2>4, <2>7 DEF a, b, c
<1>6. QED
  BY <1>1, <1>2, <1>3, <1>4, <1>5

\* A message of the client joins the stream; it may begin a take.
LEMMA TakesAppend ==
    ASSUME NEW p, NEW s \in Seq(Messages), NEW held, NEW e \in Nat, NEW f,
           TakesOf(p, s, held, e, f),
           NEW m \in Messages, EpochsOf(m.units) \subseteq {e},
           NEW new \in Nat, ~Ends(p, m) => new = e
    PROVE  TakesOf(p, Append(s, m), held, new, Append(f, new))
<1> DEFINE a == Append(s, m)
           g == Append(f, new)
           n == Len(s)
<1>1. /\ n \in Nat /\ DOMAIN s = 1 .. n /\ DOMAIN a = 1 .. n + 1 /\ Len(a) = n + 1
      /\ \A i \in 1 .. n : a[i] = s[i]
      /\ a[n + 1] = m
  OBVIOUS
<1>2. /\ f \in Seq(Nat) /\ Len(f) = n + 1 /\ f[n + 1] = e /\ held \subseteq {f[1]}
      /\ \A i \in 1 .. n : EpochsOf(s[i].units) \subseteq {f[i]}
      /\ \A i \in 1 .. n : ~Ends(p, s[i]) => f[i + 1] = f[i]
  BY <1>1 DEF TakesOf
<1>3. /\ g \in Seq(Nat) /\ Len(g) = n + 2 /\ g[n + 2] = new
      /\ \A i \in 1 .. n + 1 : g[i] = f[i]
  BY <1>1, <1>2
<1> HIDE DEF a, g, n
<1>4. /\ \A i \in 1 .. n + 1 : i \in 1 .. n \/ i = n + 1
      /\ \A i \in 1 .. n : i \in 1 .. n + 1 /\ i + 1 \in 1 .. n + 1
      /\ 1 \in 1 .. n + 1 /\ n + 1 \in 1 .. n + 1 /\ (n + 1) + 1 = n + 2
  BY <1>1
<1>5. ASSUME NEW i \in 1 .. n + 1
      PROVE  EpochsOf(a[i].units) \subseteq {g[i]} /\ (~Ends(p, a[i]) => g[i + 1] = g[i])
  <2>1. CASE i \in 1 .. n
    <3>1. a[i] = s[i] /\ g[i] = f[i] /\ g[i + 1] = f[i + 1]
      BY <1>1, <1>3, <1>4, <2>1
    <3>2. QED
      BY <1>2, <2>1, <3>1
  <2>2. CASE i = n + 1
    <3>1. a[i] = m /\ g[i] = e /\ g[i + 1] = new
      BY <1>1, <1>2, <1>3, <1>4, <2>2
    <3>2. QED
      BY <3>1
  <2>3. QED
    BY <1>4, <2>1, <2>2
<1>6. TakesOf(p, a, held, new, g)
  BY <1>1, <1>2, <1>3, <1>4, <1>5 DEF TakesOf
<1>7. QED
  BY <1>6 DEF a, g

\* The loop takes the first message: nothing is kept, or what it held and, when
\* no take ends, the message.
LEMMA TakesTail ==
    ASSUME NEW p, NEW s \in Seq(Messages), s # <<>>, NEW held, NEW e, NEW f,
           TakesOf(p, s, held, e, f),
           NEW kept, kept = {} \/ (/\ ~Ends(p, Head(s))
                                   /\ kept \subseteq held \cup EpochsOf(Head(s).units))
    PROVE  TakesOf(p, Tail(s), kept, e, Tail(f))
<1> DEFINE a == Tail(s)
           g == Tail(f)
           n == Len(s) - 1
<1>1. /\ n \in Nat /\ Len(s) = n + 1 /\ DOMAIN s = 1 .. n + 1 /\ DOMAIN a = 1 .. n
      /\ Len(a) = n
      /\ \A i \in 1 .. n : a[i] = s[i + 1]
      /\ Head(s) = s[1]
  OBVIOUS
<1> HIDE DEF n
<1>2. /\ f \in Seq(Nat) /\ Len(f) = n + 2 /\ f[n + 2] = e /\ held \subseteq {f[1]}
      /\ \A i \in 1 .. n + 1 : EpochsOf(s[i].units) \subseteq {f[i]}
      /\ \A i \in 1 .. n + 1 : ~Ends(p, s[i]) => f[i + 1] = f[i]
  <2>1. Len(s) + 1 = n + 2
    BY <1>1
  <2>2. QED
    BY <1>1, <2>1 DEF TakesOf
<1>3. /\ g \in Seq(Nat) /\ Len(g) = n + 1
      /\ \A i \in 1 .. n + 1 : g[i] = f[i + 1]
  <2>1. f # <<>> /\ Len(f) = n + 2 /\ f \in Seq(Nat) /\ n \in Nat
    BY <1>1, <1>2
  <2>2. QED
    BY <2>1
<1> HIDE DEF a, g
<1>4. /\ \A i \in 1 .. n : i + 1 \in 1 .. n + 1 /\ i \in 1 .. n + 1
      /\ 1 \in 1 .. n + 1 /\ n + 1 \in 1 .. n + 1 /\ (n + 1) + 1 = n + 2
  BY <1>1
<1>5. ASSUME NEW i \in 1 .. n
      PROVE  EpochsOf(a[i].units) \subseteq {g[i]} /\ (~Ends(p, a[i]) => g[i + 1] = g[i])
  <2>1. /\ i + 1 \in 1 .. n + 1 /\ i \in 1 .. n + 1
        /\ a[i] = s[i + 1] /\ g[i] = f[i + 1] /\ g[i + 1] = f[(i + 1) + 1]
    BY <1>1, <1>3, <1>4
  <2>2. QED
    BY <1>2, <2>1
<1>6. g[n + 1] = e
  BY <1>2, <1>3, <1>4
<1>7. kept \subseteq {g[1]}
  <2>1. g[1] = f[2]
    BY <1>3, <1>4
  <2>2. /\ EpochsOf(s[1].units) \subseteq {f[1]}
        /\ ~Ends(p, s[1]) => f[1 + 1] = f[1]
    BY <1>2, <1>4
  <2>3. QED
    BY <1>1, <1>2, <2>1, <2>2
<1>8. TakesOf(p, a, kept, e, g)
  BY <1>1, <1>3, <1>5, <1>6, <1>7 DEF TakesOf
<1>9. QED
  BY <1>8 DEF a, g

-----------------------------------------------------------------------------
(* What is sent and what is remembered.                                    *)

LEMMA SentGrows ==
    ASSUME Typed, NEW m \in Sendable, out' = Append(out, m)
    PROVE  \A kinds : /\ Count(out, kinds) \in Nat
                      /\ Count(out', kinds) = IF m \in kinds THEN Count(out, kinds) + 1
                                                              ELSE Count(out, kinds)
<1>1. out \in Seq(Sendable)
  BY DEF Typed
<1>2. \A kinds : Count(out, kinds) \in Nat
  BY <1>1, CountIsNat
<1>3. \A kinds : Count(Append(out, m), kinds) =
                    IF m \in kinds THEN Count(out, kinds) + 1 ELSE Count(out, kinds)
  BY <1>1, CountAppend
<1>4. QED
  BY <1>2, <1>3

LEMMA RememberedIs ==
    ASSUME Typed, NEW t \in Turns
    PROVE  /\ Remembered(t) \in Seq(Roles)
           /\ Count(history, {"user"}) \in Nat /\ Count(history, {"assistant"}) \in Nat
           /\ Count(Remembered(t), {"user"}) =
                 Count(history, {"user"}) + (IF t.heard THEN 1 ELSE 0)
           /\ Count(Remembered(t), {"assistant"}) =
                 Count(history, {"assistant"}) + (IF t.phrases > 0 THEN 1 ELSE 0)
<1> DEFINE h == history \o (IF t.heard THEN <<"user">> ELSE <<>>)
<1>0. history \in Seq(Roles) /\ "user" \in Roles /\ "assistant" \in Roles
  BY DEF Typed, Roles
<1>1. /\ h = IF t.heard THEN Append(history, "user") ELSE history
      /\ h \in Seq(Roles)
  BY <1>0, AppendIsConcat, ConcatEmptySeq
<1> HIDE DEF h
<1>2. Remembered(t) = IF t.phrases > 0 THEN Append(h, "assistant") ELSE h
  <2>1. Remembered(t) = h \o (IF t.phrases > 0 THEN <<"assistant">> ELSE <<>>)
    BY DEF Remembered, h
  <2>2. QED
    BY <1>0, <1>1, <2>1, AppendIsConcat, ConcatEmptySeq
<1>3. \A k : Count(history, k) \in Nat /\ Count(h, k) \in Nat
  BY <1>0, <1>1, CountIsNat
<1>4. \A k : Count(Append(history, "user"), k) =
                IF "user" \in k THEN Count(history, k) + 1 ELSE Count(history, k)
  BY <1>0, CountAppend
<1>5. \A k : Count(Append(h, "assistant"), k) =
                IF "assistant" \in k THEN Count(h, k) + 1 ELSE Count(h, k)
  <2>1. h \in Seq(Roles) /\ "assistant" \in Roles
    BY <1>0, <1>1
  <2>2. QED
    BY <2>1, CountAppend
<1>6. Count(h, {"user"}) = Count(history, {"user"}) + (IF t.heard THEN 1 ELSE 0)
  BY <1>1, <1>3, <1>4
<1>7. Count(h, {"assistant"}) = Count(history, {"assistant"})
  BY <1>1, <1>3, <1>4
<1>8. Count(Remembered(t), {"user"}) = Count(h, {"user"})
  BY <1>2, <1>3, <1>5
<1>9. Count(Remembered(t), {"assistant"}) = Count(h, {"assistant"}) + (IF t.phrases > 0 THEN 1 ELSE 0)
  BY <1>2, <1>3, <1>5
<1>10. Remembered(t) \in Seq(Roles)
  BY <1>0, <1>1, <1>2
<1>11. QED
  BY <1>3, <1>6, <1>7, <1>8, <1>9, <1>10

-----------------------------------------------------------------------------
(* The segmenter.                                                          *)

LEMMA HeadIs ==
    ASSUME Typed, inbox # <<>>
    PROVE  /\ Head(inbox) \in Messages /\ Head(inbox).units \in Seq(Units)
           /\ Tail(inbox) \in Seq(Messages)
           /\ Head(inbox) = inbox[1] /\ 1 \in DOMAIN inbox
           /\ \A i \in DOMAIN Tail(inbox) : i + 1 \in DOMAIN inbox /\ Tail(inbox)[i] = inbox[i + 1]
<1>1. inbox \in Seq(Messages)
  BY DEF Typed
<1>2. Head(inbox) \in Messages
  BY <1>1
<1>3. Head(inbox).units \in Seq(Units)
  BY <1>2, MessagesAre
<1>4. QED
  BY <1>1, <1>2, <1>3

LEMMA SegmentKeeps ==
    ASSUME NEW s \in Segments, NEW b \in Seq(Units), NEW n \in Nat
    PROVE  LET w == [s EXCEPT !.buf = b, !.silence = n]
           IN  w \in Segments /\ w.buf = b /\ w.speech = s.speech
BY DEF Segments

\* A frame joins the buffer or is dropped, and is counted only if it joins.
LEMMA FramePushed ==
    ASSUME NEW s \in Segments, NEW frame \in Seq(Units)
    PROVE  LET w == WithFrame(s, frame)
           IN  /\ w \in Segments
               /\ EpochsOf(w.buf) \subseteq EpochsOf(s.buf) \cup EpochsOf(frame)
               /\ s.speech <= SpeechIn(s.buf) => w.speech <= SpeechIn(w.buf)
<1> DEFINE w == WithFrame(s, frame)
           c == s.buf \o frame
<1>1. /\ s.buf \in Seq(Units) /\ s.speech \in Nat /\ s.silence \in Nat
      /\ c \in Seq(Units) /\ EpochsOf(c) = EpochsOf(s.buf) \cup EpochsOf(frame)
  BY SegmentFields, EpochsOfJoined
<1>2. /\ SpeechIn(s.buf) \in Nat /\ SpeechIn(c) \in Nat /\ SpeechIn(s.buf) <= SpeechIn(c)
      /\ Heard(frame) => SpeechIn(s.buf) + 1 <= SpeechIn(c)
  BY <1>1, SpeechIsNat, SpeechGrows
<1>3. CASE Heard(frame)
  <2>1. w = [buf |-> c, speech |-> s.speech + 1, silence |-> 0, in |-> TRUE]
    BY <1>3 DEF WithFrame
  <2> HIDE DEF c
  <2>2. w \in Segments /\ w.buf = c /\ w.speech = s.speech + 1
    BY <1>1, <2>1 DEF Segments
  <2>3. QED
    BY <1>1, <1>2, <1>3, <2>2
<1>4. CASE ~Heard(frame) /\ s.in
  <2>1. w = [s EXCEPT !.buf = c, !.silence = s.silence + 1]
    BY <1>4 DEF WithFrame
  <2>2. w \in Segments /\ w.buf = c /\ w.speech = s.speech
    <3> DEFINE n == s.silence + 1
               v == [s EXCEPT !.buf = c, !.silence = n]
    <3>1. n \in Nat /\ c \in Seq(Units) /\ w = v
      BY <1>1, <2>1
    <3> HIDE DEF n, c, w
    <3>2. v \in Segments /\ v.buf = c /\ v.speech = s.speech
      BY <3>1, SegmentKeeps
    <3>3. QED
      BY <3>1, <3>2
  <2>3. QED
    BY <1>1, <1>2, <2>2
<1>5. CASE ~Heard(frame) /\ ~s.in
  BY <1>5 DEF WithFrame
<1>6. QED
  BY <1>3, <1>4, <1>5

\* What the loop holds after a message of audio, and the turn it may start.
LEMMA AudioIs ==
    ASSUME Typed, Bounded, OnAudio
    PROVE  /\ pending' \in Seq(Units) /\ (~ptt => Len(pending') < FrameUnits)
           /\ seg' \in Segments
           /\ Held' \subseteq Held \cup EpochsOf(Head(inbox).units)
           /\ seg.speech <= SpeechIn(seg.buf) => seg'.speech <= SpeechIn(seg'.buf)
           /\ ptt => seg' = seg
           /\ \/ UNCHANGED <<turn, loop, asked, out>>
              \/ \E audio \in Seq(Units) :
                    /\ StartTurn(audio) /\ ~ptt
                    /\ EpochsOf(audio) \subseteq Held \cup EpochsOf(Head(inbox).units)
                    /\ seg.speech <= SpeechIn(seg.buf) => MinSpeech <= SpeechIn(audio)
<1> DEFINE u == Head(inbox).units
           bytes == pending \o u
           frame == SubSeq(bytes, 1, FrameUnits)
           next  == WithFrame(seg, frame)
<1>1. /\ pending \in Seq(Units) /\ seg \in Segments /\ seg.buf \in Seq(Units)
      /\ ptt \in BOOLEAN /\ (~ptt => Len(pending) < FrameUnits) /\ inbox # <<>>
  BY SegmentFields DEF Typed, OnAudio, Receives
<1>2. u \in Seq(Units) /\ Len(u) <= FrameUnits
  BY <1>1, HeadIs DEF Bounded
<1>3. /\ bytes \in Seq(Units) /\ Len(bytes) = Len(pending) + Len(u)
      /\ EpochsOf(bytes) = EpochsOf(pending) \cup EpochsOf(u)
  BY <1>1, <1>2, EpochsOfJoined
<1>4. IF ptt \/ Len(bytes) < FrameUnits
      THEN pending' = bytes /\ UNCHANGED <<seg, turn, loop, asked, out>>
      ELSE /\ pending' = Rest(bytes)
           /\ IF ~Heard(frame) /\ EndOfSpeech(next)
              THEN StartTurn(next.buf) /\ seg' = EmptySeg
              ELSE seg' = next /\ UNCHANGED <<turn, loop, asked, out>>
  BY DEF OnAudio
<1> HIDE DEF u, bytes
<1>5. CASE ptt \/ Len(bytes) < FrameUnits
  <2>1. pending' = bytes /\ UNCHANGED <<seg, turn, loop, asked, out>>
    BY <1>4, <1>5
  <2>2. Held' \subseteq Held \cup EpochsOf(u)
    BY <1>3, <2>1 DEF Held
  <2>3. QED
    BY <1>1, <1>3, <1>5, <2>1, <2>2 DEF u
<1>6. CASE ~(ptt \/ Len(bytes) < FrameUnits)
  <2>1. Len(bytes) >= FrameUnits /\ ~ptt
    BY <1>3, <1>6, FrameAssumption
  <2>2. /\ frame \in Seq(Units) /\ Rest(bytes) \in Seq(Units)
        /\ Len(Rest(bytes)) = Len(bytes) - FrameUnits
        /\ EpochsOf(frame) \subseteq EpochsOf(bytes)
        /\ EpochsOf(Rest(bytes)) \subseteq EpochsOf(bytes)
    BY <1>3, <2>1, CutAudio
  <2> HIDE DEF frame
  <2>3. /\ next \in Segments
        /\ EpochsOf(next.buf) \subseteq EpochsOf(seg.buf) \cup EpochsOf(frame)
        /\ seg.speech <= SpeechIn(seg.buf) => next.speech <= SpeechIn(next.buf)
    BY <1>1, <2>2, FramePushed
  <2> HIDE DEF next
  <2>4. Len(Rest(bytes)) < FrameUnits
    BY <1>1, <1>2, <1>3, <2>1, <2>2, FrameAssumption
  <2>5. /\ pending' = Rest(bytes)
        /\ IF ~Heard(frame) /\ EndOfSpeech(next)
           THEN StartTurn(next.buf) /\ seg' = EmptySeg
           ELSE seg' = next /\ UNCHANGED <<turn, loop, asked, out>>
    BY <1>4, <1>6
  <2>6. EpochsOf(pending') \subseteq Held \cup EpochsOf(u)
    BY <1>3, <2>2, <2>5 DEF Held
  <2>7. EpochsOf(next.buf) \subseteq Held \cup EpochsOf(u)
    BY <1>3, <2>2, <2>3 DEF Held
  <2>8. CASE ~Heard(frame) /\ EndOfSpeech(next)
    <3>1. StartTurn(next.buf) /\ seg' = EmptySeg /\ next.speech >= MinSpeech
      BY <2>5, <2>8 DEF EndOfSpeech
    <3>2. /\ seg' \in Segments /\ EpochsOf(seg'.buf) = {}
          /\ seg'.speech <= SpeechIn(seg'.buf)
      BY <3>1, EmptySegIs, EpochsOfNothing
    <3>3. next.buf \in Seq(Units) /\ next.speech \in Nat /\ SpeechIn(next.buf) \in Nat
      BY <2>3, SegmentFields, SpeechIsNat
    <3>4. seg.speech <= SpeechIn(seg.buf) => MinSpeech <= SpeechIn(next.buf)
      BY <2>3, <3>1, <3>3, SegmenterAssumption
    <3>5. Held' \subseteq Held \cup EpochsOf(u)
      BY <2>6, <3>2 DEF Held
    <3>6. QED
      BY <2>1, <2>2, <2>4, <2>5, <2>7, <3>1, <3>2, <3>3, <3>4, <3>5 DEF u
  <2>9. CASE ~(~Heard(frame) /\ EndOfSpeech(next))
    <3>1. seg' = next /\ UNCHANGED <<turn, loop, asked, out>>
      BY <2>5, <2>9
    <3>2. Held' \subseteq Held \cup EpochsOf(u)
      BY <2>6, <2>7, <3>1 DEF Held
    <3>3. QED
      BY <2>1, <2>2, <2>3, <2>4, <2>5, <3>1, <3>2 DEF u
  <2>10. QED
    BY <2>8, <2>9
<1>7. QED
  BY <1>5, <1>6

\* What an `end` hands to the turn was held and is long enough.
LEMMA TakeIs ==
    ASSUME Typed
    PROVE  /\ TakeOf \in Seq(Units)
           /\ EpochsOf(TakeOf) \subseteq Held
           /\ TakeOf # <<>> => IF ptt THEN Len(TakeOf) >= MinUnits
                               ELSE seg.speech <= SpeechIn(seg.buf) =>
                                        MinSpeech <= SpeechIn(TakeOf)
<1>1. /\ pending \in Seq(Units) /\ seg.buf \in Seq(Units) /\ seg.speech \in Nat
      /\ <<>> \in Seq(Units) /\ SpeechIn(seg.buf) \in Nat /\ EpochsOf(<<>>) = {}
  <2>1. pending \in Seq(Units) /\ seg \in Segments
    BY DEF Typed
  <2>2. seg.buf \in Seq(Units) /\ seg.speech \in Nat
    BY <2>1, SegmentFields
  <2>3. SpeechIn(seg.buf) \in Nat
    BY <2>2, SpeechIsNat
  <2>4. QED
    BY <2>1, <2>2, <2>3, EpochsOfNothing
<1>2. CASE TakeOf = <<>>
  BY <1>1, <1>2
<1>3. CASE TakeOf # <<>> /\ ptt
  <2>1. TakeOf = pending /\ Len(pending) >= MinUnits
    BY <1>3 DEF TakeOf
  <2>2. QED
    BY <1>1, <1>3, <2>1 DEF Held
<1>4. CASE TakeOf # <<>> /\ ~ptt
  <2>1. TakeOf = seg.buf /\ seg.speech >= MinSpeech
    BY <1>4 DEF TakeOf, Flush
  <2>2. seg.speech <= SpeechIn(seg.buf) => MinSpeech <= SpeechIn(seg.buf)
    BY <1>1, <2>1, SegmenterAssumption
  <2>3. QED
    BY <1>1, <1>4, <2>1, <2>2 DEF Held
<1>5. QED
  BY <1>2, <1>3, <1>4

-----------------------------------------------------------------------------
(* What the steps are made of.                                             *)

\* What the loop does while nothing is asked, sent or remembered.
Moves ==
    \/ loop' = loop
    \/ loop = "accept" /\ loop' \in {"greet", "closed"}
    \/ loop = "greet" /\ loop' = "closed"
    \/ loop = "receive" /\ loop' = "close"
    \/ loop = "close" /\ loop' = "closed"
    \/ loop \in {"reply", "speak"} /\ loop' \in {"reply", "finalize"}

Quiet ==
    /\ Moves
    /\ stop' = stop \/ (stop' /\ loop' = loop /\ reader = "reading")
    /\ UNCHANGED <<out, asked, turn, history, results>>

\* The loop starts a turn on a take that it held, the last message included.
Starts(audio) ==
    /\ loop = "receive" /\ inbox # <<>>
    /\ StartTurn(audio)
    /\ EpochsOf(audio) \subseteq Held \cup EpochsOf(Head(inbox).units)
    /\ IF ptt THEN Len(audio) >= MinUnits
       ELSE seg.speech <= SpeechIn(seg.buf) => MinSpeech <= SpeechIn(audio)
    /\ UNCHANGED <<stop, history, results>>

\* A control message is answered.
Answers ==
    /\ loop = "receive"
    /\ \/ SendAndGo("discarded", "receive") /\ asked' = asked
       \/ SendAndGo("turn_skipped", "receive") /\ asked' = asked + 1
    /\ UNCHANGED <<stop, turn, history, results>>

\* An event of the turn, with the turn and the place it leads to.
TurnEvent(m, t, next) ==
    /\ InTurn
    /\ Handle(m, t, next)
    /\ t.audio = turn.audio
    /\ t.heard => turn.heard \/ m = "final"
    /\ t.phrases > 0 => turn.phrases > 0 \/ m = "reply"
    /\ next \in {"receive", "reply", "speak", "finalize"}
    /\ m \in {"turn_end", "turn_skipped", "error"} <=> next = "receive"
    /\ m = "final" => loop = "stt"
    /\ next # "receive" /\ loop = "stt" => m = "final"
    /\ m = "turn_end" <=> loop = "finalize"
    /\ IF loop = "finalize"
       THEN /\ published' = published + 1
            /\ utterances' = Append(utterances, turn.audio) \/ utterances' = utterances
       ELSE UNCHANGED results

LEMMA TurnEvents ==
    ASSUME Typed, Transcribe \/ StageFails \/ Phrase \/ Speak \/ Finalize
    PROVE  \E m \in Sendable, t \in Turns, next \in Places : TurnEvent(m, t, next)
<1>0. turn \in Turns
  BY DEF Typed
<1>1. CASE Transcribe
  <2>1. PICK h \in BOOLEAN :
            Handle("final", [turn EXCEPT !.heard = h], IF reply THEN "reply" ELSE "finalize")
    BY <1>1 DEF Transcribe
  <2> DEFINE t == [turn EXCEPT !.heard = h]
             next == IF reply THEN "reply" ELSE "finalize"
  <2>2. t \in Turns /\ t.audio = turn.audio /\ t.phrases = turn.phrases
    BY <1>0, HeardTurn
  <2> HIDE DEF t
  <2>3. TurnEvent("final", t, next)
    BY <1>1, <2>1, <2>2 DEF TurnEvent, Transcribe, InTurn, t
  <2>4. "final" \in Sendable /\ next \in Places
    BY DEF Sendable, Places
  <2>5. QED
    BY <2>2, <2>3, <2>4
<1>2. CASE StageFails
  <2>1. TurnEvent("error", turn, "receive")
    BY <1>2 DEF TurnEvent, StageFails, InTurn
  <2>2. QED
    BY <1>0, <2>1 DEF Sendable, Places
<1>3. CASE Phrase
  <2> DEFINE t == [turn EXCEPT !.phrases = @ + 1]
  <2>1. t \in Turns /\ t.audio = turn.audio /\ t.heard = turn.heard
    BY <1>0, <1>3, LongerTurn DEF Phrase
  <2>2. Handle("reply", t, "speak")
    BY <1>3 DEF Phrase
  <2> HIDE DEF t
  <2>3. TurnEvent("reply", t, "speak")
    BY <1>3, <2>1, <2>2 DEF TurnEvent, Phrase, InTurn
  <2>4. QED
    BY <2>1, <2>3 DEF Sendable, Places
<1>4. CASE Speak
  <2>1. TurnEvent("audio", turn, "reply")
    BY <1>4 DEF TurnEvent, Speak, InTurn
  <2>2. QED
    BY <1>0, <2>1 DEF Sendable, Places
<1>5. CASE Finalize
  <2>1. TurnEvent("turn_end", turn, "receive")
    BY <1>5 DEF TurnEvent, Finalize, InTurn
  <2>2. QED
    BY <1>0, <2>1 DEF Sendable, Places
<1>6. QED
  BY <1>1, <1>2, <1>3, <1>4, <1>5

\* Everything that is asked, sent or remembered is one of these.
LEMMA StepKinds ==
    ASSUME Typed, Bounded, [Next]_vars
    PROVE  \/ Quiet
           \/ Greet
           \/ \E audio \in Seq(Units) : Starts(audio)
           \/ Answers
           \/ \E m \in Sendable, t \in Turns, next \in Places : TurnEvent(m, t, next)
<1>1. CASE UNCHANGED vars
  BY <1>1 DEF vars, query, clientVars, results, Quiet, Moves
<1>2. CASE ClientStep
  BY <1>2 DEF ClientStep, SendAudio, SendControl, ClientSends, Leave, Quiet, Moves,
     query, clientVars, results
<1>3. CASE ReaderStep
  BY <1>3 DEF ReaderStep, ReadMessage, ReadDisconnect, Quiet, Moves, query, clientVars,
     results, Typed
<1>4. CASE OnAudio
  <2>1. loop = "receive" /\ inbox # <<>> /\ UNCHANGED <<stop, history, results>>
    BY <1>4 DEF OnAudio, Receives, results
  <2>2. CASE UNCHANGED <<turn, loop, asked, out>>
    BY <2>1, <2>2 DEF Quiet, Moves
  <2>3. ASSUME NEW audio \in Seq(Units), StartTurn(audio), ~ptt,
               EpochsOf(audio) \subseteq Held \cup EpochsOf(Head(inbox).units),
               seg.speech <= SpeechIn(seg.buf) => MinSpeech <= SpeechIn(audio)
        PROVE  Starts(audio)
    BY <2>1, <2>3 DEF Starts
  <2>4. QED
    BY <1>4, <2>2, <2>3, AudioIs
<1>5. CASE OnEnd
  <2>1. loop = "receive" /\ inbox # <<>> /\ UNCHANGED <<stop, history, results>>
    BY <1>5 DEF OnEnd, Receives
  <2>2. \/ StartTurn(TakeOf) /\ TakeOf # <<>>
        \/ asked' = asked + 1 /\ turn' = turn /\ SendAndGo("turn_skipped", "receive")
    BY <1>5 DEF OnEnd
  <2>3. CASE StartTurn(TakeOf) /\ TakeOf # <<>>
    <3>1. Starts(TakeOf)
      BY <2>1, <2>3, TakeIs DEF Starts
    <3>2. QED
      BY <3>1, TakeIs
  <2>4. CASE asked' = asked + 1 /\ turn' = turn /\ SendAndGo("turn_skipped", "receive")
    BY <2>1, <2>4 DEF Answers
  <2>5. QED
    BY <2>2, <2>3, <2>4
<1>6. CASE OnDiscard
  BY <1>6 DEF OnDiscard, Receives, Answers
<1>7. CASE Greet
  BY <1>7
<1>8. CASE Transcribe \/ StageFails \/ Phrase \/ Speak \/ Finalize
  BY <1>8, TurnEvents
<1>9. CASE Refuse \/ Accept \/ GreetFails \/ OnGarbage
  BY <1>9 DEF Refuse, Accept, GreetFails, OnGarbage, Receives, Quiet, Moves
<1>10. CASE LeaveLoop \/ Close \/ SpeakNothing \/ ReplyEnds
  BY <1>10 DEF LeaveLoop, Close, SpeakNothing, ReplyEnds, Receives, Quiet, Moves
<1>11. QED
  BY <1>1, <1>2, <1>3, <1>4, <1>5, <1>6, <1>7, <1>8, <1>9, <1>10 DEF Next, LoopStep

-----------------------------------------------------------------------------
(* What is owed, sent, published and remembered.                           *)

LEMMA ModesStay == ASSUME [Next]_vars PROVE ptt' = ptt /\ reply' = reply
<1>1. CASE UNCHANGED vars
  BY <1>1 DEF vars, query
<1>2. CASE ClientStep \/ ReaderStep
  BY <1>2 DEF ClientStep, SendAudio, SendControl, ClientSends, Leave, ReaderStep,
     ReadMessage, ReadDisconnect, query
<1>3. CASE OnAudio \/ OnDiscard \/ OnEnd \/ OnGarbage \/ LeaveLoop \/ Close
  BY <1>3 DEF OnAudio, OnDiscard, OnEnd, OnGarbage, LeaveLoop, Close, query
<1>4. CASE Refuse \/ Accept \/ Greet \/ GreetFails
  BY <1>4 DEF Refuse, Accept, Greet, GreetFails, query
<1>5. CASE Transcribe \/ StageFails \/ Phrase \/ Speak \/ SpeakNothing \/ ReplyEnds \/ Finalize
  BY <1>5 DEF Transcribe, StageFails, Phrase, Speak, SpeakNothing, ReplyEnds, Finalize,
     Handle, query
<1>6. QED
  BY <1>1, <1>2, <1>3, <1>4, <1>5 DEF Next, LoopStep

\* The three ways an event of the turn goes.
LEMMA EventGoes ==
    ASSUME Typed, NEW m \in Sendable, NEW t \in Turns, NEW next, TurnEvent(m, t, next)
    PROVE  /\ asked' = asked /\ stop' = stop
           /\ \/ /\ stop /\ loop' = "receive" /\ out' = out
                 /\ history' = Remembered(turn) /\ turn' = NoTurn
              \/ /\ ~stop /\ loop' = next /\ next = "receive" /\ out' = Append(out, m)
                 /\ history' = Remembered(t) /\ turn' = NoTurn
              \/ /\ ~stop /\ loop' = next /\ next # "receive" /\ out' = Append(out, m)
                 /\ history' = history /\ turn' = t
              \/ ~stop /\ loop' = "close" /\ UNCHANGED <<turn, history, out>>
BY DEF TurnEvent, Handle

LEMMA ClosingsStep ==
    ASSUME Typed, Bounded, Fresh, ClosingsOwed, [Next]_vars
    PROVE  ClosingsOwed'
<1> DEFINE last == {"turn_end", "turn_skipped", "error"}
<1>1. Count(out, last) \in Nat /\ asked \in Nat /\ out \in Seq(Sendable)
  BY CountIsNat DEF Typed
<1>2. /\ Count(out, last) <= asked
      /\ InTurn => Count(out, last) + 1 <= asked
      /\ ~stop => /\ loop \in {"accept", "greet", "receive"} => Count(out, last) = asked
                  /\ InTurn => Count(out, last) + 1 = asked
  BY DEF ClosingsOwed, Closings, Sent
<1> DEFINE Goal == /\ Count(out', last) <= asked'
                   /\ InTurn' => Count(out', last) + 1 <= asked'
                   /\ ~stop' => /\ loop' \in {"accept", "greet", "receive"} => Count(out', last) = asked'
                                /\ InTurn' => Count(out', last) + 1 = asked'
<1>3. SUFFICES Goal
  BY DEF ClosingsOwed, Closings, Sent
<1>4. CASE Quiet
  BY <1>1, <1>2, <1>4 DEF Quiet, Moves, InTurn
<1>5. CASE Greet
  <2>1. "session" \in Sendable /\ "session" \notin last
    BY DEF Sendable
  <2>2. out' = Append(out, "session") /\ asked' = asked /\ loop = "greet" /\ loop' = "receive" /\ stop' = stop
    BY <1>5 DEF Greet
  <2>3. Count(out', last) = Count(out, last)
    BY <2>1, <2>2, SentGrows
  <2>4. QED
    BY <1>1, <1>2, <2>2, <2>3 DEF Fresh, InTurn
<1>6. ASSUME NEW audio, Starts(audio)
      PROVE  Goal
  BY <1>1, <1>2, <1>6 DEF Starts, StartTurn, InTurn
<1>7. CASE Answers
  <2>1. /\ "discarded" \in Sendable /\ "discarded" \notin last
        /\ "turn_skipped" \in Sendable /\ "turn_skipped" \in last
    BY DEF Sendable
  <2>2. CASE SendAndGo("discarded", "receive") /\ asked' = asked
    <3>1. Count(out', last) = Count(out, last)
      BY <2>1, <2>2, SentGrows DEF SendAndGo
    <3>2. QED
      BY <1>1, <1>2, <1>7, <2>2, <3>1 DEF Answers, SendAndGo, InTurn
  <2>3. CASE SendAndGo("turn_skipped", "receive") /\ asked' = asked + 1
    <3>1. CASE out' = Append(out, "turn_skipped") /\ loop' = "receive"
      <4>1. Count(out', last) = Count(out, last) + 1
        BY <2>1, <3>1, SentGrows
      <4>2. QED
        BY <1>1, <1>2, <1>7, <2>3, <3>1, <4>1 DEF Answers, InTurn
    <3>2. CASE out' = out /\ loop' = "close"
      BY <1>1, <1>2, <1>7, <2>3, <3>2 DEF Answers, InTurn
    <3>3. QED
      BY <2>3, <3>1, <3>2 DEF SendAndGo
  <2>4. QED
    BY <1>7, <2>2, <2>3 DEF Answers
<1>8. ASSUME NEW m \in Sendable, NEW t \in Turns, NEW next, TurnEvent(m, t, next)
      PROVE  Goal
  <2>1. /\ InTurn /\ (m \in last <=> next = "receive")
        /\ next \in {"receive", "reply", "speak", "finalize"}
    BY <1>8 DEF TurnEvent
  <2>2. asked' = asked /\ stop' = stop
    BY <1>8, EventGoes
  <2>3. CASE stop /\ loop' = "receive" /\ out' = out
    BY <1>1, <1>2, <2>1, <2>2, <2>3 DEF InTurn
  <2>4. CASE ~stop /\ loop' = next /\ out' = Append(out, m)
    <3>1. Count(out', last) = IF m \in last THEN Count(out, last) + 1 ELSE Count(out, last)
      BY <2>4, SentGrows
    <3>2. QED
      BY <1>1, <1>2, <2>1, <2>2, <2>4, <3>1 DEF InTurn
  <2>5. CASE ~stop /\ loop' = "close" /\ out' = out
    BY <1>1, <1>2, <2>1, <2>2, <2>5 DEF InTurn
  <2>6. QED
    BY <1>8, <2>3, <2>4, <2>5, EventGoes
<1>9. QED
  BY <1>4, <1>5, <1>6, <1>7, <1>8, StepKinds

LEMMA TranscriptStep ==
    ASSUME Typed, Bounded, TranscriptSent, [Next]_vars
    PROVE  TranscriptSent'
<1> DEFINE ended == {"turn_end"}
           final == {"final"}
<1>1. Count(out, ended) \in Nat /\ Count(out, final) \in Nat /\ published \in Nat
  BY CountIsNat DEF Typed
<1>2. /\ Count(out, ended) <= published /\ published <= Count(out, final)
      /\ loop \in {"reply", "speak", "finalize"} => published + 1 <= Count(out, final)
  BY DEF TranscriptSent, TurnEndMeansPublished, Sent
<1> DEFINE Goal == /\ Count(out', ended) <= published' /\ published' <= Count(out', final)
                   /\ loop' \in {"reply", "speak", "finalize"} => published' + 1 <= Count(out', final)
<1>3. SUFFICES Goal
  BY DEF TranscriptSent, TurnEndMeansPublished, Sent
<1>4. CASE Quiet
  BY <1>1, <1>2, <1>4 DEF Quiet, Moves, results
<1>5. CASE Greet
  <2>1. "session" \in Sendable /\ "session" \notin ended \cup final
    BY DEF Sendable
  <2>2. out' = Append(out, "session") /\ published' = published /\ loop' = "receive"
    BY <1>5 DEF Greet, results
  <2>3. Count(out', ended) = Count(out, ended) /\ Count(out', final) = Count(out, final)
    BY <2>1, <2>2, SentGrows
  <2>4. QED
    BY <1>1, <1>2, <2>2, <2>3
<1>6. ASSUME NEW audio, Starts(audio) PROVE Goal
  BY <1>1, <1>2, <1>6 DEF Starts, StartTurn, results
<1>7. CASE Answers
  <2>1. /\ "discarded" \in Sendable /\ "discarded" \notin ended \cup final
        /\ "turn_skipped" \in Sendable /\ "turn_skipped" \notin ended \cup final
    BY DEF Sendable
  <2>2. PICK m \in {"discarded", "turn_skipped"} : SendAndGo(m, "receive")
    BY <1>7 DEF Answers
  <2>3. published' = published /\ loop' \in {"receive", "close"}
    BY <1>7, <2>2 DEF Answers, SendAndGo, results
  <2>4. Count(out', ended) = Count(out, ended) /\ Count(out', final) = Count(out, final)
    BY <2>1, <2>2, SentGrows DEF SendAndGo
  <2>5. QED
    BY <1>1, <1>2, <2>3, <2>4
<1>8. ASSUME NEW m \in Sendable, NEW t \in Turns, NEW next, TurnEvent(m, t, next)
      PROVE  Goal
  <2>1. /\ InTurn
        /\ next \in {"receive", "reply", "speak", "finalize"}
        /\ m = "final" => loop = "stt"
        /\ next # "receive" /\ loop = "stt" => m = "final"
        /\ m \in {"turn_end", "turn_skipped", "error"} <=> next = "receive"
        /\ m = "turn_end" <=> loop = "finalize"
        /\ published' = IF loop = "finalize" THEN published + 1 ELSE published
    BY <1>8 DEF TurnEvent, results
  <2>2. CASE loop' \in {"receive", "close"} /\ out' = out
    BY <1>1, <1>2, <2>1, <2>2
  <2>3. CASE loop' = next /\ out' = Append(out, m)
    <3>1. /\ Count(out', ended) = IF m \in ended THEN Count(out, ended) + 1 ELSE Count(out, ended)
          /\ Count(out', final) = IF m \in final THEN Count(out, final) + 1 ELSE Count(out, final)
      BY <2>3, SentGrows
    <3>2. QED
      BY <1>1, <1>2, <2>1, <2>3, <3>1 DEF InTurn
  <2>4. QED
    BY <1>8, <2>2, <2>3, EventGoes
<1>9. QED
  BY <1>4, <1>5, <1>6, <1>7, <1>8, StepKinds

LEMMA SeenStep ==
    ASSUME Typed, Bounded, WillBeSeen, [Next]_vars
    PROVE  WillBeSeen'
<1> DEFINE final == {"final"}
           phrase == {"reply"}
           user == {"user"}
           coach == {"assistant"}
<1>1. /\ Count(out, final) \in Nat /\ Count(out, phrase) \in Nat
      /\ Count(history, user) \in Nat /\ Count(history, coach) \in Nat
  BY CountIsNat DEF Typed
<1>2. turn \in Turns /\ turn.heard \in BOOLEAN /\ turn.phrases \in Nat
  BY TurnFields DEF Typed
<1>3. /\ Count(history, user) <= Count(out, final) /\ Count(history, coach) <= Count(out, phrase)
      /\ turn.heard => Count(history, user) + 1 <= Count(out, final)
      /\ turn.phrases > 0 => Count(history, coach) + 1 <= Count(out, phrase)
  BY DEF WillBeSeen, HistoryWasSeen, Sent
<1> DEFINE Goal == /\ Count(history', user) <= Count(out', final)
                   /\ Count(history', coach) <= Count(out', phrase)
                   /\ turn'.heard => Count(history', user) + 1 <= Count(out', final)
                   /\ turn'.phrases > 0 => Count(history', coach) + 1 <= Count(out', phrase)
<1>4. SUFFICES Goal
  BY DEF WillBeSeen, HistoryWasSeen, Sent
<1>5. CASE Quiet
  BY <1>3, <1>5 DEF Quiet
<1>6. CASE Greet
  <2>1. "session" \in Sendable /\ "session" \notin final \cup phrase
    BY DEF Sendable
  <2>2. out' = Append(out, "session") /\ history' = history /\ turn' = turn
    BY <1>6 DEF Greet
  <2>3. Count(out', final) = Count(out, final) /\ Count(out', phrase) = Count(out, phrase)
    BY <2>1, <2>2, SentGrows
  <2>4. QED
    BY <1>1, <1>3, <2>2, <2>3
<1>7. ASSUME NEW audio \in Seq(Units), Starts(audio) PROVE Goal
  <2>1. out' = out /\ history' = history /\ turn' = [NoTurn EXCEPT !.audio = audio]
    BY <1>7 DEF Starts, StartTurn
  <2>2. turn'.heard = FALSE /\ turn'.phrases = 0
    BY <2>1, TurnsAre
  <2>3. QED
    BY <1>1, <1>3, <2>1, <2>2
<1>8. CASE Answers
  <2>1. /\ "discarded" \in Sendable /\ "discarded" \notin final \cup phrase
        /\ "turn_skipped" \in Sendable /\ "turn_skipped" \notin final \cup phrase
    BY DEF Sendable
  <2>2. PICK m \in {"discarded", "turn_skipped"} : SendAndGo(m, "receive")
    BY <1>8 DEF Answers
  <2>3. history' = history /\ turn' = turn
    BY <1>8 DEF Answers
  <2>4. Count(out', final) = Count(out, final) /\ Count(out', phrase) = Count(out, phrase)
    BY <2>1, <2>2, SentGrows DEF SendAndGo
  <2>5. QED
    BY <1>1, <1>3, <2>3, <2>4
<1>9. ASSUME NEW m \in Sendable, NEW t \in Turns, NEW next, TurnEvent(m, t, next)
      PROVE  Goal
  <2>1. /\ t.heard => turn.heard \/ m = "final"
        /\ t.phrases > 0 => turn.phrases > 0 \/ m = "reply"
    BY <1>9 DEF TurnEvent
  <2>2. t.heard \in BOOLEAN /\ t.phrases \in Nat
    BY TurnFields
  <2>3. ASSUME NEW u \in Turns
        PROVE  /\ Count(Remembered(u), user) = Count(history, user) + (IF u.heard THEN 1 ELSE 0)
               /\ Count(Remembered(u), coach) = Count(history, coach) + (IF u.phrases > 0 THEN 1 ELSE 0)
    BY <2>3, RememberedIs
  <2>4. NoTurn.heard = FALSE /\ NoTurn.phrases = 0
    BY TurnsAre
  <2>5. CASE out' = out /\ history' = Remembered(turn) /\ turn' = NoTurn
    <3>1. /\ Count(history', user) = Count(history, user) + (IF turn.heard THEN 1 ELSE 0)
          /\ Count(history', coach) = Count(history, coach) + (IF turn.phrases > 0 THEN 1 ELSE 0)
      BY <1>2, <2>3, <2>5
    <3>2. QED
      BY <1>1, <1>2, <1>3, <2>4, <2>5, <3>1
  <2>6. CASE out' = Append(out, m)
    <3>1. /\ Count(out', final) = IF m \in final THEN Count(out, final) + 1 ELSE Count(out, final)
          /\ Count(out', phrase) = IF m \in phrase THEN Count(out, phrase) + 1 ELSE Count(out, phrase)
      BY <2>6, SentGrows
    <3>2. CASE history' = Remembered(t) /\ turn' = NoTurn
      <4>1. /\ Count(history', user) = Count(history, user) + (IF t.heard THEN 1 ELSE 0)
            /\ Count(history', coach) = Count(history, coach) + (IF t.phrases > 0 THEN 1 ELSE 0)
        BY <2>3, <3>2
      <4>2. QED
        BY <1>1, <1>2, <1>3, <2>1, <2>2, <2>4, <3>1, <3>2, <4>1
    <3>3. CASE history' = history /\ turn' = t
      BY <1>1, <1>2, <1>3, <2>1, <2>2, <3>1, <3>3
    <3>4. QED
      BY <1>9, <2>6, <3>2, <3>3, EventGoes DEF TurnEvent, Handle
  <2>7. CASE UNCHANGED <<turn, history, out>>
    BY <1>3, <2>7
  <2>8. QED
    BY <1>9, <2>5, <2>6, <2>7, EventGoes
<1>10. QED
  BY <1>5, <1>6, <1>7, <1>8, <1>9, StepKinds

-----------------------------------------------------------------------------
(* The types, and the bounds that the frames rest on.                      *)

LEMMA EmptyMessage ==
    ASSUME NEW kind \in Control \cup {"audio", "disconnect"}
    PROVE  LET m == Message(kind, <<>>)
           IN  /\ m \in Messages /\ m.units = <<>> /\ m.kind = kind
               /\ Len(m.units) <= FrameUnits
<1>1. <<>> \in Seq(Units) /\ Len(<<>>) <= FrameUnits
  BY FrameAssumption
<1>2. Message(kind, <<>>).kind = kind /\ Message(kind, <<>>).units = <<>>
  BY MessagesAre
<1>3. Message(kind, <<>>) \in Messages
  BY <1>1, MessagesAre
<1>4. QED
  BY <1>1, <1>2, <1>3

\* A message of the client, and the take its audio belongs to.
LEMMA ClientMessage ==
    ASSUME Typed, SendAudio \/ SendControl
    PROVE  \E m \in Messages :
              /\ wire' = Append(wire, m)
              /\ Len(m.units) <= FrameUnits /\ EpochsOf(m.units) \subseteq {epoch}
              /\ epoch' = IF Ends(ptt, m) THEN epoch + 1 ELSE epoch
              /\ sent < MaxSent /\ sent' = sent + 1
              /\ client' \in {"open", "done"}
              /\ UNCHANGED <<reader, inbox, stop, loop, pending, seg, turn, history,
                             session, out, asked, results>>
<1>0. epoch \in 0 .. MaxSent /\ FrameUnits \in Nat \ {0}
  BY FrameAssumption DEF Typed
<1>1. CASE SendAudio
  <2>1. PICK speech \in BOOLEAN, n \in 1 .. FrameUnits :
            ClientSends("audio", [i \in 1 .. n |-> [speech |-> speech, epoch |-> epoch]])
    BY <1>1 DEF SendAudio
  <2> DEFINE unit == [speech |-> speech, epoch |-> epoch]
             u == [i \in 1 .. n |-> unit]
             m == Message("audio", u)
  <2>2. unit \in Units /\ unit.epoch = epoch
    BY <1>0 DEF Units
  <2> HIDE DEF unit
  <2>3. n \in Nat /\ n <= FrameUnits
    BY <1>0
  <2>4. u \in Seq(Units) /\ Len(u) = n /\ DOMAIN u = 1 .. n /\ \A i \in 1 .. n : u[i] = unit
    BY <2>2, <2>3
  <2>5. EpochsOf(u) \subseteq {epoch}
    BY <2>2, <2>4 DEF EpochsOf
  <2>6. ClientSends("audio", u)
    BY <2>1 DEF unit
  <2> HIDE DEF u
  <2>7. m \in Messages /\ m.units = u /\ m.kind = "audio"
    BY <2>4, MessagesAre
  <2>8. ~Ends(ptt, m)
    BY <2>7 DEF Ends
  <2>9. /\ wire' = Append(wire, m) /\ sent < MaxSent /\ sent' = sent + 1
        /\ epoch' = epoch /\ client' = client /\ client = "open"
        /\ UNCHANGED <<reader, inbox, stop, loop, pending, seg, turn, history,
                       session, out, asked, results>>
    BY <2>6 DEF ClientSends
  <2> HIDE DEF m
  <2>10. QED
    BY <2>3, <2>4, <2>5, <2>7, <2>8, <2>9
<1>2. CASE SendControl
  <2>1. PICK kind \in Control : ClientSends(kind, <<>>)
    BY <1>2 DEF SendControl
  <2> DEFINE m == Message(kind, <<>>)
  <2>2. m \in Messages /\ m.units = <<>> /\ m.kind = kind /\ Len(m.units) <= FrameUnits
    BY EmptyMessage
  <2>3. /\ wire' = Append(wire, m) /\ sent < MaxSent /\ sent' = sent + 1
        /\ epoch' = IF Ends(ptt, m) THEN epoch + 1 ELSE epoch
        /\ client' \in {"open", "done"}
        /\ UNCHANGED <<reader, inbox, stop, loop, pending, seg, turn, history,
                       session, out, asked, results>>
    BY <2>1, <2>2 DEF ClientSends, Ends
  <2> HIDE DEF m
  <2>4. Len(m.units) <= FrameUnits /\ EpochsOf(m.units) \subseteq {epoch}
    BY <2>2, EpochsOfNothing
  <2>5. QED
    BY <2>2, <2>3, <2>4
<1>3. QED
  BY <1>1, <1>2

\* What the reader takes from the wire.
LEMMA WireHead ==
    ASSUME Typed, wire # <<>>
    PROVE  /\ Head(wire) \in Messages /\ Head(wire) = wire[1] /\ 1 \in DOMAIN wire
           /\ Tail(wire) \in Seq(Messages)
           /\ \A i \in DOMAIN Tail(wire) : i + 1 \in DOMAIN wire /\ Tail(wire)[i] = wire[i + 1]
<1>1. wire \in Seq(Messages)
  BY DEF Typed
<1>2. QED
  BY <1>1

LEMMA ShortAppend ==
    ASSUME NEW q \in Seq(Messages), NEW m \in Messages, Len(m.units) <= FrameUnits,
           \A i \in DOMAIN q : Len(q[i].units) <= FrameUnits
    PROVE  /\ Append(q, m) \in Seq(Messages)
           /\ \A i \in DOMAIN Append(q, m) : Len(Append(q, m)[i].units) <= FrameUnits
<1> DEFINE a == Append(q, m)
<1>1. /\ a \in Seq(Messages) /\ Len(q) \in Nat /\ DOMAIN q = 1 .. Len(q)
      /\ DOMAIN a = 1 .. Len(q) + 1
      /\ \A i \in 1 .. Len(q) : a[i] = q[i]
      /\ a[Len(q) + 1] = m
  OBVIOUS
<1> HIDE DEF a
<1>2. ASSUME NEW i \in DOMAIN a PROVE Len(a[i].units) <= FrameUnits
  <2>1. i \in DOMAIN q \/ i = Len(q) + 1
    BY <1>1
  <2>2. QED
    BY <1>1, <2>1
<1>3. QED
  BY <1>1, <1>2 DEF a

Shape == Typed /\ Bounded /\ Fresh

LEMMA ClientShape ==
    ASSUME Shape, ClientStep
    PROVE  Shape'
<1>0. ptt' = ptt /\ reply' = reply
  BY ModesStay DEF Next
<1>1. CASE SendAudio \/ SendControl
  <2>1. PICK m \in Messages :
              /\ wire' = Append(wire, m)
              /\ Len(m.units) <= FrameUnits /\ EpochsOf(m.units) \subseteq {epoch}
              /\ epoch' = IF Ends(ptt, m) THEN epoch + 1 ELSE epoch
              /\ sent < MaxSent /\ sent' = sent + 1
              /\ client' \in {"open", "done"}
              /\ UNCHANGED <<reader, inbox, stop, loop, pending, seg, turn, history,
                             session, out, asked, results>>
    BY <1>1, ClientMessage DEF Shape
  <2>2. /\ wire' \in Seq(Messages)
        /\ \A i \in DOMAIN wire' : Len(wire'[i].units) <= FrameUnits
    BY <2>1, ShortAppend DEF Shape, Typed, Bounded
  <2>3. /\ sent \in 0 .. MaxSent /\ epoch \in 0 .. MaxSent /\ epoch <= sent
        /\ epoch' = epoch \/ epoch' = epoch + 1
    BY <2>1 DEF Shape, Typed, Bounded
  <2>4. sent' \in 0 .. MaxSent /\ epoch' \in 0 .. MaxSent /\ epoch' <= sent'
    BY <2>1, <2>3, BoundsAssumption
  <2>5. Typed'
    BY <1>0, <2>1, <2>2, <2>4 DEF Shape, Typed, results
  <2>6. Bounded'
    BY <2>1, <2>2, <2>4 DEF Shape, Bounded
  <2>7. Fresh'
    BY <2>1 DEF Shape, Fresh
  <2>8. QED
    BY <2>5, <2>6, <2>7 DEF Shape
<1>2. CASE Leave
  BY <1>2 DEF Leave, Shape, Typed, Bounded, Fresh, query, results
<1>3. QED
  BY <1>1, <1>2 DEF ClientStep

LEMMA ReaderShape ==
    ASSUME Shape, ReaderStep
    PROVE  Shape'
<1>0. inbox \in Seq(Messages) /\ \A i \in DOMAIN inbox : Len(inbox[i].units) <= FrameUnits
  BY DEF Shape, Typed, Bounded
<1>1. CASE ReadMessage
  <2>1. /\ Head(wire) \in Messages /\ Len(Head(wire).units) <= FrameUnits
        /\ Tail(wire) \in Seq(Messages)
        /\ \A i \in DOMAIN Tail(wire) : Len(Tail(wire)[i].units) <= FrameUnits
    BY <1>1, WireHead DEF Shape, Bounded, ReadMessage
  <2>2. /\ inbox' \in Seq(Messages)
        /\ \A i \in DOMAIN inbox' : Len(inbox'[i].units) <= FrameUnits
    BY <1>0, <1>1, <2>1, ShortAppend DEF ReadMessage
  <2>3. wire' = Tail(wire) /\ reader = "reading" /\ stop' \in BOOLEAN /\ reader' \in {"reading", "done"}
    BY <1>1 DEF ReadMessage, Shape, Typed
  <2>4. UNCHANGED <<query, clientVars, loop, pending, seg, turn, history, session,
                    out, asked, results>>
    BY <1>1 DEF ReadMessage
  <2>5. Typed'
    BY <2>1, <2>2, <2>3, <2>4 DEF Shape, Typed, query, clientVars, results
  <2>6. Bounded'
    BY <2>1, <2>2, <2>3, <2>4 DEF Shape, Bounded, clientVars
  <2>7. Fresh'
    BY <2>3, <2>4 DEF Shape, Fresh
  <2>8. QED
    BY <2>5, <2>6, <2>7 DEF Shape
<1>2. CASE ReadDisconnect
  <2> DEFINE m == Message("disconnect", <<>>)
  <2>1. "disconnect" \in Control \cup {"audio", "disconnect"}
    OBVIOUS
  <2>2. m \in Messages /\ Len(m.units) <= FrameUnits
    BY <2>1, EmptyMessage
  <2> HIDE DEF m
  <2>3. /\ inbox' \in Seq(Messages)
        /\ \A i \in DOMAIN inbox' : Len(inbox'[i].units) <= FrameUnits
    BY <1>0, <1>2, <2>2, ShortAppend DEF ReadDisconnect, m
  <2>4. /\ reader = "reading" /\ stop' = TRUE /\ reader' = "done"
        /\ UNCHANGED <<query, clientVars, wire, loop, pending, seg, turn, history,
                       session, out, asked, results>>
    BY <1>2 DEF ReadDisconnect
  <2>5. Typed'
    BY <2>3, <2>4 DEF Shape, Typed, query, clientVars, results
  <2>6. Bounded'
    BY <2>3, <2>4 DEF Shape, Bounded, clientVars
  <2>7. Fresh'
    BY <2>4 DEF Shape, Fresh
  <2>8. QED
    BY <2>5, <2>6, <2>7 DEF Shape
<1>3. QED
  BY <1>1, <1>2 DEF ReaderStep

\* A message leaves the inbox.
LEMMA InboxTail ==
    ASSUME Shape, inbox # <<>>
    PROVE  /\ Tail(inbox) \in Seq(Messages)
           /\ \A i \in DOMAIN Tail(inbox) : Len(Tail(inbox)[i].units) <= FrameUnits
BY HeadIs DEF Shape, Bounded

LEMMA ReceiveShape ==
    ASSUME Shape, OnAudio \/ OnDiscard \/ OnEnd \/ OnGarbage \/ LeaveLoop
    PROVE  Shape'
<1>0. ptt' = ptt /\ reply' = reply
  BY ModesStay DEF Next, LoopStep
<1>1. /\ loop = "receive" /\ inbox # <<>> /\ inbox' = Tail(inbox)
      /\ UNCHANGED <<clientVars, wire, reader, stop, history, session, results>>
  BY DEF OnAudio, OnDiscard, OnEnd, OnGarbage, LeaveLoop, Receives
<1>2. /\ inbox' \in Seq(Messages)
      /\ \A i \in DOMAIN inbox' : Len(inbox'[i].units) <= FrameUnits
  BY <1>1, InboxTail
<1>3. Bounded'
  BY <1>1, <1>2 DEF Shape, Bounded, clientVars
<1>4. Typed
  BY DEF Shape
<1>5. /\ pending \in Seq(Units) /\ (~ptt => Len(pending) < FrameUnits) /\ seg \in Segments
      /\ turn \in Turns /\ out \in Seq(Sendable) /\ asked \in Nat
  BY <1>4 DEF Typed
<1>6. ASSUME NEW audio \in Seq(Units), StartTurn(audio)
      PROVE  turn' \in Turns /\ loop' = "stt" /\ out' = out /\ asked' = asked + 1
  BY <1>6, TurnsAre DEF StartTurn
<1>7. /\ Append(out, "discarded") \in Seq(Sendable) /\ Append(out, "turn_skipped") \in Seq(Sendable)
      /\ <<>> \in Seq(Units) /\ Len(<<>>) < FrameUnits
  BY <1>5, FrameAssumption DEF Sendable
<1>8. /\ pending' \in Seq(Units) /\ (~ptt => Len(pending') < FrameUnits)
      /\ seg' \in Segments
  <2>1. CASE OnAudio
    BY <1>4, <2>1, AudioIs DEF Shape
  <2>2. CASE OnDiscard \/ OnEnd
    BY <1>5, <1>7, <2>2, EmptySegIs DEF OnDiscard, OnEnd
  <2>3. CASE OnGarbage \/ LeaveLoop
    BY <1>5, <2>3 DEF OnGarbage, LeaveLoop
  <2>4. QED
    BY <2>1, <2>2, <2>3
<1>9. /\ turn' \in Turns /\ loop' \in {"receive", "stt", "close"}
      /\ out' \in Seq(Sendable) /\ asked' \in Nat
  <2>1. CASE OnAudio
    <3>1. CASE UNCHANGED <<turn, loop, asked, out>>
      BY <1>1, <1>5, <3>1
    <3>2. CASE \E audio \in Seq(Units) : StartTurn(audio)
      BY <1>5, <1>6, <3>2
    <3>3. QED
      BY <1>4, <2>1, <3>1, <3>2, AudioIs DEF Shape
  <2>2. CASE OnDiscard
    BY <1>5, <1>7, <2>2 DEF OnDiscard, SendAndGo
  <2>3. CASE OnEnd
    <3>1. CASE StartTurn(TakeOf)
      BY <1>4, <1>5, <1>6, <3>1, TakeIs
    <3>2. CASE asked' = asked + 1 /\ turn' = turn /\ SendAndGo("turn_skipped", "receive")
      BY <1>5, <1>7, <3>2 DEF SendAndGo
    <3>3. QED
      BY <2>3, <3>1, <3>2 DEF OnEnd
  <2>4. CASE OnGarbage \/ LeaveLoop
    BY <1>1, <1>5, <2>4 DEF OnGarbage, LeaveLoop
  <2>5. QED
    BY <2>1, <2>2, <2>3, <2>4
<1>10. Typed'
  BY <1>0, <1>1, <1>2, <1>4, <1>8, <1>9 DEF Typed, Places, clientVars, results
<1>11. Fresh'
  BY <1>9 DEF Fresh
<1>12. QED
  BY <1>3, <1>10, <1>11 DEF Shape

LEMMA TurnShape ==
    ASSUME Shape, Transcribe \/ StageFails \/ Phrase \/ Speak \/ Finalize
    PROVE  Shape'
<1>1. Typed
  BY DEF Shape
<1>2. PICK m \in Sendable, t \in Turns, next \in Places : TurnEvent(m, t, next)
  BY <1>1, TurnEvents
<1>3. /\ UNCHANGED <<query, clientVars, wire, reader, inbox, stop, pending, seg,
                     session, asked>>
      /\ next \in {"receive", "reply", "speak", "finalize"}
  BY <1>2 DEF TurnEvent, Handle
<1>4. /\ turn \in Turns /\ history \in Seq(Roles) /\ out \in Seq(Sendable)
      /\ turn.audio \in Seq(Units) /\ utterances \in Seq(Seq(Units)) /\ published \in Nat
  BY <1>1, TurnFields DEF Typed
<1>5. /\ Append(out, m) \in Seq(Sendable) /\ NoTurn \in Turns
      /\ Remembered(turn) \in Seq(Roles) /\ Remembered(t) \in Seq(Roles)
  BY <1>1, <1>4, TurnsAre, RememberedIs
<1>6. /\ turn' \in Turns /\ history' \in Seq(Roles) /\ out' \in Seq(Sendable)
      /\ loop' \in {"receive", "reply", "speak", "finalize", "close"}
  BY <1>1, <1>2, <1>3, <1>4, <1>5, EventGoes
<1>7. published' \in Nat /\ utterances' \in Seq(Seq(Units))
  <2>1. Append(utterances, turn.audio) \in Seq(Seq(Units)) /\ published + 1 \in Nat
    BY <1>4
  <2>2. QED
    BY <1>2, <1>4, <2>1 DEF TurnEvent, results
<1>8. Typed'
  BY <1>1, <1>3, <1>6, <1>7 DEF Typed, Places, query, clientVars
<1>9. Bounded'
  BY <1>3 DEF Shape, Bounded, clientVars
<1>10. Fresh'
  BY <1>6 DEF Fresh
<1>11. QED
  BY <1>8, <1>9, <1>10 DEF Shape

LEMMA ShapeStep ==
    ASSUME Shape, [Next]_vars
    PROVE  Shape'
<1>1. CASE UNCHANGED vars
  BY <1>1 DEF Shape, Typed, Bounded, Fresh, vars, query, clientVars, results
<1>2. CASE Refuse \/ Accept \/ GreetFails
  BY <1>2 DEF Refuse, Accept, GreetFails, Shape, Typed, Places, Bounded, Fresh, query,
     clientVars, results
<1>3. CASE Close \/ SpeakNothing \/ ReplyEnds
  BY <1>3 DEF Close, SpeakNothing, ReplyEnds, Shape, Typed, Places, Bounded, Fresh, query,
     clientVars, results
<1>4. CASE Greet
  <2>1. Append(out, "session") \in Seq(Sendable)
    BY DEF Shape, Typed, Sendable
  <2>2. QED
    BY <1>4, <2>1 DEF Greet, Shape, Typed, Places, Bounded, Fresh, query, clientVars, results
<1>5. QED
  BY <1>1, <1>2, <1>3, <1>4, ClientShape, ReaderShape, ReceiveShape, TurnShape
  DEF Next, LoopStep

-----------------------------------------------------------------------------
(* The speech a turn holds.                                                *)

LEMMA OthersKeep ==
    ASSUME [Next]_vars, ~OnAudio, ~OnDiscard, ~OnEnd
    PROVE  pending' = pending /\ seg' = seg
<1>1. CASE UNCHANGED vars
  BY <1>1 DEF vars
<1>2. CASE ClientStep \/ ReaderStep
  BY <1>2 DEF ClientStep, SendAudio, SendControl, ClientSends, Leave, ReaderStep,
     ReadMessage, ReadDisconnect
<1>3. CASE OnGarbage \/ LeaveLoop \/ Close \/ Refuse \/ Accept \/ Greet \/ GreetFails
  BY <1>3 DEF OnGarbage, LeaveLoop, Close, Refuse, Accept, Greet, GreetFails
<1>4. CASE Transcribe \/ StageFails \/ Phrase \/ Speak \/ SpeakNothing \/ ReplyEnds \/ Finalize
  BY <1>4 DEF Transcribe, StageFails, Phrase, Speak, SpeakNothing, ReplyEnds, Finalize, Handle
<1>5. QED
  BY <1>1, <1>2, <1>3, <1>4 DEF Next, LoopStep

LEMMA SpeechStep ==
    ASSUME Shape, SpeechBuffered, [Next]_vars
    PROVE  SpeechBuffered'
<1>1. Typed /\ Bounded /\ ptt' = ptt /\ reply' = reply
  BY ModesStay DEF Shape
<1>2. (ptt => seg = EmptySeg) /\ seg.speech <= SpeechIn(seg.buf) /\ TurnsHoldSpeech
  BY DEF SpeechBuffered
<1>3. EmptySeg.speech <= SpeechIn(EmptySeg.buf)
  BY EmptySegIs, EpochsOfNothing
<1>4. (ptt => seg' = EmptySeg) /\ seg'.speech <= SpeechIn(seg'.buf)
  <2>1. CASE OnAudio
    BY <1>1, <1>2, <2>1, AudioIs
  <2>2. CASE OnDiscard
    BY <1>3, <2>2 DEF OnDiscard
  <2>3. CASE OnEnd
    BY <1>2, <1>3, <2>3 DEF OnEnd
  <2>4. CASE ~OnAudio /\ ~OnDiscard /\ ~OnEnd
    BY <1>2, <2>4, OthersKeep
  <2>5. QED
    BY <2>1, <2>2, <2>3, <2>4
<1>5. TurnsHoldSpeech'
  <2>1. ASSUME NEW audio \in Seq(Units), Starts(audio)
        PROVE  TurnsHoldSpeech'
    <3>1. turn'.audio = audio
      BY <2>1, TurnsAre DEF Starts, StartTurn
    <3>2. IF ptt THEN Len(audio) >= MinUnits ELSE MinSpeech <= SpeechIn(audio)
      BY <1>2, <2>1 DEF Starts
    <3>3. SpeechIn(audio) \in Nat
      BY SpeechIsNat
    <3>4. ~ptt => SpeechIn(audio) >= MinSpeech
      BY <3>2, <3>3, SegmenterAssumption
    <3>5. QED
      BY <1>1, <3>1, <3>2, <3>4 DEF TurnsHoldSpeech, SpeechIn
  <2>2. CASE loop' = "stt" => loop = "stt" /\ turn' = turn
    BY <1>1, <1>2, <2>2 DEF TurnsHoldSpeech
  <2>3. CASE Quiet
    BY <2>2, <2>3 DEF Quiet, Moves
  <2>4. CASE Greet
    BY <2>2, <2>4 DEF Greet
  <2>5. CASE Answers
    BY <2>2, <2>5 DEF Answers, SendAndGo
  <2>6. ASSUME NEW m \in Sendable, NEW t \in Turns, NEW next, TurnEvent(m, t, next)
        PROVE  TurnsHoldSpeech'
    BY <2>2, <2>6 DEF TurnEvent, Handle
  <2>7. QED
    BY <1>1, <2>1, <2>3, <2>4, <2>5, <2>6, StepKinds
<1>6. QED
  BY <1>1, <1>4, <1>5 DEF SpeechBuffered

-----------------------------------------------------------------------------
(* The takes.                                                              *)

LEMMA StreamIs ==
    ASSUME Typed
    PROVE  /\ Stream \in Seq(Messages)
           /\ inbox # <<>> => Stream # <<>> /\ Head(Stream) = Head(inbox)
           /\ inbox # <<>> => Tail(Stream) = Tail(inbox) \o wire
<1>1. inbox \in Seq(Messages) /\ wire \in Seq(Messages)
  BY DEF Typed
<1>2. \E m : m \in Messages
  BY EmptyMessage
<1>3. QED
  BY <1>1, <1>2, StreamMoves DEF Stream

\* What the loop holds and the first message it will take are of one take.
LEMMA FirstTake ==
    ASSUME Typed, Numbered
    PROVE  \E e : /\ Held \subseteq {e}
                  /\ inbox # <<>> => EpochsOf(Head(inbox).units) \subseteq {e}
<1>1. PICK f \in Seq(Nat) : TakesOf(ptt, Stream, Held, epoch, f)
  BY DEF Numbered
<1>2. Held \subseteq {f[1]}
  BY <1>1 DEF TakesOf
<1>3. ASSUME inbox # <<>> PROVE EpochsOf(Head(inbox).units) \subseteq {f[1]}
  <2>1. Stream \in Seq(Messages) /\ Stream # <<>> /\ Head(Stream) = Head(inbox)
    BY <1>3, StreamIs
  <2>2. 1 \in DOMAIN Stream /\ Head(Stream) = Stream[1]
    BY <2>1
  <2>3. EpochsOf(Stream[1].units) \subseteq {f[1]}
    BY <1>1, <2>2 DEF TakesOf
  <2>4. QED
    BY <2>1, <2>2, <2>3
<1>4. QED
  BY <1>2, <1>3

LEMMA OneTakeStep ==
    ASSUME Shape, Numbered, AllOneTake, [Next]_vars
    PROVE  AllOneTake'
<1>1. Typed /\ Bounded /\ utterances \in Seq(Seq(Units)) /\ turn \in Turns
  BY DEF Shape, Typed
<1>2. OneTake(turn.audio) /\ \A i \in DOMAIN utterances : OneTake(utterances[i])
  BY DEF AllOneTake
<1>3. CASE turn' = turn /\ utterances' = utterances
  BY <1>2, <1>3 DEF AllOneTake
<1>4. ASSUME NEW audio \in Seq(Units), Starts(audio) PROVE AllOneTake'
  <2>1. turn'.audio = audio /\ utterances' = utterances
    BY <1>4, TurnsAre DEF Starts, StartTurn, results
  <2>2. PICK e : /\ Held \subseteq {e}
                 /\ inbox # <<>> => EpochsOf(Head(inbox).units) \subseteq {e}
    BY <1>1, FirstTake
  <2>3. EpochsOf(audio) \subseteq {e}
    BY <1>4, <2>2 DEF Starts
  <2>4. OneTake(audio)
    BY <2>3 DEF OneTake
  <2>5. QED
    BY <1>2, <2>1, <2>4 DEF AllOneTake
<1>5. ASSUME NEW m \in Sendable, NEW t \in Turns, NEW next, TurnEvent(m, t, next)
      PROVE  AllOneTake'
  <2>1. turn' = NoTurn \/ turn' = t \/ turn' = turn
    BY <1>5 DEF TurnEvent, Handle
  <2>2. NoTurn.audio = <<>> /\ t.audio = turn.audio
    BY <1>5, TurnsAre DEF TurnEvent
  <2>3. OneTake(turn'.audio)
    BY <1>2, <2>1, <2>2, EpochsOfNothing DEF OneTake
  <2>4. utterances' = Append(utterances, turn.audio) \/ utterances' = utterances
    BY <1>5 DEF TurnEvent, results
  <2>5. turn.audio \in Seq(Units)
    BY <1>1, TurnFields
  <2>6. \A i \in DOMAIN utterances' : OneTake(utterances'[i])
    <3>1. CASE utterances' = utterances
      BY <1>2, <3>1
    <3>2. CASE utterances' = Append(utterances, turn.audio)
      <4>1. \A i \in DOMAIN utterances' :
                \/ i \in DOMAIN utterances /\ utterances'[i] = utterances[i]
                \/ utterances'[i] = turn.audio
        BY <1>1, <2>5, <3>2
      <4>2. QED
        BY <1>2, <4>1
    <3>3. QED
      BY <2>4, <3>1, <3>2
  <2>7. QED
    BY <2>3, <2>6 DEF AllOneTake
<1>6. CASE Quiet \/ Answers \/ Greet
  BY <1>3, <1>6 DEF Quiet, Answers, Greet, results
<1>7. QED
  BY <1>1, <1>4, <1>5, <1>6, StepKinds

\* Any other step leaves the stream as it is; the reader only passes it on.
LEMMA StreamStays ==
    ASSUME Typed, [Next]_vars,
           ~(SendAudio \/ SendControl), ~ReadDisconnect,
           ~(OnAudio \/ OnDiscard \/ OnEnd \/ OnGarbage \/ LeaveLoop)
    PROVE  Stream' = Stream /\ Held' = Held /\ epoch' = epoch
<1>1. pending' = pending /\ seg' = seg
  BY OthersKeep
<1>2. Held' = Held
  BY <1>1 DEF Held
<1>3. CASE ReadMessage
  <2>1. inbox' = Append(inbox, Head(wire)) /\ wire' = Tail(wire) /\ wire # <<>> /\ epoch' = epoch
    BY <1>3 DEF ReadMessage, clientVars
  <2>2. \E m : m \in Messages
    BY EmptyMessage
  <2>3. Stream' = Stream
    BY <2>1, <2>2, StreamMoves DEF Stream, Typed
  <2>4. QED
    BY <1>2, <2>1, <2>3
<1>4. CASE UNCHANGED <<inbox, wire, epoch>>
  BY <1>2, <1>4 DEF Stream
<1>5. CASE UNCHANGED vars \/ Leave
  BY <1>4, <1>5 DEF vars, clientVars, Leave
<1>6. CASE Close \/ Refuse \/ Accept \/ Greet \/ GreetFails
  BY <1>4, <1>6 DEF Close, Refuse, Accept, Greet, GreetFails, clientVars
<1>7. CASE Transcribe \/ StageFails \/ Phrase \/ Speak \/ SpeakNothing \/ ReplyEnds \/ Finalize
  BY <1>4, <1>7 DEF Transcribe, StageFails, Phrase, Speak, SpeakNothing, ReplyEnds, Finalize,
     Handle, clientVars
<1>8. QED
  BY <1>3, <1>5, <1>6, <1>7 DEF Next, ClientStep, ReaderStep, LoopStep

LEMMA NumberedStep ==
    ASSUME Shape, SpeechBuffered, Numbered, [Next]_vars
    PROVE  Numbered'
<1>1. Typed /\ Bounded /\ ptt' = ptt
  BY ModesStay DEF Shape
<1>2. PICK f \in Seq(Nat) : TakesOf(ptt, Stream, Held, epoch, f)
  BY DEF Numbered
<1>3. /\ inbox \in Seq(Messages) /\ wire \in Seq(Messages) /\ Stream \in Seq(Messages)
      /\ epoch \in Nat
  BY <1>1, StreamIs, BoundsAssumption DEF Typed
<1>4. CASE SendAudio \/ SendControl
  <2>1. PICK m \in Messages :
              /\ wire' = Append(wire, m) /\ EpochsOf(m.units) \subseteq {epoch}
              /\ epoch' = IF Ends(ptt, m) THEN epoch + 1 ELSE epoch
              /\ UNCHANGED <<inbox, pending, seg>>
    BY <1>1, <1>4, ClientMessage
  <2>2. Stream' = Append(Stream, m) /\ Held' = Held
    BY <1>3, <2>1, StreamMoves DEF Stream, Held
  <2>3. epoch' \in Nat /\ (~Ends(ptt, m) => epoch' = epoch)
    BY <1>3, <2>1
  <2>4. TakesOf(ptt, Append(Stream, m), Held, epoch', Append(f, epoch'))
    BY <1>2, <1>3, <2>1, <2>3, TakesAppend
  <2>5. Append(f, epoch') \in Seq(Nat)
    BY <2>3
  <2>6. QED
    BY <1>1, <2>2, <2>4, <2>5 DEF Numbered
<1>5. CASE ReadDisconnect
  <2> DEFINE m == Message("disconnect", <<>>)
  <2>1. m \in Messages /\ m.units = <<>> /\ m.kind = "disconnect"
    BY EmptyMessage
  <2>2. wire = <<>> /\ inbox' = Append(inbox, m) /\ wire' = wire /\ epoch' = epoch
    BY <1>5 DEF ReadDisconnect, clientVars
  <2>3. Held' = Held
    BY <1>5 DEF ReadDisconnect, Held
  <2> HIDE DEF m
  <2>4. Stream' = Append(Stream, m)
    BY <1>3, <2>1, <2>2, StreamMoves DEF Stream
  <2>5. EpochsOf(m.units) \subseteq {epoch} /\ ~Ends(ptt, m)
    BY <2>1, EpochsOfNothing DEF Ends
  <2>6. TakesOf(ptt, Append(Stream, m), Held, epoch, Append(f, epoch))
    BY <1>2, <1>3, <2>1, <2>5, TakesAppend
  <2>7. Append(f, epoch) \in Seq(Nat)
    BY <1>3
  <2>8. QED
    BY <1>1, <2>2, <2>3, <2>4, <2>6, <2>7 DEF Numbered
<1>6. CASE OnAudio \/ OnDiscard \/ OnEnd \/ OnGarbage \/ LeaveLoop
  <2>1. inbox # <<>> /\ inbox' = Tail(inbox) /\ wire' = wire /\ epoch' = epoch
    BY <1>6 DEF OnAudio, OnDiscard, OnEnd, OnGarbage, LeaveLoop, Receives, clientVars
  <2>2. /\ Stream # <<>> /\ Head(Stream) = Head(inbox) /\ Stream' = Tail(Stream)
    BY <1>1, <2>1, StreamIs DEF Stream
  <2> DEFINE head == Head(inbox)
  <2>3. \/ Held' = {}
        \/ /\ ~Ends(ptt, head)
           /\ Held' \subseteq Held \cup EpochsOf(head.units)
    <3>1. EpochsOf(EmptySeg.buf) = {} /\ EpochsOf(<<>>) = {}
      BY EmptySegIs, EpochsOfNothing
    <3>2. CASE OnAudio
      <4>1. head.kind = "audio"
        BY <3>2 DEF OnAudio, Receives
      <4>2. QED
        BY <1>1, <3>2, <4>1, AudioIs DEF Ends
    <3>3. CASE OnDiscard
      BY <3>1, <3>3 DEF OnDiscard, Held
    <3>4. CASE OnEnd
      <4>1. head.kind = "end"
        BY <3>4 DEF OnEnd, Receives
      <4>2. CASE ptt
        <5>1. pending' = <<>> /\ seg' = EmptySeg
          BY <3>4, <4>2 DEF OnEnd, SpeechBuffered
        <5>2. QED
          BY <3>1, <5>1 DEF Held
      <4>3. CASE ~ptt
        <5>1. pending' = pending /\ seg' = EmptySeg
          BY <3>4, <4>3 DEF OnEnd
        <5>2. Held' \subseteq Held
          BY <3>1, <5>1 DEF Held
        <5>3. QED
          BY <4>1, <4>3, <5>2 DEF Ends
      <4>4. QED
        BY <4>2, <4>3
    <3>5. CASE OnGarbage \/ LeaveLoop
      <4>1. head.kind \in {"garbage", "bye", "disconnect", "array"} /\ pending' = pending /\ seg' = seg
        BY <3>5 DEF OnGarbage, LeaveLoop, Receives
      <4>2. QED
        BY <4>1 DEF Ends, Held
    <3>6. QED
      BY <1>6, <3>2, <3>3, <3>4, <3>5
  <2>4. TakesOf(ptt, Tail(Stream), Held', epoch, Tail(f))
    BY <1>2, <1>3, <2>2, <2>3, TakesTail
  <2>5. Tail(f) \in Seq(Nat)
    BY <2>4 DEF TakesOf
  <2>6. QED
    BY <1>1, <2>1, <2>2, <2>4, <2>5 DEF Numbered
<1>7. CASE ~(SendAudio \/ SendControl) /\ ~ReadDisconnect
           /\ ~(OnAudio \/ OnDiscard \/ OnEnd \/ OnGarbage \/ LeaveLoop)
  <2>1. Stream' = Stream /\ Held' = Held /\ epoch' = epoch
    BY <1>1, <1>7, StreamStays
  <2>2. QED
    BY <1>1, <1>2, <2>1 DEF Numbered
<1>8. QED
  BY <1>4, <1>5, <1>6, <1>7

-----------------------------------------------------------------------------
(* The inductive invariant.                                                *)

LEMMA InitHolds == Init => IInv
<1> SUFFICES ASSUME Init PROVE IInv
  OBVIOUS
<1>1. /\ <<>> \in Seq(Messages) /\ <<>> \in Seq(Units) /\ <<>> \in Seq(Roles)
      /\ <<>> \in Seq(Sendable) /\ <<>> \in Seq(Seq(Units)) /\ Len(<<>>) = 0
      /\ DOMAIN <<>> = {}
  OBVIOUS
<1>2. 0 < FrameUnits /\ 0 \in 0 .. MaxSent
  BY FrameAssumption, BoundsAssumption
<1>3. Typed
  BY <1>1, <1>2, EmptySegIs, TurnsAre DEF Init, Typed, Places
<1>4. Bounded /\ Fresh
  BY <1>1 DEF Init, Bounded, Fresh
<1>5. \A k : Count(out, k) = 0 /\ Count(history, k) = 0
  BY CountNothing DEF Init
<1>6. ClosingsOwed
  BY <1>5 DEF Init, ClosingsOwed, Closings, Sent, InTurn
<1>7. TranscriptSent
  BY <1>5 DEF Init, TranscriptSent, TurnEndMeansPublished, Sent
<1>8. WillBeSeen
  BY <1>5, TurnsAre DEF Init, WillBeSeen, HistoryWasSeen, Sent
<1>9. SpeechBuffered
  BY EmptySegIs, EpochsOfNothing DEF Init, SpeechBuffered, TurnsHoldSpeech
<1>10. AllOneTake
  BY <1>1, TurnsAre, EpochsOfNothing DEF Init, AllOneTake, OneTake
<1>11. Numbered
  <2>1. Stream = <<>> /\ Held = {} /\ epoch = 0
    BY EmptySegIs, EpochsOfNothing DEF Init, Stream, Held
  <2>2. <<0>> \in Seq(Nat) /\ Len(<<0>>) = 1 /\ <<0>>[1] = 0
    OBVIOUS
  <2>3. TakesOf(ptt, <<>>, {}, 0, <<0>>)
    BY <1>1, <2>2 DEF TakesOf
  <2>4. QED
    BY <2>1, <2>2, <2>3 DEF Numbered
<1>12. QED
  BY <1>3, <1>4, <1>6, <1>7, <1>8, <1>9, <1>10, <1>11 DEF IInv

LEMMA StepHolds == IInv /\ [Next]_vars => IInv'
<1> SUFFICES ASSUME IInv, [Next]_vars PROVE IInv'
  OBVIOUS
<1>1. Shape /\ Typed /\ Bounded /\ Fresh
  BY DEF IInv, Shape
<1>2. Shape'
  BY <1>1, ShapeStep
<1>3. ClosingsOwed' /\ TranscriptSent' /\ WillBeSeen'
  BY <1>1, ClosingsStep, TranscriptStep, SeenStep DEF IInv
<1>4. SpeechBuffered' /\ Numbered' /\ AllOneTake'
  BY <1>1, SpeechStep, NumberedStep, OneTakeStep DEF IInv
<1>5. QED
  BY <1>2, <1>3, <1>4 DEF IInv, Shape

LEMMA Inductive == Spec => []IInv
<1>1. QED
  BY InitHolds, StepHolds, PTL DEF Spec

-----------------------------------------------------------------------------
(***************************************************************************)
(* Every variable of a live session keeps to its type, whatever the client *)
(* sends: the handler holds less than a frame of unsegmented audio between *)
(* messages, and the reply no more phrases than it may have.               *)
(***************************************************************************)
THEOREM WsTyped == Spec => []TypeOK
<1>1. IInv => TypeOK
  BY TypedIsTypeOK DEF IInv
<1>2. QED
  BY <1>1, Inductive, PTL

(***************************************************************************)
(* A take that was ended is answered once: skipped, failed or run to its   *)
(* end, and never both (_on_control and _run_turn of ws_session.py).       *)
(***************************************************************************)
THEOREM TakesAreClosedOnce == Spec => []EveryTakeClosedOnce
<1>1. IInv => EveryTakeClosedOnce
  BY DEF IInv, ClosingsOwed, EveryTakeClosedOnce
<1>2. QED
  BY <1>1, Inductive, PTL

(***************************************************************************)
(* Audio of two takes never meets in a turn or in a persisted utterance,   *)
(* however the client cuts it into messages: discard and the button's end  *)
(* drop the bytes between frames with the segment (ws_session.py).         *)
(***************************************************************************)
THEOREM TurnsAreOneTake == Spec => []TakesDoNotMix
<1>1. ASSUME IInv PROVE TakesDoNotMix
  <2>1. ASSUME NEW audio, OneTake(audio), NEW i \in DOMAIN audio, NEW j \in DOMAIN audio
        PROVE  audio[i].epoch = audio[j].epoch
    BY <2>1 DEF OneTake, EpochsOf
  <2>2. \A audio \in ToSet(utterances) \cup {turn.audio} : OneTake(audio)
    BY <1>1 DEF IInv, AllOneTake, ToSet
  <2>3. QED
    BY <2>1, <2>2 DEF TakesDoNotMix
<1>2. QED
  BY <1>1, Inductive, PTL

(***************************************************************************)
(* No turn starts on less speech than its mode asks for: every frame the   *)
(* segmenter counted is in the buffer it hands over (Segmenter.push and    *)
(* flush of vad.py), and a take of the button has the minimum length.      *)
(***************************************************************************)
THEOREM SpeechReachesTurns == Spec => []TurnsHoldSpeech
<1>1. IInv => TurnsHoldSpeech
  BY DEF IInv, SpeechBuffered
<1>2. QED
  BY <1>1, Inductive, PTL

(***************************************************************************)
(* A turn reported as over was published, and what was published had its   *)
(* transcript sent first (run_turn and _finalize of pipeline.py).          *)
(***************************************************************************)
THEOREM TurnsArePublished == Spec => []TurnEndMeansPublished
<1>1. IInv => TurnEndMeansPublished
  BY DEF IInv, TranscriptSent
<1>2. QED
  BY <1>1, Inductive, PTL

(***************************************************************************)
(* The conversation holds nothing the learner was not sent, also when a    *)
(* turn unwinds half-way (_run_turn of ws_session.py).                     *)
(***************************************************************************)
THEOREM HistorySeen == Spec => []HistoryWasSeen
<1>1. IInv => HistoryWasSeen
  BY DEF IInv, WillBeSeen
<1>2. QED
  BY <1>1, Inductive, PTL

(***************************************************************************)
(* Once the stop flag is set, nothing but the answer to a control message  *)
(* queued before it is sent (the check of stop in _run_turn).              *)
(***************************************************************************)
THEOREM StopSilencesTurns == Spec => UnwindsOnStop
<1> DEFINE A == stop /\ out' # out => Last(out') \in {"discarded", "turn_skipped"}
<1>1. ASSUME IInv, [Next]_vars PROVE [A]_vars
  <2>1. Typed /\ Bounded /\ Fresh
    BY <1>1 DEF IInv
  <2>2. \A m \in Sendable : Last(Append(out, m)) = m
    BY <2>1 DEF Typed, Last
  <2>3. CASE Quiet
    BY <2>3 DEF Quiet
  <2>4. CASE Greet
    BY <2>1, <2>4 DEF Greet, Fresh
  <2>5. CASE \E audio \in Seq(Units) : Starts(audio)
    BY <2>5 DEF Starts, StartTurn
  <2>6. CASE Answers
    BY <2>2, <2>6 DEF Answers, SendAndGo, Sendable
  <2>7. ASSUME NEW m \in Sendable, NEW t \in Turns, NEW next, TurnEvent(m, t, next)
        PROVE  A
    BY <2>1, <2>7, EventGoes
  <2>8. QED
    BY <1>1, <2>1, <2>3, <2>4, <2>5, <2>6, <2>7, StepKinds
<1>2. QED
  BY <1>1, Inductive, PTL DEF Spec, UnwindsOnStop
=============================================================================
