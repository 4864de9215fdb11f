-------------------------- MODULE EngineOnce_proofs --------------------------
(***************************************************************************)
(* What the proofs about the engines that authenticate once share: the     *)
(* part of their invariants that speaks of the transponder and of the      *)
(* bytes on their way, how the actions of Transponder and EngineOnce       *)
(* preserve it, and what those actions are for the promise of Immobilizer. *)
(***************************************************************************)
EXTENDS EngineOnce, ByteStream_proofs

USE TransponderAssumption, TimeoutsAssumption

\* The bytes s may come from an engine that has drawn d random numbers: none is
\* encrypted, and the random ones were drawn.
SentBy(s, d) ==
    \A i \in 1..Len(s) : s[i][1] # "enc" /\ (s[i][1] = "rnd" => s[i][2] <= d)

\* Only the transponder with the key encrypts what the engine has drawn, and only
\* after it was drawn.
KnowledgeInv ==
    /\ Genuine(toEngine, answered) /\ answered \subseteq 1..drawn
    /\ SentBy(toPeer, drawn) /\ SentBy(frame, drawn) /\ Len(frame) = FRAME

\* An answer is waited for only after a challenge, and a result ends the engine.
ControlInv ==
    /\ pc \in {"sent", "wait"} => drawn > 0
    /\ result # "none" => pc = "stopped"

OnceInv == OnceTypeOK /\ KnowledgeInv /\ ControlInv

-----------------------------------------------------------------------------
\* What an engine sends stays so as more numbers are drawn.
LEMMA SentByMore ==
    ASSUME NEW s \in Seq(Bytes), NEW d \in Nat, NEW e \in Nat, d <= e, SentBy(s, d)
    PROVE  SentBy(s, e)
<1> SUFFICES ASSUME NEW i \in 1..Len(s), s[i][1] = "rnd"
             PROVE  s[i][2] <= e
  BY DEF SentBy
<1>1. s[i] \in Bytes
  OBVIOUS
<1>2. s[i][2] \in Nat /\ s[i][2] <= d
  BY <1>1 DEF Bytes, SentBy
<1>3. QED
  BY <1>2

\* Appending and reading keep the bytes the engine's.
LEMMA SentByAppend ==
    ASSUME NEW s \in Seq(Bytes), NEW t \in Seq(Bytes), NEW d,
           SentBy(s, d), SentBy(t, d)
    PROVE  s \o t \in Seq(Bytes) /\ SentBy(s \o t, d)
BY DEF SentBy

LEMMA SentByRead ==
    ASSUME NEW s \in Seq(Bytes), NEW size \in Nat, NEW b \in Chunks(s, size),
           NEW d, SentBy(s, d)
    PROVE  SentBy(b, d) /\ SentBy(Rest(s, b), d)
<1>1. SentBy(b, d)
  <2>1. Len(b) \in 0..Len(s) /\ \A i \in 1..Len(b) : b[i] = s[i]
    BY ChunkIsPrefix
  <2>2. QED
    BY <2>1 DEF SentBy
<1>2. SentBy(Rest(s, b), d)
  BY RestIsSuffix DEF SentBy
<1>3. QED
  BY <1>1, <1>2

\* The bytes an engine sends, one by one.
LEMMA BlockSentBy ==
    ASSUME NEW n \in Nat
    PROVE  SentBy(Block("rnd", n), n)
<1> DEFINE s == Block("rnd", n)
<1>1. Len(s) = 16 /\ \A i \in 1..16 : s[i] = <<"rnd", n, i>>
  BY BlockType
<1> HIDE DEF s
<1>2. \A i \in 1..16 : s[i][1] = "rnd" /\ s[i][2] = n
  BY <1>1
<1>3. SentBy(s, n)
  BY <1>1, <1>2 DEF SentBy
<1>4. QED
  BY <1>3 DEF s

LEMMA FrameSentBy ==
    ASSUME NEW c \in Nat, NEW n \in Nat
    PROVE  SentBy(Frame("rnd", c, n), n)
<1> DEFINE s == Frame("rnd", c, n)
<1>1. /\ Len(s) = 17
      /\ \A i \in 1..17 : s[i] = IF i = 1 THEN <<"ctr", c, 0>> ELSE <<"rnd", n, i - 1>>
  BY DEF Frame
<1> HIDE DEF s
<1>2. \A i \in 1..17 : s[i][1] \in {"ctr", "rnd"} /\ (s[i][1] = "rnd" => s[i][2] = n)
  BY <1>1
<1>3. SentBy(s, n)
  BY <1>1, <1>2 DEF SentBy
<1>4. QED
  BY <1>3 DEF s

\* The answer of sixteen bytes that matches was made from the number it was
\* expected for.
LEMMA BlockIsGenuine ==
    ASSUME NEW s \in Seq(Bytes), NEW b \in Chunks(s, 16), NEW A, Genuine(s, A),
           NEW n \in Nat \ {0}, b = Block("enc", n)
    PROVE  n \in A
<1>1. /\ b \in Seq(Bytes) /\ Len(b) \in 0..Len(s)
      /\ \A i \in 1..Len(b) : b[i] = s[i]
  <2>1. 16 \in Nat
    OBVIOUS
  <2>2. /\ b \in Seq(Bytes) /\ Len(b) \in 0..Len(s)
        /\ \A i \in 1..Len(b) : b[i] = s[i]
    BY <2>1, ChunkIsPrefix, ZenonT(30)
  <2>3. QED
    BY <2>2
<1>2. Len(b) = 16 /\ b[1] = <<"enc", n, 1>>
  BY DEF Block
<1>3. 1 \in 1..Len(s) /\ s[1][1] = "enc" /\ s[1][2] = n
  BY <1>1, <1>2
<1>4. QED
  BY <1>3 DEF Genuine

\* So does taking a part; and what an engine sends is genuine.
LEMMA SentBySlice ==
    ASSUME NEW s \in Seq(Bytes), NEW m \in Nat \ {0}, NEW n \in 0..Len(s),
           NEW d, SentBy(s, d)
    PROVE  /\ SubSeq(s, m, n) \in Seq(Bytes) /\ SentBy(SubSeq(s, m, n), d)
           /\ Len(SubSeq(s, m, n)) = IF m <= n THEN n - m + 1 ELSE 0
           /\ \A i \in 1..(n - m + 1) : SubSeq(s, m, n)[i] = s[m + i - 1]
<1>1. \A i \in m..n : s[i] \in Bytes
  OBVIOUS
<1>2. /\ SubSeq(s, m, n) \in Seq(Bytes)
      /\ Len(SubSeq(s, m, n)) = IF m <= n THEN n - m + 1 ELSE 0
      /\ \A i \in 1..(n - m + 1) : SubSeq(s, m, n)[i] = s[m + i - 1]
  BY <1>1, SubSeqProperties
<1> DEFINE t == SubSeq(s, m, n)
<1> HIDE DEF t
<1>3. SentBy(t, d)
  <2>1. \A i \in 1..Len(t) : m + i - 1 \in 1..Len(s) /\ t[i] = s[m + i - 1]
    BY <1>2, SMTT(30) DEF t
  <2>2. QED
    BY <2>1, SMTT(30) DEF SentBy
<1>4. QED
  BY <1>2, <1>3 DEF t

LEMMA SentByGenuine ==
    ASSUME NEW s \in Seq(Bytes), NEW d, SentBy(s, d), NEW A
    PROVE  Genuine(s, A)
BY DEF SentBy, Genuine

-----------------------------------------------------------------------------
\* The transponder's buffer stays a frame of bytes the engine has sent, whatever
\* part of it a recv() fills.
LEMMA FrameFilled ==
    ASSUME OnceTypeOK, KnowledgeInv, NEW b \in Chunks(toPeer, FRAME)
    PROVE  LET g == b \o SubSeq(frame, Len(b) + 1, FRAME)
           IN  g \in Seq(Bytes) /\ Len(g) = FRAME /\ SentBy(g, drawn)
<1> DEFINE k == Len(b)
           t == SubSeq(frame, k + 1, FRAME)
<1>0. toPeer \in Seq(Bytes) /\ frame \in Seq(Bytes) /\ FRAME \in Nat
  BY DEF OnceTypeOK
<1>1. b \in Seq(Bytes) /\ k \in 0..FRAME /\ SentBy(b, drawn)
  BY <1>0, ChunkIsPrefix, SentByRead DEF KnowledgeInv
<1>2. k + 1 \in Nat \ {0} /\ FRAME \in 0..Len(frame) /\ SentBy(frame, drawn)
  BY <1>0, <1>1 DEF KnowledgeInv
<1>3. t \in Seq(Bytes) /\ SentBy(t, drawn) /\ Len(t) = FRAME - k
  BY <1>0, <1>1, <1>2, SentBySlice
<1> HIDE DEF k, t
<1>4. b \o t \in Seq(Bytes) /\ SentBy(b \o t, drawn) /\ Len(b \o t) = FRAME
  BY <1>1, <1>3, SentByAppend DEF k
<1>5. QED
  BY <1>4 DEF k, t

\* What the transponder takes for a random number was drawn by the engine, or is
\* none.
LEMMA RandomNumberDrawn ==
    ASSUME OnceTypeOK, KnowledgeInv
    PROVE  RandomNumber(Challenge) \in 0..drawn
<1> DEFINE m == Challenge[1][2]
<1>1. CASE Challenge = Block("rnd", m)
  <2>1. Challenge[1] = frame[FRAME - 15]
    <3>1. FRAME - 15 \in Nat \ {0} /\ FRAME \in 0..Len(frame)
      BY DEF KnowledgeInv
    <3>2. 1 \in 1..(FRAME - (FRAME - 15) + 1) /\ FRAME - 15 + 1 - 1 = FRAME - 15
      OBVIOUS
    <3>3. QED
      BY <3>1, <3>2, SentBySlice DEF Challenge, OnceTypeOK, KnowledgeInv
  <2>2. Block("rnd", m)[1] = <<"rnd", m, 1>>
    BY DEF Block
  <2>3. frame[FRAME - 15] = <<"rnd", m, 1>>
    BY <1>1, <2>1, <2>2
  <2>4. frame[FRAME - 15] \in Bytes /\ FRAME - 15 \in 1..Len(frame)
    BY DEF OnceTypeOK, KnowledgeInv
  <2>5. frame[FRAME - 15][1] = "rnd" /\ frame[FRAME - 15][2] = m
    BY <2>3
  <2>6. m \in Nat
    BY <2>4, <2>5 DEF Bytes
  <2>7. m <= drawn
    BY <2>4, <2>5 DEF KnowledgeInv, SentBy
  <2>8. RandomNumber(Challenge) = m
    BY <1>1 DEF RandomNumber
  <2>9. QED
    BY <2>6, <2>7, <2>8 DEF OnceTypeOK
<1>2. CASE Challenge # Block("rnd", m)
  BY <1>2 DEF RandomNumber, OnceTypeOK
<1>3. QED
  BY <1>1, <1>2

\* The bytes of an answer, and what the answer makes known.
LEMMA AnswerKeeps ==
    ASSUME OnceTypeOK, KnowledgeInv,
           NEW A, A = answered \cup (IF genuine THEN {RandomNumber(Challenge)} \ {0} ELSE {})
    PROVE  LET q == toEngine \o SubSeq(frame, 1, FRAME - 16) \o Encrypted
           IN  q \in Seq(Bytes) /\ Genuine(q, A) /\ A \subseteq 1..drawn
<1> DEFINE n == IF genuine THEN RandomNumber(Challenge) ELSE 0
           h == SubSeq(frame, 1, FRAME - 16)
           e == Block("enc", n)
<1>0. drawn \in Nat /\ toEngine \in Seq(Bytes) /\ frame \in Seq(Bytes)
  BY DEF OnceTypeOK
<1>1. n \in 0..drawn
  BY <1>0, RandomNumberDrawn
<1>2. A \subseteq 1..drawn /\ answered \subseteq A /\ (n # 0 => n \in A)
  <2> DEFINE r == RandomNumber(Challenge)
  <2>1. r \in 0..drawn /\ answered \subseteq 1..drawn
    BY RandomNumberDrawn DEF KnowledgeInv
  <2>2. A = answered \cup (IF genuine THEN {r} \ {0} ELSE {})
    OBVIOUS
  <2>3. n = IF genuine THEN r ELSE 0
    OBVIOUS
  <2> HIDE DEF r, n
  <2>4. CASE genuine
    <3>1. A = answered \cup ({r} \ {0}) /\ n = r
      BY <2>2, <2>3, <2>4
    <3>2. r # 0 => r \in 1..drawn
      BY <1>0, <2>1
    <3>3. QED
      BY <2>1, <3>1, <3>2, Zenon
  <2>5. CASE ~genuine
    BY <1>0, <2>1, <2>2, <2>3, <2>5
  <2>6. QED
    BY <2>4, <2>5
<1>3. Encrypted = e
  BY DEF Encrypted
<1>4. h \in Seq(Bytes) /\ Genuine(h, A)
  <2>1. 1 \in Nat \ {0} /\ FRAME - 16 \in 0..Len(frame) /\ SentBy(frame, drawn)
    BY DEF KnowledgeInv
  <2>2. h \in Seq(Bytes) /\ SentBy(h, drawn)
    BY <1>0, <2>1, SentBySlice
  <2>3. QED
    BY <2>2, SentByGenuine
<1> HIDE DEF n
<1>5. e \in Seq(Bytes) /\ Genuine(e, A)
  <2>1. n \in Nat
    BY <1>0, <1>1
  <2>2. e \in Seq(Bytes) /\ Len(e) = 16 /\ \A i \in 1..16 : e[i] = <<"enc", n, i>>
    BY <2>1, BlockType
  <2> HIDE DEF e
  <2>3. \A i \in 1..16 : e[i][2] = n
    BY <2>2, SMTT(30)
  <2>4. QED
    BY <1>2, <2>2, <2>3 DEF Genuine
<1>6. Genuine(toEngine, A)
  BY <1>2 DEF KnowledgeInv, Genuine
<1> HIDE DEF h, e
<1>7. toEngine \o h \in Seq(Bytes) /\ Genuine(toEngine \o h, A)
  BY <1>0, <1>4, <1>6, GenuineAppend
<1>8. (toEngine \o h) \o e \in Seq(Bytes) /\ Genuine((toEngine \o h) \o e, A)
  BY <1>5, <1>7, GenuineAppend
<1>9. QED
  BY <1>2, <1>3, <1>8 DEF h

\* Every step of the transponder preserves what all these engines rest on; the
\* only knowledge it adds is the answer to a number that was drawn.
LEMMA TransponderStep ==
    ASSUME OnceInv, TransponderNext, UNCHANGED onceVars
    PROVE  /\ OnceInv' /\ clock' = clock
           /\ answered' = answered \/ \E n \in 1..drawn : answered' = answered \cup {n}
<1> USE DEF onceVars
<1>0. OnceTypeOK /\ KnowledgeInv /\ ControlInv
  BY DEF OnceInv
<1>1. ControlInv'
  BY <1>0 DEF ControlInv
<1>2. CASE ConnectAndStart
  <2>1. Genuine(Start, answered)
    BY StartType DEF Genuine
  <2>2. toEngine \o Start \in Seq(Bytes) /\ Genuine(toEngine \o Start, answered)
    BY <1>0, <2>1, StartType, GenuineAppend DEF OnceTypeOK, KnowledgeInv
  <2>3. OnceTypeOK'
    BY <1>0, <1>2, <2>2 DEF OnceTypeOK, ConnectAndStart
  <2>4. KnowledgeInv'
    BY <1>0, <1>2, <2>2 DEF KnowledgeInv, ConnectAndStart
  <2>5. QED
    BY <1>1, <1>2, <2>3, <2>4 DEF OnceInv, ConnectAndStart
<1>3. CASE ReceiveFrame
  <2>1. PICK b \in Chunks(toPeer, FRAME) :
           /\ toPeer' = Rest(toPeer, b)
           /\ frame' = b \o SubSeq(frame, Len(b) + 1, FRAME)
    BY <1>3 DEF ReceiveFrame
  <2>2. frame' \in Seq(Bytes) /\ Len(frame') = FRAME /\ SentBy(frame', drawn)
    BY <1>0, <2>1, FrameFilled
  <2>3. toPeer' \in Seq(Bytes) /\ SentBy(toPeer', drawn)
    <3>1. toPeer \in Seq(Bytes) /\ FRAME \in Nat /\ SentBy(toPeer, drawn)
      BY <1>0 DEF OnceTypeOK, KnowledgeInv
    <3>2. QED
      BY <2>1, <3>1, RestIsSuffix, SentByRead
  <2>4. wake' \in Nat /\ attempt' \in Nat
    BY <1>0, <1>3 DEF OnceTypeOK, ReceiveFrame
  <2>5. OnceTypeOK'
    BY <1>0, <1>3, <2>2, <2>3, <2>4 DEF OnceTypeOK, ReceiveFrame
  <2>6. KnowledgeInv'
    BY <1>0, <1>3, <2>2, <2>3 DEF KnowledgeInv, ReceiveFrame
  <2>7. QED
    BY <1>1, <1>3, <2>5, <2>6 DEF OnceInv, ReceiveFrame
<1>4. CASE Respond
  <2>1. /\ toEngine' \in Seq(Bytes) /\ Genuine(toEngine', answered')
        /\ answered' \subseteq 1..drawn
    BY <1>0, <1>4, AnswerKeeps DEF Respond
  <2>2. OnceTypeOK'
    <3>1. /\ UNCHANGED <<clock, over, reset, toPeer, genuine, attempt, frame>>
          /\ wake' = 0 /\ tlate' = 0 /\ tpc' \in {"end", "receive"}
          /\ link' \in {"closed", link}
      BY <1>4 DEF Respond
    <3>2. QED
      BY <1>0, <2>1, <3>1 DEF OnceTypeOK
  <2>3. KnowledgeInv'
    BY <1>0, <1>4, <2>1 DEF KnowledgeInv, Respond
  <2>4. answered' = answered \/ \E n \in 1..drawn : answered' = answered \cup {n}
    <3>1. CASE genuine /\ RandomNumber(Challenge) # 0
      <4>1. RandomNumber(Challenge) \in 1..drawn
        BY <1>0, <3>1, RandomNumberDrawn DEF OnceTypeOK
      <4>2. answered' = answered \cup {RandomNumber(Challenge)}
        BY <1>4, <3>1 DEF Respond
      <4>3. QED
        BY <4>1, <4>2
    <3>2. CASE ~(genuine /\ RandomNumber(Challenge) # 0)
      BY <1>4, <3>2 DEF Respond
    <3>3. QED
      BY <3>1, <3>2
  <2>5. QED
    BY <1>1, <1>4, <2>2, <2>3, <2>4 DEF OnceInv, Respond
<1>5. CASE EngineGone
  BY <1>0, <1>1, <1>5 DEF OnceInv, OnceTypeOK, KnowledgeInv, EngineGone
<1>6. QED
  BY <1>2, <1>3, <1>4, <1>5 DEF TransponderNext

\* So does the passing of a second.
LEMMA TickStep ==
    ASSUME OnceInv, NEW p \in BOOLEAN, Tick(p)
    PROVE  OnceInv'
BY DEF OnceInv, OnceTypeOK, KnowledgeInv, ControlInv, Tick, TransponderTick,
       wireVars, transVars

-----------------------------------------------------------------------------
\* What the step of any of the engines does: it reads a part of what has come,
\* sends bytes of its own, and is one of the actions of EngineOnce; it succeeds
\* only when the transponder with the key has answered the last challenge.
Reads ==
    \/ toEngine' = toEngine
    \/ \E size \in Nat : \E b \in Chunks(toEngine, size) : toEngine' = Rest(toEngine, b)

Sends ==
    \/ toPeer' = toPeer
    \/ \E t \in Seq(Bytes) : SentBy(t, drawn') /\ toPeer' = toPeer \o t

EngineMove ==
    /\ Reads /\ Sends /\ UNCHANGED <<clock, transVars>>
    /\ \/ WaitForClient \/ ReceiveStart \/ BrokenPipe \/ BeginWait
       \/ \E bytes \in Seq(Bytes) : SendChallenge(bytes)
       \/ pc = "wait" /\ (KeepWaiting \/ NextChallenge)
       \/ pc \in {"challenge", "wait"} /\ Return("denied")
       \/ pc = "wait" /\ drawn \in answered /\ Return("success")

\* What such a step does to each variable of the engine.
LEMMA EngineMoveVars ==
    ASSUME OnceInv, EngineMove
    PROVE  /\ drawn' \in {drawn, drawn + 1} /\ link' = link
           /\ over' \in BOOLEAN /\ reset' \in BOOLEAN
           /\ pc' \in {"accept", "command", "challenge", "sent", "wait", "stopped", "killed"}
           /\ total_start' \in Nat /\ wait_start' \in Nat /\ late' = 0
           /\ result' \in {"none", "success", "denied"}
           /\ ControlInv'
<1> USE DEF OnceInv, OnceTypeOK, ControlInv
<1>1. CASE WaitForClient
  BY <1>1 DEF WaitForClient, wireVars
<1>2. CASE ReceiveStart
  BY <1>2 DEF ReceiveStart
<1>3. CASE BrokenPipe
  BY <1>3 DEF BrokenPipe, MayChallenge
<1>4. CASE KeepWaiting
  BY <1>4 DEF KeepWaiting
<1>5. ASSUME NEW bytes \in Seq(Bytes), SendChallenge(bytes)
      PROVE  /\ drawn' = drawn + 1 /\ link' = link /\ over' = over
             /\ reset' \in BOOLEAN /\ pc' = "sent" /\ late' = 0
             /\ total_start' = total_start /\ wait_start' = wait_start
             /\ result' = "none"
  BY <1>5 DEF SendChallenge, MayChallenge
<1>6. CASE pc = "wait" /\ NextChallenge
  BY <1>6 DEF NextChallenge
<1>7. CASE \E r \in {"success", "denied"} : Return(r)
  BY <1>7 DEF Return
<1>8. CASE BeginWait
  BY <1>8 DEF BeginWait, wireVars
<1>9. QED
  BY <1>1, <1>2, <1>3, <1>4, <1>5, <1>6, <1>7, <1>8 DEF EngineMove

\* It preserves what all these engines rest on.
LEMMA EngineMoveKeeps ==
    ASSUME OnceInv, EngineMove
    PROVE  OnceInv'
<1>0. OnceTypeOK /\ KnowledgeInv /\ ControlInv
  BY DEF OnceInv
<1>1. toEngine' \in Seq(Bytes) /\ Genuine(toEngine', answered)
  <2>1. toEngine \in Seq(Bytes) /\ Genuine(toEngine, answered)
    BY <1>0 DEF OnceTypeOK, KnowledgeInv
  <2>2. QED
    BY <2>1, RestIsSuffix, GenuineRest DEF EngineMove, Reads
<1>2. drawn' \in Nat /\ drawn <= drawn'
  BY <1>0, EngineMoveVars DEF OnceTypeOK
<1>3. toPeer' \in Seq(Bytes) /\ SentBy(toPeer', drawn')
  <2>1. toPeer \in Seq(Bytes) /\ SentBy(toPeer, drawn')
    BY <1>0, <1>2, SentByMore DEF OnceTypeOK, KnowledgeInv
  <2>2. QED
    BY <2>1, SentByAppend DEF EngineMove, Sends
<1>4. UNCHANGED <<clock, genuine, tpc, attempt, frame, wake, answered, tlate>>
  BY DEF EngineMove, transVars
<1>5. SentBy(frame', drawn') /\ Len(frame') = FRAME
  BY <1>0, <1>2, <1>4, SentByMore DEF OnceTypeOK, KnowledgeInv
<1>6. answered' \subseteq 1..drawn'
  BY <1>0, <1>2, <1>4 DEF OnceTypeOK, KnowledgeInv
<1>7. KnowledgeInv'
  BY <1>1, <1>3, <1>4, <1>5, <1>6 DEF KnowledgeInv
<1>8. OnceTypeOK'
  BY <1>0, <1>1, <1>2, <1>3, <1>4, EngineMoveVars DEF OnceTypeOK
<1>9. QED
  BY <1>7, <1>8, EngineMoveVars DEF OnceInv

-----------------------------------------------------------------------------
\* What the steps are for the promise: a challenge is issued, given up, answered
\* or used for the one start, time passes, or nothing it knows of happens.
USE DEF Promise!Next, Promise!vars

LEMMA EngineMovePromise ==
    ASSUME OnceInv, EngineMove
    PROVE  [Promise!Next]_Promise!vars
<1>0. UNCHANGED <<clock, answered>> /\ drawn \in Nat /\ ControlInv
  BY DEF EngineMove, transVars, OnceInv, OnceTypeOK
<1>1. CASE WaitForClient \/ ReceiveStart \/ BrokenPipe \/ BeginWait \/ KeepWaiting
  BY <1>0, <1>1
     DEF WaitForClient, ReceiveStart, BrokenPipe, BeginWait, KeepWaiting, MayChallenge
<1>2. ASSUME NEW bytes \in Seq(Bytes), SendChallenge(bytes)
      PROVE  Promise!Issue
  BY <1>0, <1>2 DEF SendChallenge, MayChallenge, ControlInv, Promise!Issue
<1>3. CASE pc = "wait" /\ NextChallenge
  BY <1>0, <1>3 DEF NextChallenge, Promise!Abandon
<1>4. CASE pc = "challenge" /\ Return("denied")
  BY <1>0, <1>4 DEF Return, ControlInv
<1>5. CASE pc = "wait" /\ Return("denied")
  BY <1>0, <1>5 DEF Return, ControlInv, Promise!Abandon
<1>6. CASE pc = "wait" /\ drawn \in answered /\ Return("success")
  BY <1>0, <1>6 DEF Return, ControlInv, Promise!Authenticate
<1>7. QED
  BY <1>1, <1>2, <1>3, <1>4, <1>5, <1>6 DEF EngineMove

LEMMA TransponderPromise ==
    ASSUME OnceInv, TransponderNext, UNCHANGED onceVars
    PROVE  [Promise!Next]_Promise!vars
<1>1. clock' = clock /\ UNCHANGED <<pc, drawn, result>>
  BY TransponderStep DEF onceVars
<1>2. CASE answered' = answered
  BY <1>1, <1>2
<1>3. ASSUME NEW n \in 1..drawn, answered' = answered \cup {n}
      PROVE  Promise!Answer(n)
  BY <1>1, <1>3 DEF Promise!Answer
<1>4. QED
  BY <1>2, <1>3, TransponderStep

LEMMA TickPromise ==
    ASSUME NEW p \in BOOLEAN, Tick(p)
    PROVE  [Promise!Next]_Promise!vars
BY DEF Tick, TransponderTick, Promise!Tick

-----------------------------------------------------------------------------
LEMMA StutterStep ==
    ASSUME OnceInv, UNCHANGED <<clock, wireVars, transVars, onceVars>>
    PROVE  OnceInv' /\ [Promise!Next]_Promise!vars
<1>1. /\ UNCHANGED <<clock, link, over, reset, toEngine, toPeer>>
      /\ UNCHANGED <<genuine, tpc, attempt, frame, wake, answered, tlate>>
      /\ UNCHANGED <<pc, drawn, total_start, wait_start, result, late>>
  BY DEF wireVars, transVars, onceVars
<1>2. OnceTypeOK'
  BY <1>1 DEF OnceInv, OnceTypeOK
<1>3. KnowledgeInv' /\ ControlInv'
  BY <1>1 DEF OnceInv, KnowledgeInv, ControlInv
<1>4. QED
  BY <1>1, <1>2, <1>3 DEF OnceInv

LEMMA InitOnce ==
    ASSUME TransponderInit, EngineInit
    PROVE  OnceInv /\ Promise!Init
<1>1. \A i \in 1..FRAME : <<"rnd", 0, 0>> \in Bytes
  BY DEF Bytes
<1>2. frame \in Seq(Bytes) /\ Len(frame) = FRAME /\ \A i \in 1..FRAME : frame[i] = <<"rnd", 0, 0>>
  BY <1>1 DEF TransponderInit
<1>3. SentBy(frame, 0)
  BY <1>2 DEF SentBy
<1>4. OnceTypeOK
  <2>1. /\ clock = 1 /\ link = "none" /\ over = FALSE /\ reset = FALSE
        /\ genuine \in BOOLEAN /\ toEngine = <<>> /\ toPeer = <<>>
        /\ tpc = "connect" /\ attempt = 0 /\ wake = 0 /\ answered = {} /\ tlate = 0
    BY DEF TransponderInit
  <2>2. <<>> \in Seq(Bytes)
    OBVIOUS
  <2>3. frame \in Seq(Bytes)
    BY <1>2
  <2>4. /\ pc = "accept" /\ drawn = 0 /\ total_start = 0 /\ wait_start = 0
        /\ result = "none" /\ late = 0
    BY DEF EngineInit
  <2>5. 0 \in Nat /\ 1 \in Nat \ {0} /\ {} \subseteq Nat
    OBVIOUS
  <2>6. QED
    BY <2>1, <2>2, <2>3, <2>4, <2>5, Zenon DEF OnceTypeOK
<1>5. KnowledgeInv
  BY <1>2, <1>3 DEF TransponderInit, EngineInit, KnowledgeInv, Genuine, SentBy
<1>6. ControlInv
  BY DEF EngineInit, ControlInv
<1>7. Promise!Init
  BY DEF TransponderInit, EngineInit, Promise!Init
<1>8. QED
  BY <1>4, <1>5, <1>6, <1>7 DEF OnceInv

-----------------------------------------------------------------------------
\* Before the authentication nothing but the start is on its way; a transponder
\* that has closed has ended, and so has an engine that has closed.
EarlyInv ==
    /\ link = "none" <=> tpc = "connect"
    /\ link = "closed" => tpc = "end"
    /\ pc # "accept" => link # "none"
    /\ over => pc \in {"stopped", "killed"}
    /\ pc \in {"accept", "command"} =>
          /\ drawn = 0 /\ toPeer = <<>> /\ ~reset
          /\ \/ tpc = "connect" /\ toEngine = <<>>
             \/ tpc = "receive" /\ toEngine = Start

LEMMA InitEarly ==
    ASSUME TransponderInit, EngineInit
    PROVE  EarlyInv
BY DEF TransponderInit, EngineInit, EarlyInv

LEMMA EngineMoveEarly ==
    ASSUME EarlyInv, EngineMove
    PROVE  EarlyInv'
<1> USE DEF EarlyInv
<1>0. UNCHANGED <<clock, tpc>>
  BY DEF EngineMove, transVars
<1>1. CASE WaitForClient
  BY <1>0, <1>1 DEF WaitForClient, wireVars
<1>2. CASE ReceiveStart
  BY <1>0, <1>2 DEF ReceiveStart
<1>3. CASE BrokenPipe
  BY <1>0, <1>3 DEF BrokenPipe, MayChallenge
<1>4. CASE \E bytes \in Seq(Bytes) : SendChallenge(bytes)
  BY <1>0, <1>4 DEF SendChallenge, MayChallenge
<1>5. CASE pc = "wait" /\ (KeepWaiting \/ NextChallenge)
  BY <1>0, <1>5 DEF KeepWaiting, NextChallenge
<1>6. CASE pc \in {"challenge", "wait"} /\ \E r \in {"success", "denied"} : Return(r)
  BY <1>0, <1>6 DEF Return
<1>7. CASE BeginWait
  BY <1>0, <1>7 DEF BeginWait, wireVars
<1>8. QED
  BY <1>1, <1>2, <1>3, <1>4, <1>5, <1>6, <1>7 DEF EngineMove

LEMMA TransponderEarly ==
    ASSUME EarlyInv, OnceInv, TransponderNext, UNCHANGED onceVars
    PROVE  EarlyInv'
<1> USE DEF EarlyInv, onceVars
<1>1. CASE ConnectAndStart
  <2>1. <<>> \o Start = Start
    BY StartType, ConcatEmptySeq
  <2>2. QED
    BY <1>1, <2>1 DEF ConnectAndStart
<1>2. CASE ReceiveFrame
  BY <1>2 DEF ReceiveFrame
<1>3. CASE Respond
  BY <1>3 DEF Respond
<1>4. CASE EngineGone
  BY <1>4 DEF EngineGone
<1>5. QED
  BY <1>1, <1>2, <1>3, <1>4 DEF TransponderNext

LEMMA TickEarly ==
    ASSUME EarlyInv, NEW p \in BOOLEAN, Tick(p)
    PROVE  EarlyInv'
BY DEF EarlyInv, Tick, TransponderTick, wireVars

LEMMA StutterEarly ==
    ASSUME EarlyInv, UNCHANGED <<clock, wireVars, transVars, onceVars>>
    PROVE  EarlyInv'
BY DEF EarlyInv, wireVars, transVars, onceVars

\* If no recv() is cut short within a message, the authentication starts with an
\* empty queue.
LEMMA StartIsRead ==
    ASSUME EarlyInv, ReceiveStart, \A r \in ShortReads : r >= 16
    PROVE  toEngine' = <<>>
<1>1. toEngine = Start /\ Start \in Seq(Bytes) /\ Len(Start) = 5
  BY StartType DEF EarlyInv, ReceiveStart
<1> DEFINE size == 1024
<1>2. PICK b \in Chunks(Start, size) : toEngine' = Rest(Start, b)
  BY <1>1 DEF ReceiveStart
<1>3. /\ size \in Nat /\ Len(Start) < size
      /\ \A r \in ShortReads : r >= Len(Start)
  BY <1>1, ShortReadsAssumption
<1> HIDE DEF size
<1>4. Rest(Start, b) = <<>>
  BY <1>1, <1>3, ReadsAll
<1>5. QED
  BY <1>2, <1>4
=============================================================================
