------------------------- MODULE EngineIgnore_proofs -------------------------
(***************************************************************************)
(* Proofs about the engine ECU that ignores late answers,                  *)
(* 04_engine_ignore.c.                                                     *)
(***************************************************************************)
EXTENDS EngineIgnore, EngineOnce_proofs

USE TransponderAssumption, TimeoutsAssumption

\* Every step of the engine is one of those EngineOnce_proofs speaks of.
LEMMA StepIsMove ==
    ASSUME OnceInv, TypeOK, EngineStep, UNCHANGED <<clock, transVars>>
    PROVE  EngineMove /\ counter' \in 0..255
<1> USE DEF EngineMove, Reads, Sends
<1>0. /\ toEngine \in Seq(Bytes) /\ Genuine(toEngine, answered) /\ drawn \in Nat
      /\ pc = "wait" => drawn > 0
      /\ counter \in 0..255
  BY DEF OnceInv, OnceTypeOK, KnowledgeInv, ControlInv, TypeOK
<1>1. CASE (WaitForClient \/ BeginWait \/ BrokenPipe) /\ UNCHANGED counter
  BY <1>0, <1>1 DEF WaitForClient, BeginWait, BrokenPipe, wireVars
<1>2. CASE StartAuthentication
  BY <1>2 DEF StartAuthentication, ReceiveStart
<1>3. CASE Challenge17
  <2> DEFINE bytes == Frame("rnd", counter, drawn + 1)
  <2>0. drawn + 1 \in Nat /\ counter \in Nat
    BY <1>0
  <2>1. bytes \in Seq(Bytes) /\ SentBy(bytes, drawn + 1)
    BY <2>0, FrameType, FrameSentBy
  <2> HIDE DEF bytes
  <2>2. SendChallenge(bytes) /\ counter' = counter
    BY <1>3 DEF Challenge17, bytes
  <2>3. drawn' = drawn + 1 /\ toPeer' = toPeer \o bytes /\ toEngine' = toEngine
    BY <2>2 DEF SendChallenge
  <2>4. QED
    BY <1>0, <2>1, <2>2, <2>3
<1>4. CASE TotalTimeout /\ UNCHANGED <<toPeer, counter>>
  BY <1>0, <1>4 DEF TotalTimeout
<1>5. CASE ResponseAccepted
  <2>1. PICK b \in Chunks(toEngine, 17) :
           Read(b) /\ MayBeCurrent(b) /\ Matches(SubSeq(b, 2, 17))
    BY <1>5 DEF ResponseAccepted
  <2>2. pc = "wait" /\ Return("success") /\ UNCHANGED <<toPeer, counter>>
    BY <1>5 DEF ResponseAccepted, InTime
  <2>3. drawn \in answered
    <3>1. Len(b) = 17 /\ SubSeq(b, 2, 17) = Block("enc", drawn)
      BY <2>1 DEF Matches, MayBeCurrent
    <3>2. drawn \in Nat \ {0}
      BY <1>0, <2>2
    <3>3. QED
      BY <1>0, <3>1, <3>2, MatchIsGenuine
  <2>4. toEngine' = Rest(toEngine, b)
    BY <2>1 DEF Read
  <2>5. QED
    BY <1>0, <2>2, <2>3, <2>4
<1>N. ASSUME NextAttempt PROVE counter' \in 0..255 /\ NextChallenge /\ UNCHANGED toPeer
  BY <1>0, <1>N DEF NextAttempt, NextChallenge
<1>6. CASE ResponseRejected
  BY <1>6, <1>N DEF ResponseRejected, InTime, Read
<1>7. CASE ResponseIgnored
  BY <1>0, <1>7 DEF ResponseIgnored, InTime, Read, KeepWaiting
<1>8. CASE PollNothing
  BY <1>0, <1>8 DEF PollNothing, InTime, KeepWaiting
<1>9. CASE AttemptOver
  BY <1>9, <1>N DEF AttemptOver
<1>10. QED
  BY <1>1, <1>2, <1>3, <1>4, <1>5, <1>6, <1>7, <1>8, <1>9 DEF EngineStep

LEMMA StepKeeps ==
    ASSUME OnceInv, TypeOK, [Next]_vars
    PROVE  OnceInv' /\ TypeOK' /\ [Promise!Next]_Promise!vars
<1>1. CASE EngineStep /\ UNCHANGED <<clock, transVars>>
  BY <1>1, StepIsMove, EngineMoveKeeps, EngineMovePromise DEF TypeOK, OnceInv
<1>2. CASE TransponderNext /\ UNCHANGED engineVars
  BY <1>2, TransponderStep, TransponderPromise DEF engineVars, TypeOK, OnceInv
<1>3. CASE Tick(InTime) /\ UNCHANGED counter
  <2>1. InTime \in BOOLEAN
    BY DEF InTime
  <2>2. QED
    BY <1>3, <2>1, TickStep, TickPromise DEF TypeOK, OnceInv
<1>4. CASE UNCHANGED vars
  BY <1>4, StutterStep DEF vars, engineVars, TypeOK, OnceInv
<1>5. QED
  BY <1>1, <1>2, <1>3, <1>4 DEF Next

LEMMA InitKeeps == Init => OnceInv /\ TypeOK /\ Promise!Init
BY InitOnce DEF Init, TypeOK, OnceInv

LEMMA SharedInductive == Spec => [](OnceInv /\ TypeOK)
<1>1. OnceInv /\ TypeOK /\ [Next]_vars => (OnceInv /\ TypeOK)'
  BY StepKeeps
<1>2. QED
  BY InitKeeps, <1>1, PTL DEF Spec

\* Every variable always has its type; the counter stays a uint8_t.
THEOREM TypeCorrect == Spec => []TypeOK
BY SharedInductive, PTL

\* What 04_engine_ignore.c promises, for any timeouts, any transponder of the module
\* and any splitting of the bytes: it succeeds only by an answer to the open
\* challenge, made with the key.
THEOREM Refinement == Spec => ImplementsImmobilizer
<1>1. Init => Promise!Init
  BY InitKeeps
<1>2. OnceInv /\ TypeOK /\ [Next]_vars => [Promise!Next]_Promise!vars
  BY StepKeeps
<1>3. QED
  BY SharedInductive, <1>1, <1>2, PTL DEF Spec, ImplementsImmobilizer, Promise!Spec

-----------------------------------------------------------------------------
\* Whole frames: the transponder echoes the counter, no recv() is cut short within
\* a frame, and the counter does not come round while challenges are sent.  (The
\* code has 5 and 15 seconds, 04_engine_ignore.c:11; what is left of a torn frame
\* can carry the counter of one challenge and the block of another.)
WholeFrames ==
    /\ FRAME = 17 /\ \A r \in ShortReads : r >= 17
    /\ TOTAL_AUTH_TIMEOUT <= 255 * PER_CHALLENGE_TIMEOUT

\* The queue s is made of whole frames; the j-th belongs to challenge f[j], which is
\* what its counter and its block say.
IsFrames(s, kind, f) ==
    /\ Len(s) = 17 * Len(f)
    /\ \A k \in 1..Len(s), j \in 1..Len(f), i \in 1..17 :
          k = 17 * (j - 1) + i => s[k] = Frame(kind, f[j], f[j])[i]

Framed(s, kind, d) == \E f \in Seq(1..d) : IsFrames(s, kind, f)

\* Sequences of challenges grow at the end and shrink at the front.
LEMMA NumbersAppend ==
    ASSUME NEW d \in Nat, NEW f \in Seq(1..d), NEW n \in 1..d
    PROVE  /\ Append(f, n) \in Seq(1..d) /\ Len(Append(f, n)) = Len(f) + 1
           /\ \A j \in 1..Len(f) : Append(f, n)[j] = f[j]
           /\ Append(f, n)[Len(f) + 1] = n
BY AppendProperties

LEMMA FramedEmpty ==
    ASSUME NEW kind, NEW d \in Nat
    PROVE  Framed(<<>>, kind, d)
<1>1. <<>> \in Seq(1..d) /\ IsFrames(<<>>, kind, <<>>)
  BY DEF IsFrames
<1>2. QED
  BY <1>1 DEF Framed

LEMMA FramedMore ==
    ASSUME NEW kind, NEW s, NEW d \in Nat, NEW e \in Nat, d <= e, Framed(s, kind, d)
    PROVE  Framed(s, kind, e)
<1>1. PICK f \in Seq(1..d) : IsFrames(s, kind, f)
  BY DEF Framed
<1>2. \A j \in 1..Len(f) : f[j] \in 1..e
  OBVIOUS
<1>3. f \in Seq(1..e)
  BY <1>2
<1>4. QED
  BY <1>1, <1>3 DEF Framed

LEMMA EchoType ==
    ASSUME NEW kind \in {"rnd", "enc"}, NEW n \in Nat
    PROVE  Frame(kind, n, n) \in Seq(Bytes) /\ Len(Frame(kind, n, n)) = 17
BY FrameIsSeq

LEMMA FramedAppend ==
    ASSUME NEW kind \in {"rnd", "enc"}, NEW s \in Seq(Bytes), NEW d \in Nat,
           Framed(s, kind, d), NEW n \in 1..d
    PROVE  Framed(s \o Frame(kind, n, n), kind, d)
<1>1. PICK f \in Seq(1..d) : IsFrames(s, kind, f)
  BY DEF Framed
<1> DEFINE t == Frame(kind, n, n)
           g == Append(f, n)
           m == Len(f)
           q == s \o t
<1>2. t \in Seq(Bytes) /\ Len(t) = 17
  BY EchoType
<1>3. /\ m \in Nat /\ g \in Seq(1..d) /\ Len(g) = m + 1
      /\ \A j \in 1..m : g[j] = f[j]
      /\ g[m + 1] = n
  BY NumbersAppend
<1>4. /\ Len(s) = 17 * m
      /\ \A k \in 1..(17 * m), j \in 1..m, i \in 1..17 :
            k = 17 * (j - 1) + i => s[k] = Frame(kind, f[j], f[j])[i]
  BY <1>1 DEF IsFrames
<1> HIDE DEF g, m
<1>5. /\ q \in Seq(Bytes) /\ Len(q) = 17 * m + 17
      /\ \A k \in 1..(17 * m) : q[k] = s[k]
      /\ \A i \in 1..17 : q[17 * m + i] = t[i]
  <2> HIDE DEF t
  <2>1. /\ s \o t \in Seq(Bytes)
        /\ Len(s \o t) = Len(s) + Len(t)
        /\ \A i \in 1 .. Len(s) + Len(t) :
              (s \o t)[i] = IF i <= Len(s) THEN s[i] ELSE t[i - Len(s)]
    BY <1>2, ConcatProperties
  <2> HIDE DEF q
  <2>2. q = s \o t
    BY DEF q
  <2>3. \A k \in 1..(17 * m) : q[k] = s[k]
    BY <1>2, <1>3, <1>4, <2>1, <2>2
  <2>4. ASSUME NEW i \in 1..17 PROVE q[17 * m + i] = t[i]
    <3> DEFINE k == 17 * m + i
    <3>0. Len(s) = 17 * m /\ Len(t) = 17 /\ m \in Nat
      BY <1>2, <1>3, <1>4
    <3>1. k \in 1..(Len(s) + Len(t)) /\ ~(k <= Len(s)) /\ k - Len(s) = i
      BY <3>0
    <3> HIDE DEF k
    <3>2. q[k] = t[i]
      BY <2>1, <2>2, <3>1
    <3>3. QED
      BY <3>2 DEF k
  <2>5. QED
    BY <1>2, <1>4, <2>1, <2>2, <2>3, <2>4
<1> HIDE DEF q, t
<1>6. ASSUME NEW k \in 1..(17 * m + 17), NEW j \in 1..(m + 1), NEW i \in 1..17,
             k = 17 * (j - 1) + i
      PROVE  q[k] = Frame(kind, g[j], g[j])[i]
  <2>1. CASE j \in 1..m
    <3>1. k \in 1..(17 * m)
      BY <1>3, <1>6, <2>1
    <3>2. q[k] = s[k] /\ g[j] = f[j]
      BY <1>3, <1>5, <2>1, <3>1
    <3>3. QED
      BY <1>4, <1>6, <2>1, <3>1, <3>2, SMTT(30)
  <2>2. CASE j = m + 1
    <3>1. k = 17 * m + i
      BY <1>3, <1>6, <2>2
    <3>2. QED
      BY <1>3, <1>5, <2>2, <3>1 DEF t
  <2>3. QED
    BY <1>3, <2>1, <2>2
<1>7. IsFrames(q, kind, g)
  BY <1>3, <1>5, <1>6 DEF IsFrames
<1>8. QED
  BY <1>3, <1>7 DEF Framed, q, t

\* A recv() takes the first frame and leaves the others.
LEMMA FramedRead ==
    ASSUME NEW kind \in {"rnd", "enc"}, NEW s \in Seq(Bytes), NEW d \in Nat,
           Framed(s, kind, d), s # <<>>, NEW b \in Chunks(s, 17),
           \A r \in ShortReads : r >= 17
    PROVE  /\ Framed(Rest(s, b), kind, d)
           /\ \E n \in 1..d : b = Frame(kind, n, n)
<1>1. PICK f \in Seq(1..d) : IsFrames(s, kind, f)
  BY DEF Framed
<1> DEFINE m == Len(f)
           n == f[1]
           g == Tail(f)
           q == Rest(s, b)
<1>2. /\ Len(s) = 17 * m
      /\ \A k \in 1..Len(s), j \in 1..m, i \in 1..17 :
            k = 17 * (j - 1) + i => s[k] = Frame(kind, f[j], f[j])[i]
  BY <1>1 DEF IsFrames
<1>3. m \in Nat \ {0} /\ n \in 1..d /\ f # <<>>
  <2>1. m \in Nat /\ Len(s) # 0
    OBVIOUS
  <2>2. m # 0
    BY <1>2, <2>1
  <2>3. QED
    BY <2>1, <2>2
<1>4. g \in Seq(1..d) /\ Len(g) = m - 1 /\ \A j \in 1..Len(g) : g[j] = f[j + 1]
  BY <1>3, HeadTailProperties
<1>5. /\ b \in Seq(Bytes) /\ q \in Seq(Bytes)
      /\ Len(b) = 17 /\ Len(q) = Len(s) - 17
      /\ \A i \in 1..17 : b[i] = s[i]
      /\ \A i \in 1..(Len(s) - 17) : q[i] = s[17 + i]
  <2> DEFINE size == 17
  <2>1. /\ b \in Chunks(s, size) /\ size \in Nat
        /\ Len(s) >= size /\ \A r \in ShortReads : r >= size
    BY <1>2, <1>3
  <2> HIDE DEF size
  <2>2. b \in Seq(Bytes) /\ q \in Seq(Bytes)
    BY <2>1, ChunkIsPrefix, RestIsSuffix
  <2>3. /\ Len(b) = size /\ Len(q) = Len(s) - size
        /\ \A i \in 1..size : b[i] = s[i]
        /\ \A i \in 1..(Len(s) - size) : q[i] = s[size + i]
    BY <2>1, ReadsFull
  <2>4. QED
    BY <2>2, <2>3 DEF size
<1> HIDE DEF m, n, g, q
<1>6. b = Frame(kind, n, n)
  <2>1. Frame(kind, n, n) \in Seq(Bytes) /\ Len(Frame(kind, n, n)) = 17
    BY <1>3, EchoType
  <2>2. \A i \in 1..17 : b[i] = Frame(kind, n, n)[i]
    <3>1. 1 \in 1..m /\ \A i \in 1..17 : i \in 1..Len(s) /\ i = 17 * (1 - 1) + i
      BY <1>2, <1>3
    <3>2. \A i \in 1..17 : s[i] = Frame(kind, f[1], f[1])[i]
      BY <1>2, <3>1, ZenonT(30)
    <3>3. QED
      BY <1>5, <3>2 DEF n
  <2>3. QED
    BY <1>5, <2>1, <2>2, SeqEqual, ZenonT(30)
<1>7. ASSUME NEW k \in 1..Len(q), NEW j \in 1..Len(g), NEW i \in 1..17,
             k = 17 * (j - 1) + i
      PROVE  q[k] = Frame(kind, g[j], g[j])[i]
  <2>1. /\ k \in 1..(Len(s) - 17) /\ 17 + k \in 1..Len(s) /\ j + 1 \in 1..m
        /\ 17 + k = 17 * ((j + 1) - 1) + i
    BY <1>2, <1>3, <1>4, <1>5, <1>7
  <2>2. s[17 + k] = Frame(kind, f[j + 1], f[j + 1])[i]
    BY <1>2, <2>1, ZenonT(30)
  <2>3. QED
    BY <1>4, <1>5, <2>1, <2>2
<1>8. IsFrames(q, kind, g)
  <2>1. Len(q) = 17 * Len(g)
    BY <1>2, <1>3, <1>4, <1>5
  <2>2. QED
    BY <1>7, <2>1 DEF IsFrames
<1>9. Framed(q, kind, d)
  BY <1>4, <1>8 DEF Framed
<1>10. QED
  BY <1>3, <1>6, <1>9 DEF q

\* A counter in the queue is followed by the block of its challenge.
LEMMA FramedPair ==
    ASSUME NEW kind \in {"rnd", "enc"}, NEW s \in Seq(Bytes), NEW d \in Nat,
           Framed(s, kind, d), NEW i \in 1..(Len(s) - 1), s[i][1] = "ctr"
    PROVE  \E n \in 1..d : s[i] = <<"ctr", n, 0>> /\ s[i + 1] = <<kind, n, 1>>
<1>1. PICK f \in Seq(1..d) : IsFrames(s, kind, f)
  BY DEF Framed
<1> DEFINE m == Len(f)
           j == ((i - 1) \div 17) + 1
           p == ((i - 1) % 17) + 1
<1>2. /\ Len(s) = 17 * m /\ m \in Nat
      /\ \A k \in 1..Len(s), l \in 1..m, e \in 1..17 :
            k = 17 * (l - 1) + e => s[k] = Frame(kind, f[l], f[l])[e]
  BY <1>1 DEF IsFrames
<1>3. i \in Nat /\ i >= 1 /\ i <= 17 * m - 1
  BY <1>2
<1>4. j \in 1..m /\ p \in 1..17 /\ i = 17 * (j - 1) + p
  <2> DEFINE x == i - 1
  <2>1. x \in Nat /\ x <= 17 * m - 2
    BY <1>3
  <2> HIDE DEF x, m
  <2>2. /\ x \div 17 \in Nat /\ x % 17 \in 0..16
        /\ x = 17 * (x \div 17) + (x % 17)
    BY <2>1
  <2>3. x \div 17 + 1 \in 1..m
    <3>1. m \in Nat
      BY <1>2
    <3> DEFINE y == x \div 17
               z == x % 17
    <3>2. y \in Nat /\ z \in 0..16 /\ x = 17 * y + z
      BY <2>2
    <3> HIDE DEF y, z
    <3>3. y + 1 \in 1..m
      BY <2>1, <3>1, <3>2
    <3>4. QED
      BY <3>3 DEF y
  <2>4. QED
    BY <1>3, <2>2, <2>3 DEF x
<1> DEFINE n == f[j]
<1> HIDE DEF j, p, m
<1>5. n \in 1..d
  BY <1>4 DEF m
<1>6. /\ s[i] = Frame(kind, n, n)[p]
      /\ p = 1 => s[i + 1] = Frame(kind, n, n)[2]
  <2>1. s[i] = Frame(kind, n, n)[p]
    BY <1>2, <1>4
  <2>2. ASSUME p = 1 PROVE s[i + 1] = Frame(kind, n, n)[2]
    <3>1. i + 1 \in 1..Len(s) /\ i + 1 = 17 * (j - 1) + 2
      BY <1>3, <1>4, <2>2
    <3>2. QED
      BY <1>2, <1>4, <3>1
  <2>3. QED
    BY <2>1, <2>2
<1> HIDE DEF n
<1>7. \A e \in 1..17 : Frame(kind, n, n)[e] = IF e = 1 THEN <<"ctr", n, 0>> ELSE <<kind, n, e - 1>>
  BY DEF Frame
<1>8. p = 1
  <2>1. ASSUME p # 1 PROVE FALSE
    <3>1. s[i] = <<kind, n, p - 1>>
      BY <1>4, <1>6, <1>7, <2>1
    <3>2. QED
      BY <3>1
  <2>2. QED
    BY <2>1
<1>9. s[i] = <<"ctr", n, 0>> /\ s[i + 1] = <<kind, n, 1>>
  <2>1. 1 \in 1..17 /\ 2 \in 1..17 /\ 2 # 1 /\ 2 - 1 = 1
    OBVIOUS
  <2>2. Frame(kind, n, n)[1] = <<"ctr", n, 0>>
    BY <1>7, <2>1
  <2>3. Frame(kind, n, n)[2] = <<kind, n, 1>>
    BY <1>7, <2>1
  <2>4. QED
    BY <1>6, <1>8, <2>2, <2>3
<1>10. QED
  BY <1>5, <1>9

-----------------------------------------------------------------------------
\* The transponder with the key can still be heard: it has not closed, or the
\* engine has not yet read all it has sent.
Live == genuine /\ (link = "closed" => toEngine # <<>>)

\* The seconds that n challenges take that nobody answers.
Spent(n) == n * PER_CHALLENGE_TIMEOUT

\* Without the key nothing is encrypted that the engine drew.
KeyInv == ~genuine => answered = {}

\* Challenges, answers and the transponder's buffer are whole frames with the
\* counter of their challenge.
FramesInv ==
    Live /\ pc \in {"challenge", "sent", "wait"} =>
        /\ Framed(toEngine, "enc", drawn) /\ Framed(toPeer, "rnd", drawn)
        /\ tpc = "delay" => \E n \in 1..drawn : frame = Frame("rnd", n, n)

\* The counter is the number of the challenge, because each one before has taken
\* its whole timeout and the total is over before the counter comes round.
CountInv ==
    /\ Live /\ pc = "challenge" =>
          Spent(drawn) <= clock - total_start /\ (drawn < 255 => counter = drawn + 1)
    /\ Live /\ pc = "sent" =>
          counter = drawn /\ Spent(drawn - 1) <= clock - total_start
    /\ Live /\ pc = "wait" =>
          /\ counter = drawn /\ wait_start <= clock
          /\ Spent(drawn - 1) <= wait_start - total_start

LEMMA SpentMore ==
    ASSUME NEW n \in Nat
    PROVE  /\ Spent(n) \in Nat /\ Spent(n + 1) = Spent(n) + PER_CHALLENGE_TIMEOUT
           /\ n >= 255 => Spent(n) >= 255 * PER_CHALLENGE_TIMEOUT
<1> DEFINE P == PER_CHALLENGE_TIMEOUT
<1>1. P \in Nat
  OBVIOUS
<1> HIDE DEF P
<1>2. n * P \in Nat /\ (n + 1) * P = n * P + P
  BY <1>1
<1>3. n >= 255 => n * P >= 255 * P
  <2>1. SUFFICES ASSUME n >= 255 PROVE n * P >= 255 * P
    OBVIOUS
  <2>2. PICK k \in Nat : n = 255 + k
    <3>1. n - 255 \in Nat /\ n = 255 + (n - 255)
      BY <2>1
    <3>2. QED
      BY <3>1
  <2>3. n * P = 255 * P + k * P /\ k * P \in Nat
    BY <1>1, <2>2
  <2>4. QED
    BY <1>1, <2>3
<1>4. QED
  BY <1>2, <1>3 DEF Spent, P

\* Once it cannot be heard, it never is again.
LEMMA LiveBefore ==
    ASSUME OnceInv, EarlyInv, [Next]_vars, Live'
    PROVE  Live
<1>1. SUFFICES ASSUME genuine, link = "closed", toEngine = <<>> PROVE FALSE
  <2>1. genuine' = genuine
    BY DEF Next, vars, transVars, TransponderNext, ConnectAndStart, ReceiveFrame,
       Respond, EngineGone, Tick, TransponderTick
  <2>2. QED
    BY <2>1 DEF Live
<1>2. tpc = "end"
  BY <1>1 DEF EarlyInv
<1>3. UNCHANGED <<link, toEngine>>
  <2>1. CASE EngineStep
    BY <1>1, <2>1 DEF EngineStep, WaitForClient, BeginWait, BrokenPipe, TotalTimeout, Return,
       StartAuthentication, ReceiveStart, Challenge17, SendChallenge, wireVars,
       ResponseAccepted, ResponseRejected, ResponseIgnored, Read, PollNothing,
       AttemptOver, NextAttempt, NextChallenge, KeepWaiting
  <2>2. ~TransponderNext
    BY <1>2 DEF TransponderNext, ConnectAndStart, ReceiveFrame, Respond, EngineGone
  <2>3. CASE Tick(InTime)
    BY <2>3 DEF Tick, wireVars
  <2>4. QED
    BY <2>1, <2>2, <2>3 DEF Next, vars, wireVars
<1>4. QED
  BY <1>1, <1>3 DEF Live

\* The answer to a whole frame is a whole frame with its counter.
LEMMA AnswerIsFrame ==
    ASSUME OnceInv, FRAME = 17, genuine, NEW n \in 1..drawn, frame = Frame("rnd", n, n),
           Respond
    PROVE  toEngine' = toEngine \o Frame("enc", n, n)
<1> DEFINE c == << <<"ctr", n, 0>> >>
           e == Block("enc", n)
<1>0. n \in Nat /\ toEngine \in Seq(Bytes)
  BY DEF OnceInv, OnceTypeOK
<1>1. Challenge = Block("rnd", n)
  <2>1. FRAME - 15 = 2
    OBVIOUS
  <2>2. Challenge = SubSeq(Frame("rnd", n, n), 2, 17)
    BY <2>1 DEF Challenge
  <2>3. QED
    BY <1>0, <2>2, FrameParts
<1>2. RandomNumber(Challenge) = n
  <2>1. Block("rnd", n)[1] = <<"rnd", n, 1>>
    BY DEF Block
  <2>2. Block("rnd", n)[1][2] = n
    BY <2>1
  <2>3. QED
    BY <1>1, <2>2 DEF RandomNumber
<1>3. Encrypted = e
  BY <1>2 DEF Encrypted
<1>4. SubSeq(frame, 1, FRAME - 16) = c
  <2>1. FRAME - 16 = 1
    OBVIOUS
  <2>2. SubSeq(frame, 1, FRAME - 16) = SubSeq(Frame("rnd", n, n), 1, 1)
    BY <2>1
  <2>3. QED
    BY <1>0, <2>2, FrameParts
<1>5. toEngine' = (toEngine \o c) \o e
  BY <1>3, <1>4 DEF Respond
<1>6. c \in Seq(Bytes) /\ e \in Seq(Bytes)
  <2>1. <<"ctr", n, 0>> \in Bytes
    BY <1>0 DEF Bytes
  <2>2. c \in Seq(Bytes)
    BY <2>1
  <2>3. e \in Seq(Bytes)
    BY <1>0, BlockType
  <2>4. QED
    BY <2>2, <2>3
<1>7. c \o e = Frame("enc", n, n)
  BY <1>0, FrameParts
<1> HIDE DEF c, e
<1>8. (toEngine \o c) \o e = toEngine \o (c \o e)
  <2>1. toEngine \in Seq(Bytes) /\ c \in Seq(Bytes) /\ e \in Seq(Bytes)
    BY <1>0, <1>6
  <2>2. QED
    BY <2>1, AppendTwo
<1>9. QED
  BY <1>5, <1>7, <1>8

\* No answer of the transponder with the key is rejected: the counter it echoes is
\* that of the challenge its block answers.
LEMMA RejectNever ==
    ASSUME WholeFrames, OnceInv, FramesInv, CountInv, Live, ResponseRejected
    PROVE  FALSE
<1>1. PICK b \in Chunks(toEngine, 17) :
         Read(b) /\ MayBeCurrent(b) /\ ~Matches(SubSeq(b, 2, 17))
  BY DEF ResponseRejected
<1>2. /\ pc = "wait" /\ toEngine # <<>> /\ toEngine \in Seq(Bytes) /\ drawn \in Nat
      /\ Framed(toEngine, "enc", drawn) /\ counter = drawn
  BY <1>1 DEF ResponseRejected, InTime, Read, OnceInv, OnceTypeOK, FramesInv, CountInv
<1>3. PICK n \in 1..drawn : b = Frame("enc", n, n)
  BY <1>2, FramedRead DEF WholeFrames
<1>4. n = counter
  <2>1. b[1] = <<"ctr", n, 0>>
    BY <1>3 DEF Frame
  <2>2. b[1][1] = "ctr" /\ b[1][2] = n
    BY <2>1
  <2>3. QED
    BY <1>1, <2>2 DEF MayBeCurrent, MayBe
<1>5. SubSeq(b, 2, 17) = Block("enc", n)
  <2>1. n \in Nat
    BY <1>2
  <2>2. SubSeq(Frame("enc", n, n), 2, 17) = Block("enc", n)
    BY <2>1, FrameParts
  <2>3. QED
    BY <1>3, <2>2
<1>6. QED
  BY <1>1, <1>2, <1>4, <1>5 DEF Matches

LEMMA EarlyStep ==
    ASSUME OnceInv, TypeOK, EarlyInv, [Next]_vars
    PROVE  EarlyInv'
<1>1. CASE EngineStep /\ UNCHANGED <<clock, transVars>>
  BY <1>1, StepIsMove, EngineMoveEarly
<1>2. CASE TransponderNext /\ UNCHANGED engineVars
  BY <1>2, TransponderEarly DEF engineVars
<1>3. CASE Tick(InTime) /\ UNCHANGED counter
  <2>1. InTime \in BOOLEAN
    BY DEF InTime
  <2>2. QED
    BY <1>3, <2>1, TickEarly
<1>4. CASE UNCHANGED vars
  BY <1>4, StutterEarly DEF vars, engineVars
<1>5. QED
  BY <1>1, <1>2, <1>3, <1>4 DEF Next

LEMMA KeyStep ==
    ASSUME OnceInv, KeyInv, [Next]_vars
    PROVE  KeyInv'
<1>1. genuine' = genuine
  BY DEF Next, vars, transVars, TransponderNext, ConnectAndStart, ReceiveFrame,
     Respond, EngineGone, Tick, TransponderTick
<1>2. ~genuine => answered' = answered
  BY DEF Next, vars, transVars, TransponderNext, ConnectAndStart, ReceiveFrame,
     Respond, EngineGone, Tick, TransponderTick
<1>3. QED
  BY <1>1, <1>2 DEF KeyInv

\* Each challenge has taken its whole timeout when the next one follows.
LEMMA CountStep ==
    ASSUME WholeFrames, OnceInv, TypeOK, EarlyInv, FramesInv, CountInv, Live,
           [Next]_vars
    PROVE  CountInv'
<1>0. /\ clock \in Nat /\ total_start \in Nat /\ wait_start \in Nat
      /\ drawn \in Nat /\ counter \in 0..255
      /\ pc \in {"sent", "wait"} => drawn > 0
  BY DEF OnceInv, OnceTypeOK, ControlInv, TypeOK
<1>1. CASE EngineStep /\ UNCHANGED <<clock, transVars>>
  <2>1. CASE pc' \notin {"challenge", "sent", "wait"}
    BY <2>1 DEF CountInv
  <2>2. CASE StartAuthentication
    <3>1. /\ drawn = 0 /\ drawn' = 0 /\ counter' = 1 /\ pc' = "challenge"
          /\ total_start' = clock /\ clock' = clock
      BY <1>1, <2>2 DEF StartAuthentication, ReceiveStart, EarlyInv
    <3>2. Spent(0) = 0
      BY DEF Spent
    <3>3. QED
      BY <1>0, <3>1, <3>2 DEF CountInv
  <2>3. CASE Challenge17
    <3>1. /\ pc = "challenge" /\ clock - total_start < TOTAL_AUTH_TIMEOUT
          /\ pc' = "sent" /\ drawn' = drawn + 1
          /\ clock' = clock /\ total_start' = total_start /\ counter' = counter
      BY <1>1, <2>3 DEF Challenge17, SendChallenge, MayChallenge
    <3>2. Spent(drawn) <= clock - total_start /\ (drawn < 255 => counter = drawn + 1)
      BY <3>1 DEF CountInv
    <3>3. drawn < 255
      BY <1>0, <3>1, <3>2, SpentMore DEF WholeFrames
    <3>4. counter' = drawn' /\ drawn' - 1 = drawn
      BY <1>0, <3>1, <3>2, <3>3
    <3>5. QED
      BY <1>0, <3>1, <3>2, <3>4 DEF CountInv
  <2>4. CASE ResponseIgnored \/ PollNothing
    <3>1. UNCHANGED <<pc, clock, counter, drawn, wait_start, total_start>>
      BY <1>1, <2>4 DEF ResponseIgnored, PollNothing, KeepWaiting
    <3>2. QED
      BY <3>1 DEF CountInv, Spent
  <2>5. ~ResponseRejected
    BY RejectNever
  <2>6. CASE AttemptOver
    <3>1. /\ pc = "wait" /\ ~InTime /\ pc' = "challenge"
          /\ counter' = IF counter = 255 THEN 1 ELSE counter + 1
          /\ UNCHANGED <<clock, drawn, total_start>>
      BY <1>1, <2>6 DEF AttemptOver, NextAttempt, NextChallenge, PeerGone, Live
    <3>2. /\ counter = drawn
          /\ Spent(drawn - 1) <= wait_start - total_start
          /\ clock - wait_start >= PER_CHALLENGE_TIMEOUT
      BY <1>0, <3>1 DEF CountInv, InTime
    <3> DEFINE m == drawn - 1
    <3>3. m \in Nat /\ drawn = m + 1
      BY <1>0, <3>1
    <3>4. Spent(m) \in Nat /\ Spent(drawn) = Spent(m) + PER_CHALLENGE_TIMEOUT
      BY <3>3, SpentMore
    <3>5. Spent(drawn) <= clock - total_start
      BY <1>0, <3>2, <3>4
    <3>6. drawn < 255 => counter' = drawn + 1
      BY <1>0, <3>1, <3>2
    <3>7. QED
      BY <3>1, <3>5, <3>6 DEF CountInv, Spent
  <2>7. CASE BeginWait /\ UNCHANGED counter
    <3>1. /\ pc = "sent" /\ pc' = "wait" /\ wait_start' = clock
          /\ UNCHANGED <<clock, drawn, total_start, counter>>
      BY <1>1, <2>7 DEF BeginWait
    <3>2. counter = drawn /\ Spent(drawn - 1) <= clock - total_start
      BY <3>1 DEF CountInv
    <3>3. QED
      BY <1>0, <3>1, <3>2 DEF CountInv, Spent
  <2>8. QED
    BY <1>1, <2>1, <2>2, <2>3, <2>4, <2>5, <2>6, <2>7
       DEF EngineStep, WaitForClient, BrokenPipe, TotalTimeout, Return, ResponseAccepted
<1>2. CASE TransponderNext /\ UNCHANGED engineVars
  <2>1. UNCHANGED <<clock, pc, counter, drawn, total_start, wait_start>>
    BY <1>2 DEF engineVars, onceVars, TransponderNext, ConnectAndStart,
       ReceiveFrame, Respond, EngineGone
  <2>2. QED
    BY <2>1 DEF CountInv, Spent
<1>3. CASE Tick(InTime) /\ UNCHANGED counter
  <2>1. clock' = clock + 1 /\ UNCHANGED <<pc, counter, drawn, total_start, wait_start>>
    BY <1>3 DEF Tick
  <2>2. Spent(drawn) \in Nat /\ Spent(drawn)' = Spent(drawn)
        /\ Spent(drawn - 1)' = Spent(drawn - 1)
    BY <1>0, <2>1, SpentMore DEF Spent
  <2>3. CASE pc = "challenge"
    BY <1>0, <2>1, <2>2, <2>3 DEF CountInv
  <2>4. CASE pc = "sent"
    <3>1. drawn - 1 \in Nat /\ Spent(drawn - 1) \in Nat
      BY <1>0, <2>4, SpentMore
    <3>2. QED
      BY <1>0, <2>1, <2>2, <2>4, <3>1 DEF CountInv
  <2>5. CASE pc = "wait"
    BY <1>0, <2>1, <2>2, <2>5 DEF CountInv
  <2>6. CASE pc \notin {"challenge", "sent", "wait"}
    BY <2>1, <2>6 DEF CountInv
  <2>7. QED
    BY <2>3, <2>4, <2>5, <2>6
<1>4. CASE UNCHANGED vars
  BY <1>4 DEF vars, engineVars, onceVars, CountInv, Spent
<1>5. QED
  BY <1>1, <1>2, <1>3, <1>4 DEF Next

\* Challenges leave and answers arrive as whole frames.
LEMMA FramesStep ==
    ASSUME WholeFrames, OnceInv, TypeOK, EarlyInv, FramesInv, CountInv, Live,
           [Next]_vars
    PROVE  FramesInv'
<1>0. /\ toEngine \in Seq(Bytes) /\ toPeer \in Seq(Bytes) /\ frame \in Seq(Bytes)
      /\ drawn \in Nat /\ counter \in 0..255 /\ genuine /\ FRAME = 17
      /\ \A r \in ShortReads : r >= 17
  BY DEF OnceInv, OnceTypeOK, TypeOK, Live, WholeFrames
<1>1. CASE EngineStep /\ UNCHANGED <<clock, transVars>>
  <2>0. UNCHANGED <<tpc, frame>>
    BY <1>1 DEF transVars
  <2>1. CASE pc' \notin {"challenge", "sent", "wait"}
    BY <2>1 DEF FramesInv
  <2>2. CASE StartAuthentication
    <3>1. /\ toPeer' = <<>> /\ drawn' = 0 /\ tpc # "delay"
      BY <2>2 DEF StartAuthentication, ReceiveStart, EarlyInv
    <3>2. toEngine' = <<>>
      <4>1. \A r \in ShortReads : r >= 16
        BY <1>0, ShortReadsAssumption
      <4>2. QED
        BY <2>2, <4>1, StartIsRead DEF StartAuthentication
    <3>3. QED
      BY <2>0, <3>1, <3>2, FramedEmpty DEF FramesInv
  <2>3. CASE Challenge17
    <3> DEFINE d == drawn + 1
    <3>1. /\ pc = "challenge" /\ drawn' = d /\ toEngine' = toEngine
          /\ toPeer' = toPeer \o Frame("rnd", counter, d)
      BY <2>3 DEF Challenge17, SendChallenge, MayChallenge
    <3>2. counter = d
      <4>1. CountInv'
        BY CountStep
      <4>2. pc' = "sent" /\ UNCHANGED <<counter, genuine, link, toEngine>>
        BY <1>1, <2>3 DEF Challenge17, SendChallenge, transVars
      <4>3. Live'
        BY <4>2 DEF Live
      <4>4. QED
        BY <3>1, <4>1, <4>2, <4>3 DEF CountInv
    <3>3. d \in Nat /\ drawn <= d /\ d \in 1..d
      BY <1>0
    <3>4. /\ Framed(toEngine, "enc", drawn) /\ Framed(toPeer, "rnd", drawn)
          /\ tpc = "delay" => \E n \in 1..drawn : frame = Frame("rnd", n, n)
      BY <3>1 DEF FramesInv
    <3>5. 1..drawn \subseteq 1..d
      BY <1>0
    <3> HIDE DEF d
    <3>6. Framed(toEngine, "enc", d) /\ Framed(toPeer, "rnd", d)
      BY <1>0, <3>3, <3>4, FramedMore
    <3>7. Framed(toPeer \o Frame("rnd", d, d), "rnd", d)
      BY <1>0, <3>3, <3>6, FramedAppend
    <3>8. Framed(toPeer', "rnd", drawn') /\ Framed(toEngine', "enc", drawn')
      BY <3>1, <3>2, <3>6, <3>7
    <3>9. tpc' = "delay" => \E n \in 1..drawn' : frame' = Frame("rnd", n, n)
      BY <2>0, <3>1, <3>4, <3>5
    <3>10. QED
      BY <3>8, <3>9 DEF FramesInv
  <2>4. CASE ResponseIgnored
    <3>1. PICK b \in Chunks(toEngine, 17) : Read(b)
      BY <2>4 DEF ResponseIgnored
    <3>2. /\ pc = "wait" /\ toEngine # <<>> /\ toEngine' = Rest(toEngine, b)
          /\ UNCHANGED <<toPeer, drawn, tpc, frame>>
      BY <2>0, <2>4, <3>1 DEF ResponseIgnored, InTime, Read, KeepWaiting
    <3>3. /\ Framed(toEngine, "enc", drawn) /\ Framed(toPeer, "rnd", drawn)
          /\ tpc = "delay" => \E n \in 1..drawn : frame = Frame("rnd", n, n)
      BY <3>2 DEF FramesInv
    <3>4. Framed(Rest(toEngine, b), "enc", drawn)
      BY <1>0, <3>2, <3>3, FramedRead
    <3>5. Framed(toEngine', "enc", drawn') /\ Framed(toPeer', "rnd", drawn')
      BY <3>2, <3>3, <3>4
    <3>6. QED
      BY <3>2, <3>3, <3>5 DEF FramesInv
  <2>5. ~ResponseRejected
    BY RejectNever
  <2>6. CASE PollNothing \/ AttemptOver
    <3>1. pc = "wait" /\ UNCHANGED <<toEngine, toPeer, drawn, tpc, frame>>
      BY <2>0, <2>6 DEF PollNothing, InTime, KeepWaiting, AttemptOver, NextAttempt,
         NextChallenge
    <3>2. QED
      BY <3>1 DEF FramesInv, Framed, IsFrames
  <2>7. CASE BeginWait
    <3>1. pc = "sent" /\ UNCHANGED <<toEngine, toPeer, drawn, tpc, frame>>
      BY <2>0, <2>7 DEF BeginWait, wireVars
    <3>2. QED
      BY <3>1 DEF FramesInv, Framed, IsFrames
  <2>8. QED
    BY <1>1, <2>1, <2>2, <2>3, <2>4, <2>5, <2>6, <2>7
       DEF EngineStep, WaitForClient, BrokenPipe, TotalTimeout, Return, ResponseAccepted
<1>2. CASE TransponderNext /\ UNCHANGED engineVars
  <2>0. UNCHANGED <<pc, drawn>>
    BY <1>2 DEF engineVars, onceVars
  <2> SUFFICES ASSUME pc \in {"challenge", "sent", "wait"}
               PROVE  /\ Framed(toEngine', "enc", drawn) /\ Framed(toPeer', "rnd", drawn)
                      /\ tpc' = "delay" => \E n \in 1..drawn : frame' = Frame("rnd", n, n)
    BY <2>0 DEF FramesInv
  <2>1. /\ Framed(toEngine, "enc", drawn) /\ Framed(toPeer, "rnd", drawn)
        /\ tpc = "delay" => \E n \in 1..drawn : frame = Frame("rnd", n, n)
    BY DEF FramesInv
  <2>2. CASE ReceiveFrame
    <3> DEFINE size == 17
    <3>1. PICK b \in Chunks(toPeer, size) :
             /\ toPeer' = Rest(toPeer, b)
             /\ frame' = b \o SubSeq(frame, Len(b) + 1, size)
      BY <1>0, <2>2 DEF ReceiveFrame
    <3>2. toPeer # <<>> /\ toEngine' = toEngine
      BY <2>2 DEF ReceiveFrame
    <3>3. Framed(toPeer', "rnd", drawn) /\ \E n \in 1..drawn : b = Frame("rnd", n, n)
      BY <1>0, <2>1, <3>1, <3>2, FramedRead
    <3>4. PICK n \in 1..drawn : b = Frame("rnd", n, n)
      BY <3>3
    <3>5. b \in Seq(Bytes) /\ Len(b) = 17
      <4>1. n \in Nat
        BY <1>0
      <4>2. QED
        BY <3>4, <4>1, EchoType
    <3>6. SubSeq(frame, Len(b) + 1, size) = <<>>
      <4>1. Len(b) + 1 \in Int /\ size \in Int /\ size < Len(b) + 1
        BY <3>5
      <4>2. QED
        BY <4>1, SubSeqEmpty
    <3>7. frame' = b
      BY <3>1, <3>5, <3>6, ConcatEmptySeq
    <3>8. QED
      BY <2>1, <3>2, <3>3, <3>4, <3>7
  <2>3. CASE Respond
    <3>1. tpc = "delay" /\ tpc' # "delay" /\ toPeer' = toPeer
      BY <2>3 DEF Respond
    <3>2. PICK n \in 1..drawn : frame = Frame("rnd", n, n)
      BY <2>1, <3>1
    <3>3. toEngine' = toEngine \o Frame("enc", n, n)
      BY <1>0, <2>3, <3>2, AnswerIsFrame
    <3>4. Framed(toEngine', "enc", drawn)
      BY <1>0, <2>1, <3>3, FramedAppend
    <3>5. QED
      BY <2>1, <3>1, <3>4
  <2>4. ~ConnectAndStart
    BY DEF EarlyInv, ConnectAndStart
  <2>5. CASE EngineGone
    BY <2>1, <2>5 DEF EngineGone
  <2>6. QED
    BY <1>2, <2>2, <2>3, <2>4, <2>5 DEF TransponderNext
<1>3. CASE (Tick(InTime) /\ UNCHANGED counter) \/ UNCHANGED vars
  <2>1. UNCHANGED <<pc, drawn, toEngine, toPeer, tpc, frame, genuine, link>>
    BY <1>3 DEF Tick, TransponderTick, wireVars, vars, engineVars, onceVars, transVars
  <2>2. QED
    BY <2>1 DEF FramesInv, Framed, IsFrames, Live
<1>4. QED
  BY <1>1, <1>2, <1>3 DEF Next

\* The inductive invariant of the counter.
CounterInv == OnceInv /\ TypeOK /\ EarlyInv /\ KeyInv /\ FramesInv /\ CountInv

LEMMA CounterInvInit == Init => CounterInv
<1> SUFFICES ASSUME Init PROVE CounterInv
  OBVIOUS
<1>1. OnceInv /\ TypeOK /\ EarlyInv
  BY InitKeeps, InitEarly DEF Init
<1>2. answered = {} /\ pc = "accept"
  BY DEF Init, TransponderInit, EngineInit
<1>3. QED
  BY <1>1, <1>2 DEF CounterInv, KeyInv, FramesInv, CountInv

LEMMA CounterInvStep ==
    ASSUME WholeFrames, CounterInv, [Next]_vars
    PROVE  CounterInv'
<1> USE DEF CounterInv
<1>1. OnceInv' /\ TypeOK' /\ EarlyInv' /\ KeyInv'
  BY StepKeeps, EarlyStep, KeyStep
<1>2. CASE Live'
  BY <1>1, <1>2, LiveBefore, FramesStep, CountStep
<1>3. CASE ~Live'
  BY <1>1, <1>3 DEF FramesInv, CountInv
<1>4. QED
  BY <1>2, <1>3

\* Without the key no byte is encrypted that the engine drew; with it each counter
\* is the number of the challenge and stands before its block.
LEMMA CounterInvNames ==
    ASSUME CounterInv
    PROVE  CounterNamesChallenge
<1> SUFFICES ASSUME pc = "wait", NEW i \in 1..(Len(toEngine) - 1),
                    toEngine[i][1] = "ctr", toEngine[i + 1][1] = "enc",
                    toEngine[i + 1][2] # 0
             PROVE  toEngine[i][2] = counter <=> toEngine[i + 1][2] = drawn
  BY DEF CounterNamesChallenge
<1>0. toEngine \in Seq(Bytes) /\ drawn \in Nat /\ i + 1 \in 1..Len(toEngine)
  BY DEF CounterInv, OnceInv, OnceTypeOK
<1>1. genuine
  BY <1>0 DEF CounterInv, KeyInv, OnceInv, KnowledgeInv, Genuine
<1>2. Live
  BY <1>0, <1>1 DEF Live
<1>3. Framed(toEngine, "enc", drawn) /\ counter = drawn
  BY <1>2 DEF CounterInv, FramesInv, CountInv
<1>4. PICK n \in 1..drawn :
         toEngine[i] = <<"ctr", n, 0>> /\ toEngine[i + 1] = <<"enc", n, 1>>
  BY <1>0, <1>3, FramedPair
<1>5. toEngine[i][2] = n /\ toEngine[i + 1][2] = n
  BY <1>4
<1>6. QED
  BY <1>3, <1>5

\* While frames are received whole and the total timeout is over before the counter
\* comes round, a counter names one challenge (04_engine_ignore.c:120 and :193).
THEOREM CounterNames ==
    ASSUME WholeFrames
    PROVE  Spec => []CounterNamesChallenge
<1>1. CounterInv /\ [Next]_vars => CounterInv'
  BY CounterInvStep
<1>2. QED
  BY <1>1, CounterInvInit, CounterInvNames, PTL DEF Spec

\* Then an answer that comes too late leaves the current challenge all its time
\* (04_engine_ignore.c:120-123).
THEOREM LateAnswerFree ==
    ASSUME WholeFrames
    PROVE  Spec => LateAnswerCostsNothing
<1>1. CounterInv /\ [Next]_vars => CounterInv'
  BY CounterInvStep
<1>2. ASSUME CounterInv, [Next]_vars,
             pc = "wait", pc' = "challenge", genuine, link = "open"
      PROVE  clock - wait_start >= PER_CHALLENGE_TIMEOUT
  <2>1. EngineStep
    BY <1>2 DEF Next, vars, engineVars, onceVars, Tick
  <2>2. ~ResponseRejected
    <3>1. Live
      BY <1>2 DEF Live
    <3>2. QED
      BY <1>2, <3>1, RejectNever DEF CounterInv
  <2>3. AttemptOver
    BY <1>2, <2>1, <2>2 DEF EngineStep, WaitForClient, BeginWait, BrokenPipe, MayChallenge,
       TotalTimeout, StartAuthentication, ReceiveStart, Challenge17, SendChallenge,
       ResponseAccepted, Return, ResponseIgnored, PollNothing, KeepWaiting
  <2>4. clock \in Nat /\ wait_start \in Nat
    BY <1>2 DEF CounterInv, OnceInv, OnceTypeOK
  <2>5. QED
    BY <1>2, <2>3, <2>4 DEF AttemptOver, InTime, PeerGone
<1>3. QED
  BY <1>1, <1>2, CounterInvInit, PTL DEF Spec, LateAnswerCostsNothing
=============================================================================
