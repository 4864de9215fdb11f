--------------------------- MODULE EngineL2_proofs ---------------------------
(***************************************************************************)
(* Proofs about the engine ECU of level 2, Engine_ecu_l2_s.c.              *)
(***************************************************************************)
EXTENDS EngineL2, EngineOnce_proofs

USE TransponderAssumption, TimeoutsAssumption

\* A verdict is text.
LEMMA VerdictSent ==
    ASSUME NEW r \in {"success", "denied"}, NEW d \in Nat
    PROVE  Verdict(r) \in Seq(Bytes) /\ SentBy(Verdict(r), d)
<1> DEFINE n == IF r = "success" THEN 7 ELSE 4
           v == Verdict(r)
<1>1. n \in Nat /\ v = [i \in 1..n |-> <<"txt", 0, i>>]
  BY DEF Verdict
<1>2. \A i \in 1..n : <<"txt", 0, i>> \in Bytes
  BY DEF Bytes
<1> HIDE DEF n, v
<1>3. v \in Seq(Bytes) /\ Len(v) = n /\ \A i \in 1..n : v[i] = <<"txt", 0, i>>
  BY <1>1, <1>2
<1>4. SentBy(v, d)
  BY <1>3 DEF SentBy
<1>5. QED
  BY <1>3, <1>4 DEF v

\* Every step of the engine is one of those EngineOnce_proofs speaks of.
LEMMA StepIsMove ==
    ASSUME OnceInv, TypeOK, EngineStep, UNCHANGED <<clock, transVars>>
    PROVE  EngineMove /\ eagain' \in BOOLEAN
<1>0. /\ toEngine \in Seq(Bytes) /\ Genuine(toEngine, answered) /\ drawn \in Nat
      /\ pc \in {"sent", "wait"} => drawn > 0
      /\ eagain \in BOOLEAN
  BY DEF OnceInv, OnceTypeOK, KnowledgeInv, ControlInv, TypeOK
<1>D. ASSUME NEW r \in {"success", "denied"}, Decide(r)
      PROVE  Return(r) /\ Sends
  <2>1. drawn' = drawn /\ Return(r) /\ toPeer' = toPeer \o Verdict(r)
    BY <1>D DEF Decide, Return
  <2>2. Verdict(r) \in Seq(Bytes) /\ SentBy(Verdict(r), drawn')
    BY <1>0, <2>1, VerdictSent
  <2>3. QED
    BY <2>1, <2>2 DEF Sends
<1>R. ASSUME NEW b \in Chunks(toEngine, 16), Read(b) PROVE Reads
  BY <1>R DEF Read, Reads
<1> USE DEF EngineMove
<1>1. CASE (WaitForClient \/ BeginWait \/ BrokenPipe) /\ UNCHANGED eagain
  BY <1>0, <1>1 DEF WaitForClient, BeginWait, BrokenPipe, wireVars, Reads, Sends
<1>2. CASE ReceiveStart /\ UNCHANGED eagain
  BY <1>0, <1>2 DEF ReceiveStart, Reads, Sends
<1>3. CASE Challenge16
  <2> DEFINE bytes == Block("rnd", drawn + 1)
  <2>0. drawn + 1 \in Nat
    BY <1>0
  <2>1. bytes \in Seq(Bytes) /\ SentBy(bytes, drawn + 1)
    BY <2>0, BlockType, BlockSentBy
  <2> HIDE DEF bytes
  <2>2. SendChallenge(bytes) /\ eagain' = eagain
    BY <1>3 DEF Challenge16, bytes
  <2>3. drawn' = drawn + 1 /\ toPeer' = toPeer \o bytes /\ toEngine' = toEngine
    BY <2>2 DEF SendChallenge
  <2>4. QED
    BY <1>0, <2>1, <2>2, <2>3 DEF Reads, Sends
<1>4. CASE SendFails
  BY <1>0, <1>4, <1>D DEF SendFails, MayChallenge, Reads
<1>5. CASE Timeout
  <2>1. Decide("denied") /\ pc = "challenge" /\ UNCHANGED <<toEngine, eagain>>
    BY <1>5 DEF Timeout, TotalTimeout, Decide
  <2>2. QED
    BY <1>0, <2>1, <1>D DEF Reads
<1>6. CASE ResponseAccepted
  <2>1. PICK b \in Chunks(toEngine, 16) : Read(b) /\ Matches(b)
    BY <1>6 DEF ResponseAccepted
  <2>2. pc = "wait" /\ Decide("success") /\ UNCHANGED eagain
    BY <1>6 DEF ResponseAccepted, Waiting, InTime
  <2>3. drawn \in answered
    BY <1>0, <2>1, <2>2, BlockIsGenuine DEF Matches
  <2>4. QED
    BY <1>0, <2>1, <2>2, <2>3, <1>D, <1>R
<1>7. CASE ResponseWrong \/ ShortFatal
  BY <1>0, <1>7, <1>D, <1>R DEF ResponseWrong, ShortFatal, Waiting, InTime
<1>8. CASE ShortDropped
  BY <1>0, <1>8, <1>R DEF ShortDropped, Waiting, InTime, KeepWaiting, Sends
<1>9. CASE PollNothing
  BY <1>9 DEF PollNothing, Waiting, InTime, KeepWaiting, Reads, Sends
<1>10. CASE ClosedUnexpectedly
  BY <1>0, <1>10, <1>D DEF ClosedUnexpectedly, Waiting, InTime, Reads
<1>11. CASE AttemptOver
  BY <1>0, <1>11 DEF AttemptOver, NextChallenge, Reads, Sends
<1>12. QED
  BY <1>1, <1>2, <1>3, <1>4, <1>5, <1>6, <1>7, <1>8, <1>9, <1>10, <1>11
     DEF EngineStep

\* What is sent to the transponder stays letters as letters and random bytes are added
\* to it and as it is read.
LEMMA LettersAppend ==
    ASSUME NEW s \in Seq(Bytes), NEW t \in Seq(Bytes), Letters(s), Letters(t)
    PROVE  Letters(s \o t)
BY DEF Letters

LEMMA LettersRest ==
    ASSUME NEW s \in Seq(Bytes), NEW b \in Chunks(s, FRAME), Letters(s)
    PROVE  Letters(Rest(s, b))
<1>1. Len(b) \in 0..Len(s)
  BY ChunkIsPrefix
<1>2. QED
  BY <1>1 DEF Letters, Rest

LEMMA LettersEngine ==
    ASSUME OnceInv, TypeOK, EngineStep
    PROVE  Letters(toPeer')
<1>0. toPeer \in Seq(Bytes) /\ Letters(toPeer) /\ drawn + 1 \in Nat
  BY DEF TypeOK, OnceTypeOK
<1>1. ASSUME NEW r \in {"success", "denied"}, toPeer' = toPeer \o Verdict(r)
      PROVE  Letters(toPeer')
  <2>1. Verdict(r) \in Seq(Bytes)
    BY VerdictSent
  <2>2. Letters(Verdict(r))
    BY DEF Letters, Verdict
  <2>3. QED
    BY <1>0, <1>1, <2>1, <2>2, LettersAppend
<1>2. CASE Challenge16
  <2>1. Block("rnd", drawn + 1) \in Seq(Bytes)
    BY <1>0, BlockType
  <2>2. Letters(Block("rnd", drawn + 1))
    BY DEF Letters, Block
  <2>3. QED
    BY <1>0, <1>2, <2>1, <2>2, LettersAppend DEF Challenge16, SendChallenge
<1>3. CASE toPeer' = toPeer
  BY <1>0, <1>3
<1>4. QED
  BY <1>1, <1>2, <1>3
     DEF EngineStep, WaitForClient, ReceiveStart, BeginWait, BrokenPipe, SendFails,
         Timeout, ResponseAccepted, ResponseWrong, ShortDropped, ShortFatal,
         PollNothing, ClosedUnexpectedly, AttemptOver, NextChallenge, KeepWaiting,
         Decide, wireVars

LEMMA LettersTransponder ==
    ASSUME TypeOK, TransponderNext
    PROVE  Letters(toPeer')
<1>0. toPeer \in Seq(Bytes) /\ Letters(toPeer)
  BY DEF TypeOK, OnceTypeOK
<1>1. CASE ReceiveFrame
  BY <1>0, <1>1, LettersRest DEF ReceiveFrame
<1>2. CASE toPeer' = toPeer
  BY <1>0, <1>2
<1>3. QED
  BY <1>1, <1>2 DEF TransponderNext, ConnectAndStart, Respond, EngineGone

LEMMA StepKeeps ==
    ASSUME OnceInv, TypeOK, [Next]_vars
    PROVE  OnceInv' /\ TypeOK' /\ [Promise!Next]_Promise!vars
<1>1. CASE EngineStep /\ UNCHANGED <<clock, transVars>>
  BY <1>1, StepIsMove, EngineMoveKeeps, EngineMovePromise, LettersEngine
     DEF TypeOK, OnceInv
<1>2. CASE TransponderNext /\ UNCHANGED engineVars
  BY <1>2, TransponderStep, TransponderPromise, LettersTransponder
     DEF engineVars, TypeOK, OnceInv
<1>3. CASE Tick(Waiting) /\ UNCHANGED eagain
  <2>1. Waiting \in BOOLEAN
    BY DEF Waiting
  <2>2. QED
    BY <1>3, <2>1, TickStep, TickPromise DEF TypeOK, OnceInv, Tick, wireVars
<1>4. CASE UNCHANGED vars
  <2>1. UNCHANGED <<eagain, toPeer>>
    BY <1>4 DEF vars, engineVars, wireVars
  <2>2. OnceInv' /\ [Promise!Next]_Promise!vars
    BY <1>4, StutterStep DEF vars, engineVars
  <2>3. QED
    BY <2>1, <2>2 DEF TypeOK, OnceInv, Letters
<1>5. QED
  BY <1>1, <1>2, <1>3, <1>4 DEF Next

LEMMA InitKeeps == Init => OnceInv /\ TypeOK /\ Promise!Init
<1>1. SUFFICES ASSUME Init PROVE OnceInv /\ TypeOK /\ Promise!Init
  OBVIOUS
<1>2. OnceInv /\ Promise!Init
  BY <1>1, InitOnce DEF Init
<1>3. toPeer = <<>> /\ eagain = FALSE
  BY <1>1 DEF Init, TransponderInit
<1>4. Letters(toPeer)
  BY <1>3 DEF Letters
<1>5. QED
  BY <1>2, <1>3, <1>4 DEF TypeOK, OnceInv

LEMMA SharedInductive == Spec => [](OnceInv /\ TypeOK)
<1>1. OnceInv /\ TypeOK /\ [Next]_vars => (OnceInv /\ TypeOK)'
  BY StepKeeps
<1>2. QED
  BY InitKeeps, <1>1, PTL DEF Spec

\* Every variable always has its type.
THEOREM TypeCorrect == Spec => []TypeOK
BY SharedInductive, PTL

\* What Engine_ecu_l2_s.c promises: "SUCCESS" only by an answer to the open challenge,
\* made with the key.
THEOREM Refinement == Spec => ImplementsImmobilizer
<1>1. Init => Promise!Init
  BY InitKeeps
<1>2. OnceInv /\ TypeOK /\ [Next]_vars => [Promise!Next]_Promise!vars
  BY StepKeeps
<1>3. QED
  BY SharedInductive, <1>1, <1>2, PTL DEF Spec, ImplementsImmobilizer, Promise!Spec

-----------------------------------------------------------------------------
\* A second at least passes before the engine notices that the time is up.
LateAtTimeout == IF Slack = 0 THEN 1 ELSE Slack

\* How far the clock can be, and how late the engine, at each step of an
\* authentication: by what the engine is late at it and may have been late at those
\* before it since the last challenge, that much at most the total timeout is over.
TimingInv ==
    /\ pc = "sent" =>
          late <= Slack /\ clock - total_start < TOTAL_AUTH_TIMEOUT + late
    /\ pc = "wait" =>
          /\ late <= LateAtTimeout
          /\ clock - total_start < TOTAL_AUTH_TIMEOUT + Slack + late
    /\ pc = "challenge" =>
          /\ late <= Slack
          /\ clock - total_start < TOTAL_AUTH_TIMEOUT + Slack + LateAtTimeout + late

LEMMA TimingStep ==
    ASSUME TypeOK, TimingInv, [Next]_vars
    PROVE  TimingInv'
<1>0. /\ clock \in Nat /\ late \in Nat /\ total_start \in Nat /\ wait_start \in Nat
      /\ Slack \in Nat
  BY DEF TypeOK, OnceTypeOK
<1> USE DEF TimingInv, LateAtTimeout
<1>1. CASE EngineStep /\ UNCHANGED <<clock, transVars>>
  <2>1. CASE pc' \notin {"challenge", "sent", "wait"}
    BY <2>1
  <2>2. CASE ReceiveStart
    BY <1>0, <1>1, <2>2 DEF ReceiveStart
  <2>3. CASE Challenge16
    BY <1>0, <1>1, <2>3 DEF Challenge16, SendChallenge, MayChallenge
  <2>4. CASE ShortDropped \/ PollNothing
    BY <1>0, <1>1, <2>4 DEF ShortDropped, PollNothing, KeepWaiting, Waiting, InTime
  <2>5. CASE AttemptOver
    BY <1>0, <1>1, <2>5 DEF AttemptOver, NextChallenge
  <2>6. CASE BeginWait
    BY <1>0, <1>1, <2>6 DEF BeginWait
  <2>7. QED
    BY <1>1, <2>1, <2>2, <2>3, <2>4, <2>5, <2>6
       DEF EngineStep, WaitForClient, BrokenPipe, SendFails, Timeout, TotalTimeout,
           ResponseAccepted, ResponseWrong, ShortFatal, ClosedUnexpectedly, Decide,
           Return
<1>2. CASE TransponderNext /\ UNCHANGED engineVars
  <2>1. UNCHANGED <<clock, pc, late, total_start>>
    BY <1>2 DEF engineVars, onceVars, TransponderNext, ConnectAndStart,
       ReceiveFrame, Respond, EngineGone
  <2>2. QED
    BY <2>1
<1>3. CASE Tick(Waiting) /\ UNCHANGED eagain
  BY <1>0, <1>3 DEF Tick, EngineReady, Waiting, InTime
<1>4. CASE UNCHANGED vars
  BY <1>4 DEF vars, engineVars, onceVars
<1>5. QED
  BY <1>1, <1>2, <1>3, <1>4 DEF Next

\* The verdict comes within the total timeout and the lateness of three steps,
\* whatever is received (Engine_ecu_l2_s.c:218).
THEOREM DecidedInTime == Spec => []DecidedInTotal
<1>1. Init => TimingInv
  BY DEF Init, EngineInit, TimingInv
<1>2. TypeOK /\ TimingInv /\ [Next]_vars => TimingInv'
  BY TimingStep
<1>3. TypeOK /\ TimingInv => DecidedInTotal
  BY DEF TypeOK, OnceTypeOK, TimingInv, LateAtTimeout, DecidedInTotal,
         LongestAuthentication
<1>4. QED
  BY TypeCorrect, <1>1, <1>2, <1>3, PTL DEF Spec

-----------------------------------------------------------------------------
\* No recv() is cut short within a message, and the wait for an answer takes longer
\* than the second that a poll may be late.  (When answers are torn, every poll of
\* a part may be a second late, and the wait can end before the queue does.)
WholeAnswers ==
    (\A r \in ShortReads : r >= 16) /\ PER_CHALLENGE_TIMEOUT >= 2

\* The queue holds whole answers; since the engine has sent to a closed
\* transponder, the wait is as old as the engine is late: no poll has prolonged it.
ResetInv ==
    /\ pc \in {"challenge", "sent", "wait"} =>
          toEngine = <<>> \/ Len(toEngine) >= 16
    /\ reset => link = "closed"
    /\ reset /\ pc = "challenge" => clock - total_start >= TOTAL_AUTH_TIMEOUT
    /\ reset /\ pc = "wait" =>
          /\ clock = wait_start + late
          /\ late <= 1 \/ clock - total_start >= TOTAL_AUTH_TIMEOUT

LEMMA AnswerIsLong ==
    ASSUME OnceInv, Respond
    PROVE  Len(toEngine') >= 16
<1> DEFINE h == SubSeq(frame, 1, FRAME - 16)
           e == Encrypted
<1>1. toEngine \in Seq(Bytes) /\ h \in Seq(Bytes)
  <2>1. /\ 1 \in Nat \ {0} /\ FRAME - 16 \in 0..Len(frame)
        /\ SentBy(frame, drawn) /\ frame \in Seq(Bytes)
    BY DEF OnceInv, OnceTypeOK, KnowledgeInv
  <2>2. QED
    BY <2>1, SentBySlice DEF OnceInv, OnceTypeOK
<1>2. e \in Seq(Bytes) /\ Len(e) = 16
  <2>1. RandomNumber(Challenge) \in Nat
    BY RandomNumberDrawn DEF OnceInv, OnceTypeOK
  <2>2. (IF genuine THEN RandomNumber(Challenge) ELSE 0) \in Nat
    BY <2>1
  <2>3. QED
    BY <2>2, BlockType DEF Encrypted
<1>3. toEngine' = (toEngine \o h) \o e
  BY DEF Respond
<1> HIDE DEF h, e
<1>4. toEngine \o h \in Seq(Bytes)
  BY <1>1
<1>5. /\ (toEngine \o h) \o e \in Seq(Bytes)
      /\ Len((toEngine \o h) \o e) = Len(toEngine \o h) + Len(e)
  BY <1>2, <1>4, ConcatProperties
<1>6. QED
  BY <1>2, <1>3, <1>4, <1>5

LEMMA ResetStep ==
    ASSUME WholeAnswers, OnceInv, TypeOK, EarlyInv, ResetInv, [Next]_vars
    PROVE  ResetInv'
<1>0. /\ clock \in Nat /\ late \in Nat /\ total_start \in Nat /\ wait_start \in Nat
      /\ toEngine \in Seq(Bytes) /\ reset \in BOOLEAN
  BY DEF TypeOK, OnceTypeOK
<1> USE DEF ResetInv
<1>1. CASE EngineStep /\ UNCHANGED <<clock, transVars>>
  <2>1. CASE pc' \notin {"challenge", "sent", "wait"} /\ link' = link /\ reset' = reset
    BY <2>1
  <2>2. CASE ReceiveStart
    <3>1. toEngine' = <<>> /\ ~reset
      BY <2>2, StartIsRead DEF WholeAnswers, ReceiveStart, EarlyInv
    <3>2. QED
      BY <2>2, <3>1 DEF ReceiveStart
  <2>3. CASE Challenge16
    BY <1>0, <1>1, <2>3 DEF Challenge16, SendChallenge, MayChallenge
  <2>4. CASE ShortDropped
    <3>1. PICK b \in Chunks(toEngine, 16) : Read(b) /\ Len(b) < 16
      BY <2>4 DEF ShortDropped
    <3>2. Len(toEngine) >= 16
      BY <2>4, <3>1 DEF ShortDropped, Waiting, InTime, Read
    <3> DEFINE size == 16
    <3>3. /\ b \in Chunks(toEngine, size) /\ size \in Nat /\ Len(toEngine) >= size
          /\ \A r \in ShortReads : r >= size
      BY <3>1, <3>2 DEF WholeAnswers
    <3> HIDE DEF size
    <3>4. Len(b) = size
      BY <1>0, <3>3, ReadsFull
    <3>5. QED
      BY <3>1, <3>4 DEF size
  <2>5. CASE PollNothing
    BY <2>5 DEF PollNothing, NothingToRead, KeepWaiting
  <2>6. CASE AttemptOver
    <3>1. /\ pc = "wait" /\ ~Waiting
          /\ pc' = "challenge" /\ UNCHANGED <<clock, link, reset, toEngine, total_start>>
      BY <1>1, <2>6 DEF AttemptOver, NextChallenge
    <3>2. reset => clock - total_start >= TOTAL_AUTH_TIMEOUT
      BY <1>0, <3>1 DEF Waiting, InTime, WholeAnswers
    <3>3. QED
      BY <3>1, <3>2
  <2>7. CASE BeginWait
    BY <1>0, <1>1, <2>7 DEF BeginWait, wireVars
  <2>8. QED
    BY <1>1, <2>1, <2>2, <2>3, <2>4, <2>5, <2>6, <2>7
       DEF EngineStep, WaitForClient, BrokenPipe, SendFails, Timeout, TotalTimeout,
           ResponseAccepted, ResponseWrong, ShortFatal, ClosedUnexpectedly, Decide,
           Return, wireVars
<1>2. CASE TransponderNext /\ UNCHANGED engineVars
  <2>1. ~reset
    BY <1>2 DEF EarlyInv, TransponderNext, ConnectAndStart, ReceiveFrame, Respond,
       EngineGone
  <2>2. ~reset' /\ UNCHANGED pc
    BY <1>2, <2>1 DEF engineVars, onceVars, TransponderNext, ConnectAndStart,
       ReceiveFrame, Respond, EngineGone
  <2>3. ASSUME pc \in {"challenge", "sent", "wait"}
        PROVE  toEngine' = <<>> \/ Len(toEngine') >= 16
    <3>1. CASE Respond
      BY <3>1, AnswerIsLong
    <3>2. ~ConnectAndStart
      BY <2>3 DEF EarlyInv, ConnectAndStart
    <3>3. CASE ReceiveFrame \/ EngineGone
      BY <2>3, <3>3 DEF ReceiveFrame, EngineGone
    <3>4. QED
      BY <1>2, <3>1, <3>2, <3>3 DEF TransponderNext
  <2>4. QED
    BY <2>2, <2>3
<1>3. CASE Tick(Waiting) /\ UNCHANGED eagain
  <2>1. /\ clock' = clock + 1 /\ UNCHANGED <<pc, total_start, wait_start>>
        /\ UNCHANGED <<link, reset, toEngine>>
    BY <1>3 DEF Tick, wireVars
  <2>2. CASE pc \in {"challenge", "sent"}
    BY <1>0, <2>1, <2>2
  <2>3. CASE pc = "wait"
    <3>1. late' = late + 1 /\ (Waiting => late < 1)
      BY <1>3, <2>3 DEF Tick, EngineReady
    <3>2. QED
      BY <1>0, <2>1, <2>3, <3>1 DEF Waiting, InTime, WholeAnswers
  <2>4. CASE pc \notin {"challenge", "sent", "wait"}
    BY <2>1, <2>4
  <2>5. QED
    BY <2>2, <2>3, <2>4
<1>4. CASE UNCHANGED vars
  BY <1>4 DEF vars, engineVars, onceVars, wireVars
<1>5. QED
  BY <1>1, <1>2, <1>3, <1>4 DEF Next

LEMMA EarlyStep ==
    ASSUME OnceInv, TypeOK, EarlyInv, [Next]_vars
    PROVE  EarlyInv'
<1>1. CASE EngineStep /\ UNCHANGED <<clock, transVars>>
  BY <1>1, StepIsMove, EngineMoveEarly
<1>2. CASE TransponderNext /\ UNCHANGED engineVars
  BY <1>2, TransponderEarly DEF engineVars
<1>3. CASE Tick(Waiting) /\ UNCHANGED eagain
  <2>1. Waiting \in BOOLEAN
    BY DEF Waiting
  <2>2. QED
    BY <1>3, <2>1, TickEarly
<1>4. CASE UNCHANGED vars
  BY <1>4, StutterEarly DEF vars, engineVars
<1>5. QED
  BY <1>1, <1>2, <1>3, <1>4 DEF Next

\* A closed transponder is sent at most one challenge, when answers are received
\* whole (Engine_ecu_l2_s.c:239).
THEOREM OneSendToClosed ==
    ASSUME WholeAnswers
    PROVE  Spec => []NoSecondSendToClosed
<1>1. Init => EarlyInv /\ ResetInv
  BY InitEarly DEF Init, TransponderInit, EngineInit, ResetInv
<1>2. OnceInv /\ TypeOK /\ EarlyInv /\ ResetInv /\ [Next]_vars => (EarlyInv /\ ResetInv)'
  BY EarlyStep, ResetStep
<1>3. TypeOK /\ ResetInv => NoSecondSendToClosed
  BY DEF TypeOK, OnceTypeOK, ResetInv, NoSecondSendToClosed, MayChallenge
<1>4. QED
  BY SharedInductive, <1>1, <1>2, <1>3, PTL DEF Spec
=============================================================================
