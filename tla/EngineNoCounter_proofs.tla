----------------------- MODULE EngineNoCounter_proofs -----------------------
(***************************************************************************)
(* Proofs about the engine ECUs without counters, 03_engine_ecu.c and      *)
(* 02_server_engine.c, for every value of the timeouts, delays, sizes and  *)
(* lengths at which the network may split what is sent.                    *)
(***************************************************************************)
EXTENDS EngineNoCounter, EngineOnce_proofs

\* Every step of the engine is one of those EngineOnce_proofs speaks of.
LEMMA StepIsMove ==
    ASSUME OnceInv, EngineStep, UNCHANGED <<clock, transVars>>
    PROVE  EngineMove
<1> USE DEF EngineMove, Reads, Sends
<1>0. /\ toEngine \in Seq(Bytes) /\ Genuine(toEngine, answered) /\ drawn \in Nat
      /\ pc \in {"sent", "wait"} => drawn > 0
  BY DEF OnceInv, OnceTypeOK, KnowledgeInv, ControlInv
<1>1. CASE WaitForClient \/ BeginWait \/ BrokenPipe
  BY <1>1 DEF WaitForClient, BeginWait, BrokenPipe, wireVars
<1>2. CASE ReceiveStart
  BY <1>2 DEF ReceiveStart
<1>3. CASE Challenge16
  <2> DEFINE bytes == Block("rnd", drawn + 1)
  <2>1. bytes \in Seq(Bytes) /\ SentBy(bytes, drawn + 1)
    <3>1. drawn + 1 \in Nat
      BY <1>0
    <3>2. QED
      BY <3>1, BlockType, BlockSentBy
  <2> HIDE DEF bytes
  <2>2. SendChallenge(bytes)
    BY <1>3 DEF Challenge16, bytes
  <2>3. drawn' = drawn + 1 /\ toPeer' = toPeer \o bytes /\ toEngine' = toEngine
    BY <2>2 DEF SendChallenge
  <2>4. QED
    BY <2>1, <2>2, <2>3
<1>4. CASE TotalTimeout /\ UNCHANGED toPeer
  BY <1>4 DEF TotalTimeout
<1>5. CASE ResponseAccepted
  <2>1. PICK b \in Chunks(toEngine, 16) : Read(b) /\ Matches(b)
    BY <1>5 DEF ResponseAccepted
  <2>2. pc = "wait" /\ Return("success") /\ UNCHANGED toPeer
    BY <1>5 DEF ResponseAccepted, InTime
  <2>3. drawn \in answered
    BY <1>0, <2>1, <2>2, BlockIsGenuine DEF Matches
  <2>4. toEngine' = Rest(toEngine, b)
    BY <2>1 DEF Read
  <2>5. QED
    BY <2>2, <2>3, <2>4
<1>6. CASE ResponseIgnored
  BY <1>6 DEF ResponseIgnored, InTime, Read, KeepWaiting
<1>7. CASE PollNothing
  BY <1>7 DEF PollNothing, InTime, KeepWaiting
<1>8. CASE AttemptOver
  BY <1>8 DEF AttemptOver, NextChallenge
<1>9. QED
  BY <1>1, <1>2, <1>3, <1>4, <1>5, <1>6, <1>7, <1>8 DEF EngineStep

LEMMA StepKeeps ==
    ASSUME OnceInv, [Next]_vars
    PROVE  OnceInv' /\ [Promise!Next]_Promise!vars
<1>1. CASE EngineStep /\ UNCHANGED <<clock, transVars>>
  BY <1>1, StepIsMove, EngineMoveKeeps, EngineMovePromise
<1>2. CASE TransponderNext /\ UNCHANGED onceVars
  BY <1>2, TransponderStep, TransponderPromise
<1>3. CASE Tick(InTime)
  <2>1. InTime \in BOOLEAN
    BY DEF InTime
  <2>2. QED
    BY <1>3, <2>1, TickStep, TickPromise
<1>4. CASE UNCHANGED vars
  BY <1>4, StutterStep DEF vars
<1>5. QED
  BY <1>1, <1>2, <1>3, <1>4 DEF Next

\* The invariant the engines share holds of this one.
THEOREM Inductive == Spec => []OnceInv
<1>1. Init => OnceInv
  BY InitOnce DEF Init
<1>2. OnceInv /\ [Next]_vars => OnceInv'
  BY StepKeeps
<1>3. QED
  BY <1>1, <1>2, PTL DEF Spec

\* What 03_engine_ecu.c and 02_server_engine.c promise: they succeed only by an
\* answer to the open challenge, made with the key, whatever part of an earlier
\* answer or of the bytes behind it is read.
THEOREM Refinement == Spec => ImplementsImmobilizer
<1>1. Init => Promise!Init
  BY InitOnce DEF Init
<1>2. OnceInv /\ [Next]_vars => [Promise!Next]_Promise!vars
  BY StepKeeps
<1>3. QED
  BY Inductive, <1>1, <1>2, PTL DEF Spec, ImplementsImmobilizer, Promise!Spec
=============================================================================
