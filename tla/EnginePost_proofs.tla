-------------------------- MODULE EnginePost_proofs --------------------------
(***************************************************************************)
(* Proofs about the engine ECU of 05_engine_post.c, for every value of the *)
(* timeouts, of the bounds and of the lengths at which the network may     *)
(* split what is sent: first with an arbitrary transponder (PostOpen),     *)
(* then with the script of 06_post_trans.c (PostDemo): for which timeouts  *)
(* it goes as the script announces, and that it is one of the behaviours   *)
(* the first part is about.                                                *)
(***************************************************************************)
EXTENDS PostDemo, ByteStream_proofs

-----------------------------------------------------------------------------
(* With an arbitrary transponder.                                          *)

USE TimeoutsAssumption, BoundsAssumption

\* Every action of the engine that reads, reads a chunk of its queue.
LEMMA ReceiveType ==
    ASSUME TypeOK, NEW size \in Nat, NEW b \in Chunks(toEngine, size), Receive(b)
    PROVE  /\ toEngine' \in Seq(Bytes) /\ late' = 0
           /\ UNCHANGED <<link, toPeer, clock>>
BY RestIsSuffix DEF Receive, TypeOK

LEMMA TypeStep == TypeOK /\ [Next]_allVars => TypeOK'
<1> SUFFICES ASSUME TypeOK, [Next]_allVars PROVE TypeOK'
  OBVIOUS
<1> USE DEF TypeOK, engineState, wireVars, PCs, ENGINE_OFF, ENGINE_ON
<1>1. CASE EngineStep
  <2>0. UNCHANGED <<sends, held, answered>> /\ first' \in Nat
    BY <1>1 DEF EngineStep
  <2>1. CASE WaitForClient
    BY <2>0, <2>1 DEF WaitForClient
  <2>2. CASE IgnoreCommand
    <3>1. toEngine' \in Seq(Bytes) /\ late' = 0 /\ UNCHANGED <<link, toPeer, clock>>
      BY <2>2, ReceiveType DEF IgnoreCommand
    <3>2. UNCHANGED <<pc, engineState>>
      BY <2>2 DEF IgnoreCommand
    <3>3. QED
      BY <2>0, <3>1, <3>2
  <2>3. CASE StartPostRelease
    BY <2>0, <2>3, ReceiveType, SMTT(30) DEF StartPostRelease, TurnOn
  <2>4. CASE StartAuthentication
    <3>1. toEngine' \in Seq(Bytes) /\ late' = 0 /\ UNCHANGED <<link, toPeer, clock>>
      BY <2>4, ReceiveType DEF StartAuthentication
    <3>2. /\ pc' = "challenge" /\ auth_valid' \in {0, auth_valid}
          /\ counter' = 1 /\ auth_start' = clock
          /\ UNCHANGED <<engine_state, last_engine_off_time, drawn, wait_start, wake>>
      BY <2>4 DEF StartAuthentication
    <3>3. QED
      BY <2>0, <3>1, <3>2
  <2>5. CASE SendChallenge
    <3>1. counter \in Nat /\ drawn + 1 \in Nat
      OBVIOUS
    <3>2. Frame("rnd", counter, drawn + 1) \in Seq(Bytes)
      BY <3>1, FrameType
    <3>3. QED
      BY <2>0, <2>5, <3>1, <3>2 DEF SendChallenge
  <2>w. CASE BeginWait
    BY <2>0, <2>w DEF BeginWait
  <2>6. CASE BrokenPipe
    BY <2>0, <2>6 DEF BrokenPipe
  <2>7. CASE AuthenticationFails
    BY <2>0, <2>7 DEF AuthenticationFails
  <2>8. CASE ResponseAccepted
    <3>1. toEngine' \in Seq(Bytes) /\ late' = 0 /\ UNCHANGED <<link, toPeer, clock>>
      BY <2>8, ReceiveType DEF ResponseAccepted, Poll
    <3>2. TurnOn /\ auth_valid' = 1 /\ UNCHANGED <<last_engine_off_time, drawn>>
      BY <2>8 DEF ResponseAccepted
    <3>3. QED
      BY <2>0, <3>1, <3>2 DEF TurnOn
  <2>9. CASE ResponseRejected
    <3>1. toEngine' \in Seq(Bytes) /\ late' = 0 /\ UNCHANGED <<link, toPeer, clock>>
      BY <2>9, ReceiveType DEF ResponseRejected, Poll
    <3>2. NextAttempt
      BY <2>9 DEF ResponseRejected
    <3>3. QED
      BY <2>0, <3>1, <3>2 DEF NextAttempt
  <2>10. CASE ResponseIgnored
    BY <2>0, <2>10, ReceiveType, SMTT(30) DEF ResponseIgnored, Poll
  <2>11. CASE PollNothing
    BY <2>0, <2>11 DEF PollNothing
  <2>12. CASE ChallengeTimeout
    BY <2>0, <2>12 DEF ChallengeTimeout, NextAttempt
  <2>13. CASE TurnOff
    BY <2>0, <2>13 DEF TurnOff
  <2>14. CASE ClientDisconnected
    BY <2>0, <2>14 DEF ClientDisconnected
  <2>15. QED
    BY <1>1, <2>1, <2>2, <2>3, <2>4, <2>5, <2>w, <2>6, <2>7, <2>8, <2>9, <2>10,
       <2>11, <2>12, <2>13, <2>14 DEF EngineStep, EngineNext
<1>2. CASE PeerNext
  <2>1. CASE Connect
    BY <2>1 DEF Connect, peerVars, engineVars
  <2>2. CASE PressStart
    BY <2>2, StartType DEF PressStart, Send, engineVars
  <2>3. CASE ReceiveChallenge
    BY <2>3, RestIsSuffix DEF ReceiveChallenge, engineVars
  <2>4. CASE Close
    BY <2>4 DEF Close, peerVars, engineVars
  <2>5. ASSUME NEW h \in held, Answer(h) PROVE TypeOK'
    <3>0. h \in (0..255) \X Nat
      BY Zenon
    <3>1. h[1] \in Nat /\ h[2] \in Nat
      <4> HIDE DEF TypeOK
      <4>1. QED
        BY <3>0
    <3>2. Frame("enc", h[1], h[2]) \in Seq(Bytes)
      BY <3>1, FrameType
    <3>3. answered' \subseteq Nat
      BY <2>5, <3>1 DEF Answer
    <3>4. toEngine' \in Seq(Bytes) /\ sends' \in Nat
      BY <2>5, <3>2 DEF Answer, Send
    <3>5. UNCHANGED <<clock, link, engineVars, first, toPeer, held>>
      BY <2>5 DEF Answer, Send
    <3>6. QED
      BY <3>3, <3>4, <3>5 DEF engineVars
  <2>6. ASSUME NEW c \in {1, 2}, ForeignAnswer(c) PROVE TypeOK'
    <3>1. c \in Nat /\ 0 \in Nat
      OBVIOUS
    <3>2. Frame("enc", c, 0) \in Seq(Bytes)
      BY <3>1, FrameType
    <3>3. QED
      BY <2>6, <3>1, <3>2 DEF ForeignAnswer, Send, engineVars
  <2>7. QED
    BY <1>2, <2>1, <2>2, <2>3, <2>4, <2>5, <2>6 DEF PeerNext
<1>3. CASE Tick
  BY <1>3 DEF Tick, EngineTick, peerVars
<1>4. CASE UNCHANGED allVars
  BY <1>4 DEF allVars, vars, peerVars, engineVars
<1>5. QED
  BY <1>1, <1>2, <1>3, <1>4 DEF Next

-----------------------------------------------------------------------------
\* How each kind of step changes what the invariants speak of.
USE DEF engineState, wireVars, ENGINE_OFF, ENGINE_ON

LEMMA ControlStep ==
    TypeOK /\ ControlInv /\ NoGrantWhileAuthenticating /\ [Next]_allVars
        => ControlInv' /\ NoGrantWhileAuthenticating'
<1> SUFFICES ASSUME TypeOK, ControlInv, NoGrantWhileAuthenticating, [Next]_allVars
             PROVE  ControlInv' /\ NoGrantWhileAuthenticating'
  OBVIOUS
<1> USE DEF ControlInv, NoGrantWhileAuthenticating, Authenticating
<1>0. clock \in Nat \ {0} /\ auth_valid \in {0, 1} /\ drawn \in Nat /\ wake \in Nat
  BY DEF TypeOK
<1>1. CASE EngineStep
  <2>1. CASE WaitForClient
    BY <2>1 DEF WaitForClient
  <2>2. CASE IgnoreCommand
    BY <2>2 DEF IgnoreCommand
  <2>3. CASE StartPostRelease
    BY <2>3 DEF StartPostRelease, PostReleaseValid, TurnOn
  <2>4. CASE StartAuthentication
    BY <1>0, <2>4 DEF StartAuthentication
  <2>5. CASE SendChallenge
    BY <1>0, <2>5 DEF SendChallenge
  <2>w. CASE BeginWait
    BY <2>w DEF BeginWait
  <2>6. CASE BrokenPipe
    BY <2>6 DEF BrokenPipe
  <2>7. CASE AuthenticationFails
    BY <2>7 DEF AuthenticationFails
  <2>8. CASE ResponseAccepted
    BY <2>8 DEF ResponseAccepted, TurnOn
  <2>9. CASE ResponseRejected
    BY <2>9 DEF ResponseRejected, Poll, Polling, NextAttempt
  <2>10. CASE ResponseIgnored
    BY <2>10 DEF ResponseIgnored
  <2>11. CASE PollNothing
    BY <2>11 DEF PollNothing
  <2>12. CASE ChallengeTimeout
    BY <2>12 DEF ChallengeTimeout, NextAttempt
  <2>13. CASE TurnOff
    BY <1>0, <2>13 DEF TurnOff
  <2>14. CASE ClientDisconnected
    BY <2>14 DEF ClientDisconnected
  <2>15. QED
    BY <1>1, <2>1, <2>2, <2>3, <2>4, <2>5, <2>w, <2>6, <2>7, <2>8, <2>9, <2>10,
       <2>11, <2>12, <2>13, <2>14 DEF EngineStep, EngineNext
<1>2. CASE PeerNext
  BY <1>2 DEF PeerNext, Connect, PressStart, ReceiveChallenge, Close, Answer,
              ForeignAnswer, Send, engineVars
<1>3. CASE Tick
  BY <1>3 DEF Tick, EngineTick
<1>4. CASE UNCHANGED allVars
  BY <1>4 DEF allVars, vars, engineVars
<1>5. QED
  BY <1>1, <1>2, <1>3, <1>4 DEF Next

LEMMA KnowledgeStep ==
    TypeOK /\ KnowledgeInv /\ [Next]_allVars => KnowledgeInv'
<1> SUFFICES ASSUME TypeOK, KnowledgeInv, [Next]_allVars PROVE KnowledgeInv'
  OBVIOUS
<1>0. /\ toEngine \in Seq(Bytes) /\ toPeer \in Seq(Bytes) /\ drawn \in Nat
      /\ Genuine(toEngine, answered)
      /\ held \subseteq (0..255) \X (1..drawn) /\ answered \subseteq 1..drawn
  BY DEF TypeOK, KnowledgeInv
<1>R. ASSUME NEW size \in Nat, NEW b \in Chunks(toEngine, size), Receive(b)
      PROVE  Genuine(toEngine', answered)
  BY <1>0, <1>R, GenuineRest DEF Receive
<1>1. CASE EngineStep
  <2>0. UNCHANGED <<held, answered>>
    BY <1>1 DEF EngineStep
  <2>1. Genuine(toEngine', answered)
    <3>1. CASE \/ IgnoreCommand \/ StartPostRelease \/ StartAuthentication
      BY <3>1, <1>R DEF IgnoreCommand, StartPostRelease, StartAuthentication
    <3>2. CASE \/ ResponseAccepted \/ ResponseRejected \/ ResponseIgnored
      BY <3>2, <1>R DEF ResponseAccepted, ResponseRejected, ResponseIgnored, Poll
    <3>3. CASE UNCHANGED toEngine
      BY <3>3, <1>0
    <3>4. QED
      BY <1>1, <3>1, <3>2, <3>3 DEF EngineStep, EngineNext, WaitForClient,
         SendChallenge, BeginWait, BrokenPipe, AuthenticationFails, PollNothing,
         ChallengeTimeout, TurnOff, ClientDisconnected
  <2>2. drawn' \in {drawn, drawn + 1}
    BY <1>1 DEF EngineStep, EngineNext, WaitForClient, IgnoreCommand,
       StartPostRelease, StartAuthentication, SendChallenge, BeginWait, BrokenPipe,
       AuthenticationFails, ResponseAccepted, ResponseRejected, ResponseIgnored,
       PollNothing, ChallengeTimeout, TurnOff, ClientDisconnected, NextAttempt
  <2>3. 1..drawn \subseteq 1..drawn'
    BY <1>0, <2>2
  <2>4. QED
    BY <1>0, <2>0, <2>1, <2>3 DEF KnowledgeInv
<1>2. CASE PeerNext
  <2>1. CASE Connect \/ Close
    <3>1. /\ toEngine' = toEngine /\ drawn' = drawn
          /\ held' = held /\ answered' = answered
      BY <2>1 DEF Connect, Close, peerVars, engineVars, engineState
    <3>2. QED
      BY <1>0, <3>1 DEF KnowledgeInv
  <2>2. CASE PressStart
    <3>1. Genuine(Start, answered)
      BY StartType DEF Genuine
    <3>2. Genuine(toEngine \o Start, answered)
      BY <1>0, <3>1, StartType, GenuineAppend
    <3>3. QED
      BY <1>0, <2>2, <3>2 DEF PressStart, Send, engineVars, KnowledgeInv
  <2>3. CASE ReceiveChallenge
    BY <1>0, <2>3 DEF ReceiveChallenge, engineVars, KnowledgeInv
  <2>4. ASSUME NEW h \in held, Answer(h) PROVE KnowledgeInv'
    <3>0. h \in (0..255) \X (1..drawn)
      BY <1>0, Zenon
    <3>1. h[1] \in Nat /\ h[2] \in Nat /\ h[2] \in 1..drawn
      BY <3>0
    <3>2. /\ Frame("enc", h[1], h[2]) \in Seq(Bytes)
          /\ Genuine(Frame("enc", h[1], h[2]), answered \cup {h[2]})
      <4> DEFINE c == h[1]
                 n == h[2]
                 A == answered \cup {h[2]}
      <4>1. c \in Nat /\ n \in Nat /\ n \in A
        BY <3>1
      <4> HIDE DEF c, n, A
      <4>2. Frame("enc", c, n) \in Seq(Bytes) /\ Genuine(Frame("enc", c, n), A)
        BY <4>1, FrameType, FrameGenuine
      <4>3. QED
        BY <4>2 DEF c, n, A
    <3>3. Genuine(toEngine, answered \cup {h[2]})
      BY <1>0 DEF Genuine
    <3>4. Genuine(toEngine \o Frame("enc", h[1], h[2]), answered \cup {h[2]})
      BY <1>0, <3>2, <3>3, GenuineAppend
    <3>5. /\ toEngine' = toEngine \o Frame("enc", h[1], h[2])
          /\ answered' = answered \cup {h[2]} /\ held' = held /\ drawn' = drawn
      BY <2>4 DEF Answer, Send, engineVars
    <3>6. QED
      <4>1. Genuine(toEngine', answered')
        BY <3>4, <3>5
      <4>2. answered' \subseteq 1..drawn' /\ held' \subseteq (0..255) \X (1..drawn')
        <5>1. answered \cup {h[2]} \subseteq 1..drawn
          BY <1>0, <3>1, Zenon
        <5>2. QED
          BY <1>0, <3>5, <5>1, Zenon
      <4>3. QED
        BY <4>1, <4>2 DEF KnowledgeInv
  <2>5. ASSUME NEW c \in {1, 2}, ForeignAnswer(c) PROVE KnowledgeInv'
    <3>1. c \in Nat /\ 0 \in Nat
      OBVIOUS
    <3>2. /\ Frame("enc", c, 0) \in Seq(Bytes)
          /\ Genuine(Frame("enc", c, 0), answered)
      BY <3>1, FrameType, FrameGenuine
    <3>3. Genuine(toEngine \o Frame("enc", c, 0), answered)
      BY <1>0, <3>2, GenuineAppend
    <3>4. QED
      BY <1>0, <2>5, <3>3 DEF ForeignAnswer, Send, engineVars, KnowledgeInv
  <2>6. QED
    BY <1>2, <2>1, <2>2, <2>3, <2>4, <2>5 DEF PeerNext
<1>3. CASE Tick
  BY <1>0, <1>3 DEF Tick, EngineTick, peerVars, KnowledgeInv
<1>4. CASE UNCHANGED allVars
  BY <1>0, <1>4 DEF allVars, vars, peerVars, engineVars, KnowledgeInv
<1>5. QED
  BY <1>1, <1>2, <1>3, <1>4 DEF Next


LEMMA TimingStep ==
    TypeOK /\ TimingInv /\ [Next]_allVars => TimingInv'
<1> SUFFICES ASSUME TypeOK, TimingInv, [Next]_allVars PROVE TimingInv'
  OBVIOUS
<1>0. /\ clock \in Nat \ {0} /\ late \in Nat
      /\ auth_start \in Nat /\ wait_start \in Nat
  BY DEF TypeOK
<1> USE DEF TimingInv, AuthLateness, Authenticating
<1>1. CASE EngineStep
  <2>1. CASE pc' \notin {"challenge", "sent", "wait"}
    BY <2>1
  <2>2. CASE StartAuthentication
    BY <1>0, <2>2 DEF StartAuthentication, Receive
  <2>3. CASE SendChallenge
    BY <1>0, <2>3 DEF SendChallenge
  <2>w. CASE BeginWait
    BY <1>0, <2>w DEF BeginWait
  <2>4. CASE ResponseRejected
    BY <1>0, <2>4 DEF ResponseRejected, Poll, Polling, NextAttempt, Receive
  <2>5. CASE ResponseIgnored
    BY <1>0, <2>5 DEF ResponseIgnored, Poll, Polling, Receive
  <2>6. CASE PollNothing
    BY <1>0, <2>6 DEF PollNothing, Polling
  <2>7. CASE ChallengeTimeout
    BY <1>0, <2>7 DEF ChallengeTimeout, NextAttempt
  <2>8. QED
    BY <1>1, <2>1, <2>2, <2>3, <2>w, <2>4, <2>5, <2>6, <2>7
       DEF EngineStep, EngineNext, WaitForClient, IgnoreCommand, StartPostRelease,
           BrokenPipe, AuthenticationFails, ResponseAccepted, TurnOn, TurnOff,
           ClientDisconnected
<1>2. CASE PeerNext
  BY <1>2 DEF PeerNext, Connect, PressStart, ReceiveChallenge, Close, Answer,
              ForeignAnswer, Send, engineVars
<1>3. CASE Tick
  <2>1. /\ clock' = clock + 1
        /\ UNCHANGED <<pc, auth_start, wait_start>>
    BY <1>3 DEF Tick, EngineTick
  <2> USE DEF Tick, EngineTick, EngineReady, Lateness, Polling
  <2>2. CASE pc \in {"challenge", "sent"}
    BY <1>0, <1>3, <2>1, <2>2
  <2>3. CASE pc = "wait"
    BY <1>0, <1>3, <2>1, <2>3
  <2>4. CASE pc \notin {"challenge", "sent", "wait"}
    BY <2>1, <2>4
  <2>5. QED
    BY <2>2, <2>3, <2>4
<1>4. CASE UNCHANGED allVars
  BY <1>4 DEF allVars, vars, engineVars
<1>5. QED
  BY <1>1, <1>2, <1>3, <1>4 DEF Next

-----------------------------------------------------------------------------
LEMMA InitInv == Init => IInv
BY DEF Init, WireInit, EngineInit, IInv, TypeOK, NoGrantWhileAuthenticating,
       ControlInv, KnowledgeInv, TimingInv, Genuine, PCs, Authenticating

\* IInv is inductive: it holds in every state of the specification.
THEOREM Inductive == Spec => []IInv
<1>1. IInv /\ [Next]_allVars => IInv'
  BY TypeStep, ControlStep, KnowledgeStep, TimingStep DEF IInv
<1>2. QED
  BY InitInv, <1>1, PTL DEF Spec

\* Every variable always has its type, whatever arrives on the socket.
THEOREM TypeCorrect == Spec => []TypeOK
BY Inductive, PTL DEF IInv

\* A grant is never left over while a challenge is prepared or open: after a
\* failed authentication no start succeeds without another one.
THEOREM NoLeftoverGrant == Spec => []NoGrantWhileAuthenticating
BY Inductive, PTL DEF IInv

\* An authentication lasts less than the total and one challenge timeout, and what
\* begins of seconds between three of its steps: before the wait's own clock starts,
\* after the last poll, and before the total is looked at again.
THEOREM BoundedAuthentication == Spec => []AuthenticationBounded
<1>1. IInv => AuthenticationBounded
  <2> SUFFICES ASSUME TypeOK, TimingInv PROVE AuthenticationBounded
    BY DEF IInv
  <2>1. clock \in Nat /\ late \in Nat /\ auth_start \in Nat /\ wait_start \in Nat
    BY DEF TypeOK
  <2> USE DEF TimingInv, AuthenticationBounded, AuthLateness, Authenticating
  <2>2. CASE pc = "challenge"
    BY <2>1, <2>2
  <2>3. CASE pc = "sent"
    BY <2>1, <2>3
  <2>4. CASE pc = "wait"
    BY <2>1, <2>4
  <2>5. QED
    BY <2>2, <2>3, <2>4
<1>2. QED
  BY Inductive, <1>1, PTL


-----------------------------------------------------------------------------
\* What the engine ECU of 05_engine_post.c promises, for any timeouts, any other
\* end of the connection and any splitting of the bytes: it turns on only by an
\* answer to the open challenge, made with the key, or within the window of an
\* authorised run, with no challenge since.
THEOREM Refinement == Spec => ImplementsImmobilizer
<1>1. Init => Promise!Init
  BY DEF Init, WireInit, EngineInit, Promise!Init
<1>2. IInv /\ [Next]_allVars => [Promise!Next]_Promise!vars
  <2> SUFFICES ASSUME IInv, [Next]_allVars PROVE [Promise!Next]_Promise!vars
    OBVIOUS
  <2> USE DEF Promise!Next, Promise!vars
  <2>0. /\ TypeOK /\ NoGrantWhileAuthenticating /\ ControlInv /\ KnowledgeInv
        /\ clock \in Nat \ {0} /\ drawn \in Nat /\ auth_valid \in {0, 1}
        /\ engine_state \in {0, 1} /\ last_engine_off_time \in Nat
    BY DEF IInv, TypeOK
  <2>1. CASE EngineStep
    <3>0. UNCHANGED answered
      BY <2>1 DEF EngineStep
    <3>1. CASE WaitForClient \/ IgnoreCommand \/ ResponseIgnored \/ PollNothing
      BY <2>0, <3>0, <3>1 DEF WaitForClient, IgnoreCommand, ResponseIgnored,
         PollNothing, Receive, Poll
    <3>2. CASE StartPostRelease
      BY <2>0, <3>0, <3>2 DEF StartPostRelease, PostReleaseValid, TurnOn, Receive,
         ControlInv, Promise!Restart
    <3>3. CASE StartAuthentication
      BY <2>0, <3>0, <3>3 DEF StartAuthentication, PostReleaseValid, Receive,
         ControlInv, Promise!Expire
    <3>4. CASE SendChallenge
      BY <2>0, <3>0, <3>4 DEF SendChallenge, ControlInv,
         NoGrantWhileAuthenticating, Authenticating, Promise!Issue
    <3>w. CASE BeginWait
      BY <2>0, <3>0, <3>w DEF BeginWait
    <3>5. CASE BrokenPipe \/ AuthenticationFails \/ ClientDisconnected
      BY <2>0, <3>0, <3>5 DEF BrokenPipe, AuthenticationFails, ClientDisconnected
    <3>6. CASE ResponseAccepted
      <4>1. drawn \in answered
        <5>1. PICK b \in Chunks(toEngine, 17) :
                 pc = "wait" /\ Len(b) = 17 /\ AESMatches(b)
          BY <3>6 DEF ResponseAccepted, Poll, Polling
        <5>2. drawn \in Nat \ {0} /\ Genuine(toEngine, answered)
          BY <2>0, <5>1 DEF ControlInv, KnowledgeInv
        <5>3. toEngine \in Seq(Bytes)
          BY <2>0 DEF TypeOK
        <5>4. QED
          BY <5>1, <5>2, <5>3, MatchIsGenuine DEF AESMatches
      <4>2. pc = "wait" /\ UNCHANGED clock
        BY <3>6 DEF ResponseAccepted, Poll, Polling, Receive
      <4>3. QED
        BY <2>0, <3>0, <3>6, <4>1, <4>2 DEF ResponseAccepted, TurnOn, ControlInv,
           NoGrantWhileAuthenticating, Authenticating, Promise!Authenticate
    <3>7. CASE ResponseRejected
      BY <2>0, <3>0, <3>7 DEF ResponseRejected, Poll, Polling, Receive, NextAttempt,
         Promise!Abandon
    <3>8. CASE ChallengeTimeout
      BY <2>0, <3>0, <3>8 DEF ChallengeTimeout, NextAttempt, Promise!Abandon
    <3>9. CASE TurnOff
      BY <2>0, <3>0, <3>9 DEF TurnOff, ControlInv, Promise!Stop
    <3>10. QED
      BY <2>1, <3>1, <3>2, <3>3, <3>4, <3>w, <3>5, <3>6, <3>7, <3>8, <3>9
         DEF EngineStep, EngineNext
  <2>2. CASE PeerNext
    <3>1. CASE Connect \/ PressStart \/ ReceiveChallenge \/ Close
      BY <3>1 DEF Connect, PressStart, ReceiveChallenge, Close, Send, engineVars,
         peerVars
    <3>2. ASSUME NEW h \in held, Answer(h) PROVE [Promise!Next]_Promise!vars
      <4>0. h \in (0..255) \X (1..drawn)
        BY <2>0, Zenon DEF KnowledgeInv
      <4>1. h[2] \in 1..drawn
        BY <4>0
      <4>2. QED
        BY <3>2, <4>1 DEF Answer, Send, engineVars, Promise!Answer
    <3>3. ASSUME NEW c \in {1, 2}, ForeignAnswer(c)
          PROVE  [Promise!Next]_Promise!vars
      BY <3>3 DEF ForeignAnswer, Send, engineVars
    <3>4. QED
      BY <2>2, <3>1, <3>2, <3>3 DEF PeerNext
  <2>3. CASE Tick
    BY <2>3 DEF Tick, EngineTick, peerVars, Promise!Tick
  <2>4. CASE UNCHANGED allVars
    BY <2>4 DEF allVars, vars, engineVars, wireVars, peerVars
  <2>5. QED
    BY <2>1, <2>2, <2>3, <2>4 DEF Next
<1>3. QED
  BY Inductive, <1>1, <1>2, PTL DEF Spec, ImplementsImmobilizer, Promise!Spec

-----------------------------------------------------------------------------
\* Late answers.  The counter of an authentication's challenges is a uint8_t that
\* starts at 1; it names the challenge as long as it does not come round.

\* The pairs of counter and random number that a challenge of this authentication
\* may have been sent with; of earlier authentications, any.
Numbers ==
    {h \in (0..255) \X (1..drawn) :
        Authenticating /\ h[2] >= first => h[1] = (h[2] - first + 1) % 256}

\* Counter and block belong together: in the challenges on their way, in those the
\* transponder has received, and in the answers.
OrderInv ==
    /\ held \subseteq Numbers
    /\ Pairs(toPeer, "rnd", Numbers) /\ Pairs(toEngine, "enc", held)

\* The counter is that of the challenge sent last, or to be sent next.
CounterInv ==
    /\ Authenticating => first \in Nat \ {0}
    /\ pc = "challenge" => first <= drawn + 1 /\ counter = (drawn - first + 2) % 256
    /\ pc \in {"sent", "wait"} =>
          /\ first <= drawn /\ drawn - first <= 255
          /\ counter = (drawn - first + 1) % 256

\* The seconds that n attempts take that nobody answers.
Spent(n) == n * PER_CHALLENGE_TIMEOUT

\* What the messages to the engine were long at most, without what is not received
\* yet: the engine has used up no more.
Used == 17 * sends - Len(toEngine)

\* Of n attempts, so many have been rejected, each for seventeen bytes, and so many
\* have taken their whole time.
Attempts(n, bytes, seconds) ==
    \E rejected, timed \in Nat :
        n = rejected + timed /\ 17 * rejected <= bytes /\ Spent(timed) <= seconds

AttemptsInv ==
    /\ Used >= 0 /\ sends <= MaxSends
    /\ pc = "challenge" => Attempts(drawn - first + 1, Used, clock - auth_start)
    /\ pc = "sent" => Attempts(drawn - first, Used, clock - auth_start)
    /\ pc = "wait" => Attempts(drawn - first, Used, wait_start - auth_start)

LateInv == OrderInv /\ CounterInv /\ AttemptsInv

\* Fewer than 256 attempts fit into one authentication, so that the counter does not
\* come round: 15 seconds of 5, and one more for each message that is rejected.
NoWrap ==
    MaxSends * PER_CHALLENGE_TIMEOUT + TOTAL_AUTH_TIMEOUT <= 256 * PER_CHALLENGE_TIMEOUT

LEMMA SpentSum ==
    ASSUME NEW m \in Nat, NEW n \in Nat
    PROVE  /\ Spent(n) \in Nat /\ Spent(n + 1) = Spent(n) + PER_CHALLENGE_TIMEOUT
           /\ Spent(m + n) = Spent(m) + Spent(n)
           /\ m <= n => Spent(m) <= Spent(n)
<1> DEFINE P == PER_CHALLENGE_TIMEOUT
<1>1. P \in Nat
  OBVIOUS
<1> HIDE DEF P
<1>2. n * P \in Nat /\ (n + 1) * P = n * P + P /\ (m + n) * P = m * P + n * P
  BY <1>1
<1>3. m <= n => m * P <= n * P
  <2>1. SUFFICES ASSUME m <= n PROVE m * P <= n * P
    OBVIOUS
  <2>2. PICK k \in Nat : n = m + k
    <3>1. n - m \in Nat /\ n = m + (n - m)
      BY <2>1
    <3>2. QED
      BY <3>1
  <2>3. n * P = m * P + k * P /\ k * P \in Nat /\ m * P \in Nat
    BY <1>1, <2>2
  <2>4. QED
    BY <2>3
<1>4. QED
  BY <1>2, <1>3 DEF Spent, P

\* The attempts made when another challenge may be sent are too few for the counter
\* to come round.
LEMMA FewAttempts ==
    ASSUME NoWrap, TypeOK, sends <= MaxSends,
           NEW n \in Nat, Attempts(n, Used, clock - auth_start),
           clock - auth_start < TOTAL_AUTH_TIMEOUT
    PROVE  n <= 255
<1>1. PICK r \in Nat, u \in Nat :
         /\ n = r + u /\ 17 * r <= 17 * sends - Len(toEngine)
         /\ Spent(u) <= clock - auth_start
  BY DEF Attempts, Used
<1>2. /\ clock \in Nat /\ auth_start \in Nat /\ sends \in Nat /\ Len(toEngine) \in Nat
      /\ MaxSends \in Nat /\ TOTAL_AUTH_TIMEOUT \in Nat
  BY DEF TypeOK
<1>3. r <= MaxSends
  BY <1>1, <1>2
<1>4. /\ Spent(r) <= Spent(MaxSends) /\ Spent(r + u) = Spent(r) + Spent(u)
      /\ Spent(r) \in Nat /\ Spent(u) \in Nat /\ Spent(MaxSends) \in Nat
  BY <1>1, <1>2, <1>3, SpentSum
<1> DEFINE round == 256
<1>5. Spent(MaxSends) + TOTAL_AUTH_TIMEOUT <= Spent(round)
  BY DEF NoWrap, Spent
<1>6. round \in Nat /\ n < round => n <= 255
  OBVIOUS
<1>7. round \in Nat
  OBVIOUS
<1> HIDE DEF round
<1>8. Spent(n) < Spent(round)
  <2>1. Spent(round) \in Nat
    BY <1>7, SpentSum
  <2>2. QED
    BY <1>1, <1>2, <1>4, <1>5, <2>1, SMTT(30)
<1>9. ASSUME ~(n < round) PROVE FALSE
  <2>1. round <= n
    BY <1>7, <1>9
  <2>2. Spent(round) <= Spent(n) /\ Spent(round) \in Nat /\ Spent(n) \in Nat
    BY <1>7, <2>1, SpentSum
  <2>3. QED
    BY <1>8, <2>2
<1>10. QED
  BY <1>6, <1>7, <1>9

LEMMA AttemptsMore ==
    ASSUME NEW n \in Nat, NEW k \in Int, NEW l \in Int, NEW s \in Int, NEW e \in Int,
           Attempts(n, k, s), k <= l, s <= e
    PROVE  /\ Attempts(n, l, e)
           /\ k + 17 <= l => Attempts(n + 1, l, e)
           /\ s + PER_CHALLENGE_TIMEOUT <= e => Attempts(n + 1, l, e)
<1>1. PICK r \in Nat, u \in Nat : n = r + u /\ 17 * r <= k /\ Spent(u) <= s
  BY DEF Attempts
<1>2. Spent(u) \in Nat /\ Spent(u + 1) = Spent(u) + PER_CHALLENGE_TIMEOUT
  BY <1>1, SpentSum
<1>3. Attempts(n, l, e)
  <2>1. 17 * r <= l /\ Spent(u) <= e
    BY <1>1, <1>2
  <2>2. QED
    BY <1>1, <2>1 DEF Attempts
<1>4. k + 17 <= l => Attempts(n + 1, l, e)
  <2>1. SUFFICES ASSUME k + 17 <= l PROVE Attempts(n + 1, l, e)
    OBVIOUS
  <2>2. r + 1 \in Nat /\ n + 1 = (r + 1) + u /\ 17 * (r + 1) <= l /\ Spent(u) <= e
    BY <1>1, <1>2, <2>1
  <2>3. QED
    BY <1>1, <2>2 DEF Attempts
<1>5. s + PER_CHALLENGE_TIMEOUT <= e => Attempts(n + 1, l, e)
  <2>1. SUFFICES ASSUME s + PER_CHALLENGE_TIMEOUT <= e PROVE Attempts(n + 1, l, e)
    OBVIOUS
  <2>2. u + 1 \in Nat /\ n + 1 = r + (u + 1) /\ 17 * r <= l /\ Spent(u + 1) <= e
    BY <1>1, <1>2, <2>1
  <2>3. QED
    BY <1>1, <2>2 DEF Attempts
<1>6. QED
  BY <1>3, <1>4, <1>5

\* The engine's reads and the other end's sends never make it use less.
LEMMA ReceiveUses ==
    ASSUME TypeOK, NEW size \in Nat, NEW b \in Chunks(toEngine, size), Receive(b),
           sends' = sends
    PROVE  Used' = Used + Len(b) /\ Len(b) \in Nat
<1>1. toEngine \in Seq(Bytes) /\ sends \in Nat
  BY DEF TypeOK
<1>2. Len(b) \in 0..Len(toEngine) /\ Len(Rest(toEngine, b)) = Len(toEngine) - Len(b)
  BY <1>1, RestLies
<1>3. QED
  BY <1>1, <1>2 DEF Receive, Used

LEMMA SendUses ==
    ASSUME TypeOK, NEW bytes \in Seq(Bytes), Len(bytes) <= 17, Send(bytes)
    PROVE  Used' >= Used /\ sends' <= MaxSends
<1>1. toEngine \in Seq(Bytes) /\ sends \in Nat
  BY DEF TypeOK
<1>2. Len(toEngine \o bytes) = Len(toEngine) + Len(bytes)
  BY <1>1, ConcatProperties
<1>3. QED
  BY <1>1, <1>2 DEF Send, Used

\* Pairs once valid stay so; an authentication begins with a number not yet drawn.
LEMMA NumbersGrow ==
    ASSUME TypeOK, [Next]_allVars
    PROVE  Numbers \subseteq Numbers'
<1>0. drawn \in Nat /\ first \in Nat
  BY DEF TypeOK
<1>1. CASE UNCHANGED <<drawn, first>> /\ (Authenticating' => Authenticating)
  BY <1>1 DEF Numbers
<1>2. CASE drawn' = drawn /\ first' = drawn + 1
  BY <1>0, <1>2 DEF Numbers
<1>3. CASE drawn' = drawn + 1 /\ first' = first /\ Authenticating
  <2>1. 1..drawn \subseteq 1..drawn'
    BY <1>0, <1>3
  <2>2. QED
    BY <1>3, <2>1 DEF Numbers
<1>4. \/ UNCHANGED <<drawn, first>> /\ (Authenticating' => Authenticating)
      \/ drawn' = drawn /\ first' = drawn + 1
      \/ drawn' = drawn + 1 /\ first' = first /\ Authenticating
  <2>1. CASE EngineStep
    BY <2>1 DEF Authenticating, EngineStep, EngineNext, WaitForClient, IgnoreCommand,
       StartPostRelease, TurnOn, StartAuthentication, SendChallenge, BeginWait, BrokenPipe,
       AuthenticationFails, ResponseAccepted, ResponseRejected, NextAttempt, Poll,
       Polling, ResponseIgnored, PollNothing, ChallengeTimeout, TurnOff,
       ClientDisconnected
  <2>2. CASE PeerNext \/ Tick \/ UNCHANGED allVars
    BY <2>2 DEF Authenticating, PeerNext, Connect, PressStart, ReceiveChallenge,
       Close, Answer, ForeignAnswer, Send, Tick, EngineTick, engineVars, peerVars,
       allVars, vars
  <2>3. QED
    BY <2>1, <2>2 DEF Next
<1>5. QED
  BY <1>1, <1>2, <1>3, <1>4

LEMMA CounterStep ==
    ASSUME NoWrap, TypeOK, CounterInv, AttemptsInv, [Next]_allVars
    PROVE  CounterInv'
<1>0. /\ drawn \in Nat /\ first \in Nat /\ counter \in 0..255
      /\ clock \in Nat /\ auth_start \in Nat
  BY DEF TypeOK
<1> USE DEF CounterInv, Authenticating
<1>1. CASE EngineStep
  <2>1. CASE pc' \notin {"challenge", "sent", "wait"}
    BY <2>1
  <2>2. CASE StartAuthentication
    <3>1. pc' = "challenge" /\ counter' = 1 /\ drawn' = drawn /\ first' = drawn + 1
      BY <1>1, <2>2 DEF StartAuthentication, EngineStep
    <3>2. QED
      BY <1>0, <3>1
  <2>3. CASE SendChallenge
    <3>1. /\ pc = "challenge" /\ pc' = "sent" /\ drawn' = drawn + 1
          /\ clock - auth_start < TOTAL_AUTH_TIMEOUT /\ UNCHANGED <<first, counter>>
      BY <1>1, <2>3 DEF SendChallenge, EngineStep
    <3> DEFINE n == drawn - first + 1
    <3>2. n \in Nat
      BY <1>0, <3>1
    <3>3. Attempts(n, Used, clock - auth_start) /\ sends <= MaxSends
      BY <3>1 DEF AttemptsInv
    <3> HIDE DEF n
    <3>4. n <= 255
      BY <3>1, <3>2, <3>3, FewAttempts
    <3>5. QED
      BY <1>0, <3>1, <3>4 DEF n
  <2>w. CASE BeginWait
    <3>1. pc = "sent" /\ pc' = "wait" /\ UNCHANGED <<first, drawn, counter>>
      BY <1>1, <2>w DEF BeginWait, EngineStep
    <3>2. QED
      BY <3>1
  <2>4. CASE ResponseRejected \/ ChallengeTimeout
    <3>1. /\ pc = "wait" /\ pc' = "challenge" /\ counter' = (counter + 1) % 256
          /\ UNCHANGED <<first, drawn>>
      BY <1>1, <2>4 DEF ResponseRejected, ChallengeTimeout, Poll, Polling, NextAttempt,
         EngineStep
    <3> DEFINE n == drawn - first
    <3>2. n \in 0..255 /\ counter = (n + 1) % 256
      BY <1>0, <3>1
    <3> HIDE DEF n
    <3>3. counter' = (n + 2) % 256
      BY <3>1, <3>2
    <3>4. QED
      BY <1>0, <3>1, <3>3 DEF n
  <2>5. CASE ResponseIgnored \/ PollNothing
    <3>1. UNCHANGED <<pc, first, drawn, counter>>
      BY <1>1, <2>5 DEF ResponseIgnored, PollNothing, Polling, Poll, EngineStep
    <3>2. QED
      BY <3>1
  <2>6. QED
    BY <1>1, <2>1, <2>2, <2>3, <2>w, <2>4, <2>5
       DEF EngineStep, EngineNext, WaitForClient, IgnoreCommand, StartPostRelease,
           BrokenPipe, AuthenticationFails, ResponseAccepted, TurnOn, TurnOff,
           ClientDisconnected
<1>2. CASE PeerNext \/ Tick \/ UNCHANGED allVars
  <2>1. UNCHANGED <<pc, first, drawn, counter>>
    BY <1>2 DEF PeerNext, Connect, PressStart, ReceiveChallenge, Close, Answer,
       ForeignAnswer, Send, Tick, EngineTick, engineVars, peerVars, allVars, vars
  <2>2. QED
    BY <2>1
<1>3. QED
  BY <1>1, <1>2 DEF Next

\* What the transponder holds are pairs of numbers.
LEMMA HeldType ==
    ASSUME TypeOK, NEW h \in held
    PROVE  h[1] \in 0..255 /\ h[1] \in Nat /\ h[2] \in Nat /\ h = <<h[1], h[2]>>
<1>1. h \in (0..255) \X Nat
  BY Zenon DEF TypeOK
<1>2. QED
  BY <1>1

LEMMA AttemptsStep ==
    ASSUME TypeOK, TimingInv, CounterInv, AttemptsInv, [Next]_allVars
    PROVE  AttemptsInv'
<1>0. /\ drawn \in Nat /\ first \in Nat /\ sends \in Nat /\ toEngine \in Seq(Bytes)
      /\ clock \in Nat /\ auth_start \in Nat /\ wait_start \in Nat /\ Used \in Int
  <2>1. sends \in Nat /\ toEngine \in Seq(Bytes)
    BY DEF TypeOK
  <2>2. Len(toEngine) \in Nat
    BY <2>1
  <2>3. QED
    BY <2>1, <2>2 DEF TypeOK, Used
<1> USE DEF AttemptsInv
<1>1. CASE EngineStep
  <2>0. UNCHANGED sends
    BY <1>1 DEF EngineStep
  <2>U. Used' \in Int /\ Used' >= Used
    <3>1. CASE \/ IgnoreCommand \/ StartPostRelease \/ StartAuthentication
               \/ ResponseAccepted \/ ResponseRejected \/ ResponseIgnored
      <4>1. PICK size \in {17, 63} : \E b \in Chunks(toEngine, size) : Receive(b)
        BY <3>1 DEF IgnoreCommand, StartPostRelease, StartAuthentication,
           ResponseAccepted, ResponseRejected, ResponseIgnored, Poll
      <4>2. size \in Nat
        BY <4>1
      <4>3. QED
        BY <1>0, <2>0, <4>1, <4>2, ReceiveUses
    <3>2. CASE UNCHANGED toEngine
      BY <1>0, <2>0, <3>2 DEF Used
    <3>3. QED
      BY <1>1, <3>1, <3>2 DEF EngineStep, EngineNext, WaitForClient, SendChallenge,
         BeginWait, BrokenPipe, AuthenticationFails, PollNothing, ChallengeTimeout,
         TurnOff, ClientDisconnected
  <2>1. CASE pc' \notin {"challenge", "sent", "wait"}
    BY <1>0, <2>0, <2>U, <2>1
  <2>2. CASE StartAuthentication
    <3>1. /\ pc' = "challenge" /\ drawn' = drawn /\ first' = drawn + 1
          /\ clock' = clock /\ auth_start' = clock
      BY <1>1, <2>2 DEF StartAuthentication, EngineStep, Receive
    <3>2. drawn' - first' + 1 = 0 + 0 /\ clock' - auth_start' = 0
      BY <1>0, <3>1
    <3>3. Spent(0) = 0
      BY DEF Spent
    <3>4. Attempts(0 + 0, Used', 0)
      BY <1>0, <2>U, <3>3 DEF Attempts
    <3>5. Attempts(drawn' - first' + 1, Used', clock' - auth_start')
      BY <3>2, <3>4
    <3>6. Used' >= 0 /\ sends' <= MaxSends /\ pc' = "challenge"
      BY <1>0, <2>0, <2>U, <3>1
    <3>7. QED
      BY <3>5, <3>6
  <2>3. CASE SendChallenge
    <3>1. /\ pc = "challenge" /\ pc' = "sent" /\ drawn' = drawn + 1 /\ first' = first
          /\ Used' = Used /\ UNCHANGED <<clock, auth_start>>
      BY <1>1, <2>0, <2>3 DEF SendChallenge, EngineStep, Used
    <3>2. drawn' - first' = drawn - first + 1
      BY <1>0, <3>1
    <3>3. QED
      BY <2>0, <2>U, <3>1, <3>2
  <2>w. CASE BeginWait
    <3>1. /\ pc = "sent" /\ pc' = "wait" /\ wait_start' = clock /\ Used' = Used
          /\ UNCHANGED <<drawn, first, auth_start>>
      BY <1>1, <2>0, <2>w DEF BeginWait, EngineStep, Used
    <3>2. QED
      BY <2>0, <2>U, <3>1
  <2>N. ASSUME pc = "wait", NextAttempt, UNCHANGED <<clock, first>>,
               \/ Used + 17 <= Used'
               \/ wait_start - auth_start + PER_CHALLENGE_TIMEOUT <= clock - auth_start,
               wait_start <= clock
        PROVE  AttemptsInv'
    <3> DEFINE n == drawn - first
               s == wait_start - auth_start
               e == clock - auth_start
    <3>1. n \in Nat /\ s \in Int /\ e \in Int /\ s <= e
      BY <1>0, <2>N DEF CounterInv
    <3>2. Attempts(n, Used, s) /\ (Used + 17 <= Used' \/ s + PER_CHALLENGE_TIMEOUT <= e)
      BY <2>N
    <3> HIDE DEF n, s, e
    <3>3. Attempts(n + 1, Used', e)
      BY <1>0, <2>U, <3>1, <3>2, AttemptsMore
    <3>4. pc' = "challenge" /\ drawn' - first' + 1 = n + 1 /\ clock' - auth_start' = e
      BY <2>N DEF NextAttempt, n, e
    <3>5. QED
      BY <1>0, <2>0, <2>U, <3>3, <3>4
  <2>4. CASE ResponseRejected
    <3>1. PICK b \in Chunks(toEngine, 17) :
             Receive(b) /\ Len(b) = 17
      BY <2>4 DEF ResponseRejected, Poll
    <3> DEFINE size == 17
    <3>2. size \in Nat /\ b \in Chunks(toEngine, size)
      BY <3>1
    <3> HIDE DEF size
    <3>3. Used' = Used + 17
      BY <2>0, <3>1, <3>2, ReceiveUses
    <3>4. wait_start <= clock
      BY <2>4 DEF ResponseRejected, Poll, Polling, TimingInv
    <3>5. QED
      BY <1>1, <2>4, <2>N, <3>3, <3>4 DEF ResponseRejected, Poll, Polling, Receive,
         EngineStep
  <2>5. CASE ChallengeTimeout
    BY <1>0, <1>1, <2>5, <2>N DEF ChallengeTimeout, EngineStep, wireVars
  <2>6. CASE ResponseIgnored \/ PollNothing
    <3>1. /\ pc = "wait" /\ UNCHANGED <<pc, first, drawn, auth_start, wait_start>>
      BY <1>1, <2>6 DEF ResponseIgnored, PollNothing, Polling, Poll, EngineStep
    <3> DEFINE n == drawn - first
               s == wait_start - auth_start
    <3>2. n \in Nat /\ s \in Int /\ Attempts(n, Used, s)
      BY <1>0, <3>1 DEF CounterInv
    <3> HIDE DEF n, s
    <3>3. Attempts(n, Used', s)
      BY <1>0, <2>U, <3>2, AttemptsMore
    <3>4. drawn' - first' = n /\ wait_start' - auth_start' = s
      BY <3>1 DEF n, s
    <3>5. QED
      BY <1>0, <2>0, <2>U, <3>1, <3>3, <3>4
  <2>7. QED
    BY <1>1, <2>1, <2>2, <2>3, <2>w, <2>4, <2>5, <2>6
       DEF EngineStep, EngineNext, WaitForClient, IgnoreCommand, StartPostRelease,
           BrokenPipe, AuthenticationFails, ResponseAccepted, TurnOn, TurnOff,
           ClientDisconnected
<1>2. CASE PeerNext \/ Tick \/ UNCHANGED allVars
  <2>1. UNCHANGED <<pc, first, drawn, auth_start, wait_start>>
    BY <1>2 DEF PeerNext, Connect, PressStart, ReceiveChallenge, Close, Answer,
       ForeignAnswer, Send, Tick, EngineTick, engineVars, peerVars, allVars, vars
  <2>2. clock' \in {clock, clock + 1}
    BY <1>2 DEF PeerNext, Connect, PressStart, ReceiveChallenge, Close, Answer,
       ForeignAnswer, Send, Tick, EngineTick, allVars, vars
  <2>3. Used' \in Int /\ Used' >= Used /\ sends' <= MaxSends
    <3>1. CASE \E bytes \in Seq(Bytes) : Len(bytes) <= 17 /\ Send(bytes)
      <4>1. Used' >= Used /\ sends' <= MaxSends
        BY <3>1, SendUses
      <4>2. sends' \in Nat /\ toEngine' \in Seq(Bytes)
        BY TypeStep DEF TypeOK
      <4>3. QED
        BY <4>1, <4>2 DEF Used
    <3>2. CASE UNCHANGED sends /\ UNCHANGED toEngine
      BY <1>0, <3>2 DEF Used
    <3>3. CASE PressStart
      <4>1. Start \in Seq(Bytes) /\ Len(Start) <= 17 /\ Send(Start)
        BY <3>3, StartType DEF PressStart
      <4>2. QED
        BY <3>1, <4>1
    <3>4. ASSUME NEW h \in held, Answer(h)
          PROVE  \E bytes \in Seq(Bytes) : Len(bytes) <= 17 /\ Send(bytes)
      <4>1. h[1] \in Nat /\ h[2] \in Nat
        BY HeldType
      <4> DEFINE bytes == Frame("enc", h[1], h[2])
      <4>2. bytes \in Seq(Bytes) /\ Len(bytes) <= 17
        <5>1. bytes \in Seq(Bytes) /\ Len(bytes) = 17
          BY <4>1, FrameType
        <5> HIDE DEF bytes
        <5>2. QED
          BY <5>1
      <4>3. Send(bytes)
        BY <3>4 DEF Answer
      <4> HIDE DEF bytes
      <4>4. QED
        BY <4>2, <4>3
    <3>5. ASSUME NEW c \in {1, 2}, ForeignAnswer(c)
          PROVE  \E bytes \in Seq(Bytes) : Len(bytes) <= 17 /\ Send(bytes)
      <4>1. c \in Nat /\ 0 \in Nat
        OBVIOUS
      <4> DEFINE bytes == Frame("enc", c, 0)
      <4>2. bytes \in Seq(Bytes) /\ Len(bytes) <= 17
        <5>1. bytes \in Seq(Bytes) /\ Len(bytes) = 17
          BY <4>1, FrameType
        <5> HIDE DEF bytes
        <5>2. QED
          BY <5>1
      <4>3. Send(bytes)
        BY <3>5 DEF ForeignAnswer
      <4> HIDE DEF bytes
      <4>4. QED
        BY <4>2, <4>3
    <3>6. CASE Connect \/ ReceiveChallenge \/ Close \/ Tick \/ UNCHANGED allVars
      BY <3>2, <3>6 DEF Connect, ReceiveChallenge, Close, Tick, EngineTick, peerVars,
         allVars, vars
    <3>7. QED
      BY <1>2, <3>1, <3>3, <3>4, <3>5, <3>6 DEF PeerNext
  <2>4. CASE pc = "challenge"
    <3> DEFINE n == drawn - first + 1
               s == clock - auth_start
               e == clock' - auth_start
    <3>1. n \in Nat /\ s \in Int /\ e \in Int /\ s <= e /\ Attempts(n, Used, s)
      <4>1. first <= drawn + 1
        BY <2>4 DEF CounterInv
      <4>2. n \in Nat
        BY <1>0, <4>1
      <4>3. s \in Int /\ e \in Int /\ s <= e
        <5> HIDE DEF AttemptsInv, n, s, e
        <5>1. clock \in Nat /\ auth_start \in Nat /\ clock' \in Nat /\ clock <= clock'
          BY <1>0, <2>2
        <5>2. \A x, y, z \in Nat : x <= y => x - z \in Int /\ y - z \in Int /\ x - z <= y - z
          OBVIOUS
        <5>3. QED
          BY <5>1, <5>2 DEF s, e
      <4>4. Attempts(n, Used, s)
        BY <2>4
      <4>5. QED
        BY <4>2, <4>3, <4>4
    <3> HIDE DEF n, s, e
    <3>2. Attempts(n, Used', e)
      BY <1>0, <2>3, <3>1, AttemptsMore
    <3>3. drawn' - first' + 1 = n /\ clock' - auth_start' = e
      BY <2>1 DEF n, e
    <3>4. QED
      BY <1>0, <2>1, <2>3, <2>4, <3>2, <3>3
  <2>w. CASE pc = "sent"
    <3> DEFINE n == drawn - first
               s == clock - auth_start
               e == clock' - auth_start
    <3>1. n \in Nat /\ Attempts(n, Used, s)
      BY <1>0, <2>w DEF CounterInv
    <3>2. s \in Int /\ e \in Int /\ s <= e
      <4> HIDE DEF AttemptsInv, n, s, e
      <4>1. clock \in Nat /\ auth_start \in Nat /\ clock' \in Nat /\ clock <= clock'
        BY <1>0, <2>2
      <4>2. \A x, y, z \in Nat : x <= y => x - z \in Int /\ y - z \in Int /\ x - z <= y - z
        OBVIOUS
      <4>3. QED
        BY <4>1, <4>2 DEF s, e
    <3> HIDE DEF n, s, e
    <3>3. Attempts(n, Used', e)
      BY <1>0, <2>3, <3>1, <3>2, AttemptsMore
    <3>4. drawn' - first' = n /\ clock' - auth_start' = e
      BY <2>1 DEF n, e
    <3>5. QED
      BY <1>0, <2>1, <2>3, <2>w, <3>3, <3>4
  <2>5. CASE pc = "wait"
    <3> DEFINE n == drawn - first
               s == wait_start - auth_start
    <3>1. n \in Nat /\ s \in Int /\ Attempts(n, Used, s)
      BY <1>0, <2>5 DEF CounterInv, Authenticating
    <3> HIDE DEF n, s
    <3>2. Attempts(n, Used', s)
      BY <1>0, <2>3, <3>1, AttemptsMore
    <3>3. drawn' - first' = n /\ wait_start' - auth_start' = s
      BY <2>1 DEF n, s
    <3>4. QED
      BY <1>0, <2>1, <2>3, <2>5, <3>2, <3>3
  <2>6. QED
    BY <1>0, <2>1, <2>3, <2>w, <2>4, <2>5
<1>3. QED
  BY <1>1, <1>2 DEF Next

LEMMA OrderStep ==
    ASSUME TypeOK, KnowledgeInv, CounterInv, OrderInv, [Next]_allVars
    PROVE  OrderInv'
<1>0. /\ drawn \in Nat /\ first \in Nat /\ counter \in 0..255
      /\ toEngine \in Seq(Bytes) /\ toPeer \in Seq(Bytes)
      /\ held \subseteq Numbers
      /\ Pairs(toPeer, "rnd", Numbers) /\ Pairs(toEngine, "enc", held)
  BY DEF TypeOK, OrderInv
<1>1. Numbers \subseteq Numbers' /\ Pairs(toPeer, "rnd", Numbers')
  BY <1>0, NumbersGrow, PairsMore
<1>2. CASE EngineStep
  <2>0. UNCHANGED held
    BY <1>2 DEF EngineStep
  <2>1. Pairs(toEngine', "enc", held)
    <3>1. CASE \/ IgnoreCommand \/ StartPostRelease \/ StartAuthentication
               \/ ResponseAccepted \/ ResponseRejected \/ ResponseIgnored
      <4>1. PICK size \in {17, 63} : \E b \in Chunks(toEngine, size) : Receive(b)
        BY <3>1 DEF IgnoreCommand, StartPostRelease, StartAuthentication,
           ResponseAccepted, ResponseRejected, ResponseIgnored, Poll
      <4>2. size \in Nat
        BY <4>1
      <4>3. QED
        BY <1>0, <4>1, <4>2, PairsRead DEF Receive
    <3>2. CASE UNCHANGED toEngine
      BY <1>0, <3>2
    <3>3. QED
      BY <1>2, <3>1, <3>2 DEF EngineStep, EngineNext, WaitForClient, SendChallenge,
         BeginWait, BrokenPipe, AuthenticationFails, PollNothing, ChallengeTimeout, TurnOff,
         ClientDisconnected
  <2>2. Pairs(toPeer', "rnd", Numbers')
    <3>1. CASE SendChallenge
      <4> DEFINE n == drawn + 1
                 t == Frame("rnd", counter, n)
      <4>1. /\ pc = "challenge" /\ pc' = "sent" /\ drawn' = n /\ first' = first
            /\ toPeer' = toPeer \o t
        BY <1>2, <3>1 DEF SendChallenge, EngineStep
      <4>2. n \in 1..drawn' /\ counter = (n - first + 1) % 256 /\ n \in Nat
        BY <1>0, <4>1 DEF CounterInv
      <4> HIDE DEF n
      <4>3. <<counter, n>> \in Numbers'
        BY <1>0, <4>1, <4>2 DEF Numbers
      <4>4. t \in Seq(Bytes) /\ Pairs(t, "rnd", Numbers') /\ t[1][1] # "rnd"
        <5> DEFINE c == counter
                   H == Numbers'
        <5>1. c \in Nat /\ <<c, n>> \in H
          BY <1>0, <4>3
        <5> HIDE DEF c, H
        <5>2. Frame("rnd", c, n) \in Seq(Bytes)
          BY <4>2, <5>1, FrameType
        <5>3. Pairs(Frame("rnd", c, n), "rnd", H) /\ Frame("rnd", c, n)[1][1] # "rnd"
          BY <4>2, <5>1, PairsFrame
        <5>4. QED
          BY <5>2, <5>3 DEF c, H
      <4> HIDE DEF t
      <4>5. Pairs(toPeer \o t, "rnd", Numbers')
        BY <1>0, <1>1, <4>4, PairsAppend
      <4>6. QED
        BY <4>1, <4>5
    <3>2. CASE UNCHANGED toPeer
      BY <1>1, <3>2
    <3>3. QED
      BY <1>2, <3>1, <3>2 DEF EngineStep, EngineNext, WaitForClient, IgnoreCommand,
         StartPostRelease, StartAuthentication, BeginWait, BrokenPipe,
         AuthenticationFails, ResponseAccepted, ResponseRejected, ResponseIgnored, Poll,
         Receive,
         PollNothing, ChallengeTimeout, TurnOff, ClientDisconnected
  <2>3. QED
    BY <1>0, <1>1, <2>0, <2>1, <2>2 DEF OrderInv
<1>3. CASE PeerNext
  <2>S. ASSUME NEW t \in Seq(Bytes), Send(t), UNCHANGED <<toPeer, held>>,
               Pairs(t, "enc", held), t[1][1] # "enc"
        PROVE  OrderInv'
    <3>1. Pairs(toEngine \o t, "enc", held)
      BY <1>0, <2>S, PairsAppend
    <3>2. Pairs(toEngine', "enc", held') /\ Pairs(toPeer', "rnd", Numbers')
      BY <1>1, <2>S, <3>1 DEF Send
    <3>3. QED
      BY <1>0, <1>1, <2>S, <3>2 DEF OrderInv
  <2>1. CASE Connect \/ Close
    <3>1. UNCHANGED <<toEngine, toPeer, held>>
      BY <2>1 DEF Connect, Close, peerVars
    <3>2. QED
      BY <1>0, <1>1, <3>1 DEF OrderInv
  <2>2. CASE PressStart
    BY <2>2, <2>S, StartType, PairsStart DEF PressStart
  <2>3. CASE ReceiveChallenge
    <3> DEFINE size == 17
    <3>1. PICK b \in Chunks(toPeer, size) :
             /\ toPeer' = Rest(toPeer, b)
             /\ held' = held \cup {h \in (0..255) \X (1..drawn) : b = Frame("rnd", h[1], h[2])}
      BY <2>3 DEF ReceiveChallenge
    <3>2. toEngine' = toEngine /\ size \in Nat
      BY <2>3 DEF ReceiveChallenge
    <3> HIDE DEF size
    <3>3. ASSUME NEW h \in (0..255) \X (1..drawn), b = Frame("rnd", h[1], h[2])
          PROVE  h \in Numbers
      <4> DEFINE c == h[1]
                 n == h[2]
      <4>0. h = <<c, n>> /\ c \in Nat /\ n \in Nat /\ n # 0
        OBVIOUS
      <4> HIDE DEF c, n
      <4>1. Len(b) = 17 /\ \A i \in 1..17 : b[i] = IF i = 1 THEN <<"ctr", c, 0>> ELSE <<"rnd", n, i - 1>>
        BY <3>3 DEF Frame, c, n
      <4>2. b[1] = <<"ctr", c, 0>> /\ b[2] = <<"rnd", n, 1>>
        BY <4>1
      <4>3. Len(b) \in 0..Len(toPeer) /\ \A i \in 1..Len(b) : b[i] = toPeer[i]
        BY <1>0, <3>2, ChunkIsPrefix
      <4>4. 2 \in 2..Len(toPeer) /\ 2 - 1 = 1 /\ toPeer[1] = b[1] /\ toPeer[2] = b[2]
        <5> DEFINE l == Len(b)
        <5>1. l = 17 /\ Len(toPeer) \in Nat
          BY <1>0, <4>1
        <5>2. l <= Len(toPeer) /\ \A i \in 1..l : b[i] = toPeer[i]
          BY <4>3, <5>1
        <5> HIDE DEF l
        <5>3. QED
          BY <5>1, <5>2
      <4>5. /\ toPeer[1][2] = c /\ toPeer[2][1] = "rnd" /\ toPeer[2][2] = n
            /\ toPeer[2][3] = 1
        BY <4>2, <4>4
      <4>6. <<toPeer[1][2], toPeer[2][2]>> \in Numbers
        BY <1>0, <4>0, <4>4, <4>5 DEF Pairs
      <4>7. QED
        BY <4>0, <4>5, <4>6
    <3>4. held' \subseteq Numbers /\ held \subseteq held'
      BY <1>0, <3>1, <3>3
    <3>5. Pairs(toPeer', "rnd", Numbers')
      BY <1>0, <1>1, <3>1, <3>2, PairsRead
    <3>6. Pairs(toEngine', "enc", held')
      BY <1>0, <3>2, <3>4, PairsMore
    <3>7. QED
      BY <1>1, <3>4, <3>5, <3>6 DEF OrderInv
  <2>4. ASSUME NEW h \in held, Answer(h) PROVE OrderInv'
    <3> DEFINE c == h[1]
               n == h[2]
               t == Frame("enc", c, n)
    <3>1. c \in Nat /\ n \in Nat /\ <<c, n>> \in held
      BY HeldType
    <3>2. Send(t) /\ UNCHANGED <<toPeer, held>>
      BY <2>4 DEF Answer
    <3> HIDE DEF c, n
    <3>3. t \in Seq(Bytes) /\ Pairs(t, "enc", held) /\ t[1][1] # "enc"
      BY <3>1, FrameType, PairsFrame
    <3> HIDE DEF t
    <3>4. QED
      BY <2>S, <3>2, <3>3
  <2>5. ASSUME NEW c \in {1, 2}, ForeignAnswer(c) PROVE OrderInv'
    <3> DEFINE n == 0
               t == Frame("enc", c, n)
    <3>1. c \in Nat /\ n \in Nat /\ ~(n # 0)
      OBVIOUS
    <3>2. Send(t) /\ UNCHANGED <<toPeer, held>>
      BY <2>5 DEF ForeignAnswer
    <3> HIDE DEF n
    <3>3. t \in Seq(Bytes) /\ Pairs(t, "enc", held) /\ t[1][1] # "enc"
      BY <3>1, FrameType, PairsFrame
    <3> HIDE DEF t
    <3>4. QED
      BY <2>S, <3>2, <3>3
  <2>6. QED
    BY <1>3, <2>1, <2>2, <2>3, <2>4, <2>5 DEF PeerNext
<1>4. CASE Tick \/ UNCHANGED allVars
  <2>1. UNCHANGED <<toEngine, toPeer, held>>
    BY <1>4 DEF Tick, EngineTick, peerVars, allVars, vars
  <2>2. QED
    BY <1>0, <1>1, <2>1 DEF OrderInv
<1>5. QED
  BY <1>2, <1>3, <1>4 DEF Next

LEMMA InitLate == Init => LateInv
<1> SUFFICES ASSUME Init PROVE LateInv
  OBVIOUS
<1>1. /\ pc = "accept" /\ held = {} /\ sends = 0 /\ toEngine = <<>> /\ toPeer = <<>>
  BY DEF Init, WireInit, EngineInit
<1>2. Len(toEngine) = 0 /\ Len(toPeer) = 0
  BY <1>1
<1>3. OrderInv
  BY <1>1, <1>2 DEF OrderInv, Pairs
<1>4. CounterInv
  BY <1>1 DEF CounterInv, Authenticating
<1>5. AttemptsInv
  BY <1>1, <1>2 DEF AttemptsInv, Used
<1>6. QED
  BY <1>3, <1>4, <1>5 DEF LateInv

\* An answer to an earlier challenge of the same authentication, made with the key,
\* is never taken for the current one, nor does it end the wait for that, however
\* the bytes before it were torn and whatever others send (05_engine_post.c:95): as
\* long as too few messages come to drive the counter round.
THEOREM LateAnswers ==
    ASSUME NoWrap
    PROVE  Spec => LateAnswerIgnored
<1>1. IInv /\ LateInv /\ [Next]_allVars => LateInv'
  BY OrderStep, CounterStep, AttemptsStep DEF IInv, LateInv
<1>2. ASSUME IInv, LateInv, [Next]_allVars, NEW n \in first..(drawn - 1),
             pc = "wait", toEngine' # toEngine, Len(toEngine) >= 17,
             toEngine' = SubSeq(toEngine, 18, Len(toEngine)),
             SubSeq(toEngine, 2, 17) = Block("enc", n)
      PROVE  pc' = "wait"
  <2>0. /\ toEngine \in Seq(Bytes) /\ drawn \in Nat /\ first \in Nat \ {0}
        /\ first <= drawn /\ drawn - first <= 255
        /\ counter = (drawn - first + 1) % 256
        /\ Pairs(toEngine, "enc", held) /\ held \subseteq Numbers
    BY <1>2 DEF IInv, TypeOK, LateInv, CounterInv, OrderInv, Authenticating
  <2>1. toEngine[2] = <<"enc", n, 1>>
    <3>1. SubSeq(toEngine, 2, 17)[1] = toEngine[2]
      BY <1>2, <2>0
    <3>2. Block("enc", n)[1] = <<"enc", n, 1>>
      BY DEF Block
    <3>3. QED
      BY <1>2, <3>1, <3>2
  <2>2. /\ toEngine[2][1] = "enc" /\ toEngine[2][2] = n /\ toEngine[2][3] = 1
        /\ n # 0 /\ n < drawn /\ n >= first /\ n \in Nat
    BY <2>0, <2>1
  <2>3. 2 \in 2..Len(toEngine) /\ 2 - 1 = 1
    BY <1>2, <2>0
  <2>4. toEngine[1][1] = "ctr" /\ <<toEngine[1][2], n>> \in Numbers
    BY <2>0, <2>2, <2>3 DEF Pairs
  <2> DEFINE c == toEngine[1][2]
  <2>5. c = (n - first + 1) % 256
    BY <1>2, <2>2, <2>4 DEF Numbers, Authenticating
  <2> HIDE DEF c
  <2>6. c # counter
    <3> DEFINE i == n - first + 1
               j == drawn - first + 1
    <3>1. i \in 1..256 /\ j \in 1..256 /\ i < j /\ c = i % 256 /\ counter = j % 256
      <4>1. i \in Int /\ j \in Int /\ 1 <= i /\ i < j /\ j <= 256
        BY <2>0, <2>2
      <4>2. c = i % 256 /\ counter = j % 256
        BY <2>0, <2>5
      <4> HIDE DEF i, j
      <4>3. QED
        BY <4>1, <4>2
    <3> HIDE DEF i, j
    <3>2. QED
      BY <3>1
  <2>7. ~MayBe(toEngine[1], counter)
    BY <2>4, <2>6 DEF MayBe, c
  <2>8. ASSUME NEW b \in Chunks(toEngine, 17), Len(b) = 17
        PROVE  b[1] = toEngine[1]
    <3> DEFINE size == 17
    <3>1. size \in Nat /\ b \in Chunks(toEngine, size)
      OBVIOUS
    <3> HIDE DEF size
    <3>2. \A i \in 1..Len(b) : b[i] = toEngine[i]
      BY <2>0, <3>1, ChunkIsPrefix
    <3>3. QED
      BY <2>8, <3>2
  <2>9. ~ResponseAccepted /\ ~ResponseRejected
    BY <2>7, <2>8 DEF ResponseAccepted, ResponseRejected
  <2>10. CASE EngineStep
    BY <1>2, <2>9, <2>10 DEF EngineStep, EngineNext, WaitForClient, IgnoreCommand,
       StartPostRelease, StartAuthentication, SendChallenge, BeginWait, BrokenPipe,
       AuthenticationFails, ResponseIgnored, PollNothing, ChallengeTimeout, TurnOff,
       ClientDisconnected
  <2>11. CASE PeerNext \/ Tick \/ UNCHANGED allVars
    BY <1>2, <2>11 DEF PeerNext, Connect, PressStart, ReceiveChallenge, Close, Answer,
       ForeignAnswer, Send, Tick, EngineTick, engineVars, allVars, vars
  <2>12. QED
    BY <1>2, <2>10, <2>11 DEF Next
<1>3. IInv /\ LateInv /\ [Next]_allVars
      => [\A n \in first..(drawn - 1) :
            /\ pc = "wait" /\ toEngine' # toEngine
            /\ Len(toEngine) >= 17 /\ toEngine' = SubSeq(toEngine, 18, Len(toEngine))
            /\ SubSeq(toEngine, 2, 17) = Block("enc", n)
            => pc' = "wait"]_allVars
  BY Zenon, <1>2
<1>4. QED
  BY Inductive, InitLate, <1>1, <1>3, PTL DEF Spec, LateAnswerIgnored

-----------------------------------------------------------------------------
(* The demonstration: with the script of 06_post_trans.c.                  *)

HIDE BoundsAssumption

\* Of the timeouts: a challenge is sent although a second begins before it is, and
\* waits longer than the second the transponder sleeps and the one by which a poll
\* may be late; the second start, two seconds
\* after the first answer, comes inside the window, and the third, ten seconds after
\* the second, outside.  Both programs get the CPU in time (in an authentication a
\* second may begin between any two steps) and recv() returns messages whole.  15,
\* 5, 6 and 2 seconds (05_engine_post.c:12 to :15, and the sleep(2) of main) do.
DemoTimes ==
    /\ Slack = 0
    /\ TOTAL_AUTH_TIMEOUT >= 2
    /\ PER_CHALLENGE_TIMEOUT >= 3
    /\ RUN_TIME + POST_RELEASE_TIMEOUT >= 2
    /\ RUN_TIME + POST_RELEASE_TIMEOUT < 10
    /\ 2 * RUN_TIME + POST_RELEASE_TIMEOUT < 11
    /\ \A r \in ShortReads : r >= 17

-----------------------------------------------------------------------------
(* Where the two programs are, for every operation of the script.          *)

\* "start" is under way or has become a challenge, which is under way as the n-th.
Pressed(n) ==
    \/ /\ pc \in {"accept", "command"} /\ toEngine = Start /\ toPeer = <<>>
       /\ drawn = n - 1
       /\ last_engine_off_time # 0 => clock - last_engine_off_time > POST_RELEASE_TIMEOUT
    \/ /\ pc = "challenge" /\ toEngine = <<>> /\ toPeer = <<>>
       /\ drawn = n - 1 /\ counter = 1 /\ late <= 1 /\ clock <= auth_start + late
    \/ /\ pc \in {"sent", "wait"} /\ toEngine = <<>> /\ toPeer = Frame("rnd", 1, n)
       /\ drawn = n /\ counter = 1 /\ late = 0
       /\ pc = "wait" => wait_start = clock

\* The transponder has had the n-th challenge since b and sleeps before it answers.
Waiting(n, b) ==
    /\ toEngine = <<>> /\ toPeer = <<>> /\ drawn = n /\ counter = 1 /\ late <= 1
    /\ \/ pc = "sent" /\ clock = b + late
       \/ pc = "wait" /\ wait_start \in {b, b + 1}

\* The answer to the n-th challenge was sent at t; the engine polls within a second.
Heard(n, t) ==
    /\ toEngine = Frame("enc", 1, n) /\ drawn = n /\ counter = 1
    /\ \/ pc = "sent" /\ clock = t /\ late = 1
       \/ /\ pc = "wait" /\ wait_start \in {t - 1, t}
          /\ late <= 1 /\ clock <= t + late

\* The engine runs, until t, or has run, with `queue' still to be received.
Runs(t, queue) ==
    /\ pc = "running" /\ toEngine = queue /\ wake = t /\ clock <= t

HasRun(t, queue) ==
    /\ pc = "command" /\ toEngine = queue /\ auth_valid = 1
    /\ last_engine_off_time = t /\ t <= clock

\* The answer sent at t has been, or will be, accepted.
Answered(n, t) ==
    /\ drawn = n /\ toPeer = <<>> /\ t <= clock
    /\ \/ Heard(n, t)
       \/ \E a \in {t, t + 1} : Runs(a + RUN_TIME, <<>>) \/ HasRun(a + RUN_TIME, <<>>)

\* The start pressed at t, two seconds after the answer, needs no challenge.
Again(t) ==
    /\ drawn = 1 /\ toPeer = <<>> /\ t <= clock
    /\ \/ \E a \in {t - 2, t - 1} :
             \/ Runs(a + RUN_TIME, Start)
             \/ HasRun(a + RUN_TIME, Start) /\ clock \in {t, a + RUN_TIME}
       \/ \E a \in Nat :
             /\ a <= t \/ a <= t - 1 + RUN_TIME
             /\ Runs(a + RUN_TIME, <<>>) \/ HasRun(a + RUN_TIME, <<>>)

\* When what precedes a sleep of s seconds took place.
Began(s) == IF asleep = 0 THEN clock ELSE asleep - s

ScriptInv ==
    /\ ip \in 1..15 /\ asleep \in Nat /\ tlate \in Nat
    /\ asleep # 0 => ip \in {4, 6, 8, 9, 12} /\ clock <= asleep
    /\ link = IF ip = 1 THEN "none" ELSE IF ip = 15 THEN "closed" ELSE "open"
    /\ held = IF ip <= 3 THEN {} ELSE IF ip <= 11 THEN {<<1, 1>>} ELSE {<<1, 1>>, <<1, 2>>}
    /\ answered = IF ip <= 5 THEN {} ELSE IF ip <= 13 THEN {1} ELSE {1, 2}

DemoInv ==
    /\ ScriptInv
    /\ ip \in {1, 2} =>
          /\ pc \in {"accept", "command"} /\ toEngine = <<>> /\ toPeer = <<>>
          /\ drawn = 0 /\ last_engine_off_time = 0
    /\ ip = 3 => Pressed(1)
    /\ ip = 4 => Waiting(1, Began(1))
    /\ ip = 5 => Waiting(1, clock - 1)
    /\ ip = 6 => Answered(1, Began(2))
    /\ ip = 7 => Answered(1, clock - 2)
    /\ ip = 8 => Again(Began(3))
    /\ ip = 9 => Again(Began(7) - 3)
    /\ ip = 10 => Again(clock - 10)
    /\ ip = 11 => Pressed(2)
    /\ ip = 12 => Waiting(2, Began(1))
    /\ ip = 13 => Waiting(2, clock - 1)
    /\ ip \in {14, 15} =>
          /\ drawn = 2 /\ toPeer = <<>>
          /\ \/ \E t \in Int : Heard(2, t)
             \/ /\ pc = "running" \/ pc = "command" \/ (ip = 15 /\ pc = "stopped")
                /\ toEngine = <<>>

-----------------------------------------------------------------------------
(* The script and the messages.                                            *)

\* The script, operation by operation.
LEMMA ScriptIs ==
    /\ Len(Script) = 14
    /\ Script[1] = Do("connect")
    /\ Script[2] = Do("press")
    /\ Script[3] = Do("receive")
    /\ Script[4] = Sleep(1)
    /\ Script[5] = Do("answer")
    /\ Script[6] = Sleep(2)
    /\ Script[7] = Do("press")
    /\ Script[8] = Sleep(3)
    /\ Script[9] = Sleep(7)
    /\ Script[10] = Do("press")
    /\ Script[11] = Do("receive")
    /\ Script[12] = Sleep(1)
    /\ Script[13] = Do("answer")
    /\ Script[14] = Do("close")
<1> DEFINE S == {Do("connect"), Do("press"), Do("receive"), Do("answer"), Do("close"),
                 Sleep(1), Sleep(2), Sleep(3), Sleep(7)}
           a == <<Do("connect"), Do("press")>>
           h == <<Do("receive"), Sleep(1), Do("answer")>>
           m == <<Sleep(2), Do("press"), Sleep(3), Sleep(7), Do("press")>>
           z == <<Do("close")>>
           ah == a \o h
           ahm == ah \o m
           ahmh == ahm \o h
<1>1. Script = ahmh \o z
  BY DEF Script, HandleAuthentication
<1>2. /\ Do("connect") \in S /\ Do("press") \in S /\ Do("receive") \in S
      /\ Do("answer") \in S /\ Do("close") \in S
      /\ Sleep(1) \in S /\ Sleep(2) \in S /\ Sleep(3) \in S /\ Sleep(7) \in S
  BY Zenon
<1> HIDE DEF S
<1>3. a \in Seq(S) /\ h \in Seq(S) /\ m \in Seq(S) /\ z \in Seq(S)
  BY <1>2
<1>4. /\ Len(a) = 2 /\ a[1] = Do("connect") /\ a[2] = Do("press")
  OBVIOUS
<1>5. /\ Len(h) = 3 /\ h[1] = Do("receive") /\ h[2] = Sleep(1) /\ h[3] = Do("answer")
  OBVIOUS
<1>6. /\ Len(m) = 5 /\ m[1] = Sleep(2) /\ m[2] = Do("press") /\ m[3] = Sleep(3)
      /\ m[4] = Sleep(7) /\ m[5] = Do("press")
  OBVIOUS
<1>7. /\ Len(z) = 1 /\ z[1] = Do("close")
  OBVIOUS
<1> HIDE DEF a, h, m, z
<1>8. /\ ah \in Seq(S) /\ Len(ah) = 2 + 3
      /\ \A i \in 1..(2 + 3) : ah[i] = IF i <= 2 THEN a[i] ELSE h[i - 2]
  <2>1. /\ ah \in Seq(S) /\ Len(ah) = Len(a) + Len(h)
        /\ \A i \in 1..(Len(a) + Len(h)) :
              ah[i] = IF i <= Len(a) THEN a[i] ELSE h[i - Len(a)]
    BY <1>3, ConcatProperties
  <2> HIDE DEF ah
  <2>2. QED
    BY <1>4, <1>5, <2>1
<1> HIDE DEF ah
<1>9. /\ Len(ah) = 5
      /\ ah[1] = Do("connect") /\ ah[2] = Do("press") /\ ah[3] = Do("receive")
      /\ ah[4] = Sleep(1) /\ ah[5] = Do("answer")
  <2>1. /\ ah[1] = a[1] /\ ah[2] = a[2] /\ ah[3] = h[1] /\ ah[4] = h[2]
        /\ ah[5] = h[3]
    BY <1>8
  <2>2. QED
    BY <1>4, <1>5, <1>8, <2>1
<1>10. /\ ahm \in Seq(S) /\ Len(ahm) = 5 + 5
      /\ \A i \in 1..(5 + 5) : ahm[i] = IF i <= 5 THEN ah[i] ELSE m[i - 5]
  <2>1. /\ ahm \in Seq(S) /\ Len(ahm) = Len(ah) + Len(m)
        /\ \A i \in 1..(Len(ah) + Len(m)) :
              ahm[i] = IF i <= Len(ah) THEN ah[i] ELSE m[i - Len(ah)]
    BY <1>3, <1>8, ConcatProperties
  <2> HIDE DEF ahm
  <2>2. QED
    BY <1>6, <1>9, <2>1
<1> HIDE DEF ahm
<1>11. /\ Len(ahm) = 10
      /\ ahm[1] = Do("connect") /\ ahm[2] = Do("press") /\ ahm[3] = Do("receive")
      /\ ahm[4] = Sleep(1) /\ ahm[5] = Do("answer") /\ ahm[6] = Sleep(2)
      /\ ahm[7] = Do("press") /\ ahm[8] = Sleep(3) /\ ahm[9] = Sleep(7)
      /\ ahm[10] = Do("press")
  <2>1. /\ ahm[1] = ah[1] /\ ahm[2] = ah[2] /\ ahm[3] = ah[3] /\ ahm[4] = ah[4]
        /\ ahm[5] = ah[5] /\ ahm[6] = m[1] /\ ahm[7] = m[2] /\ ahm[8] = m[3]
        /\ ahm[9] = m[4] /\ ahm[10] = m[5]
    BY <1>10
  <2>2. QED
    BY <1>9, <1>6, <1>10, <2>1
<1>12. /\ ahmh \in Seq(S) /\ Len(ahmh) = 10 + 3
      /\ \A i \in 1..(10 + 3) : ahmh[i] = IF i <= 10 THEN ahm[i] ELSE h[i - 10]
  <2>1. /\ ahmh \in Seq(S) /\ Len(ahmh) = Len(ahm) + Len(h)
        /\ \A i \in 1..(Len(ahm) + Len(h)) :
              ahmh[i] = IF i <= Len(ahm) THEN ahm[i] ELSE h[i - Len(ahm)]
    BY <1>3, <1>10, ConcatProperties
  <2> HIDE DEF ahmh
  <2>2. QED
    BY <1>5, <1>11, <2>1
<1> HIDE DEF ahmh
<1>13. /\ Len(ahmh) = 13
      /\ ahmh[1] = Do("connect") /\ ahmh[2] = Do("press") /\ ahmh[3] = Do("receive")
      /\ ahmh[4] = Sleep(1) /\ ahmh[5] = Do("answer") /\ ahmh[6] = Sleep(2)
      /\ ahmh[7] = Do("press") /\ ahmh[8] = Sleep(3) /\ ahmh[9] = Sleep(7)
      /\ ahmh[10] = Do("press") /\ ahmh[11] = Do("receive") /\ ahmh[12] = Sleep(1)
      /\ ahmh[13] = Do("answer")
  <2>1. /\ ahmh[1] = ahm[1] /\ ahmh[2] = ahm[2] /\ ahmh[3] = ahm[3]
        /\ ahmh[4] = ahm[4] /\ ahmh[5] = ahm[5] /\ ahmh[6] = ahm[6]
        /\ ahmh[7] = ahm[7] /\ ahmh[8] = ahm[8] /\ ahmh[9] = ahm[9]
        /\ ahmh[10] = ahm[10] /\ ahmh[11] = h[1] /\ ahmh[12] = h[2]
        /\ ahmh[13] = h[3]
    BY <1>12
  <2>2. QED
    BY <1>11, <1>5, <1>12, <2>1
<1>14. /\ Script \in Seq(S) /\ Len(Script) = 13 + 1
       /\ \A i \in 1..(13 + 1) : Script[i] = IF i <= 13 THEN ahmh[i] ELSE z[i - 13]
  <2>1. /\ Script \in Seq(S) /\ Len(Script) = Len(ahmh) + Len(z)
        /\ \A i \in 1..(Len(ahmh) + Len(z)) :
              Script[i] = IF i <= Len(ahmh) THEN ahmh[i] ELSE z[i - Len(ahmh)]
    BY <1>1, <1>3, <1>12, ConcatProperties, ZenonT(30)
  <2>2. QED
    BY <1>7, <1>13, <2>1
<1>15. /\ Len(Script) = 14
      /\ Script[1] = Do("connect") /\ Script[2] = Do("press")
      /\ Script[3] = Do("receive") /\ Script[4] = Sleep(1)
      /\ Script[5] = Do("answer") /\ Script[6] = Sleep(2) /\ Script[7] = Do("press")
      /\ Script[8] = Sleep(3) /\ Script[9] = Sleep(7) /\ Script[10] = Do("press")
      /\ Script[11] = Do("receive") /\ Script[12] = Sleep(1)
      /\ Script[13] = Do("answer") /\ Script[14] = Do("close")
  <2>1. /\ Script[1] = ahmh[1] /\ Script[2] = ahmh[2] /\ Script[3] = ahmh[3]
        /\ Script[4] = ahmh[4] /\ Script[5] = ahmh[5] /\ Script[6] = ahmh[6]
        /\ Script[7] = ahmh[7] /\ Script[8] = ahmh[8] /\ Script[9] = ahmh[9]
        /\ Script[10] = ahmh[10] /\ Script[11] = ahmh[11] /\ Script[12] = ahmh[12]
        /\ Script[13] = ahmh[13] /\ Script[14] = z[1]
    BY <1>14
  <2>2. QED
    BY <1>13, <1>7, <1>14, <2>1
<1>16. QED
  BY <1>15

LEMMA Operations ==
    ASSUME ip \in 1..15
    PROVE  /\ Len(Script) = 14
           /\ At("connect") <=> ip = 1
           /\ At("press")   <=> ip \in {2, 7, 10}
           /\ At("receive") <=> ip \in {3, 11}
           /\ At("answer")  <=> ip \in {5, 13}
           /\ At("close")   <=> ip = 14
           /\ At("sleep")   <=> ip \in {4, 6, 8, 9, 12}
           /\ ip = 4 => Script[ip].seconds = 1
           /\ ip = 6 => Script[ip].seconds = 2
           /\ ip = 8 => Script[ip].seconds = 3
           /\ ip = 9 => Script[ip].seconds = 7
           /\ ip = 12 => Script[ip].seconds = 1
BY ScriptIs DEF At, Do, Sleep

\* A message that is alone in a queue is received whole.
LEMMA ReceivedWhole ==
    ASSUME DemoTimes, NEW s \in Seq(Bytes), NEW size \in {17, 63}, NEW b \in Chunks(s, size),
           Len(s) <= 17
    PROVE  b = s /\ Rest(s, b) = <<>>
<1> DEFINE l == Len(s)
<1>0. l \in Nat /\ l <= 17
  OBVIOUS
<1>1. (IF l < size THEN l ELSE size) = l /\ \A r \in ShortReads : r >= l
  <2>1. size \in Nat /\ size >= 17 /\ \A r \in ShortReads : r \in Nat /\ r >= 17
    BY ShortReadsAssumption DEF DemoTimes
  <2> HIDE DEF l
  <2>2. QED
    BY <1>0, <2>1
<1>2. /\ Len(b) = l /\ Len(Rest(s, b)) = l - l
      /\ \A i \in 1..l : b[i] = s[i]
  <2>1. size \in Nat
    OBVIOUS
  <2>2. QED
    BY <1>1, <2>1, ChunkIsWhole
<1>3. b \in Seq(Bytes) /\ Rest(s, b) \in Seq(Bytes)
  <2>1. size \in Nat
    OBVIOUS
  <2>2. QED
    BY <2>1, ChunkIsPrefix, RestIsSuffix
<1>4. b = s
  BY <1>2, <1>3, SeqEqual
<1>5. QED
  BY <1>0, <1>2, <1>3, <1>4

\* The two messages of an authentication with counter 1.
LEMMA MessageType ==
    ASSUME NEW kind \in {"rnd", "enc"}, NEW n \in {1, 2}
    PROVE  /\ Frame(kind, 1, n) \in Seq(Bytes) /\ Len(Frame(kind, 1, n)) = 17
           /\ Frame(kind, 1, n) # <<>>
           /\ Frame(kind, 1, n)[1] = <<"ctr", 1, 0>>
           /\ SubSeq(Frame(kind, 1, n), 2, 17) = Block(kind, n)
<1>1. 1 \in Nat /\ n \in Nat
  OBVIOUS
<1>2. /\ Frame(kind, 1, n) \in Seq(Bytes) /\ Len(Frame(kind, 1, n)) = 17
  <2>1. \A c, m \in Nat : Frame(kind, c, m) \in Seq(Bytes) /\ Len(Frame(kind, c, m)) = 17
    BY FrameType
  <2>2. QED
    BY Zenon, <1>1, <2>1
<1>3. SubSeq(Frame(kind, 1, n), 2, 17) = Block(kind, n)
  BY <1>1, FrameParts
<1>4. Frame(kind, 1, n)[1] = <<"ctr", 1, 0>>
  BY DEF Frame
<1>5. Frame(kind, 1, n) # <<>>
  <2>0. 17 # 0
    OBVIOUS
  <2>1. Len(<<>>) = 0
    OBVIOUS
  <2>2. QED
    BY Zenon, <1>2, <2>1, <2>0
<1>6. QED
  BY <1>2, <1>3, <1>4, <1>5

\* A challenge frame has one counter and one number.
LEMMA FrameNames ==
    ASSUME NEW c \in Nat, NEW n \in Nat, NEW d \in Nat, NEW m \in Nat,
           Frame("rnd", c, n) = Frame("rnd", d, m)
    PROVE  c = d /\ n = m
<1>1. /\ Frame("rnd", c, n)[1] = <<"ctr", c, 0>> /\ Frame("rnd", d, m)[1] = <<"ctr", d, 0>>
      /\ Frame("rnd", c, n)[2] = <<"rnd", n, 1>> /\ Frame("rnd", d, m)[2] = <<"rnd", m, 1>>
  BY DEF Frame
<1>2. QED
  BY <1>1

-----------------------------------------------------------------------------
(* What the engine does next, place by place.                              *)

LEMMA EngineAt ==
    ASSUME EngineStep
    PROVE  /\ pc = "accept" => WaitForClient
           /\ pc = "command" => \/ IgnoreCommand \/ StartPostRelease
                                \/ StartAuthentication \/ ClientDisconnected
           /\ pc = "challenge" => SendChallenge \/ BrokenPipe \/ AuthenticationFails
           /\ pc = "sent" => BeginWait
           /\ pc = "wait" => \/ ResponseAccepted \/ ResponseRejected \/ ResponseIgnored
                             \/ PollNothing \/ ChallengeTimeout
           /\ pc = "running" => TurnOff
           /\ pc \notin {"stopped", "killed"}
           /\ UNCHANGED <<clock, link, held, answered>>
BY Zenon DEF EngineStep, EngineNext, WaitForClient, IgnoreCommand, StartPostRelease,
   StartAuthentication, SendChallenge, BeginWait, BrokenPipe, AuthenticationFails,
   ResponseAccepted, ResponseRejected, ResponseIgnored, PollNothing,
   ChallengeTimeout, TurnOff, ClientDisconnected, Poll, Polling, Receive, wireVars

\* In main's recv() with nothing to receive the engine waits.
LEMMA Blocked ==
    ASSUME pc = "command", toEngine = <<>>, link # "closed"
    PROVE  ~EngineStep
<1>1. SUFFICES ASSUME EngineStep PROVE FALSE
  OBVIOUS
<1>2. \/ IgnoreCommand \/ StartPostRelease \/ StartAuthentication \/ ClientDisconnected
  BY <1>1, EngineAt
<1>3. QED
  BY <1>2 DEF IgnoreCommand, StartPostRelease, StartAuthentication, ClientDisconnected,
     Receive

\* A start in main's recv(): the window decides.
LEMMA StartReceived ==
    ASSUME DemoTimes, TypeOK, ControlInv, EngineStep, pc = "command", toEngine = Start
    PROVE  /\ toEngine' = <<>> /\ UNCHANGED toPeer /\ UNCHANGED drawn
           /\ \/ /\ PostReleaseValid
                 /\ pc' = "running" /\ wake' = clock + RUN_TIME /\ auth_valid' = auth_valid
              \/ /\ ~PostReleaseValid
                 /\ pc' = "challenge" /\ counter' = 1 /\ auth_start' = clock
                 /\ late' = 0
<1>1. Start \in Seq(Bytes) /\ Len(Start) = 5 /\ Start # <<>>
  <2>1. Start \in Seq(Bytes) /\ Len(Start) = 5
    BY StartType
  <2>2. Len(<<>>) = 0 /\ 5 # 0
    OBVIOUS
  <2>3. QED
    BY Zenon, <2>1, <2>2
<1>2. ASSUME NEW b \in Chunks(toEngine, 63), Receive(b)
      PROVE  b = Start /\ toEngine' = <<>> /\ UNCHANGED toPeer
  <2>0. toEngine \in Seq(Bytes) /\ Len(toEngine) = 5
    BY Zenon, <1>1
  <2>1. toEngine \in Seq(Bytes) /\ Len(toEngine) <= 17
    BY <2>0
  <2>2. b = toEngine /\ Rest(toEngine, b) = <<>>
    BY <2>1, ReceivedWhole
  <2>3. QED
    BY <1>2, <2>2 DEF Receive
<1>3. IsStart(Start)
  <2>1. SubSeq(Start, 1, 5) = Start
    BY <1>1
  <2>2. QED
    BY <1>1, <2>1 DEF IsStart
<1>4. engine_state = ENGINE_OFF
  BY DEF ControlInv, TypeOK, ENGINE_OFF, ENGINE_ON
<1>5. ~IgnoreCommand
  BY <1>2, <1>3, <1>4 DEF IgnoreCommand
<1>6. ~ClientDisconnected
  BY <1>1 DEF ClientDisconnected
<1>7. CASE StartPostRelease
  <2>1. toEngine' = <<>> /\ UNCHANGED toPeer
    BY <1>2, <1>7 DEF StartPostRelease
  <2>2. QED
    BY <1>7, <2>1 DEF StartPostRelease, TurnOn
<1>8. CASE StartAuthentication
  <2>1. toEngine' = <<>> /\ UNCHANGED toPeer /\ late' = 0
    BY <1>2, <1>8 DEF StartAuthentication, Receive
  <2>2. QED
    BY <1>8, <2>1 DEF StartAuthentication
<1>9. QED
  BY <1>5, <1>6, <1>7, <1>8, EngineAt

\* The engine at a start that needs a challenge.
LEMMA EnginePressed ==
    ASSUME DemoTimes, TypeOK, ControlInv, EngineStep, link = "open",
           NEW n \in {1, 2}, Pressed(n)
    PROVE  Pressed(n)'
<1>0. /\ UNCHANGED <<clock, link>> /\ clock \in Nat /\ last_engine_off_time \in Nat
      /\ drawn \in Nat
  BY EngineAt DEF TypeOK
<1>1. CASE pc \in {"accept", "command"}
  <2>0. /\ toEngine = Start /\ toPeer = <<>> /\ drawn = n - 1
        /\ last_engine_off_time # 0 => clock - last_engine_off_time > POST_RELEASE_TIMEOUT
    BY <1>1 DEF Pressed
  <2>1. CASE pc = "accept"
    <3>1. pc' = "command" /\ UNCHANGED <<toEngine, toPeer, drawn, last_engine_off_time>>
      BY <2>1, EngineAt DEF WaitForClient, engineState, wireVars
    <3>2. QED
      BY <1>0, <2>0, <3>1 DEF Pressed
  <2>2. CASE pc = "command"
    <3>1. ~PostReleaseValid
      BY <1>0, <2>0 DEF PostReleaseValid
    <3>2. /\ toEngine' = <<>> /\ toPeer' = toPeer /\ drawn' = drawn
          /\ pc' = "challenge" /\ counter' = 1 /\ auth_start' = clock /\ late' = 0
      BY <2>0, <2>2, <3>1, StartReceived
    <3>3. late' <= 1 /\ clock' <= auth_start' + late'
      BY <1>0, <3>2
    <3>4. QED
      BY <1>0, <2>0, <3>2, <3>3 DEF Pressed
  <2>3. QED
    BY <1>1, <2>1, <2>2
<1>2. CASE pc = "challenge"
  <2>0. /\ toEngine = <<>> /\ toPeer = <<>> /\ drawn = n - 1 /\ counter = 1
        /\ late <= 1 /\ clock <= auth_start + late
    BY <1>2 DEF Pressed
  <2>1. ~BrokenPipe /\ ~AuthenticationFails
    <3>1. /\ late \in Nat /\ auth_start \in Nat /\ TOTAL_AUTH_TIMEOUT \in Nat
          /\ TOTAL_AUTH_TIMEOUT >= 2
      BY DEF TypeOK, DemoTimes
    <3>2. clock - auth_start < TOTAL_AUTH_TIMEOUT
      BY <1>0, <2>0, <3>1
    <3>3. QED
      BY <1>0, <3>1, <3>2 DEF BrokenPipe, AuthenticationFails
  <2>2. SendChallenge
    BY <1>2, <2>1, EngineAt
  <2>3. /\ pc' = "sent" /\ toEngine' = <<>> /\ drawn' = drawn + 1 /\ counter' = counter
        /\ late' = 0 /\ toPeer' = toPeer \o Frame("rnd", counter, drawn + 1)
    BY <2>0, <2>2 DEF SendChallenge
  <2>4. drawn + 1 = n
    BY <2>0
  <2>5. <<>> \o Frame("rnd", 1, n) = Frame("rnd", 1, n)
    <3>1. Frame("rnd", 1, n) \in Seq(Bytes)
      BY MessageType
    <3>2. QED
      BY <3>1
  <2>6. QED
    BY <1>0, <2>0, <2>3, <2>4, <2>5 DEF Pressed
<1>3. CASE pc = "wait"
  <2>0. /\ toEngine = <<>> /\ toPeer = Frame("rnd", 1, n) /\ drawn = n /\ counter = 1
        /\ wait_start = clock
    BY <1>3 DEF Pressed
  <2>1. ~ChallengeTimeout
    BY <1>0, <2>0 DEF ChallengeTimeout
  <2>2. PollNothing
    BY <1>3, <2>0, <2>1, EngineAt DEF ResponseAccepted, ResponseRejected,
       ResponseIgnored, Poll, Receive
  <2>3. UNCHANGED <<pc, toEngine, toPeer, drawn, counter, wait_start>> /\ late' = 0
    BY <2>2 DEF PollNothing, engineState, wireVars
  <2>4. QED
    BY <1>0, <1>3, <2>0, <2>3 DEF Pressed
<1>4. CASE pc = "sent"
  <2>0. /\ toEngine = <<>> /\ toPeer = Frame("rnd", 1, n) /\ drawn = n /\ counter = 1
    BY <1>4 DEF Pressed
  <2>1. BeginWait
    BY <1>4, EngineAt
  <2>2. /\ pc' = "wait" /\ wait_start' = clock /\ late' = 0
        /\ UNCHANGED <<toEngine, toPeer, drawn, counter>>
    BY <2>1 DEF BeginWait, wireVars
  <2>3. QED
    BY <1>0, <2>0, <2>2 DEF Pressed
<1>5. QED
  BY <1>1, <1>2, <1>3, <1>4 DEF Pressed

\* The engine while the transponder sleeps: it polls in vain.
LEMMA EngineWaiting ==
    ASSUME DemoTimes, TypeOK, EngineStep, NEW n \in {1, 2}, NEW b \in Int, Waiting(n, b),
           clock <= b + 1
    PROVE  Waiting(n, b)' /\ UNCHANGED clock
<1>0. /\ UNCHANGED clock /\ clock \in Nat /\ wait_start \in Nat /\ late \in Nat
      /\ PER_CHALLENGE_TIMEOUT >= 3
  BY EngineAt DEF TypeOK, DemoTimes
<1>1. CASE pc = "sent"
  <2>1. clock = b + late /\ late <= 1
    BY <1>1 DEF Waiting
  <2>2. clock \in {b, b + 1}
    BY <1>0, <2>1
  <2>3. /\ pc' = "wait" /\ wait_start' = clock /\ late' = 0
        /\ UNCHANGED <<toEngine, toPeer, drawn, counter>>
    BY <1>1, EngineAt DEF BeginWait, wireVars
  <2>4. QED
    BY <1>0, <2>2, <2>3 DEF Waiting
<1>2. CASE pc = "wait"
  <2>1. wait_start \in {b, b + 1}
    BY <1>2 DEF Waiting
  <2>2. ~ChallengeTimeout
    BY <1>0, <2>1 DEF ChallengeTimeout
  <2>3. PollNothing
    BY <1>2, <2>2, EngineAt DEF Waiting, ResponseAccepted, ResponseRejected,
       ResponseIgnored, Poll, Receive
  <2>4. UNCHANGED <<pc, toEngine, toPeer, drawn, counter, wait_start>> /\ late' = 0
    BY <2>3 DEF PollNothing, engineState, wireVars
  <2>5. QED
    BY <1>0, <1>2, <2>1, <2>4 DEF Waiting
<1>3. QED
  BY <1>1, <1>2 DEF Waiting

\* The engine with an answer to its challenge in the queue: it polls in time.
LEMMA EngineHeard ==
    ASSUME DemoTimes, TypeOK, EngineStep, NEW n \in {1, 2}, NEW t \in Int, Heard(n, t)
    PROVE  /\ \/ Heard(n, t)'
              \/ Runs(clock + RUN_TIME, <<>>)' /\ auth_valid' = 1
           /\ UNCHANGED <<clock, drawn, toPeer>>
<1> DEFINE f == Frame("enc", 1, n)
<1>s. CASE pc = "sent"
  <2>1. /\ pc' = "wait" /\ wait_start' = clock /\ late' = 0
        /\ UNCHANGED <<toEngine, toPeer, drawn, counter, clock>>
    BY <1>s, EngineAt DEF BeginWait, wireVars
  <2>2. clock = t
    BY <1>s DEF Heard
  <2>3. late' <= 1 /\ clock' <= t + late' /\ wait_start' \in {t - 1, t}
    BY <2>1, <2>2
  <2>4. QED
    BY <2>1, <2>3 DEF Heard
<1>a. SUFFICES ASSUME pc # "sent"
               PROVE  /\ Runs(clock + RUN_TIME, <<>>)' /\ auth_valid' = 1
                      /\ UNCHANGED <<clock, drawn, toPeer>>
  BY <1>s
<1>0. /\ pc = "wait" /\ toEngine = f /\ drawn = n /\ counter = 1
      /\ late <= 1 /\ clock <= t + late /\ late \in Nat /\ wait_start \in {t - 1, t}
      /\ clock \in Nat /\ wait_start \in Nat /\ PER_CHALLENGE_TIMEOUT >= 3
  BY <1>a DEF Heard, TypeOK, DemoTimes
<1>1. /\ f \in Seq(Bytes) /\ Len(f) = 17 /\ f # <<>> /\ f[1] = <<"ctr", 1, 0>>
      /\ SubSeq(f, 2, 17) = Block("enc", n)
  BY MessageType
<1> HIDE DEF f
<1>2. ASSUME NEW b \in Chunks(toEngine, 17), Receive(b)
      PROVE  b = f /\ toEngine' = <<>> /\ UNCHANGED toPeer
  <2>1. toEngine \in Seq(Bytes) /\ Len(toEngine) = 17
    BY <1>0, <1>1
  <2>2. Len(toEngine) <= 17
    BY <2>1
  <2>3. b = toEngine /\ Rest(toEngine, b) = <<>>
    BY <2>1, <2>2, ReceivedWhole
  <2>4. QED
    BY <1>0, <1>2, <2>3 DEF Receive
<1>3. MayBe(f[1], counter) /\ ~MayDiffer(f[1], counter) /\ AESMatches(f)
  <2>1. f[1][1] = "ctr" /\ f[1][2] = 1
    BY <1>1
  <2>2. MayBe(f[1], counter) /\ ~MayDiffer(f[1], counter)
    BY <1>0, <2>1 DEF MayBe, MayDiffer
  <2>3. QED
    BY <1>0, <1>1, <2>2 DEF AESMatches
<1>4. ~ResponseRejected
  BY <1>2, <1>3 DEF ResponseRejected, Poll
<1>5. ~ResponseIgnored
  BY <1>1, <1>2, <1>3 DEF ResponseIgnored, Poll
<1>6. ~PollNothing /\ ~ChallengeTimeout
  <2>1. clock - wait_start < PER_CHALLENGE_TIMEOUT
    BY <1>0
  <2>2. ~(clock - wait_start >= PER_CHALLENGE_TIMEOUT)
    BY <1>0
  <2>3. QED
    BY <1>0, <1>1, <2>2 DEF PollNothing, ChallengeTimeout
<1>7. ResponseAccepted
  BY <1>0, <1>4, <1>5, <1>6, EngineAt
<1>8. toEngine' = <<>> /\ UNCHANGED toPeer
  BY <1>2, <1>7 DEF ResponseAccepted, Poll
<1>9. clock' = clock /\ clock \in Nat /\ RUN_TIME \in Nat
  BY <1>0, EngineAt
<1>10. /\ pc' = "running" /\ auth_valid' = 1 /\ UNCHANGED drawn
       /\ wake' = clock + RUN_TIME
  BY <1>7 DEF ResponseAccepted, TurnOn
<1>11. QED
  BY <1>8, <1>9, <1>10 DEF Runs

\* The engine at the end of its run.
LEMMA EngineRuns ==
    ASSUME TypeOK, ControlInv, EngineStep, NEW t, NEW queue, Runs(t, queue)
    PROVE  HasRun(t, queue)' /\ clock = t /\ UNCHANGED <<clock, drawn, toPeer>>
<1>1. TurnOff /\ pc = "running" /\ toEngine = queue /\ wake = t /\ clock <= t
  BY EngineAt DEF Runs
<1>2. clock = t /\ clock \in Nat
  BY <1>1 DEF TurnOff, TypeOK
<1>3. auth_valid = 1
  BY <1>1 DEF ControlInv
<1>4. /\ pc' = "command" /\ last_engine_off_time' = clock
      /\ UNCHANGED <<auth_valid, toEngine, toPeer, drawn, clock>>
  BY <1>1 DEF TurnOff, wireVars
<1>5. QED
  BY <1>1, <1>2, <1>3, <1>4 DEF HasRun

\* The engine with the first answer, and until the second start.
LEMMA EngineAnswered ==
    ASSUME DemoTimes, TypeOK, ControlInv, EngineStep, link # "closed",
           NEW n \in {1, 2}, NEW t \in Int, Answered(n, t)
    PROVE  Answered(n, t)'
<1>0. drawn = n /\ toPeer = <<>> /\ t <= clock /\ UNCHANGED clock
  BY EngineAt DEF Answered
<1>1. CASE Heard(n, t)
  <2>1. /\ Heard(n, t)' \/ Runs(clock + RUN_TIME, <<>>)'
        /\ UNCHANGED <<clock, drawn, toPeer>>
    BY <1>1, EngineHeard
  <2>2. clock \in {t, t + 1}
    <3>1. clock \in Nat /\ late \in Nat /\ late <= 1 /\ clock <= t + late
      BY <1>1 DEF TypeOK, Heard
    <3>2. QED
      BY <1>0, <3>1
  <2>3. QED
    BY <1>0, <2>1, <2>2 DEF Answered, Runs
<1>2. ASSUME NEW a \in {t, t + 1}, Runs(a + RUN_TIME, <<>>)
      PROVE  Answered(n, t)'
  <2>1. HasRun(a + RUN_TIME, <<>>)' /\ UNCHANGED <<drawn, toPeer>>
    BY <1>2, EngineRuns
  <2>2. QED
    BY <1>0, <2>1 DEF Answered, HasRun
<1>3. ASSUME NEW a \in {t, t + 1}, HasRun(a + RUN_TIME, <<>>)
      PROVE  FALSE
  BY <1>3, Blocked DEF HasRun
<1>4. QED
  BY <1>1, <1>2, <1>3 DEF Answered

\* The engine with the second start.
LEMMA EngineAgain ==
    ASSUME DemoTimes, TypeOK, ControlInv, EngineStep, link # "closed",
           NEW t \in Int, Again(t)
    PROVE  Again(t)'
<1>0. /\ drawn = 1 /\ toPeer = <<>> /\ t <= clock /\ clock \in Nat /\ UNCHANGED clock
      /\ last_engine_off_time \in Nat /\ RUN_TIME \in Nat
  BY EngineAt DEF Again, TypeOK
<1>1. ASSUME NEW a \in {t - 2, t - 1}, Runs(a + RUN_TIME, Start)
      PROVE  Again(t)'
  <2>1. /\ HasRun(a + RUN_TIME, Start)' /\ clock = a + RUN_TIME
        /\ UNCHANGED <<drawn, toPeer>>
    BY <1>1, EngineRuns
  <2>2. QED
    BY <1>0, <2>1 DEF Again, HasRun
<1>2. ASSUME NEW a \in {t - 2, t - 1}, HasRun(a + RUN_TIME, Start),
             clock \in {t, a + RUN_TIME}
      PROVE  Again(t)'
  <2>0. /\ pc = "command" /\ toEngine = Start /\ auth_valid = 1
        /\ last_engine_off_time = a + RUN_TIME /\ a + RUN_TIME <= clock
    BY <1>2 DEF HasRun
  <2>1. PostReleaseValid
    <3>1. last_engine_off_time # 0
      BY <2>0 DEF ControlInv
    <3>2. clock - last_engine_off_time <= POST_RELEASE_TIMEOUT
      <4>1. RUN_TIME + POST_RELEASE_TIMEOUT >= 2 /\ POST_RELEASE_TIMEOUT \in Nat
        BY DEF DemoTimes
      <4>2. CASE clock = t
        BY <1>0, <2>0, <4>1, <4>2
      <4>3. CASE clock = a + RUN_TIME
        BY <1>0, <2>0, <4>1, <4>3
      <4>4. QED
        BY <1>2, <4>2, <4>3
    <3>3. QED
      BY <2>0, <3>1, <3>2 DEF PostReleaseValid
  <2>2. /\ toEngine' = <<>> /\ UNCHANGED <<toPeer, drawn>>
        /\ pc' = "running" /\ wake' = clock + RUN_TIME
    BY <2>0, <2>1, StartReceived
  <2>3. Runs(clock + RUN_TIME, <<>>)'
    BY <1>0, <2>2 DEF Runs
  <2>4. clock <= t \/ clock <= t - 1 + RUN_TIME
    BY <1>0, <1>2
  <2>5. QED
    BY <1>0, <2>2, <2>3, <2>4 DEF Again, Runs
<1>3. ASSUME NEW a \in Nat, a <= t \/ a <= t - 1 + RUN_TIME, Runs(a + RUN_TIME, <<>>)
      PROVE  Again(t)'
  <2>1. HasRun(a + RUN_TIME, <<>>)' /\ UNCHANGED <<drawn, toPeer>>
    BY <1>3, EngineRuns
  <2>2. QED
    BY <1>0, <1>3, <2>1 DEF Again, HasRun
<1>4. ASSUME NEW a \in Nat, HasRun(a + RUN_TIME, <<>>)
      PROVE  FALSE
  BY <1>4, Blocked DEF HasRun
<1>5. QED
  BY <1>1, <1>2, <1>3, <1>4 DEF Again

-----------------------------------------------------------------------------
(* What the passing of a second does.  Nobody who can go on is kept waiting, *)
(* except the engine between two steps of an authentication.                *)

LEMMA TickKeeps ==
    ASSUME DemoTimes, TypeOK, EngineTick
    PROVE  /\ clock' = clock + 1
           /\ UNCHANGED <<pc, link, toEngine, toPeer, drawn, counter, wait_start,
                          auth_start, auth_valid, last_engine_off_time, wake>>
           /\ EngineReady => Authenticating /\ late = 0 /\ late' = 1
<1>1. /\ clock' = clock + 1 /\ UNCHANGED <<pc, engineState, wireVars>>
      /\ EngineReady => late < Lateness /\ late' = late + 1
  BY DEF EngineTick
<1>2. late \in Nat /\ Lateness <= 1 /\ (~Authenticating => Lateness = 0)
  BY DEF TypeOK, DemoTimes, Lateness, AuthLateness, Polling, Authenticating
<1>3. EngineReady => Authenticating /\ late = 0 /\ late' = 1
  <2>1. Lateness \in Nat
    BY DEF DemoTimes, Lateness, AuthLateness
  <2>2. QED
    BY <1>1, <1>2, <2>1
<1>4. QED
  BY <1>1, <1>3 DEF engineState, wireVars

LEMMA TickHeard ==
    ASSUME DemoTimes, TypeOK, EngineTick, NEW n \in {1, 2}, NEW t \in Int, Heard(n, t)
    PROVE  Heard(n, t)'
<1>1. /\ clock' = clock + 1 /\ late = 0 /\ late' = 1
      /\ UNCHANGED <<pc, toEngine, drawn, counter, wait_start>>
  BY TickKeeps DEF Heard, EngineReady, Authenticating
<1>2. clock \in Nat /\ pc = "wait" /\ clock <= t + 0
  BY <1>1 DEF TypeOK, Heard
<1>3. clock' <= t + late' /\ late' <= 1
  BY <1>1, <1>2
<1>4. QED
  BY <1>1, <1>2, <1>3 DEF Heard

LEMMA TickRuns ==
    ASSUME DemoTimes, TypeOK, EngineTick, NEW t, NEW queue, Runs(t, queue)
    PROVE  Runs(t, queue)'
<1>1. /\ pc = "running" /\ clock' = clock + 1 /\ ~EngineReady
      /\ UNCHANGED <<pc, toEngine, wake>>
  BY TickKeeps DEF Runs, Authenticating
<1>2. clock \in Nat /\ wake \in Nat
  BY DEF TypeOK
<1>3. clock + 1 <= wake
  BY <1>1, <1>2 DEF EngineReady
<1>4. QED
  BY <1>1, <1>3 DEF Runs

LEMMA TickHasRun ==
    ASSUME DemoTimes, TypeOK, EngineTick, NEW t, NEW queue, HasRun(t, queue)
    PROVE  HasRun(t, queue)' /\ queue = <<>>
<1>1. /\ pc = "command" /\ toEngine = queue /\ clock' = clock + 1 /\ ~EngineReady
      /\ UNCHANGED <<pc, toEngine, auth_valid, last_engine_off_time>>
  BY TickKeeps DEF HasRun, Authenticating
<1>2. clock \in Nat /\ last_engine_off_time \in Nat
  BY DEF TypeOK
<1>3. t <= clock + 1
  BY <1>2 DEF HasRun
<1>4. QED
  BY <1>1, <1>3 DEF HasRun, EngineReady

LEMMA TickAnswered ==
    ASSUME DemoTimes, TypeOK, EngineTick, NEW n \in {1, 2}, NEW t \in Int, Answered(n, t)
    PROVE  Answered(n, t)'
<1>0. drawn' = n /\ toPeer' = <<>> /\ t <= clock'
  <2>1. clock' = clock + 1 /\ UNCHANGED <<drawn, toPeer>> /\ clock \in Nat
    BY TickKeeps DEF TypeOK
  <2>2. QED
    BY <2>1 DEF Answered
<1>1. CASE Heard(n, t)
  BY <1>0, <1>1, TickHeard DEF Answered
<1>2. ASSUME NEW a \in {t, t + 1}, Runs(a + RUN_TIME, <<>>)
      PROVE  Answered(n, t)'
  BY <1>0, <1>2, TickRuns DEF Answered
<1>3. ASSUME NEW a \in {t, t + 1}, HasRun(a + RUN_TIME, <<>>)
      PROVE  Answered(n, t)'
  BY <1>0, <1>3, TickHasRun DEF Answered
<1>4. QED
  BY <1>1, <1>2, <1>3 DEF Answered

LEMMA StartNotEmpty == Start # <<>>
<1>1. Len(Start) = 5
  BY StartType
<1>2. Len(<<>>) = 0 /\ 5 # 0
  OBVIOUS
<1>3. QED
  BY Zenon, <1>1, <1>2

LEMMA TickAgain ==
    ASSUME DemoTimes, TypeOK, EngineTick, NEW t \in Int, Again(t)
    PROVE  Again(t)'
<1>0. drawn' = 1 /\ toPeer' = <<>> /\ t <= clock'
  <2>1. clock' = clock + 1 /\ UNCHANGED <<drawn, toPeer>> /\ clock \in Nat
    BY TickKeeps DEF TypeOK
  <2>2. QED
    BY <2>1 DEF Again
<1>1. ASSUME NEW a \in {t - 2, t - 1}, Runs(a + RUN_TIME, Start)
      PROVE  Again(t)'
  BY <1>0, <1>1, TickRuns DEF Again
<1>2. ASSUME NEW a \in {t - 2, t - 1}, HasRun(a + RUN_TIME, Start)
      PROVE  FALSE
  BY <1>2, TickHasRun, StartNotEmpty
<1>3. ASSUME NEW a \in Nat, a <= t \/ a <= t - 1 + RUN_TIME,
             Runs(a + RUN_TIME, <<>>) \/ HasRun(a + RUN_TIME, <<>>)
      PROVE  Again(t)'
  <2>1. Runs(a + RUN_TIME, <<>>)' \/ HasRun(a + RUN_TIME, <<>>)'
    BY <1>3, TickRuns, TickHasRun
  <2>2. QED
    BY <1>0, <1>3, <2>1 DEF Again
<1>4. QED
  BY <1>1, <1>2, <1>3 DEF Again

\* A second may begin between a start that is received and its challenge.
LEMMA TickPressed ==
    ASSUME DemoTimes, TypeOK, EngineTick, link = "open", NEW n \in {1, 2}, Pressed(n),
           toPeer = <<>>
    PROVE  Pressed(n)'
<1>1. CASE pc \in {"accept", "command"} /\ toEngine = Start
  BY <1>1, TickKeeps, StartNotEmpty DEF EngineReady, Authenticating
<1>2. CASE pc = "challenge"
  <2>1. /\ toEngine = <<>> /\ drawn = n - 1 /\ counter = 1 /\ clock <= auth_start + late
    BY <1>2 DEF Pressed
  <2>2. /\ clock' = clock + 1 /\ late = 0 /\ late' = 1
        /\ UNCHANGED <<pc, toEngine, toPeer, drawn, counter, auth_start>>
    BY <1>2, TickKeeps DEF EngineReady, Authenticating
  <2>3. clock \in Nat /\ auth_start \in Nat
    BY DEF TypeOK
  <2>4. late' <= 1 /\ clock' <= auth_start' + late'
    BY <2>1, <2>2, <2>3
  <2>5. QED
    BY <1>2, <2>1, <2>2, <2>4 DEF Pressed
<1>3. CASE toPeer = Frame("rnd", 1, n)
  BY <1>3, MessageType
<1>4. QED
  BY <1>1, <1>2, <1>3 DEF Pressed

\* A second of the transponder's sleep passes.
LEMMA TickWaiting ==
    ASSUME DemoTimes, TypeOK, EngineTick, NEW n \in {1, 2}, NEW b \in Int, Waiting(n, b)
    PROVE  Waiting(n, b)'
<1>1. /\ clock' = clock + 1 /\ late = 0 /\ late' = 1
      /\ UNCHANGED <<pc, toEngine, toPeer, drawn, counter, wait_start>>
  BY TickKeeps DEF Waiting, EngineReady, Authenticating
<1>2. clock \in Nat /\ late' <= 1
  BY <1>1 DEF TypeOK
<1>3. pc = "sent" => clock' = b + late'
  BY <1>1, <1>2 DEF Waiting
<1>4. QED
  BY <1>1, <1>2, <1>3 DEF Waiting

-----------------------------------------------------------------------------
(* The demonstration is one of PostOpen's behaviours.                      *)

\* The challenge the script answers is the one it received last.
LEMMA LastIs ==
    ASSUME DemoInv, ip \in {5, 13}
    PROVE  LastHeld \in held /\ LastHeld = IF ip = 5 THEN <<1, 1>> ELSE <<1, 2>>
<1>1. held = IF ip = 5 THEN {<<1, 1>>} ELSE {<<1, 1>>, <<1, 2>>}
  BY DEF DemoInv, ScriptInv
<1>2. CASE ip = 5
  <2>1. held = {<<1, 1>>}
    BY <1>1, <1>2
  <2>2. LastHeld = <<1, 1>>
    BY <2>1 DEF LastHeld
  <2>3. QED
    BY <1>2, <2>1, <2>2
<1>3. CASE ip = 13
  <2>1. held = {<<1, 1>>, <<1, 2>>}
    BY <1>1, <1>3
  <2>2. \A h \in held : (\A g \in held : g[2] <= h[2]) <=> h = <<1, 2>>
    BY <2>1
  <2>3. LastHeld = <<1, 2>>
    BY <2>1, <2>2 DEF LastHeld
  <2>4. QED
    BY <1>3, <2>1, <2>3
<1>4. QED
  BY <1>2, <1>3

LEMMA DemoStepIsOpen ==
    ASSUME DemoInv, [DemoNext]_demoVars
    PROVE  [Next]_allVars
<1>1. CASE Operate
  <2>1. CASE At("answer") /\ Answer(LastHeld)
    <3>1. ip \in {5, 13}
      <4>1. ip \in 1..15
        BY DEF DemoInv, ScriptInv
      <4>2. QED
        BY <2>1, <4>1, Operations
    <3>2. QED
      BY <2>1, <3>1, LastIs DEF Next, PeerNext
  <2>2. CASE Connect \/ PressStart \/ ReceiveChallenge \/ Close
    BY <2>2 DEF Next, PeerNext
  <2>3. QED
    BY <1>1, <2>1, <2>2 DEF Operate
<1>2. CASE FallAsleep \/ WakeUp \/ UNCHANGED demoVars
  BY <1>2 DEF FallAsleep, WakeUp, demoVars
<1>3. CASE Engine \/ DemoTick
  BY <1>3 DEF Engine, DemoTick, Next
<1>4. QED
  BY <1>1, <1>2, <1>3 DEF DemoNext

-----------------------------------------------------------------------------
(* Every step keeps the two programs where DemoInv says they are.          *)

\* The operations on the socket.
LEMMA OperateStep ==
    ASSUME DemoTimes, IInv, DemoInv, Operate
    PROVE  DemoInv'
<1>0. /\ TypeOK /\ ScriptInv /\ ip \in 1..15 /\ clock \in Nat /\ late \in Nat
      /\ wait_start \in Nat /\ last_engine_off_time \in Nat /\ drawn \in Nat
      /\ asleep' = 0 /\ tlate' = 0 /\ ip' = ip + 1
  BY DEF IInv, TypeOK, DemoInv, ScriptInv, Operate, Advance
<1> DEFINE where == /\ At("connect") <=> ip = 1
                    /\ At("press")   <=> ip \in {2, 7, 10}
                    /\ At("receive") <=> ip \in {3, 11}
                    /\ At("answer")  <=> ip \in {5, 13}
                    /\ At("close")   <=> ip = 14
<1>w. where
  BY <1>0, Operations
<1>1. CASE ip = 1 /\ Connect
  <2>1. /\ link' = "open" /\ UNCHANGED <<clock, toEngine, toPeer, engineVars, peerVars>>
    BY <1>1 DEF Connect
  <2>2. ScriptInv'
    BY <1>0, <1>1, <2>1 DEF ScriptInv, peerVars
  <2>3. QED
    BY <1>0, <1>1, <2>1, <2>2 DEF DemoInv, engineVars, engineState
<1>2. CASE ip \in {2, 7, 10} /\ PressStart
  <2>1. /\ toEngine' = toEngine \o Start
        /\ UNCHANGED <<clock, link, engineVars, toPeer, held, answered>>
    BY <1>2 DEF PressStart, Send
  <2>2. ScriptInv'
    BY <1>0, <1>2, <2>1 DEF ScriptInv
  <2>3. UNCHANGED <<pc, drawn, last_engine_off_time, wake, auth_valid>>
    BY <2>1 DEF engineVars, engineState
  <2>4. toEngine = <<>> => toEngine' = Start
    <3>1. Start \in Seq(Bytes)
      BY StartType
    <3>2. <<>> \o Start = Start
      BY <3>1
    <3>3. QED
      BY <2>1, <3>2
  <2>5. CASE ip = 2
    <3>1. Pressed(1)'
      BY <1>0, <2>1, <2>3, <2>4, <2>5 DEF DemoInv, Pressed
    <3>2. QED
      BY <1>0, <2>2, <2>5, <3>1 DEF DemoInv
  <2>6. CASE ip = 7
    <3>t. PICK t \in Int : t = clock - 2
      BY <1>0
    <3>0. Answered(1, t) /\ clock' = t + 2 /\ UNCHANGED clock
      BY <1>0, <2>1, <2>6, <3>t DEF DemoInv
    <3>1. ~Heard(1, t)
      BY <1>0, <3>t DEF Heard
    <3>2. drawn' = 1 /\ toPeer' = <<>>
      BY <2>1, <2>3, <3>0 DEF Answered
    <3>3. ASSUME NEW a \in {t, t + 1}, Runs(a + RUN_TIME, <<>>)
          PROVE  Again(t + 2)'
      <4>1. Runs(a + RUN_TIME, Start)'
        BY <2>1, <2>3, <2>4, <3>3 DEF Runs
      <4>2. a \in {(t + 2) - 2, (t + 2) - 1} /\ t + 2 <= clock'
        BY <1>0, <3>0
      <4>3. QED
        BY <3>2, <4>1, <4>2 DEF Again
    <3>4. ASSUME NEW a \in {t, t + 1}, HasRun(a + RUN_TIME, <<>>)
          PROVE  Again(t + 2)'
      <4>1. HasRun(a + RUN_TIME, Start)'
        BY <2>1, <2>3, <2>4, <3>4 DEF HasRun
      <4>2. a \in {(t + 2) - 2, (t + 2) - 1} /\ t + 2 <= clock'
        BY <1>0, <3>0
      <4>3. QED
        BY <3>0, <3>2, <4>1, <4>2 DEF Again
    <3>5. Again(t + 2)'
      BY <3>0, <3>1, <3>3, <3>4 DEF Answered
    <3>6. Again(Began(3))'
      BY <1>0, <3>0, <3>5 DEF Again, Began
    <3>7. QED
      BY <1>0, <2>2, <2>6, <3>6 DEF DemoInv
  <2>7. CASE ip = 10
    <3>t. PICK t \in Int : t = clock - 10
      BY <1>0
    <3>0. Again(t) /\ clock = t + 10
      BY <1>0, <2>7, <3>t DEF DemoInv
    <3>1. /\ RUN_TIME + POST_RELEASE_TIMEOUT < 10
          /\ 2 * RUN_TIME + POST_RELEASE_TIMEOUT < 11
          /\ RUN_TIME \in Nat /\ POST_RELEASE_TIMEOUT \in Nat
      BY DEF DemoTimes
    <3>2. ASSUME NEW a \in {t - 2, t - 1},
                 Runs(a + RUN_TIME, Start) \/ clock \in {t, a + RUN_TIME}
          PROVE  FALSE
      <4>1. clock <= a + RUN_TIME \/ clock = t
        BY <1>0, <3>1, <3>2 DEF Runs
      <4>2. QED
        BY <3>0, <3>1, <3>2, <4>1
    <3>3. PICK a \in Nat : /\ a <= t \/ a <= t - 1 + RUN_TIME
                           /\ Runs(a + RUN_TIME, <<>>) \/ HasRun(a + RUN_TIME, <<>>)
      BY <3>0, <3>2 DEF Again
    <3>4. ~Runs(a + RUN_TIME, <<>>)
      <4>1. SUFFICES ASSUME clock <= a + RUN_TIME PROVE FALSE
        BY DEF Runs
      <4>2. QED
        BY <3>0, <3>1, <3>3, <4>1
    <3>5. /\ pc = "command" /\ toEngine = <<>> /\ last_engine_off_time = a + RUN_TIME
      BY <3>3, <3>4 DEF HasRun
    <3>6. clock - last_engine_off_time > POST_RELEASE_TIMEOUT
      BY <3>0, <3>1, <3>3, <3>5
    <3>7. drawn = 2 - 1 /\ toPeer = <<>>
      BY <3>0 DEF Again
    <3>8. Pressed(2)'
      BY <2>1, <2>3, <2>4, <3>5, <3>6, <3>7 DEF Pressed
    <3>9. QED
      BY <1>0, <2>2, <2>7, <3>8 DEF DemoInv
  <2>8. QED
    BY <1>2, <2>5, <2>6, <2>7
<1>3. CASE ip \in {3, 11} /\ ReceiveChallenge
  <2>n. PICK n \in {1, 2} : n = IF ip = 3 THEN 1 ELSE 2
    OBVIOUS
  <2>0. Pressed(n)
    BY <1>3, <2>n DEF DemoInv
  <2>1. PICK b \in Chunks(toPeer, 17) :
           /\ toPeer' = Rest(toPeer, b)
           /\ held' = held \cup {h \in (0..255) \X (1..drawn) : b = Frame("rnd", h[1], h[2])}
    BY <1>3 DEF ReceiveChallenge
  <2>2. /\ toPeer # <<>> /\ UNCHANGED <<clock, link, toEngine, engineVars, answered>>
    BY <1>3 DEF ReceiveChallenge
  <2>3. /\ pc \in {"sent", "wait"} /\ toEngine = <<>> /\ toPeer = Frame("rnd", 1, n)
        /\ drawn = n /\ counter = 1 /\ late = 0 /\ (pc = "wait" => wait_start = clock)
    BY <2>0, <2>2 DEF Pressed
  <2>4. b = toPeer /\ toPeer' = <<>>
    <3>1. toPeer \in Seq(Bytes) /\ Len(toPeer) = 17
      BY <2>0, <2>3, MessageType
    <3>2. Len(toPeer) <= 17
      BY <3>1
    <3>3. QED
      BY <2>1, <3>1, <3>2, ReceivedWhole
  <2>5. {h \in (0..255) \X (1..drawn) : b = Frame("rnd", h[1], h[2])} = {<<1, n>>}
    <3>1. ASSUME NEW h \in (0..255) \X (1..drawn), b = Frame("rnd", h[1], h[2])
          PROVE  h = <<1, n>>
      <4> DEFINE c == h[1]
                 m == h[2]
      <4>1. h = <<c, m>> /\ c \in Nat /\ m \in Nat /\ 1 \in Nat /\ n \in Nat
        BY <1>0, <2>0
      <4>2. Frame("rnd", c, m) = Frame("rnd", 1, n)
        BY <2>3, <2>4, <3>1
      <4> HIDE DEF c, m
      <4>3. QED
        BY <4>1, <4>2, FrameNames
    <3>2. <<1, n>> \in (0..255) \X (1..drawn) /\ b = Frame("rnd", 1, n)
      BY <2>0, <2>3, <2>4
    <3>3. QED
      BY <3>1, <3>2
  <2>6. held' = held \cup {<<1, n>>}
    BY <2>1, <2>5
  <2>7. ScriptInv'
    <3>1. CASE ip = 3
      <4>1. held' = {<<1, 1>>}
        BY <1>0, <2>n, <2>6, <3>1 DEF ScriptInv
      <4>2. QED
        BY <1>0, <2>2, <3>1, <4>1 DEF ScriptInv
    <3>2. CASE ip = 11
      <4>1. held' = {<<1, 1>>, <<1, 2>>}
        BY <1>0, <2>n, <2>6, <3>2 DEF ScriptInv
      <4>2. QED
        BY <1>0, <2>2, <3>2, <4>1 DEF ScriptInv
    <3>3. QED
      BY <1>3, <3>1, <3>2
  <2>8. PICK t \in Int : Waiting(n, t)' /\ t = Began(1)'
    <3>1. UNCHANGED <<pc, toEngine, drawn, counter, wait_start, late, clock>>
      BY <2>2 DEF engineVars, engineState
    <3>2. clock \in Int /\ clock = Began(1)' /\ late <= 1 /\ clock = clock + late
      BY <1>0, <2>3, <3>1 DEF Began
    <3>3. PICK x \in Int : x = clock
      BY <3>2
    <3>4. Waiting(n, x)'
      BY <2>3, <2>4, <3>1, <3>2, <3>3 DEF Waiting
    <3>5. QED
      BY <3>2, <3>3, <3>4
  <2>9. (ip = 3 /\ n = 1 /\ ip' = 4) \/ (ip = 11 /\ n = 2 /\ ip' = 12)
    BY <1>0, <1>3, <2>n
  <2>10. QED
    BY <2>7, <2>8, <2>9, SMTT(30) DEF DemoInv
<1>4. CASE ip \in {5, 13} /\ Answer(LastHeld)
  <2>n. PICK n \in {1, 2} : n = IF ip = 5 THEN 1 ELSE 2
    OBVIOUS
  <2>t. PICK t \in Int : t = clock
    BY <1>0
  <2>0. Waiting(n, t - 1) /\ LastHeld = <<1, n>>
    BY <1>4, <2>n, <2>t, LastIs DEF DemoInv
  <2>1. /\ toEngine' = toEngine \o Frame("enc", 1, n) /\ answered' = answered \cup {n}
        /\ UNCHANGED <<clock, link, engineVars, toPeer, held>>
    BY <1>4, <2>0 DEF Answer, Send
  <2>2. ScriptInv'
    <3>1. CASE ip = 5
      <4>1. answered' = {1}
        BY <1>0, <2>n, <2>1, <3>1 DEF ScriptInv
      <4>2. QED
        BY <1>0, <2>1, <3>1, <4>1 DEF ScriptInv
    <3>2. CASE ip = 13
      <4>1. answered' = {1, 2}
        BY <1>0, <2>n, <2>1, <3>2 DEF ScriptInv
      <4>2. QED
        BY <1>0, <2>1, <3>2, <4>1 DEF ScriptInv
    <3>3. QED
      BY <1>4, <3>1, <3>2
  <2>3. toEngine' = Frame("enc", 1, n)
    <3>1. <<>> \o Frame("enc", 1, n) = Frame("enc", 1, n)
      <4>1. Frame("enc", 1, n) \in Seq(Bytes)
        BY <2>0, MessageType
      <4>2. QED
        BY <4>1
    <3>2. QED
      BY <2>0, <2>1, <3>1 DEF Waiting
  <2>4. Heard(n, t)' /\ drawn' = n /\ toPeer' = <<>>
    <3>1. UNCHANGED <<pc, drawn, counter, wait_start, late, clock>>
      BY <2>1 DEF engineVars, engineState
    <3>2. /\ toPeer = <<>> /\ drawn = n /\ counter = 1 /\ late <= 1
          /\ \/ pc = "sent" /\ clock = (t - 1) + late
             \/ pc = "wait" /\ wait_start \in {t - 1, (t - 1) + 1}
      BY <2>0 DEF Waiting
    <3>3. (t - 1) + 1 = t /\ clock <= t + late /\ (clock = (t - 1) + late => late = 1)
      BY <1>0, <2>t
    <3>4. QED
      BY <2>t, <2>1, <2>3, <3>1, <3>2, <3>3 DEF Heard
  <2>5. CASE ip = 5
    <3>1. t = Began(2)' /\ t <= clock'
      BY <1>0, <2>t, <2>1 DEF Began
    <3>2. Answered(1, t)'
      BY <2>n, <2>4, <2>5, <3>1 DEF Answered
    <3>3. QED
      BY <1>0, <2>2, <2>5, <3>1, <3>2 DEF DemoInv
  <2>6. CASE ip = 13
    BY <1>0, <2>n, <2>2, <2>4, <2>6 DEF DemoInv
  <2>7. QED
    BY <1>4, <2>5, <2>6
<1>5. CASE ip = 14 /\ Close
  <2>1. link' = "closed" /\ UNCHANGED <<clock, toEngine, toPeer, engineVars, peerVars>>
    BY <1>5 DEF Close
  <2>2. ScriptInv'
    BY <1>0, <1>5, <2>1 DEF ScriptInv, peerVars
  <2>3. UNCHANGED <<pc, drawn, counter, wait_start, late>>
    BY <2>1 DEF engineVars, engineState
  <2>4. \A t \in Int : Heard(2, t) => Heard(2, t)'
    BY <2>1, <2>3 DEF Heard
  <2>5. QED
    BY <1>0, <1>5, <2>1, <2>2, <2>3, <2>4 DEF DemoInv
<1>6. QED
  BY <1>w, <1>1, <1>2, <1>3, <1>4, <1>5 DEF Operate

\* The transponder falls asleep or wakes up.
LEMMA SleepStep ==
    ASSUME IInv, DemoInv, FallAsleep \/ WakeUp
    PROVE  DemoInv'
<1>0. /\ ScriptInv /\ ip \in {4, 6, 8, 9, 12} /\ clock \in Nat \ {0} /\ asleep \in Nat
      /\ UNCHANGED allVars
  <2>1. ip \in 1..15 /\ At("sleep")
    BY DEF DemoInv, ScriptInv, FallAsleep, WakeUp
  <2>2. ip \in {4, 6, 8, 9, 12}
    BY <2>1, Operations
  <2>3. QED
    BY <2>2 DEF IInv, TypeOK, DemoInv, ScriptInv, FallAsleep, WakeUp
<1>1. UNCHANGED <<clock, link, toEngine, toPeer, pc, drawn, counter, wait_start, late,
                  auth_valid, last_engine_off_time, wake, held, answered>>
  BY <1>0 DEF allVars, vars, wireVars, engineVars, engineState, peerVars
<1>2. CASE FallAsleep
  <2>1. asleep = 0 /\ UNCHANGED ip /\ tlate' = 0
    BY <1>2 DEF FallAsleep
  <2>2. asleep' = clock + (IF ip = 4 THEN 1 ELSE IF ip = 6 THEN 2 ELSE IF ip = 8 THEN 3
                           ELSE IF ip = 9 THEN 7 ELSE 1)
    <3>1. ip \in 1..15
      BY <1>0
    <3>2. /\ ip = 4 => Script[ip].seconds = 1
          /\ ip = 6 => Script[ip].seconds = 2
          /\ ip = 8 => Script[ip].seconds = 3
          /\ ip = 9 => Script[ip].seconds = 7
          /\ ip = 12 => Script[ip].seconds = 1
      BY <3>1, Operations
    <3>3. asleep' = clock + Script[ip].seconds
      BY <1>2 DEF FallAsleep
    <3>4. QED
      BY <1>0, <3>2, <3>3
  <2>3. ScriptInv'
    BY <1>0, <1>1, <2>1, <2>2 DEF ScriptInv
  <2>a. ASSUME NEW n \in {1, 2}, NEW t \in Int, t = Began(1), ip \in {4, 12}, Waiting(n, t)
        PROVE  t = Began(1)' /\ Waiting(n, t)'
    <3>1. t = Began(1)'
      BY <1>0, <1>1, <2>1, <2>2, <2>a DEF Began
    <3>2. Waiting(n, t)'
      BY <1>1, <2>a DEF Waiting
    <3>3. QED
      BY <3>1, <3>2
  <2>4. ASSUME NEW t \in Int, t = Began(1), ip = 4 PROVE DemoInv'
    <3>1. t = Began(1)' /\ Waiting(1, t)'
      BY <2>a, <2>4 DEF DemoInv
    <3>2. QED
      BY <2>1, <2>3, <2>4, <3>1 DEF DemoInv
  <2>5. ASSUME NEW t \in Int, t = Began(1), ip = 12 PROVE DemoInv'
    <3>1. t = Began(1)' /\ Waiting(2, t)'
      BY <2>a, <2>5 DEF DemoInv
    <3>2. QED
      BY <2>1, <2>3, <2>5, <3>1 DEF DemoInv
  <2>6. ASSUME NEW t \in Int, t = Began(2), ip = 6 PROVE DemoInv'
    <3>1. t = Began(2)' /\ Answered(1, t)
      BY <1>0, <1>1, <2>1, <2>2, <2>6 DEF DemoInv, Began
    <3>2. Answered(1, t)'
      BY <1>1, <3>1 DEF Answered, Heard, Runs, HasRun
    <3>3. QED
      BY <2>1, <2>3, <2>6, <3>1, <3>2 DEF DemoInv
  <2>7. ASSUME NEW t \in Int, t = Began(3), ip = 8 PROVE DemoInv'
    <3>1. t = Began(3)' /\ Again(t)
      BY <1>0, <1>1, <2>1, <2>2, <2>7 DEF DemoInv, Began
    <3>2. Again(t)'
      BY <1>1, <3>1 DEF Again, Runs, HasRun
    <3>3. QED
      BY <2>1, <2>3, <2>7, <3>1, <3>2 DEF DemoInv
  <2>8. ASSUME NEW t \in Int, t = Began(7) - 3, ip = 9 PROVE DemoInv'
    <3>1. t = Began(7)' - 3 /\ Again(t)
      BY <1>0, <1>1, <2>1, <2>2, <2>8 DEF DemoInv, Began
    <3>2. Again(t)'
      BY <1>1, <3>1 DEF Again, Runs, HasRun
    <3>3. QED
      BY <2>1, <2>3, <2>8, <3>1, <3>2 DEF DemoInv
  <2>9. Began(1) \in Int /\ Began(2) \in Int /\ Began(3) \in Int /\ Began(7) - 3 \in Int
    BY <1>0, <2>1 DEF Began
  <2>10. QED
    BY <1>0, <2>4, <2>5, <2>6, <2>7, <2>8, <2>9
<1>3. CASE WakeUp
  <2>1. /\ asleep # 0 /\ clock = asleep /\ asleep' = 0 /\ ip' = ip + 1 /\ tlate' = 0
    <3>1. asleep # 0 /\ clock >= asleep /\ asleep' = 0 /\ ip' = ip + 1 /\ tlate' = 0
      BY <1>3 DEF WakeUp, Advance
    <3>2. clock <= asleep
      BY <1>0, <3>1 DEF ScriptInv
    <3>3. QED
      BY <1>0, <3>1, <3>2
  <2>2. ScriptInv'
    BY <1>0, <1>1, <2>1 DEF ScriptInv
  <2>3. ASSUME NEW n \in {1, 2}, NEW t \in Int, t = clock - 1, Waiting(n, Began(1))
        PROVE  Waiting(n, t)' /\ t = clock' - 1
    <3>1. t = Began(1)
      BY <1>0, <2>1, <2>3 DEF Began
    <3>2. Waiting(n, t)'
      BY <1>1, <2>3, <3>1 DEF Waiting
    <3>3. QED
      BY <1>1, <2>3, <3>2
  <2>4. ASSUME NEW t \in Int, t = clock - 1, ip = 4 PROVE DemoInv'
    <3>1. Waiting(1, t)' /\ t = clock' - 1
      BY <2>3, <2>4 DEF DemoInv
    <3>2. QED
      BY <2>1, <2>2, <2>4, <3>1 DEF DemoInv
  <2>5. ASSUME NEW t \in Int, t = clock - 1, ip = 12 PROVE DemoInv'
    <3>1. Waiting(2, t)' /\ t = clock' - 1
      BY <2>3, <2>5 DEF DemoInv
    <3>2. QED
      BY <2>1, <2>2, <2>5, <3>1 DEF DemoInv
  <2>6. ASSUME NEW t \in Int, t = clock - 2, ip = 6 PROVE DemoInv'
    <3>1. t = clock' - 2 /\ Answered(1, t)
      BY <1>0, <1>1, <2>1, <2>6 DEF DemoInv, Began
    <3>2. Answered(1, t)'
      BY <1>1, <3>1 DEF Answered, Heard, Runs, HasRun
    <3>3. QED
      BY <2>1, <2>2, <2>6, <3>1, <3>2 DEF DemoInv
  <2>7. ASSUME NEW t \in Int, t = clock - 3, ip = 8 PROVE DemoInv'
    <3>1. t = Began(7)' - 3 /\ Again(t)
      BY <1>0, <1>1, <2>1, <2>7 DEF DemoInv, Began
    <3>2. Again(t)'
      BY <1>1, <3>1 DEF Again, Runs, HasRun
    <3>3. QED
      BY <2>1, <2>2, <2>7, <3>1, <3>2 DEF DemoInv
  <2>8. ASSUME NEW t \in Int, t = clock - 10, ip = 9 PROVE DemoInv'
    <3>1. t = clock' - 10 /\ t = Began(7) - 3
      BY <1>0, <1>1, <2>1, <2>8 DEF Began
    <3>2. Again(t)'
      BY <1>1, <2>8, <3>1 DEF DemoInv, Again, Runs, HasRun
    <3>3. QED
      BY <2>1, <2>2, <2>8, <3>1, <3>2 DEF DemoInv
  <2>9. clock - 1 \in Int /\ clock - 2 \in Int /\ clock - 3 \in Int /\ clock - 10 \in Int
    BY <1>0
  <2>10. QED
    BY <1>0, <2>4, <2>5, <2>6, <2>7, <2>8, <2>9
<1>4. QED
  BY <1>2, <1>3

\* The engine's steps.
LEMMA EngineDemoStep ==
    ASSUME DemoTimes, IInv, DemoInv, Engine
    PROVE  DemoInv'
<1>0. /\ TypeOK /\ ControlInv /\ ScriptInv /\ ip \in 1..15 /\ clock \in Nat
      /\ wait_start \in Nat /\ asleep \in Nat
      /\ EngineStep /\ UNCHANGED <<ip, asleep, tlate>>
  BY DEF IInv, TypeOK, DemoInv, ScriptInv, Engine
<1>1. UNCHANGED <<clock, link, held, answered>>
  BY <1>0, EngineAt
<1>2. ScriptInv'
  BY <1>0, <1>1 DEF ScriptInv
<1>3. ip \notin {1, 15} => link = "open"
  BY <1>0 DEF ScriptInv
<1>4. CASE ip \in {1, 2}
  <2>0. /\ pc \in {"accept", "command"} /\ toEngine = <<>> /\ toPeer = <<>>
        /\ drawn = 0 /\ last_engine_off_time = 0 /\ link # "closed"
    BY <1>0, <1>4 DEF DemoInv, ScriptInv
  <2>1. WaitForClient
    BY <1>0, <2>0, EngineAt, Blocked
  <2>2. QED
    BY <1>0, <1>2, <1>4, <2>0, <2>1 DEF DemoInv, WaitForClient, engineState, wireVars
<1>5. CASE ip \in {3, 11}
  <2>1. PICK n \in {1, 2} : n = IF ip = 3 THEN 1 ELSE 2
    OBVIOUS
  <2>2. Pressed(n) /\ link = "open"
    BY <1>3, <1>5, <2>1 DEF DemoInv
  <2>3. Pressed(n)'
    BY <1>0, <2>2, EnginePressed
  <2>4. QED
    BY <1>0, <1>2, <1>5, <2>1, <2>3 DEF DemoInv
<1>6. CASE ip \in {4, 5, 12, 13}
  <2>1. PICK n \in {1, 2} : n = IF ip \in {4, 5} THEN 1 ELSE 2
    OBVIOUS
  <2>t. PICK t \in Int : t = IF ip \in {4, 12} THEN Began(1) ELSE clock - 1
    BY <1>0 DEF Began
  <2>2. Waiting(n, t) /\ clock <= t + 1
    <3>1. Waiting(n, t)
      BY <1>6, <2>1, <2>t DEF DemoInv
    <3>2. clock <= t + 1
      <4>1. asleep # 0 => clock <= asleep
        BY <1>0 DEF ScriptInv
      <4>2. QED
        BY <1>0, <2>t, <4>1 DEF Began
    <3>3. QED
      BY <3>1, <3>2
  <2>3. Waiting(n, t)'
    BY <1>0, <2>2, EngineWaiting
  <2>4. Began(1)' = Began(1) /\ clock' - 1 = clock - 1
    BY <1>0, <1>1 DEF Began
  <2>5. QED
    BY <1>0, <1>2, <1>6, <2>1, <2>t, <2>3, <2>4 DEF DemoInv
<1>7. CASE ip \in {6, 7}
  <2>1. PICK t \in Int : t = IF ip = 6 THEN Began(2) ELSE clock - 2
    BY <1>0 DEF Began
  <2>2. Answered(1, t) /\ link # "closed"
    BY <1>3, <1>7, <2>1 DEF DemoInv
  <2>3. Answered(1, t)'
    BY <1>0, <2>2, EngineAnswered
  <2>4. Began(2)' = Began(2)
    BY <1>0, <1>1 DEF Began
  <2>5. QED
    BY <1>0, <1>1, <1>2, <1>7, <2>1, <2>3, <2>4 DEF DemoInv
<1>8. CASE ip \in {8, 9, 10}
  <2>1. PICK t \in Int : t = IF ip = 8 THEN Began(3) ELSE IF ip = 9 THEN Began(7) - 3
                             ELSE clock - 10
    BY <1>0 DEF Began
  <2>2. Again(t) /\ link # "closed"
    BY <1>3, <1>8, <2>1 DEF DemoInv
  <2>3. Again(t)'
    BY <1>0, <2>2, EngineAgain
  <2>4. Began(3)' = Began(3) /\ Began(7)' = Began(7)
    BY <1>0, <1>1 DEF Began
  <2>5. QED
    BY <1>0, <1>1, <1>2, <1>8, <2>1, <2>3, <2>4 DEF DemoInv
<1>9. CASE ip \in {14, 15}
  <2>0. drawn = 2 /\ toPeer = <<>>
    BY <1>9 DEF DemoInv
  <2>1. ASSUME NEW t \in Int, Heard(2, t) PROVE DemoInv'
    <3>1. /\ Heard(2, t)' \/ (pc' = "running" /\ toEngine' = <<>>)
          /\ UNCHANGED <<drawn, toPeer>>
      BY <1>0, <2>1, EngineHeard DEF Runs
    <3>2. QED
      BY <1>0, <1>2, <1>9, <2>0, <3>1 DEF DemoInv
  <2>2. CASE pc = "running" /\ toEngine = <<>>
    <3>1. TurnOff
      BY <1>0, <2>2, EngineAt
    <3>2. QED
      BY <1>0, <1>2, <1>9, <2>0, <2>2, <3>1 DEF DemoInv, TurnOff, wireVars
  <2>3. CASE pc = "command" /\ toEngine = <<>>
    <3>1. ip = 15 /\ link = "closed"
      BY <1>0, <1>3, <1>9, <2>3, Blocked DEF ScriptInv
    <3>2. ClientDisconnected
      BY <1>0, <2>3, EngineAt DEF IgnoreCommand, StartPostRelease, StartAuthentication,
         Receive
    <3>3. QED
      BY <1>0, <1>2, <2>0, <2>3, <3>1, <3>2
         DEF DemoInv, ClientDisconnected, engineState, wireVars
  <2>4. CASE pc = "stopped"
    BY <1>0, <2>4, EngineAt
  <2>5. QED
    BY <1>9, <2>1, <2>2, <2>3, <2>4 DEF DemoInv
<1>10. QED
  BY <1>0, <1>4, <1>5, <1>6, <1>7, <1>8, <1>9

\* A second passes: the transponder sleeps, or waits in recv(), or has ended.
LEMMA DemoTickStep ==
    ASSUME DemoTimes, IInv, DemoInv, DemoTick
    PROVE  DemoInv'
<1>0. /\ TypeOK /\ ScriptInv /\ ip \in 1..15 /\ clock \in Nat \ {0} /\ asleep \in Nat
      /\ wait_start \in Nat /\ tlate \in Nat /\ EngineTick
      /\ UNCHANGED <<ip, asleep, held, answered>>
  BY DEF IInv, TypeOK, DemoInv, ScriptInv, DemoTick, Tick, peerVars
<1>1. /\ clock' = clock + 1
      /\ UNCHANGED <<pc, link, toEngine, toPeer, drawn, counter, wait_start,
                     auth_valid, last_engine_off_time, wake>>
  BY <1>0, TickKeeps
<1>2. ~TransponderReady /\ tlate' = 0
  <2>1. TransponderReady => tlate < 0
    BY DEF DemoTick, DemoTimes
  <2>2. ~TransponderReady
    BY <1>0, <2>1
  <2>3. QED
    BY <2>2 DEF DemoTick
<1>3. /\ ip \in {3, 4, 6, 8, 9, 11, 12, 15}
      /\ ip \in {3, 11} => toPeer = <<>>
      /\ ip \in {4, 6, 8, 9, 12} => asleep # 0 /\ clock < asleep
  <2>1. /\ At("connect") <=> ip = 1
        /\ At("press")   <=> ip \in {2, 7, 10}
        /\ At("receive") <=> ip \in {3, 11}
        /\ At("answer")  <=> ip \in {5, 13}
        /\ At("close")   <=> ip = 14
        /\ At("sleep")   <=> ip \in {4, 6, 8, 9, 12}
    BY <1>0, Operations
  <2>2. ip \in {4, 6, 8, 9, 12} => asleep # 0 /\ ~(clock >= asleep)
    BY <1>2, <2>1 DEF TransponderReady
  <2>3. QED
    BY <1>0, <1>2, <2>1, <2>2 DEF TransponderReady
<1>5. ScriptInv'
  BY <1>0, <1>1, <1>2, <1>3 DEF ScriptInv
<1>4. CASE ip \in {3, 11}
  <2>1. PICK n \in {1, 2} : n = IF ip = 3 THEN 1 ELSE 2
    OBVIOUS
  <2>2. Pressed(n) /\ link = "open" /\ toPeer = <<>>
    BY <1>3, <1>4, <2>1 DEF DemoInv, ScriptInv
  <2>3. Pressed(n)'
    BY <1>0, <2>2, TickPressed
  <2>4. QED
    BY <1>0, <1>5, <1>4, <2>1, <2>3 DEF DemoInv
<1>6. CASE ip \in {4, 12}
  <2>1. PICK n \in {1, 2} : n = IF ip = 4 THEN 1 ELSE 2
    OBVIOUS
  <2>2. PICK t \in Int : t = Began(1) /\ t = Began(1)'
    BY <1>0, <1>1, <1>3, <1>6 DEF Began
  <2>3. Waiting(n, t)
    BY <1>6, <2>1, <2>2 DEF DemoInv
  <2>4. Waiting(n, t)'
    BY <1>0, <2>3, TickWaiting
  <2>5. QED
    BY <1>0, <1>5, <1>6, <2>1, <2>2, <2>4 DEF DemoInv
<1>7. CASE ip = 6
  <2>1. PICK t \in Int : t = Began(2) /\ t = Began(2)'
    BY <1>0, <1>1, <1>3, <1>7 DEF Began
  <2>2. Answered(1, t)'
    BY <1>0, <1>7, <2>1, TickAnswered DEF DemoInv
  <2>3. QED
    BY <1>0, <1>5, <1>7, <2>1, <2>2 DEF DemoInv
<1>8. CASE ip = 8
  <2>1. PICK t \in Int : t = Began(3) /\ t = Began(3)'
    BY <1>0, <1>1, <1>3, <1>8 DEF Began
  <2>2. Again(t)'
    BY <1>0, <1>8, <2>1, TickAgain DEF DemoInv
  <2>3. QED
    BY <1>0, <1>5, <1>8, <2>1, <2>2 DEF DemoInv
<1>9. CASE ip = 9
  <2>1. PICK t \in Int : t = Began(7) - 3 /\ t = Began(7)' - 3
    BY <1>0, <1>1, <1>3, <1>9 DEF Began
  <2>2. Again(t)'
    BY <1>0, <1>9, <2>1, TickAgain DEF DemoInv
  <2>3. QED
    BY <1>0, <1>5, <1>9, <2>1, <2>2 DEF DemoInv
<1>10. CASE ip = 15
  <2>1. \A t \in Int : Heard(2, t) => Heard(2, t)'
    BY <1>0, TickHeard
  <2>2. QED
    BY <1>0, <1>1, <1>5, <1>10, <2>1 DEF DemoInv
<1>11. QED
  BY <1>3, <1>4, <1>6, <1>7, <1>8, <1>9, <1>10

-----------------------------------------------------------------------------
LEMMA DemoInitInv == DemoInit => Init /\ DemoInv
BY DEF DemoInit, Init, WireInit, EngineInit, DemoInv, ScriptInv

LEMMA DemoInvStep ==
    ASSUME DemoTimes, IInv, DemoInv, [DemoNext]_demoVars
    PROVE  DemoInv'
<1>1. CASE UNCHANGED demoVars
  <2>1. UNCHANGED <<clock, link, toEngine, toPeer, pc, drawn, counter, wait_start, late,
                    auth_start, auth_valid, last_engine_off_time, wake, held, answered,
                    ip, asleep, tlate>>
    BY <1>1 DEF demoVars, allVars, vars, wireVars, engineVars, engineState, peerVars
  <2>2. QED
    BY <2>1 DEF DemoInv, ScriptInv, Pressed, Waiting, Answered, Again, Heard, Runs,
       HasRun, Began
<1>2. QED
  BY <1>1, OperateStep, SleepStep, EngineDemoStep, DemoTickStep DEF DemoNext

\* The transponder of 06_post_trans.c is one of those PostOpen's theorems are about:
\* with it too the engine keeps the promise of Immobilizer.
THEOREM DemoIsPostOpen ==
    ASSUME DemoTimes
    PROVE  DemoSpec => Spec
<1>1. DemoInit => Init /\ DemoInv /\ IInv
  BY DemoInitInv, InitInv
<1>2. IInv /\ [Next]_allVars => IInv'
  BY TypeStep, ControlStep, KnowledgeStep, TimingStep DEF IInv
<1>3. DemoInv /\ [DemoNext]_demoVars => [Next]_allVars
  BY DemoStepIsOpen
<1>4. IInv /\ DemoInv /\ [DemoNext]_demoVars => DemoInv'
  BY DemoInvStep
<1>5. QED
  BY <1>1, <1>2, <1>3, <1>4, PTL DEF DemoSpec, Spec

\* So with the demonstration's script the engine turns on for nothing but an answer
\* to the open challenge, or within the window.
COROLLARY DemoKeepsPromise ==
    ASSUME DemoTimes
    PROVE  DemoSpec => ImplementsImmobilizer
BY DemoIsPostOpen, Refinement

\* The first start takes one challenge, the second none and the third one again, as
\* 06_post_trans.c announces (lines 93 and 106), in whatever order the two programs
\* run within a second: for all timeouts in DemoTimes.
THEOREM AsAnnounced ==
    ASSUME DemoTimes
    PROVE  DemoSpec => []ChallengesAsAnnounced
<1>1. DemoInit => Init /\ DemoInv /\ IInv
  BY DemoInitInv, InitInv
<1>2. IInv /\ [Next]_allVars => IInv'
  BY TypeStep, ControlStep, KnowledgeStep, TimingStep DEF IInv
<1>3. DemoInv /\ [DemoNext]_demoVars => [Next]_allVars
  BY DemoStepIsOpen
<1>4. IInv /\ DemoInv /\ [DemoNext]_demoVars => DemoInv'
  BY DemoInvStep
<1>5. DemoInv => ChallengesAsAnnounced
  <2>1. SUFFICES ASSUME DemoInv PROVE ChallengesAsAnnounced
    OBVIOUS
  <2>2. ip \in 8..10 => drawn = 1
    <3>1. ip \in 8..10 => ip \in {8, 9, 10}
      OBVIOUS
    <3>2. QED
      BY <2>1, <3>1 DEF DemoInv, Again
  <2>3. ip > Len(Script) => ip = 15
    <3>1. ip \in 1..15
      BY <2>1 DEF DemoInv, ScriptInv
    <3>2. Len(Script) = 14
      BY ScriptIs
    <3>3. QED
      BY <3>1, <3>2
  <2>4. ip = 15 => drawn = 2 /\ answered = {1, 2}
    BY <2>1 DEF DemoInv, ScriptInv
  <2>5. QED
    BY <2>2, <2>3, <2>4 DEF ChallengesAsAnnounced, Finished
<1>6. QED
  BY <1>1, <1>2, <1>3, <1>4, <1>5, PTL DEF DemoSpec
=============================================================================
