---------------------------- MODULE EngineIgnore ----------------------------
(***************************************************************************)
(* The engine ECU that ignores late answers,                               *)
(* src/Network-Frames/moksha/main/04_engine_ignore.c: challenges carry a   *)
(* counter, an answer that carries another counter is dropped.             *)
(***************************************************************************)
EXTENDS EngineOnce

VARIABLE counter  \* perform_authentication's counter, 0 before

engineVars == <<onceVars, counter>>
vars       == <<clock, wireVars, transVars, engineVars>>

Init == TransponderInit /\ EngineInit /\ counter = 0

-----------------------------------------------------------------------------
\* main: perform_authentication is called.
StartAuthentication == ReceiveStart /\ counter' = 1

\* prepare_challenge and send.
Challenge17 ==
    /\ SendChallenge(Frame("rnd", counter, drawn + 1))
    /\ UNCHANGED counter

\* Mutant of NextAttempt: the counter stays what it was.
SameCounter == NextChallenge /\ UNCHANGED counter

\* Mutant of NextAttempt: the counter goes down.
CountDown == NextChallenge /\ counter' = counter - 1

\* counter++ past 255 gives 1; the next turn of the loop.
NextAttempt ==
    /\ NextChallenge
    /\ counter' = IF counter = 255 THEN 1 ELSE counter + 1

\* The bytes read are a whole frame with the counter expected.
MayBeCurrent(b) == Len(b) = 17 /\ MayBe(b[1], counter)

\* The frame is the answer: both blocks of 16 bytes are the same.
ResponseAccepted ==
    /\ InTime
    /\ \E b \in Chunks(toEngine, 17) :
          Read(b) /\ MayBeCurrent(b) /\ Matches(SubSeq(b, 2, 17))
    /\ Return("success") /\ UNCHANGED <<toPeer, counter>>

ResponseRejected ==
    /\ InTime
    /\ \E b \in Chunks(toEngine, 17) :
          Read(b) /\ MayBeCurrent(b) /\ ~Matches(SubSeq(b, 2, 17))
    /\ NextAttempt

\* Mutant of ResponseIgnored: another counter ends the wait for this challenge.
OtherCounterRetries ==
    /\ InTime
    /\ \E b \in Chunks(toEngine, 17) :
          Read(b) /\ (Len(b) = 17 => MayDiffer(b[1], counter))
    /\ NextAttempt

\* Another counter, or a part of a frame: dropped.
ResponseIgnored ==
    /\ InTime
    /\ \E b \in Chunks(toEngine, 17) :
          Read(b) /\ (Len(b) = 17 => MayDiffer(b[1], counter))
    /\ KeepWaiting /\ UNCHANGED counter

\* recv() fails with EAGAIN: usleep(500000).
PollNothing ==
    /\ InTime /\ NothingToRead
    /\ KeepWaiting /\ UNCHANGED <<toEngine, counter>>

\* Mutant of AttemptOver: the wait ends only when the transponder closes.
OverWhenGone == pc = "wait" /\ PeerGone /\ NextAttempt /\ UNCHANGED toEngine

\* recv() returns 0, or the challenge has timed out.
AttemptOver ==
    /\ pc = "wait" /\ (InTime => PeerGone)
    /\ NextAttempt /\ UNCHANGED toEngine

EngineStep ==
    \/ (WaitForClient \/ BeginWait \/ BrokenPipe) /\ UNCHANGED counter
    \/ TotalTimeout /\ UNCHANGED <<toPeer, counter>>
    \/ StartAuthentication \/ Challenge17
    \/ ResponseAccepted \/ ResponseRejected \/ ResponseIgnored
    \/ PollNothing \/ AttemptOver

Next ==
    \/ EngineStep /\ UNCHANGED <<clock, transVars>>
    \/ TransponderNext /\ UNCHANGED engineVars
    \/ Tick(InTime) /\ UNCHANGED counter

\* The scheduler runs both programs and time passes.
Spec ==
    /\ Init /\ [][Next]_vars
    /\ WF_vars(EngineStep /\ UNCHANGED <<clock, transVars>>)
    /\ WF_vars(TransponderNext /\ UNCHANGED engineVars)
    /\ WF_vars(Tick(InTime) /\ UNCHANGED counter)

-----------------------------------------------------------------------------
\* Every variable has its type.
TypeOK == OnceTypeOK /\ counter \in 0..255

\* A counter names one challenge: while an answer is waited for, the counter of
\* the frames in the queue says whether their block is made from the random
\* number waited for (04_engine_ignore.c:120 and :193), when frames are received
\* whole.
CounterNamesChallenge ==
    pc = "wait" => \A i \in 1..(Len(toEngine) - 1) :
        LET c == toEngine[i]  e == toEngine[i + 1]
        IN  c[1] = "ctr" /\ e[1] = "enc" /\ e[2] # 0
            => (c[2] = counter <=> e[2] = drawn)

\* An answer that comes after its challenge has timed out leaves the current
\* challenge what time it has: a challenge is given up only when its five seconds
\* are over, unless the transponder closed or sent a block of its own, when frames
\* are received whole (04_engine_ignore.c:120-123).
LateAnswerCostsNothing ==
    [][pc = "wait" /\ pc' = "challenge" /\ genuine /\ link = "open"
       => clock - wait_start >= PER_CHALLENGE_TIMEOUT]_vars

=============================================================================
