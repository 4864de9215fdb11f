------------------------------ MODULE EngineL2 ------------------------------
(***************************************************************************)
(* The engine ECU of level 2,                                              *)
(* src/Network-Frames/ikshwak/Build/Engine_ecu_l2_s.c: an answer that does *)
(* not match is final, the total timeout also ends the wait for an answer, *)
(* and the verdict is sent to the transponder.                             *)
(***************************************************************************)
EXTENDS EngineOnce

VARIABLE eagain  \* errno has been set to EAGAIN by a recv()

engineVars == <<onceVars, eagain>>
vars       == <<clock, wireVars, transVars, engineVars>>

Init == TransponderInit /\ EngineInit /\ eagain = FALSE

\* Mutant of Verdict: the NUL that ends the string is sent too.
VerdictAndNul(r) == [i \in 1..(IF r = "success" THEN 8 ELSE 5) |-> <<"txt", 0, i>>]

\* The texts "SUCCESS" and "FAIL", strlen() bytes of them.
Verdict(r) == [i \in 1..(IF r = "success" THEN 7 ELSE 4) |-> <<"txt", 0, i>>]

-----------------------------------------------------------------------------
\* trng(), aes128_encrypt() and send().
Challenge16 == SendChallenge(Block("rnd", drawn + 1)) /\ UNCHANGED eagain

\* The end of main: the verdict is sent, the sockets are closed.
Decide(r) == Return(r) /\ toPeer' = toPeer \o Verdict(r)

\* Mutant of Waiting: the inner loop does not look at the total timeout.
WaitingInTime == InTime

\* The conditions of the inner loop.
Waiting == InTime /\ clock - total_start < TOTAL_AUTH_TIMEOUT

\* send() reports that the transponder has reset the connection.
SendFails ==
    /\ MayChallenge /\ link = "closed"
    /\ Decide("denied") /\ UNCHANGED <<toEngine, eagain>>

\* The sixteen bytes match: "SUCCESS".
ResponseAccepted ==
    /\ Waiting
    /\ \E b \in Chunks(toEngine, 16) : Read(b) /\ Matches(b)
    /\ Decide("success") /\ UNCHANGED eagain

\* Sixteen other bytes are the wrong response.
ResponseWrong ==
    /\ Waiting
    /\ \E b \in Chunks(toEngine, 16) : Read(b) /\ Len(b) = 16 /\ ~Matches(b)
    /\ Decide("denied") /\ UNCHANGED eagain

\* Fewer than sixteen bytes: recv() has not set errno, and what an earlier call
\* left there decides between waiting on and giving up.
ShortDropped ==
    /\ Waiting /\ eagain
    /\ \E b \in Chunks(toEngine, 16) : Read(b) /\ Len(b) < 16
    /\ KeepWaiting /\ UNCHANGED eagain

\* errno is 0, or what printf() or fopen() left.
ShortFatal ==
    /\ Waiting /\ ~eagain
    /\ \E b \in Chunks(toEngine, 16) : Read(b) /\ Len(b) < 16
    /\ Decide("denied") /\ UNCHANGED eagain

\* Mutant of PollNothing: no data is taken for an error.
EagainFatal ==
    /\ Waiting /\ NothingToRead
    /\ Decide("denied") /\ eagain' = TRUE /\ UNCHANGED toEngine

\* recv() fails with EAGAIN: usleep(100000).
PollNothing ==
    /\ Waiting /\ NothingToRead
    /\ KeepWaiting /\ eagain' = TRUE /\ UNCHANGED toEngine

\* Mutant of ClosedUnexpectedly: as in the other engines, a closed transponder
\* is sent another challenge.
RetryWhenClosed ==
    /\ Waiting /\ PeerGone
    /\ NextChallenge /\ UNCHANGED <<toEngine, eagain>>

\* recv() returns 0, or fails as the connection is reset.
ClosedUnexpectedly ==
    /\ Waiting /\ PeerGone
    /\ Decide("denied") /\ UNCHANGED <<toEngine, eagain>>

\* Mutant of AttemptOver: the wait has no timeouts.
NeverOver ==
    /\ pc = "wait" /\ PeerGone
    /\ NextChallenge /\ UNCHANGED <<toEngine, eagain>>

\* One of the timeouts has passed.
AttemptOver ==
    /\ pc = "wait" /\ ~Waiting
    /\ NextChallenge /\ UNCHANGED <<toEngine, eagain>>

\* The total timeout is the last way to fail.
Timeout ==
    /\ TotalTimeout
    /\ toPeer' = toPeer \o Verdict("denied") /\ UNCHANGED eagain

EngineStep ==
    \/ (WaitForClient \/ ReceiveStart \/ BeginWait \/ BrokenPipe) /\ UNCHANGED eagain
    \/ Challenge16 \/ SendFails \/ Timeout
    \/ ResponseAccepted \/ ResponseWrong \/ ShortDropped \/ ShortFatal
    \/ PollNothing \/ ClosedUnexpectedly \/ AttemptOver

Next ==
    \/ EngineStep /\ UNCHANGED <<clock, transVars>>
    \/ TransponderNext /\ UNCHANGED engineVars
    \/ Tick(Waiting) /\ UNCHANGED eagain

\* The scheduler runs both programs and time passes.
Spec ==
    /\ Init /\ [][Next]_vars
    /\ WF_vars(EngineStep /\ UNCHANGED <<clock, transVars>>)
    /\ WF_vars(TransponderNext /\ UNCHANGED engineVars)
    /\ WF_vars(Tick(Waiting) /\ UNCHANGED eagain)

-----------------------------------------------------------------------------
\* The text in s is letters: no byte of it is beyond the longer verdict's seventh.
Letters(s) == \A i \in 1..Len(s) : s[i][1] = "txt" => s[i][3] \in 1..7

\* Every variable has its type, and the transponder is sent letters of a verdict only
\* (Engine_ecu_l2_s.c:271).
TypeOK == OnceTypeOK /\ eagain \in BOOLEAN /\ Letters(toPeer)

\* The longest an authentication takes: a last challenge at the end of the total
\* timeout, and three steps that may be late after it: the start of the wait, its
\* end and the end of the loop.
LongestAuthentication ==
    TOTAL_AUTH_TIMEOUT + (IF Slack = 0 THEN 0 ELSE 3 * Slack - 1)

\* The verdict comes within the total timeout but for those: unlike the other
\* engines, this one does not wait for the answer to a last challenge beyond it
\* (Engine_ecu_l2_s.c:218).
DecidedInTotal ==
    pc \in {"challenge", "sent", "wait"} => clock - total_start <= LongestAuthentication

\* When an answer is received whole or in two parts: a challenge may go into a
\* connection that the transponder closes at that moment, but while there is time no
\* second one follows: the wait between them notices (Engine_ecu_l2_s.c:239, where the
\* other engines go on until SIGPIPE ends them).  It is not so when answers come in
\* more parts: each may be polled a second late, and the four or more of one answer
\* can take up a whole wait.
NoSecondSendToClosed == MayChallenge => ~reset

=============================================================================
