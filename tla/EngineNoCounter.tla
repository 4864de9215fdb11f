--------------------------- MODULE EngineNoCounter ---------------------------
(***************************************************************************)
(* The engine ECU without counters,                                        *)
(* src/Network-Frames/moksha/main/03_engine_ecu.c, and                     *)
(* 02_server_engine.c, the same program in one function: a challenge is    *)
(* the sixteen bytes of a random number, an answer that does not match is  *)
(* dropped.                                                                *)
(***************************************************************************)
EXTENDS EngineOnce

vars == <<clock, wireVars, transVars, onceVars>>

Init == TransponderInit /\ EngineInit

-----------------------------------------------------------------------------
\* send_challenge.
Challenge16 == SendChallenge(Block("rnd", drawn + 1))

\* wait_and_verify_response: sixteen bytes that are the encryption expected.
ResponseAccepted ==
    /\ InTime
    /\ \E b \in Chunks(toEngine, 16) : Read(b) /\ Matches(b)
    /\ Return("success") /\ UNCHANGED toPeer

\* Mutant of ResponseIgnored: an answer that does not match is fatal.
ResponseFatal ==
    /\ InTime
    /\ \E b \in Chunks(toEngine, 16) : Read(b) /\ ~Matches(b)
    /\ Return("denied") /\ UNCHANGED toPeer

\* Any other bytes are dropped, and recv() is called again.
ResponseIgnored ==
    /\ InTime
    /\ \E b \in Chunks(toEngine, 16) : Read(b) /\ ~Matches(b)
    /\ KeepWaiting

\* recv() fails with EAGAIN: usleep(500000).
PollNothing == InTime /\ NothingToRead /\ KeepWaiting /\ UNCHANGED toEngine

\* Mutant of AttemptOver: the wait ends only when the transponder closes.
OverWhenGone == pc = "wait" /\ PeerGone /\ NextChallenge /\ UNCHANGED toEngine

\* recv() returns 0, or the challenge has timed out.
AttemptOver ==
    /\ pc = "wait" /\ (InTime => PeerGone)
    /\ NextChallenge /\ UNCHANGED toEngine

EngineStep ==
    \/ WaitForClient \/ ReceiveStart \/ Challenge16 \/ BeginWait \/ BrokenPipe
    \/ TotalTimeout /\ UNCHANGED toPeer
    \/ ResponseAccepted \/ ResponseIgnored \/ PollNothing \/ AttemptOver

Next ==
    \/ EngineStep /\ UNCHANGED <<clock, transVars>>
    \/ TransponderNext /\ UNCHANGED onceVars
    \/ Tick(InTime)

\* The scheduler runs both programs and time passes.
Spec ==
    /\ Init /\ [][Next]_vars
    /\ WF_vars(EngineStep /\ UNCHANGED <<clock, transVars>>)
    /\ WF_vars(TransponderNext /\ UNCHANGED onceVars)
    /\ WF_vars(Tick(InTime))

=============================================================================
