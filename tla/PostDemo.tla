------------------------------ MODULE PostDemo ------------------------------
(***************************************************************************)
(* The engine ECU of 05_engine_post.c with the transponder that the        *)
(* repository runs against it, 06_post_trans.c: a driver script of three   *)
(* starts that answers one challenge after the first start and one after   *)
(* the third, and expects none after the second.                           *)
(*                                                                         *)
(* The script is a sequence of operations; its sends and receives are the  *)
(* actions of PostOpen, of whose transponders it is one.                   *)
(***************************************************************************)
EXTENDS PostOpen

Sleep(s) == [op |-> "sleep", seconds |-> s]
Do(op)   == [op |-> op, seconds |-> 0]

\* handle_authentication: recv, then sleep(1) and send.
HandleAuthentication == <<Do("receive"), Sleep(1), Do("answer")>>

\* main, from connect() to close().
Script ==
    <<Do("connect"), Do("press")>> \o HandleAuthentication
    \o <<Sleep(2), Do("press"), Sleep(3), Sleep(7), Do("press")>>
    \o HandleAuthentication \o <<Do("close")>>

VARIABLES ip,      \* the operation the transponder is at
          asleep,  \* when its sleep() returns, 0 when not asleep
          tlate    \* seconds it has been ready without running

demoVars == <<allVars, ip, asleep, tlate>>

DemoInit == Init /\ ip = 1 /\ asleep = 0 /\ tlate = 0

At(op) == ip <= Len(Script) /\ Script[ip].op = op

Advance == ip' = ip + 1 /\ asleep' = 0 /\ tlate' = 0

\* The challenge received last is the one with the largest random number.
LastHeld == CHOOSE h \in held : \A g \in held : g[2] <= h[2]

\* The operations on the socket; recv() blocks until the engine has sent.
Operate ==
    /\ \/ At("connect") /\ Connect
       \/ At("press")   /\ PressStart
       \/ At("receive") /\ ReceiveChallenge
       \/ At("answer")  /\ Answer(LastHeld)
       \/ At("close")   /\ Close
    /\ Advance

FallAsleep ==
    /\ At("sleep") /\ asleep = 0
    /\ asleep' = clock + Script[ip].seconds
    /\ tlate' = 0
    /\ UNCHANGED <<allVars, ip>>

WakeUp ==
    /\ At("sleep") /\ asleep # 0 /\ clock >= asleep
    /\ Advance /\ UNCHANGED allVars

Engine == EngineStep /\ UNCHANGED <<ip, asleep, tlate>>

TransponderReady ==
    \/ At("connect") \/ At("press") \/ At("answer") \/ At("close")
    \/ At("receive") /\ toPeer # <<>>
    \/ At("sleep") /\ (asleep # 0 => clock >= asleep)

\* Somebody is waiting for a time to come.  When nobody is, the passing of time
\* changes nothing any more and is left out.
TimerPending == asleep # 0 \/ Authenticating \/ pc = "running"

DemoTick ==
    /\ TimerPending
    /\ Tick
    /\ TransponderReady => tlate < Slack
    /\ tlate' = IF TransponderReady THEN tlate + 1 ELSE 0
    /\ UNCHANGED <<ip, asleep>>

\* The two programs have ended.
Finished == ip > Len(Script) /\ pc \in {"stopped", "killed"}

DemoNext == Operate \/ FallAsleep \/ WakeUp \/ Engine \/ DemoTick

\* The scheduler runs both programs and time passes.
DemoSpec ==
    /\ DemoInit /\ [][DemoNext]_demoVars
    /\ WF_demoVars(Operate \/ FallAsleep \/ WakeUp)
    /\ WF_demoVars(Engine) /\ WF_demoVars(DemoTick)

-----------------------------------------------------------------------------
\* The whole demonstration, from the first start to the end of both programs,
\* always runs to its end: no recv() of either side waits for ever for what the
\* other believes it has answered (06_post_trans.c:41 against 05_engine_post.c:186).
DemoCompletes == <>Finished

\* The second start is the one that needs no challenge, the third needs one again
\* (06_post_trans.c:93 and :106): when the script is past its ten seconds of sleep
\* one random number has been drawn, when it is closed two have.
ChallengesAsAnnounced ==
    /\ ip \in 8..10 => drawn = 1
    /\ Finished => drawn = 2 /\ answered = {1, 2}
=============================================================================
