----------------------------- MODULE EngineOnce -----------------------------
(***************************************************************************)
(* What the engine ECUs that authenticate once and end have in common,     *)
(* with the transponder they talk to: the wait for a start, the loop that  *)
(* sends challenges until the total timeout, and the ways out of it.       *)
(* These are 02_server_engine.c, 03_engine_ecu.c and 04_engine_ignore.c of *)
(* src/Network-Frames/moksha/main and Engine_ecu_l2_s.c of                 *)
(* src/Network-Frames/ikshwak/Build; they differ in what they do with the  *)
(* answer to a challenge, which is in EngineNoCounter, EngineIgnore and    *)
(* EngineL2.                                                               *)
(***************************************************************************)
EXTENDS Transponder

CONSTANTS PER_CHALLENGE_TIMEOUT,  \* seconds waited for one response
          TOTAL_AUTH_TIMEOUT      \* seconds after which no challenge is sent

ASSUME TimeoutsAssumption ==
    PER_CHALLENGE_TIMEOUT \in Nat \ {0} /\ TOTAL_AUTH_TIMEOUT \in Nat \ {0}

VARIABLES pc,           \* where the engine's thread of control is
          drawn,        \* random numbers drawn; the last one is outstanding
          total_start,  \* start of the authentication, 0 before
          wait_start,   \* start of the wait for a response, 0 outside it
          result,       \* "none", or how the authentication ended
          late          \* seconds the engine has been ready without running

onceVars == <<pc, drawn, total_start, wait_start, result, late>>

EngineInit ==
    /\ pc = "accept" /\ drawn = 0
    /\ total_start = 0 /\ wait_start = 0 /\ result = "none" /\ late = 0

-----------------------------------------------------------------------------
\* socket to accept: a transponder has connected.
WaitForClient ==
    /\ pc = "accept" /\ link # "none"
    /\ pc' = "command" /\ late' = 0
    /\ UNCHANGED <<drawn, total_start, wait_start, result, wireVars>>

\* The first bytes are received and printed; the authentication starts whatever
\* they are.
ReceiveStart ==
    /\ pc = "command" /\ toEngine # <<>>
    /\ \E b \in Chunks(toEngine, 1024) : toEngine' = Rest(toEngine, b)
    /\ pc' = "challenge" /\ total_start' = clock /\ late' = 0
    /\ UNCHANGED <<drawn, wait_start, result, link, over, reset, toPeer>>

\* Less than the total timeout has passed: another turn of the loop.
MayChallenge == pc = "challenge" /\ clock - total_start < TOTAL_AUTH_TIMEOUT

\* trng() has drawn a random number, the frame with it is sent.  The wait for its
\* answer reads the clock for itself, which may have moved by then.
SendChallenge(bytes) ==
    /\ MayChallenge
    /\ drawn' = drawn + 1
    /\ toPeer' = toPeer \o bytes
    /\ pc' = "sent" /\ late' = 0
    /\ ~reset /\ reset' = (link = "closed")
    /\ UNCHANGED <<total_start, wait_start, result, link, over, toEngine>>

\* The wait for the response begins now.
BeginWait ==
    /\ pc = "sent"
    /\ pc' = "wait" /\ wait_start' = clock /\ late' = 0
    /\ UNCHANGED <<drawn, total_start, result, wireVars>>

\* send() to a transponder that has closed: SIGPIPE ends the program.
BrokenPipe ==
    /\ MayChallenge /\ link = "closed"
    /\ pc' = "killed" /\ over' = TRUE /\ late' = 0
    /\ UNCHANGED <<drawn, total_start, wait_start, result, link, reset, toEngine, toPeer>>

\* The result is known, the sockets are closed, the program ends.
Return(r) ==
    /\ pc' = "stopped" /\ result' = r /\ over' = TRUE
    /\ wait_start' = 0 /\ late' = 0
    /\ UNCHANGED <<drawn, total_start, link, reset>>

\* The total timeout ends the loop.
TotalTimeout ==
    /\ pc = "challenge" /\ ~MayChallenge
    /\ Return("denied") /\ UNCHANGED toEngine

\* Back to the head of the loop, for a new challenge.
NextChallenge ==
    /\ pc' = "challenge" /\ wait_start' = 0 /\ late' = 0
    /\ UNCHANGED <<drawn, total_start, result, link, over, reset, toPeer>>

\* The wait goes on.
KeepWaiting ==
    /\ late' = 0
    /\ UNCHANGED <<pc, drawn, total_start, wait_start, result, link, over, reset, toPeer>>

\* The timeout of the challenge has not passed.
InTime == pc = "wait" /\ clock - wait_start < PER_CHALLENGE_TIMEOUT

\* The response loop reads the bytes b.
Read(b) == toEngine # <<>> /\ toEngine' = Rest(toEngine, b)

\* recv() would fail with EAGAIN.
NothingToRead == toEngine = <<>> /\ link = "open"

\* recv() would return 0.
PeerGone == toEngine = <<>> /\ link = "closed"

\* Mutant of Matches: the answer to any challenge so far will do.
MatchesAnyDrawn(block) == \E n \in 1..drawn : block = Block("enc", n)

\* Mutant of Matches: the result of memcmp is taken the other way round.
MatchesInverted(block) == block # Block("enc", drawn)

\* memcmp with the encryption of the random number drawn last.
Matches(block) == block = Block("enc", drawn)

-----------------------------------------------------------------------------
EngineReady ==
    \/ pc = "accept" /\ link # "none"
    \/ pc = "command" /\ toEngine # <<>>
    \/ pc \in {"challenge", "sent", "wait"}

\* Both programs have ended.
Ended == pc \in {"stopped", "killed"} /\ tpc = "end"

\* A second passes; when nothing waits for the time or to run, it would change
\* nothing and is left out.  A program that polls, looking at its socket every 0.1
\* or 0.5 s, is not kept from it for longer.
Tick(polling) ==
    /\ EngineReady \/ TransponderReady \/ tpc = "delay"
    /\ EngineReady => late < (IF polling THEN 1 ELSE Slack)
    /\ late' = IF EngineReady THEN late + 1 ELSE 0
    /\ TransponderTick
    /\ clock' = clock + 1
    /\ UNCHANGED <<pc, drawn, total_start, wait_start, result, wireVars>>

-----------------------------------------------------------------------------
\* The types of the variables of this module and of Transponder.
OnceTypeOK ==
    /\ clock \in Nat \ {0} /\ link \in {"none", "open", "closed"}
    /\ over \in BOOLEAN /\ reset \in BOOLEAN /\ genuine \in BOOLEAN
    /\ toEngine \in Seq(Bytes) /\ toPeer \in Seq(Bytes) /\ frame \in Seq(Bytes)
    /\ tpc \in {"connect", "receive", "delay", "end"}
    /\ attempt \in Nat /\ wake \in Nat /\ tlate \in Nat /\ answered \subseteq Nat
    /\ pc \in {"accept", "command", "challenge", "sent", "wait", "stopped", "killed"}
    /\ drawn \in Nat /\ total_start \in Nat /\ wait_start \in Nat /\ late \in Nat
    /\ result \in {"none", "success", "denied"}

\* "If valid, engine start is enabled" (README.md:69): the transponder with the
\* engine's key is let in.
GenuineAccepted == genuine ~> result = "success"

\* Whatever the transponder does, the authentication is decided, or the signal of
\* a broken pipe ends the engine, and both programs end.
BothEnd == <>Ended

\* The one authentication as the promise of Immobilizer: "on" is success.
Promise == INSTANCE Immobilizer WITH
    POST_RELEASE_TIMEOUT <- 0,
    engine <- IF result = "success" THEN "on" ELSE "off",
    challenge <- drawn, open <- (pc \in {"sent", "wait"}), released <- 0

\* Success is reached only by an answer to the challenge that is open, made with
\* the key (04_engine_ignore.c:130, 03_engine_ecu.c:79, Engine_ecu_l2_s.c:230).
ImplementsImmobilizer == Promise!Spec

=============================================================================
