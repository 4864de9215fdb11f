----------------------------- MODULE Transponder -----------------------------
(***************************************************************************)
(* The transponder ECUs without a driver script:                           *)
(*   src/Network-Frames/moksha/main/01_client_trans.c answers every        *)
(*   challenge it gets, the first one after 6 s, the others after 1 s;     *)
(*   src/Network-Frames/ikshwak/Build/Transponder_ecu_l2_c.c answers one   *)
(*   challenge after 10 s and closes;                                      *)
(*   src/Network-Frames/ikshwak/Build/Transponder_ecu_c.c answers one at   *)
(*   once and closes.                                                      *)
(* They differ in the constants below only.  `genuine' says whether this   *)
(* one has the engine's key.                                               *)
(***************************************************************************)
EXTENDS ByteStream, FiniteSets

CONSTANTS FRAME,        \* bytes of the transponder's frames: 17 with a counter, or 16
          FirstDelays,  \* seconds the first answer may take
          LaterDelays,  \* seconds the others may take
          ANSWERS,      \* answers after which it closes; 0 if it never does
          Slack         \* seconds a ready program may be kept waiting

ASSUME TransponderAssumption ==
    /\ FRAME \in {16, 17}
    /\ FirstDelays \subseteq Nat /\ LaterDelays \subseteq Nat
    /\ ANSWERS \in Nat /\ Slack \in Nat

VARIABLES
    clock,             \* time(NULL)
    link,              \* "none", "open", "closed": the transponder's side
    over,              \* the engine's side is closed: its program has ended
    reset,             \* the engine has sent to a closed transponder: the
                       \* connection is reset and the next send() is fatal
    toEngine, toPeer,  \* bytes sent and not yet received
    genuine,           \* it has the secret key
    tpc,               \* "connect", "receive", "delay" or "end"
    attempt,           \* challenges received
    frame,             \* the buffer recv() fills
    wake,              \* when it sends its answer, 0 when it has none to send
    answered,          \* random numbers it has encrypted with the secret key
    tlate              \* seconds it has been ready without running

wireVars  == <<link, over, reset, toEngine, toPeer>>
transVars == <<genuine, tpc, attempt, frame, wake, answered, tlate>>

TransponderInit ==
    /\ clock = 1
    /\ link = "none" /\ over = FALSE /\ reset = FALSE
    /\ toEngine = <<>> /\ toPeer = <<>>
    /\ genuine \in BOOLEAN
    /\ tpc = "connect" /\ attempt = 0 /\ wake = 0 /\ answered = {} /\ tlate = 0
    /\ frame = [i \in 1..FRAME |-> <<"rnd", 0, 0>>]

-----------------------------------------------------------------------------
\* socket, connect and send "start".
ConnectAndStart ==
    /\ tpc = "connect"
    /\ link' = "open" /\ toEngine' = toEngine \o Start
    /\ tpc' = "receive" /\ tlate' = 0
    /\ UNCHANGED <<clock, over, reset, toPeer, genuine, attempt, frame, wake, answered>>

\* recv() of at most a frame; what it does not fill keeps its old content.
ReceiveFrame ==
    /\ tpc = "receive" /\ toPeer # <<>>
    /\ \E b \in Chunks(toPeer, FRAME) :
          /\ toPeer' = Rest(toPeer, b)
          /\ frame' = b \o SubSeq(frame, Len(b) + 1, FRAME)
    /\ attempt' = attempt + 1
    /\ \E d \in IF attempt = 0 THEN FirstDelays ELSE LaterDelays : wake' = clock + d
    /\ tpc' = "delay" /\ tlate' = 0
    /\ UNCHANGED <<clock, link, over, reset, toEngine, genuine, answered>>

\* The random number whose sixteen bytes the block is, 0 if it is not one.
RandomNumber(block) ==
    IF block = Block("rnd", block[1][2]) THEN block[1][2] ELSE 0

\* The block the transponder encrypts: the last sixteen bytes of its frame.
Challenge == SubSeq(frame, FRAME - 15, FRAME)

\* What it encrypts is of use to the engine only with the engine's key.
Encrypted == Block("enc", IF genuine THEN RandomNumber(Challenge) ELSE 0)

\* The delay is over: encrypt, echo the counter if the frame has one, send.
Respond ==
    /\ tpc = "delay" /\ clock >= wake
    /\ toEngine' = toEngine \o SubSeq(frame, 1, FRAME - 16) \o Encrypted
    /\ answered' = answered \cup (IF genuine THEN {RandomNumber(Challenge)} \ {0} ELSE {})
    /\ wake' = 0 /\ tlate' = 0
    /\ tpc' = IF attempt = ANSWERS THEN "end" ELSE "receive"
    /\ link' = IF attempt = ANSWERS THEN "closed" ELSE link
    /\ UNCHANGED <<clock, over, reset, toPeer, genuine, attempt, frame>>

\* recv() returns 0 or -1: the engine has closed, and what it sent before is lost
\* when bytes it had not read reset the connection.
EngineGone ==
    /\ tpc = "receive" /\ over
    /\ tpc' = "end" /\ link' = "closed" /\ tlate' = 0
    /\ UNCHANGED <<clock, over, reset, toEngine, toPeer, genuine, attempt, frame, wake, answered>>

TransponderNext == ConnectAndStart \/ ReceiveFrame \/ Respond \/ EngineGone

TransponderReady ==
    \/ tpc = "connect"
    \/ tpc = "receive" /\ (toPeer # <<>> \/ over)
    \/ tpc = "delay" /\ clock >= wake

\* A second passes for the transponder.
TransponderTick ==
    /\ TransponderReady => tlate < Slack
    /\ tlate' = IF TransponderReady THEN tlate + 1 ELSE 0
    /\ UNCHANGED <<genuine, tpc, attempt, frame, wake, answered>>
=============================================================================
