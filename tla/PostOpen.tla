------------------------------ MODULE PostOpen ------------------------------
(***************************************************************************)
(* The engine ECU of EnginePost with an arbitrary program at the other end *)
(* of the connection: a transponder that owns the key and answers, in any  *)
(* order, as late and as often as it likes, the challenges it has read; a  *)
(* driver who presses start at any moment; and another transponder, with   *)
(* another key, whose frames reach the same socket.                        *)
(***************************************************************************)
EXTENDS EnginePost

CONSTANTS MaxSends,  \* bound on the messages sent to the engine
          MaxClock   \* bound on the clock

ASSUME BoundsAssumption == MaxSends \in Nat /\ MaxClock \in Nat

VARIABLES sends,     \* messages sent to the engine so far
          held,      \* <<counter, random number>> of the challenges received
          answered,  \* random numbers encrypted with the secret key
          first      \* history: the first random number of this authentication

peerVars == <<sends, held, answered, first>>
allVars  == <<vars, peerVars>>

Init ==
    /\ WireInit /\ EngineInit
    /\ sends = 0 /\ held = {} /\ answered = {} /\ first = 0

Connect ==
    /\ link = "none" /\ link' = "open"
    /\ UNCHANGED <<clock, toEngine, toPeer, engineVars, peerVars>>

Send(bytes) ==
    /\ link = "open" /\ sends < MaxSends
    /\ toEngine' = toEngine \o bytes
    /\ sends' = sends + 1
    /\ UNCHANGED <<clock, link, engineVars, first>>

\* The driver turns the key: send(sockfd, "start", 5, 0).
PressStart == Send(Start) /\ UNCHANGED <<toPeer, held, answered>>

\* handle_authentication: recv() of a challenge frame.  A read that is not a
\* whole frame leaves random_number undefined and is of no use to the key.
ReceiveChallenge ==
    /\ link = "open" /\ toPeer # <<>>
    /\ \E b \in Chunks(toPeer, 17) :
          /\ toPeer' = Rest(toPeer, b)
          /\ held' = held \cup {h \in (0..255) \X (1..drawn) :
                                   b = Frame("rnd", h[1], h[2])}
    /\ UNCHANGED <<clock, link, toEngine, engineVars, sends, answered, first>>

\* handle_authentication: encrypt, echo the counter and send.
Answer(h) ==
    /\ Send(Frame("enc", h[1], h[2]))
    /\ answered' = answered \cup {h[2]}
    /\ UNCHANGED <<toPeer, held>>

\* A transponder without the key answers with a block of its own.
ForeignAnswer(c) ==
    /\ Send(Frame("enc", c, 0))
    /\ UNCHANGED <<toPeer, held, answered>>

Close ==
    /\ link = "open" /\ link' = "closed"
    /\ UNCHANGED <<clock, toEngine, toPeer, engineVars, peerVars>>

PeerNext ==
    \/ Connect \/ PressStart \/ ReceiveChallenge \/ Close
    \/ \E h \in held : Answer(h)
    \/ \E c \in {1, 2} : ForeignAnswer(c)

\* A second passes.  Time before the connection changes nothing.
Tick ==
    /\ link # "none" /\ clock < MaxClock
    /\ EngineTick
    /\ UNCHANGED peerVars

EngineStep ==
    /\ EngineNext
    /\ first' = IF pc = "command" /\ pc' = "challenge" THEN drawn + 1 ELSE first
    /\ UNCHANGED <<sends, held, answered>>

Next == EngineStep \/ PeerNext \/ Tick

Spec == Init /\ [][Next]_allVars

-----------------------------------------------------------------------------
\* Every variable has its type; the one type invariant of this module and of
\* EnginePost.
TypeOK ==
    /\ clock \in Nat \ {0}
    /\ link \in {"none", "open", "closed"}
    /\ toEngine \in Seq(Bytes) /\ toPeer \in Seq(Bytes)
    /\ pc \in PCs
    /\ engine_state \in {ENGINE_OFF, ENGINE_ON} /\ auth_valid \in {0, 1}
    /\ last_engine_off_time \in Nat /\ counter \in 0..255 /\ drawn \in Nat
    /\ auth_start \in Nat /\ wait_start \in Nat /\ wake \in Nat
    /\ late \in Nat /\ sends \in Nat /\ first \in Nat
    /\ held \subseteq (0..255) \X Nat
    /\ answered \subseteq Nat

\* No post-release grant survives into an authentication (05_engine_post.c:170):
\* while a challenge is being prepared or is open, auth_valid is 0, so that a
\* failed authentication leaves no way to start without another one.
NoGrantWhileAuthenticating == Authenticating => auth_valid = 0

\* An authentication is over when the last second in which a challenge may be sent,
\* the wait for its answer and three latenesses are: before the wait begins, when
\* its time is up, and before the total is looked at again (05_engine_post.c:126,
\* :81, :86 and :126 again: the inner loop does not look at the total).
AuthenticationBounded ==
    Authenticating =>
        clock - auth_start <= (TOTAL_AUTH_TIMEOUT - 1) + (PER_CHALLENGE_TIMEOUT - 1)
                              + 3 * AuthLateness

\* A genuine answer to an earlier challenge of the same authentication never
\* ends the wait for the answer to the current one, whatever else is in the
\* queue (05_engine_post.c:95: the counter tells them apart).
LateAnswerIgnored ==
    [][\A n \in first..(drawn - 1) :
          /\ pc = "wait" /\ toEngine' # toEngine
          /\ Len(toEngine) >= 17 /\ toEngine' = SubSeq(toEngine, 18, Len(toEngine))
          /\ SubSeq(toEngine, 2, 17) = Block("enc", n)
          => pc' = "wait"]_allVars

\* The engine implements the promise of Immobilizer: its grant is auth_valid and
\* the time of the last ENGINE OFF, its open challenge the one waited for.
Promise == INSTANCE Immobilizer WITH
    engine <- IF engine_state = ENGINE_ON THEN "on" ELSE "off",
    challenge <- drawn,
    open <- (pc \in {"sent", "wait"}),
    released <- IF auth_valid = 1 /\ engine_state = ENGINE_OFF
                THEN last_engine_off_time ELSE 0

\* The engine goes on only by answer to the open challenge or within the window
\* of an authorised run (05_engine_post.c:205-228).
ImplementsImmobilizer == Promise!Spec

-----------------------------------------------------------------------------
\* The engine is on exactly while it sleeps in main, and then by a grant; an open
\* challenge has a random number, and a grant that is not in use a time.
ControlInv ==
    /\ engine_state = ENGINE_ON <=> pc = "running"
    /\ pc = "running" => auth_valid = 1
    /\ pc \in {"sent", "wait"} => drawn > 0
    /\ auth_valid = 1 /\ pc # "running" => last_engine_off_time # 0

\* Only the holder of the key encrypts what the engine has drawn, and only
\* after it was drawn.
KnowledgeInv ==
    /\ Genuine(toEngine, answered)
    /\ held \subseteq (0..255) \X (1..drawn)
    /\ answered \subseteq 1..drawn

\* How far the clock can be, and how late the engine, at each wait of an
\* authentication.
TimingInv ==
    /\ Authenticating => auth_start <= clock
    /\ pc = "challenge" =>
          /\ late <= AuthLateness
          /\ clock - auth_start <= (TOTAL_AUTH_TIMEOUT - 1) + (PER_CHALLENGE_TIMEOUT - 1)
                                   + 2 * AuthLateness + late
    /\ pc = "sent" =>
          /\ late <= AuthLateness
          /\ clock - auth_start <= TOTAL_AUTH_TIMEOUT - 1 + late
    /\ pc = "wait" =>
          /\ wait_start <= clock
          /\ wait_start - auth_start <= TOTAL_AUTH_TIMEOUT - 1 + AuthLateness
          /\ \/ clock - wait_start <= PER_CHALLENGE_TIMEOUT - 1
             \/ /\ late <= AuthLateness
                /\ clock - wait_start <= PER_CHALLENGE_TIMEOUT - 1 + late

\* The inductive invariant.
IInv ==
    /\ TypeOK /\ NoGrantWhileAuthenticating
    /\ ControlInv /\ KnowledgeInv /\ TimingInv

=============================================================================
