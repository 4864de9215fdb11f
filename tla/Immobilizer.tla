----------------------------- MODULE Immobilizer -----------------------------
(***************************************************************************)
(* What an immobilizer with a post-release window promises: the engine     *)
(* goes on only because the genuine transponder has answered the one       *)
(* challenge that is open, which the start uses up, or because an          *)
(* authorised run ended at most POST_RELEASE_TIMEOUT seconds ago and no    *)
(* challenge has been issued since.                                        *)
(***************************************************************************)
EXTENDS Naturals

CONSTANT POST_RELEASE_TIMEOUT

VARIABLES clock,
          engine,     \* "off" or "on"
          challenge,  \* the number of challenges issued: the last one's name
          open,       \* the last challenge may still authorise a start
          answered,   \* the challenges the genuine transponder has encrypted
          released    \* when the last authorised run ended, 0 if that is spent

vars == <<clock, engine, challenge, open, answered, released>>

Init ==
    /\ clock = 1 /\ engine = "off" /\ challenge = 0
    /\ open = FALSE /\ answered = {} /\ released = 0

Issue ==
    /\ engine = "off" /\ ~open
    /\ released = 0
    /\ challenge' = challenge + 1 /\ open' = TRUE
    /\ UNCHANGED <<clock, engine, answered, released>>

Answer(n) ==
    /\ n \in 1..challenge
    /\ answered' = answered \cup {n}
    /\ UNCHANGED <<clock, engine, challenge, open, released>>

Abandon ==
    /\ open /\ open' = FALSE
    /\ UNCHANGED <<clock, engine, challenge, answered, released>>

Authenticate ==
    /\ engine = "off" /\ open /\ challenge \in answered
    /\ engine' = "on" /\ open' = FALSE
    /\ UNCHANGED <<clock, challenge, answered, released>>

Restart ==
    /\ engine = "off" /\ ~open
    /\ released # 0 /\ clock - released <= POST_RELEASE_TIMEOUT
    /\ engine' = "on" /\ released' = 0
    /\ UNCHANGED <<clock, challenge, open, answered>>

Expire ==
    /\ released # 0 /\ clock - released > POST_RELEASE_TIMEOUT
    /\ released' = 0
    /\ UNCHANGED <<clock, engine, challenge, open, answered>>

Stop ==
    /\ engine = "on"
    /\ engine' = "off" /\ released' = clock
    /\ UNCHANGED <<clock, challenge, open, answered>>

Tick ==
    /\ clock' = clock + 1
    /\ UNCHANGED <<engine, challenge, open, answered, released>>

Next ==
    \/ Issue \/ Abandon \/ Authenticate \/ Restart \/ Expire \/ Stop \/ Tick
    \/ \E n \in 1..challenge : Answer(n)

Spec == Init /\ [][Next]_vars
=============================================================================
