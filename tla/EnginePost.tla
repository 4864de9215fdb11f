----------------------------- MODULE EnginePost -----------------------------
(***************************************************************************)
(* The engine ECU with a post-release window,                              *)
(* src/Network-Frames/moksha/main/05_engine_post.c: one action per piece   *)
(* of code between two calls that wait (accept, recv, usleep, sleep), and  *)
(* in an authentication between two readings of the clock that are both    *)
(* measured from: the check of the total and the start of a wait.  A       *)
(* reading that only decides what its own action does next is taken with   *)
(* that action: check_post_release's with the start of the authentication  *)
(* it lets begin, the polling loop's with the recv() that follows it.      *)
(* The module has no Next: PostOpen joins it to an arbitrary transponder,  *)
(* PostDemo to 06_post_trans.c.                                            *)
(*                                                                         *)
(* `clock' is what time(NULL) returns, in seconds, and starts at 1 as      *)
(* last_engine_off_time uses 0 for "never".  `late' counts the seconds     *)
(* that have begun since the engine could take its next step: at most      *)
(* Slack, but in an authentication one may always begin between two steps, *)
(* as the steps there take time: random numbers, AES, the 0.3 s of a poll. *)
(***************************************************************************)
EXTENDS ByteStream

CONSTANTS PER_CHALLENGE_TIMEOUT,  \* seconds waited for one response
          TOTAL_AUTH_TIMEOUT,     \* seconds after which no challenge is sent
          POST_RELEASE_TIMEOUT,   \* seconds after engine OFF without authentication
          RUN_TIME,               \* seconds the engine runs: sleep(2)
          Slack                   \* seconds a ready program may be kept waiting

ASSUME TimeoutsAssumption ==
    /\ PER_CHALLENGE_TIMEOUT \in Nat \ {0}
    /\ TOTAL_AUTH_TIMEOUT \in Nat \ {0}
    /\ POST_RELEASE_TIMEOUT \in Nat
    /\ RUN_TIME \in Nat
    /\ Slack \in Nat

VARIABLES
    clock,                 \* time(NULL)
    link,                  \* "none", "open", "closed": the transponder's side
    toEngine, toPeer,      \* bytes sent and not yet received
    pc,                    \* where the engine's thread of control is
    engine_state, auth_valid, last_engine_off_time,   \* the program's globals
    counter,               \* perform_authentication's counter
    drawn,                 \* random numbers drawn; the last one is outstanding
    auth_start,            \* start of perform_authentication, 0 outside it
    wait_start,            \* start of wait_and_verify_response, 0 outside it
    wake,                  \* when sleep(2) returns, 0 when not asleep
    late

engineState == <<engine_state, auth_valid, last_engine_off_time, counter,
                 drawn, auth_start, wait_start, wake>>
engineVars  == <<pc, engineState, late>>
wireVars    == <<link, toEngine, toPeer>>
vars        == <<clock, wireVars, engineVars>>

ENGINE_OFF == 0
ENGINE_ON  == 1

PCs == {"accept", "command", "challenge", "sent", "wait", "running", "stopped",
        "killed"}

\* perform_authentication is running.
Authenticating == pc \in {"challenge", "sent", "wait"}

EngineInit ==
    /\ pc = "accept"
    /\ engine_state = ENGINE_OFF /\ auth_valid = 0 /\ last_engine_off_time = 0
    /\ counter = 0 /\ drawn = 0
    /\ auth_start = 0 /\ wait_start = 0 /\ wake = 0 /\ late = 0

WireInit == link = "none" /\ toEngine = <<>> /\ toPeer = <<>> /\ clock = 1

-----------------------------------------------------------------------------
\* create_server_socket and wait_for_client: accept() returns.
WaitForClient ==
    /\ pc = "accept" /\ link # "none"
    /\ pc' = "command" /\ late' = 0
    /\ UNCHANGED <<engineState, wireVars, clock>>

\* strcmp(recvBuffer, "start") == 0 on a zeroed buffer: the bytes are "start",
\* or "start" and a byte 0.
IsStart(b) ==
    /\ Len(b) >= 5 /\ SubSeq(b, 1, 5) = Start
    /\ Len(b) > 5 => b[6] = <<"ctr", 0, 0>>

\* A recv() returns the bytes b.
Receive(b) ==
    /\ toEngine # <<>>
    /\ toEngine' = Rest(toEngine, b)
    /\ UNCHANGED <<link, toPeer, clock>>
    /\ late' = 0

\* Mutant of PostReleaseValid: the age of the last ENGINE OFF is not looked at.
NoExpiry == auth_valid = 1 /\ last_engine_off_time # 0

\* Mutant of PostReleaseValid: the window ends when it begins.
NoWindow ==
    /\ auth_valid = 1
    /\ last_engine_off_time # 0
    /\ clock - last_engine_off_time < 0

\* check_post_release returns 1.
PostReleaseValid ==
    /\ auth_valid = 1
    /\ last_engine_off_time # 0
    /\ clock - last_engine_off_time <= POST_RELEASE_TIMEOUT

\* main: the buffer is not "start", or the engine is on; the bytes are dropped.
IgnoreCommand ==
    /\ pc = "command"
    /\ \E b \in Chunks(toEngine, 63) :
          /\ Receive(b)
          /\ ~(IsStart(b) /\ engine_state = ENGINE_OFF)
    /\ UNCHANGED <<pc, engineState>>

\* ENGINE_ON followed by sleep(2).
TurnOn ==
    /\ engine_state' = ENGINE_ON
    /\ pc' = "running"
    /\ wake' = clock + RUN_TIME
    /\ counter' = 0 /\ auth_start' = 0 /\ wait_start' = 0

\* main: "start" within the post-release window turns the engine on at once.
StartPostRelease ==
    /\ pc = "command" /\ engine_state = ENGINE_OFF
    /\ \E b \in Chunks(toEngine, 63) : Receive(b) /\ IsStart(b)
    /\ PostReleaseValid
    /\ TurnOn
    /\ UNCHANGED <<auth_valid, last_engine_off_time, drawn>>

\* Mutant of StartAuthentication: an expired window leaves auth_valid set.
KeepGrant ==
    /\ pc = "command" /\ engine_state = ENGINE_OFF
    /\ \E b \in Chunks(toEngine, 63) : Receive(b) /\ IsStart(b)
    /\ ~PostReleaseValid
    /\ pc' = "challenge"
    /\ counter' = 1 /\ auth_start' = clock
    /\ UNCHANGED <<engine_state, auth_valid, last_engine_off_time, drawn,
                   wait_start, wake>>

\* main: any other "start" enters perform_authentication; check_post_release
\* clears auth_valid when the window has expired.
StartAuthentication ==
    /\ pc = "command" /\ engine_state = ENGINE_OFF
    /\ \E b \in Chunks(toEngine, 63) : Receive(b) /\ IsStart(b)
    /\ ~PostReleaseValid
    /\ auth_valid' = IF last_engine_off_time # 0 THEN 0 ELSE auth_valid
    /\ pc' = "challenge"
    /\ counter' = 1 /\ auth_start' = clock
    /\ UNCHANGED <<engine_state, last_engine_off_time, drawn, wait_start, wake>>

\* Mutant of SendChallenge: the total timeout is compared with <=.
SendChallengeLate ==
    /\ pc = "challenge"
    /\ clock - auth_start <= TOTAL_AUTH_TIMEOUT
    /\ drawn' = drawn + 1
    /\ toPeer' = toPeer \o Frame("rnd", counter, drawn + 1)
    /\ pc' = "sent" /\ late' = 0
    /\ UNCHANGED <<engine_state, auth_valid, last_engine_off_time, counter,
                   auth_start, wait_start, wake, link, toEngine, clock>>

\* perform_authentication: one turn of its loop from the check of the total to
\* the call of wait_and_verify_response.
SendChallenge ==
    /\ pc = "challenge"
    /\ clock - auth_start < TOTAL_AUTH_TIMEOUT
    /\ drawn' = drawn + 1
    /\ toPeer' = toPeer \o Frame("rnd", counter, drawn + 1)
    /\ pc' = "sent" /\ late' = 0
    /\ UNCHANGED <<engine_state, auth_valid, last_engine_off_time, counter,
                   auth_start, wait_start, wake, link, toEngine, clock>>

\* wait_and_verify_response reads the clock: the wait begins.
BeginWait ==
    /\ pc = "sent"
    /\ pc' = "wait" /\ wait_start' = clock /\ late' = 0
    /\ UNCHANGED <<engine_state, auth_valid, last_engine_off_time, counter, drawn,
                   auth_start, wake, wireVars, clock>>

\* send() to a transponder that has closed: the signal SIGPIPE ends the process.
BrokenPipe ==
    /\ pc = "challenge" /\ link = "closed"
    /\ clock - auth_start < TOTAL_AUTH_TIMEOUT
    /\ pc' = "killed" /\ late' = 0
    /\ UNCHANGED <<engineState, wireVars, clock>>

\* perform_authentication returns 0 and main goes back to recv().
AuthenticationFails ==
    /\ pc = "challenge"
    /\ clock - auth_start >= TOTAL_AUTH_TIMEOUT
    /\ pc' = "command" /\ late' = 0
    /\ counter' = 0 /\ auth_start' = 0 /\ wait_start' = 0
    /\ UNCHANGED <<engine_state, auth_valid, last_engine_off_time, drawn, wake,
                   wireVars, clock>>

\* Mutant of NextAttempt: the counter runs downwards.
CountDown ==
    /\ pc' = "challenge"
    /\ counter' = counter - 1
    /\ wait_start' = 0
    /\ UNCHANGED <<engine_state, auth_valid, last_engine_off_time, drawn,
                   auth_start, wake>>

\* Mutant of NextAttempt: every challenge of an authentication has counter 1.
SameCounter ==
    /\ pc' = "challenge"
    /\ counter' = 1
    /\ wait_start' = 0
    /\ UNCHANGED <<engine_state, auth_valid, last_engine_off_time, drawn,
                   auth_start, wake>>

\* The next turn of perform_authentication's loop; counter is a uint8_t.
NextAttempt ==
    /\ pc' = "challenge"
    /\ counter' = (counter + 1) % 256
    /\ wait_start' = 0
    /\ UNCHANGED <<engine_state, auth_valid, last_engine_off_time, drawn,
                   auth_start, wake>>

\* Mutant of AESMatches: an answer to any challenge so far will do.
MatchesAnyDrawn(b) == \E n \in 1..drawn : SubSeq(b, 2, 17) = Block("enc", n)

\* memcmp(response.encrypted, expected_aes, 16) == 0
AESMatches(b) == SubSeq(b, 2, 17) = Block("enc", drawn)

\* The polling loop of wait_and_verify_response goes on.
Polling == pc = "wait" /\ clock - wait_start < PER_CHALLENGE_TIMEOUT

\* One poll of wait_and_verify_response that gets the bytes b.
Poll(b) ==
    /\ Polling
    /\ Receive(b)

\* The response carries the expected counter and the expected block.
ResponseAccepted ==
    /\ \E b \in Chunks(toEngine, 17) :
          Poll(b) /\ Len(b) = 17 /\ MayBe(b[1], counter) /\ AESMatches(b)
    /\ TurnOn
    /\ auth_valid' = 1
    /\ UNCHANGED <<last_engine_off_time, drawn>>

\* The expected counter with another block ends the attempt.
ResponseRejected ==
    /\ \E b \in Chunks(toEngine, 17) :
          Poll(b) /\ Len(b) = 17 /\ MayBe(b[1], counter) /\ ~AESMatches(b)
    /\ NextAttempt

\* Another counter, or fewer than 17 bytes: dropped, the loop goes on.
ResponseIgnored ==
    /\ \E b \in Chunks(toEngine, 17) :
          /\ Poll(b)
          /\ Len(b) = 17 => MayDiffer(b[1], counter)
    /\ UNCHANGED <<pc, engineState>>

\* recv() has nothing: EAGAIN and usleep(300000), or 0 once the peer closed.
PollNothing ==
    /\ Polling
    /\ toEngine = <<>>
    /\ late' = 0
    /\ UNCHANGED <<pc, engineState, wireVars, clock>>

\* wait_and_verify_response returns 0 after PER_CHALLENGE_TIMEOUT.
ChallengeTimeout ==
    /\ pc = "wait"
    /\ clock - wait_start >= PER_CHALLENGE_TIMEOUT
    /\ NextAttempt /\ late' = 0
    /\ UNCHANGED <<wireVars, clock>>

\* main: sleep(2) is over.
TurnOff ==
    /\ pc = "running" /\ clock >= wake
    /\ engine_state' = ENGINE_OFF
    /\ last_engine_off_time' = clock
    /\ pc' = "command" /\ wake' = 0 /\ late' = 0
    /\ UNCHANGED <<auth_valid, counter, drawn, auth_start, wait_start,
                   wireVars, clock>>

\* main: recv() returns 0, the loop ends and the sockets are closed.
ClientDisconnected ==
    /\ pc = "command" /\ link = "closed" /\ toEngine = <<>>
    /\ pc' = "stopped" /\ late' = 0
    /\ UNCHANGED <<engineState, wireVars, clock>>

EngineNext ==
    \/ WaitForClient \/ IgnoreCommand \/ StartPostRelease \/ StartAuthentication
    \/ SendChallenge \/ BeginWait \/ BrokenPipe \/ AuthenticationFails
    \/ ResponseAccepted \/ ResponseRejected \/ ResponseIgnored \/ PollNothing
    \/ ChallengeTimeout \/ TurnOff \/ ClientDisconnected

-----------------------------------------------------------------------------
\* The engine could take a step now.
EngineReady ==
    \/ pc = "accept" /\ link # "none"
    \/ pc = "command" /\ (toEngine # <<>> \/ link = "closed")
    \/ Authenticating
    \/ pc = "running" /\ clock >= wake

\* How many seconds may begin before the engine takes its next step: in an
\* authentication one at least, and between two polls no more.
AuthLateness == IF Slack = 0 THEN 1 ELSE Slack

Lateness ==
    IF Polling THEN 1
    ELSE IF Authenticating THEN AuthLateness
    ELSE Slack

\* A second passes; the engine is not kept from running for too long.
EngineTick ==
    /\ EngineReady => late < Lateness
    /\ clock' = clock + 1
    /\ late' = IF EngineReady THEN late + 1 ELSE 0
    /\ UNCHANGED <<pc, engineState, wireVars>>
=============================================================================
