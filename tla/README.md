# Immobilizer: a specification in TLA+

This directory specifies, model-checks and proves properties of the programs of
this repository: a key immobilizer played by two processes that talk over TCP,
the networking exercises that lead up to it, and a small string library.  All paths below are relative
to the repository, and `main/` stands for `src/Network-Frames/moksha/main/`,
`Build/` for `src/Network-Frames/ikshwak/Build/`.

## The system

An **engine ECU** listens on a port and serves one connection.  When it
receives the bytes `start`, it draws sixteen random bytes (`trng.c`), sends them
as a *challenge*, encrypts them itself (`aes_128.c`, AES-128), and compares the
answer with its own result.  A **transponder ECU** connects, sends `start`,
encrypts the challenge it gets with the same key and sends the result back.
The repository holds six engines and five transponders, from one blocking
exchange to a driver who restarts the engine:

| part | files | state | operations | hard behaviour |
|---|---|---|---|---|
| engine with post-release window | `main/05_engine_post.c` | `engine_state`, `auth_valid`, `last_engine_off_time`, the counter, two timers | accept, receive a command, restart within the window, authenticate (challenge, poll, accept, reject, ignore, time out), run two seconds, disconnect | late answers, starts pressed during an authentication, torn frames, timeouts within timeouts, a grant that must expire, SIGPIPE |
| transponder with driver | `main/06_post_trans.c` | its place in a script | three starts, two answers, pauses | unchecked `recv()`, pauses that race with the engine's clock |
| engine that ignores late answers | `main/04_engine_ignore.c` | counter, two timers | authenticate once, with a counter in each frame | answers that are a challenge behind |
| engines without counter | `main/03_engine_ecu.c`, `main/02_server_engine.c` | two timers | authenticate once; drop what does not match | misaligned frames, late answers |
| engine of level 2 | `Build/Engine_ecu_l2_s.c` | two timers, `errno` | authenticate once; the first whole answer decides; the verdict is sent | stale `errno`, closed and reset connections |
| transponders | `main/01_client_trans.c`, `Build/Transponder_ecu_l2_c.c`, `Build/Transponder_ecu_c.c` | the frame, a delay | connect, start, read, wait, answer, close | the engine ends first |
| engine of level 1 | `Build/Engnie_ecu_s.c` | none | one challenge, one `recv()` | no timeout at all |
| AES-128 | `main/aes_128.c` and four copies | none | key expansion, ten rounds | both sides run the same code, so a mistake in it shows nowhere |
| random numbers | `main/trng.c` | none | read `/dev/urandom` | a failed `fopen()` leaves the old bytes |
| calculators | `Network-Frames/*/sockets`, `Network-Frames/ikshwak`: plain text, structured text, opcode, binary, robust protocols, raw struct, `sscanf()` | the request | form, send, check, take apart, compute, answer | checks that do not refuse what they should, byte order, 32-bit arithmetic, one `recv()` for a whole request, unset memory |
| echo servers | `moksha/sockets`: interaction, iterative, two requests, one way | a buffer, a client at a time | accept, echo until `END` | a length kept in a `char`, unterminated buffers, clients that wait for each other |
| timer simulation | `Network-Frames/*/[Tt]imer_simulation` | a timer | block, poll once, poll for ever or until a timeout, against a server that sleeps | an answer in the last poll, programs that are late |
| first programs | `src/sockets`: TCP in five versions, chat, `exit`, UDP | a buffer | send, receive, change to capitals | short reads, lost datagrams, ends of loops |
| string functions | `ikshwak/C_assignments/strings`, `sockets/astring-lib` | the array written to | copy, append, compare, with and without a count | terminators, what longer strings left behind, the ends of both strings |

Components interact only over one TCP connection: a queue of bytes in each
direction, the end of either side, and what `send()` does after that; two lessons
use UDP datagrams.  The programs are single-threaded; the concurrency is between the two processes and
the clock.  Nothing is persistent, so there is no recovery to get right.

What makes the immobilizer correct:

 1. The engine is on only because a holder of the key answered *the challenge
    that is open*, each of which is good for one start, or because an authorised
    run ended no longer ago than the window (`Immobilizer`).
 2. No grant survives into an authentication, and each authentication ends in a
    known time.
 3. A late answer is neither accepted nor able to spoil the challenge after it.
 4. The transponder with the key *is* let in, when it is as slow as the programs
    of the repository make it.
 5. No two programs of the repository wait for each other for ever.
 6. AES is the AES of the standard, as both sides would agree with any other.

And of the rest:

 7. A client gets the answers to its own requests, in order, complete when
    nothing was torn; no client's or server's end takes another program with it.
 8. A timeout ends the waiting, and is reported exactly when nothing came.
 9. An undamaged request is answered with its result, a damaged packet never.
10. The string functions leave the string they should, inside the array.

## The modules

```
Immobilizer                     the promise (abstract)
ByteStream                      TCP: queues of bytes, torn reads
 |- EnginePost                  05_engine_post.c
 |   '- PostOpen                ... with any transponder and driver   [proved]
 |       '- PostDemo            ... with 06_post_trans.c              [proved]
 '- Transponder                 01_client_trans.c, level 1 and 2
     '- EngineOnce              what the single authentications share
         |- EngineIgnore        04_engine_ignore.c                    [proved]
         |- EngineNoCounter     02_server_engine.c, 03_engine_ecu.c   [proved]
         '- EngineL2            Engine_ecu_l2_s.c                     [proved]
 '- SocketCalls                calls and texts of the socket exercises
     '- Programs                each exercise as a list of calls
         '- Exercises           ... running, over TCP and UDP, with a clock  [proved]
AES                             aes_128.c
Calculators                     eleven pairs of calculators
StringLib                       the string functions                [proved]
AES_MC, Exercises_MC, Calculators_MC, StringLib_MC     instances for TLC

ByteStream_proofs               what tearing and joining queues preserves
 |- EnginePost_proofs           the engine with post-release window, and its demonstration
 '- EngineOnce_proofs           what every move of the other engines preserves
     |- EngineIgnore_proofs, EngineNoCounter_proofs, EngineL2_proofs
StringLib_proofs
Exercises_proofs                programs, then types, then what the exercises promise
```

**ByteStream.**  A byte is a triple that says where it comes from: byte `i` of
`"start"`, a counter of a value, byte `i` of the `n`-th random number or of its
encryption.  A frame is 17 (or 16) of them, so that a `recv()` of the wrong size
takes frames apart exactly as the program would.  `Chunks(s, size)` is what one
`recv()` may return: all that fits or, for the lengths in `ShortReads`, less.
AES is ideal here: block `<<"enc", n, _>>` equals another exactly if the random
numbers do.  A random or encrypted byte read as a counter may have any value;
the bytes of `start` have the ASCII codes they have (`MayBe`, `MayDiffer`).

**EnginePost.**  One action for each piece of code between two points where the
process waits or reads the clock; `pc` names the point: `accept`, `command`
(the `recv()` of `main`), `challenge` (the head of `perform_authentication`'s
loop, where it looks at the total timeout, line 126), `sent` (a challenge is sent,
and line 81 is to note when the wait for its answer starts), `wait` (the head of the
polling loop), `running` (`sleep(2)`), `stopped`
and `killed` (SIGPIPE).  Variables have the names of the program's.

**PostOpen** adds the rest of the world: a transponder with the key that answers
any challenge it has read, at any time, in any order and repeatedly, a driver
who presses start whenever she likes, frames from a transponder without the key,
and the end of the connection.  `answered` is what the holder of the key has
encrypted.  **PostDemo** replaces it with the script of `06_post_trans.c`, whose
sends and reads are actions of PostOpen.

**Transponder, EngineOnce** and its three extensions are two programs each, with
constants for what differs: frame size, delays, number of answers.  `genuine`
says whether the transponder has the key; the transponder without it answers in
the same way with a block of its own.  Here too the head of the loop (`SendChallenge`)
and the start of the wait (`BeginWait`) read the clock one after the other.

**AES** takes one round a step.  Its references (`Product`, `InverseAffine`,
`Undone`) are written from the standard's mathematics, not from the code.  A round's
rows are shifted at once: the order of the assignments in `shift_rows` is left out.

**SocketCalls, Programs, Exercises.**  Fifty small programs differ in which calls
they make, in which order, and where their tests lead.  So a program is a list of
instructions: `Programs` translates each file to one (a loop is a `Goto`, a test
an instruction with the place it leads to), and `Exercises` says what an
instruction does to the process, the sockets and the other side.  Process 0 is
the server, 1 and 2 are clients; `exercise` is the pair that runs, chosen in
`Init` together with the phase of the clock and what an uninitialised array
holds.  Data are again triples that name text and position, so a torn, joined or
stale text is what it is in the program.  `Shut`, `DoSend` and `DoRecv` are the
kernel: the backlog, a reset when unread data are closed over, the lost `send()`
after the other end is closed and the SIGPIPE of the next one, end of file.
`recvBuffer[retval] = '\0'` is an instruction of its own (`DoTerminate`), and
`wild` records who did it beside the buffer.

**Calculators.**  A client forms a request (`BinaryClient`, `OpcodeClient`, ...)
from an operation and two operands; on the way a byte of a packet may be altered
or the request torn; `Outcomes` is the set of what the server may do: answer,
refuse or be killed.  Packets are bytes, with checksum, byte order and arithmetic
as the code computes them; texts are sequences of tokens as `strtok()` returns
them.  Reads of memory that was never written yield any of `JunkInts`.

**StringLib.**  The loops of the six functions that write or compare run a
character at a time on an array `mem`; calls follow each other on the same array,
as in `astr_test.c`.  `value` is the string the calls should have left, computed
from the definition of the functions and read by no action.

**Time.**  `clock` is `time(NULL)`, in seconds.  A second passes in a `Tick`, in
which nothing else happens.  A program that could run but has not counts the
seconds in `late` (`tlate`); `Slack` bounds them, and within a polling loop, that
looks at its socket every 0.1 to 0.5 s, one second is the bound: two readings of
a truncated clock that far apart differ by at most one.  A poll's look at the time
and the `recv()` after it are one step.  So `Slack = 0` means machines that are never
late by a second, `Slack = 1` ones that may be.  In an authentication, where a program
reads the clock twice in a row (`05_engine_post.c:126` and `:81`), a second may begin
between the two however fast the machine is: in PostOpen `AuthLateness` is at least
one there.  In
`Exercises` the clock counts half seconds, as `usleep(500000)` does, and starts in
either half of a second; `Slack` is in half seconds there.  A poll without the sleep
after it (`PollLoopClient` leaves out `06_client_nonblocking.c:48`) may come at any
time, the times of the code's polls among them.

## What is checked

Deadlock is not checked in the runs where the programs end: there a state
without successor is normal, and `DemoCompletes` and `BothEnd` say that the only
such state that can be reached is the end of both.  PostOpen stops at its bounds.

| run | what it shows |
|---|---|
| `post_open` | (246,024 states) The engine of `05_engine_post.c` with any transponder, when a `recv()` may return 12 bytes only, so that frames are torn and what is left runs into what follows: it implements `Immobilizer`; no grant survives into an authentication; authentications end within the timeouts and three latenesses; a late answer that is read whole is ignored. |
| `post_demo` | With `06_post_trans.c` and the real timeouts, neither program late: the script ends, with the challenges it announces. |
| `ignore` | `04_engine_ignore.c` with a transponder that answers first after 0, 3 or 6 s, then after 0 to 2 s, and closes after two answers: the one with the key is let in, a late answer costs the next challenge nothing, both programs end, only the key lets in. |
| `no_counter` | The same question of `03_engine_ecu.c` and a transponder with sixteen-byte frames (0, 3, 6 or 7 s). |
| `no_counter_makefile` | *violated*: the pair that the Makefile builds never authenticates. |
| `l2` | (20,660 states) `Engine_ecu_l2_s.c` with answers received whole or in two parts, delays up to 12 s and programs up to a second late: the verdict comes within the total timeout and what three steps may be late; while there is time for a challenge, none has been sent to a transponder that had closed; both end; only the key lets in. |
| `aes` | AES on the FIPS-197 vector and nine more blocks, round by round. |
| `exercises` | (64,927 states) Twenty-eight pairings of socket programs, level 1 among them, in any interleaving: answers in order and complete, what becomes of a request longer than a `char` counts, the reasons for SIGPIPE and for writes beside a buffer, timeouts bounded and reported, level 1's verdict, and that every pair ends. |
| `calculator` | Eleven pairs, five opcodes, operands at the edges: undamaged requests get their result, packets with an altered byte or of another protocol are refused, and that both programs end. |
| `calculator_div` | *violated*: DIV, the fourth opcode of the documented protocol, is not served. |
| `strings` | (105,487 states) Every sequence of calls on an array that the strings nearly fill: no index leaves it, the string is the one the calls make, comparisons tell strings apart that differ in a character. |
| `strings_tests` | *violated*: `astr_test.c` wants `astrcmp` to tell a string from its beginning. |

**The properties.**  `ImplementsImmobilizer` is the refinement of `Immobilizer`
under the mappings in PostOpen and EngineOnce: in particular the engine turns on
only in a state where a challenge is open *and* the holder of the key has
encrypted it, whatever the bytes in between were.  `LateAnswerIgnored` is about
one authentication; it does not hold across two, as the counter starts at 1 again
in each (`05_engine_post.c:121`): the answer to an abandoned authentication's
challenge can cost the new one an attempt, but is not accepted.
`CounterNamesChallenge` relates the frames in flight to the counter and random
number waited for; it needs frames that are received whole.  `LateAnswerCostsNothing` is an action property: only the
timeout, or the transponder's own doing, ends the wait for an answer.
`AuthenticationBounded` is the largest value that occurs, 21 s with the code's times:
the last challenge is found in time after 14 s, and one second each may begin before
its wait starts, when its 4 s are over, and before the head of the loop; it counts no
polls, and does not see that the loop spins when the connection is closed
(`05_engine_post.c:109`).  `NoSecondSendToClosed` holds with the code's times for an
answer that is received whole or in two parts, as in `l2`.  It does not hold for
an answer in four pieces of five bytes or less: each is polled, and each poll may be a
second late, so that the wait can end before it has read the end of the connection,
and a second challenge is sent.  `GenuineAccepted` and `BothEnd` are
liveness properties.

In `exercises`, the properties say what holds and name every exception, so that
each exception is a statement about the code.  `AnswersComplete`: the clients that
do not wait long enough, or call at a port where nobody listens (as some of the
directories pair them) get nothing; a client that sends more than a `char` counts gets
back as many bytes as the count has come round to, or nothing when that is not
positive (`Retval`: as 300 bytes become 44, and 128 become -128); the server
of two requests ends its second answer with the tail of the first.
`KilledWithReason`: a server is killed by SIGPIPE only after a request, `END` or
`bye` was received in two parts or an answer left unread: the server then answers
a client that has gone.  `NoWildWrite` lists four exceptions: a request whose
length is negative as a `char`; an answer that fills the buffer; the level 1 transponder's
`recvBuffer[16]` after a whole challenge; and the -1 of a client whose server was
killed.  `TimeoutReported`: a client that has an answer and still reports a
timeout (`07_client_nonblocking2sec.c:63`) has been kept waiting by the scheduler at
some time since it began to wait.
`PairFinishes` exempts a lost datagram, for which the UDP client waits for ever,
and an `exit` received in two parts, after which the server spins.

In `calculator`, `ResultIsRight` defines a quotient by the size and sign of the
remainder and the other results by congruence, not by the code's expressions.
`AlteredRefused` covers every byte of a packet.  The robust server refuses a packet
only when magic *and* version are wrong (`Robust_Protocol_S.c:101`); a packet with
one of them wrong is computed and answered.  The smallest
int divided by -1 traps, and no document says what the answer should be: that
request is left out of `ResultIsRight`, and so are those whose answer depends on memory
never written (`Defined`), DIV in the texts with opcodes, which `calculator_div` is
about, among them.  Texts without their operands kill the server
too (`atoi(NULL + 2)`); `BothEnd` says that the client does not wait for ever then.

**Bounds, and why they are enough.**  `post_open` uses timeouts of 2, 3 and 2 s
instead of 5, 15 and 6: with them an authentication has up to two challenges,
the second of which outlasts the total timeout, a start can fall inside the
window, on its last second and after it, and an answer can be late by a
challenge.  Three messages to the engine and a clock that stops at 8 s, one more than the longest
authentication takes from the first second on, are enough for a
start, an answer and a start or foreign frame that tears it, a restart and an
expired window.  The other runs of the ECUs use the code's own timeouts.
`l2` tears the sixteen bytes of an answer after eight.

`exercises` has buffers of 16 cells, so that the sixteen bytes of a challenge fill
them, and a `char` that counts to 6, with the texts of the echo clients shortened
so that, as below 127, everything a client sends in one go still fits.  A request of
12 stands for those of 128 to 255, whose count is negative, and one of 15, whose count
comes round to 1, for those of 257 to 383.  One `recv()` of a run may be short, by any of
`ShortReads = {1}`: one is enough to put every later read out of step.  Half a second of
lateness matters only where a program takes the time and is left out elsewhere.
Users type one or two lines, with and without the words that end a chat.  One
exercise has a server that is not in the repository, which answers after four
seconds: the timeout of five then races with the answer.

`calculator` gives an int two of its four bytes, which keeps sign, byte order and
overflow; operands are the ends of the range, -1, 0 and 300, which has two different
bytes.  A packet is altered or torn at every byte; a text is torn between its
tokens, after a key and inside a number.  `strings` has five cells and words of up
to two characters out of two: two appended words fill the array but for the
terminator, and every prefix and difference occurs.

**Fairness** is weak fairness of each program's next step and of the clock: the
operating system runs a process that is ready, and time passes.  No action of a
network, driver or transponder of PostOpen is fair; in Calculators the altering
and tearing of a request are not; in Exercises each process and the clock are
(a process that waits for its user to type, `AtUser`, counts as ended: what users
do is not fair).  With lateness bounded by
`Slack`, fairness of the clock can never be had by starving a program.

**Lateness.**  `GenuineAccepted` is checked for programs that are not late
(`Slack = 0`).  Every answer after the six-second one is a challenge or a second
behind, and a second lost at each step can use up the fifteen there are.

## What is proved

The theorems hold for all values of the timeouts, the run time, `Slack`,
`ShortReads`, the frame size, the delays and the bounds, from the named assumptions
of the modules (they are natural numbers; the timeouts of the authentication are
positive) and, where the last column has one, a hypothesis.  Those on `StringLib`
hold for every alphabet, array size, set of words of any length and set of counts;
those on `Exercises` for every choice of exercises, buffer size, junk in new arrays,
set of users' scripts, way `recv()` tears, lateness, and with or without lost datagrams.

| module | theorem | statement | hypothesis |
|---|---|---|---|
| `EnginePost_proofs` | `Inductive` | `Spec => []IInv` | |
| | `TypeCorrect` | `Spec => []TypeOK` | |
| | `NoLeftoverGrant` | `Spec => []NoGrantWhileAuthenticating` | |
| | `BoundedAuthentication` | `Spec => []AuthenticationBounded` | |
| | `Refinement` | `Spec => ImplementsImmobilizer` | |
| | `LateAnswers` | `Spec => LateAnswerIgnored` | `NoWrap` |
| | `DemoIsPostOpen` | `DemoSpec => Spec` | `DemoTimes` |
| | `DemoKeepsPromise` | `DemoSpec => ImplementsImmobilizer` | `DemoTimes` |
| | `AsAnnounced` | `DemoSpec => []ChallengesAsAnnounced` | `DemoTimes` |
| `EngineNoCounter_proofs` | `Refinement` | `Spec => ImplementsImmobilizer` | |
| `EngineIgnore_proofs` | `TypeCorrect` | `Spec => []TypeOK` | |
| | `Refinement` | `Spec => ImplementsImmobilizer` | |
| | `CounterNames` | `Spec => []CounterNamesChallenge` | `WholeFrames` |
| | `LateAnswerFree` | `Spec => LateAnswerCostsNothing` | `WholeFrames` |
| `EngineL2_proofs` | `TypeCorrect` | `Spec => []TypeOK` | |
| | `Refinement` | `Spec => ImplementsImmobilizer` | |
| | `DecidedInTime` | `Spec => []DecidedInTotal` | |
| | `OneSendToClosed` | `Spec => []NoSecondSendToClosed` | `WholeAnswers` |
| `StringLib_proofs` | `TypeCorrect` | `Spec => []TypeOK` | |
| | `StringsAlwaysRight` | `Spec => []StringsRight` | |
| | `ComparesAlwaysRight` | `Spec => []ComparesRight` | |
| `Exercises_proofs` | `TypeCorrect` | `ExercisesSpec => []TypeOK` | `Room` |
| | `InOrder` | `ExercisesSpec => []AnswersInOrder` | `Room` |
| | `Patience` | `ExercisesSpec => []PatienceBounded` | `Room` |
| | `Verdicts` | `ExercisesSpec => []VerdictIsRight` | `Room` |

So every engine of the repository with a timeout implements `Immobilizer`, for all
constants and however `recv()` tears what is sent.

**Bytes.**  `ByteStream_proofs` says what tearing a queue preserves: a chunk is a
prefix, the rest a suffix (`ChunkIsPrefix`, `RestIsSuffix`), both are as genuine as
the queue was (`GenuineRest`, `GenuineAppend`), and `MatchIsGenuine` turns "the block
compared equal" into "the holder of the key encrypted it", wherever the queue was
torn.  For the counters it has `Pairs`: wherever a counter is followed by the first
byte of a block, the two belong together, and tearing and appending keep this
(`PairsRead`, `PairsFrame`, `PairsStart`).

**PostOpen.**  `TypeOK` is inductive by itself, the other properties are not.  `IInv`
adds what they rest on: `ControlInv` (the engine is on exactly in `running`, a grant
has a time), `KnowledgeInv` (every encrypted byte on its way to the engine comes from
a random number in `answered`, which were all drawn) and `TimingInv` (how far the
clock can be at each wait, given how late the engine already is, with one lateness
for each reading of the clock between `:126`, `:81`, `:86` and `:126` again: a second
more in any of the loops' conditions breaks it).  There is one lemma per part (`TypeStep`,
`ControlStep`, `KnowledgeStep`, `TimingStep`), each with one step per action.  In the
refinement a step of the engine is one abstract step or a stutter; turning off is
`Stop`, the first step after an expired window `Expire`.

`LateAnswerIgnored` needs `LateInv` besides: counters and random numbers belong
together in all that is under way and held (`OrderInv`), the engine's counter is the
number of the attempt modulo 256 (`CounterInv`), and there have been fewer than 256
attempts (`AttemptsInv`: each has taken either its five seconds or a message).  The
last is what `NoWrap` is for: `MaxSends` messages and `TOTAL_AUTH_TIMEOUT` seconds
are too few for 256 attempts.  With the code's 5 and 15 s that is any run with up to
253 messages to the engine.  Who sends hundreds of frames with the right counter and
a wrong block within 15 s does bring the `uint8_t` round (`05_engine_post.c:142`), and
the answer to an old challenge then ends the wait for the current one; it is not
accepted, as `Refinement` says without any hypothesis.

**The demonstration.**  `DemoInv` describes, for each of the fifteen places of the
script, what the engine can be doing (`Pressed`, `Waiting`, `Heard`, `Runs`,
`HasRun`, `Answered`, `Again`) and since when.  `DemoTimes` lists what makes the
script work: programs that are not late, whole messages, a total timeout of 2 s or more, so
that a challenge is sent though a second begins before the loop's first test, a
challenge that waits longer than the second the transponder sleeps, and a run and window between them
short enough for the third start to fall outside and long enough for the second to
fall inside.  The code's 5, 2 and 6 s satisfy it.  TLC finds `ChallengesAsAnnounced`
violated for a challenge of 2 s, and for a run and window of 0 and 1 s; the two upper
bounds are sufficient, as TLC finds the property true for some larger values.

**The engines that authenticate once** share an invariant, `OnceInv` of
`EngineOnce_proofs`: types, `KnowledgeInv` (as above, with the transponder's buffer,
and nothing encrypted in what the engine sends) and `ControlInv`.  `EngineMove` is
all that the steps of the three engines have in common: part of the queue is read,
bytes of the engine's own are sent, and one of the actions of `EngineOnce` is taken,
success only when the open challenge is answered.  `EngineMoveKeeps` and
`EngineMovePromise` prove invariant and refinement for any such step, so that each
engine has to show only that its steps are moves (`StepIsMove`).  `EarlyInv` adds
what is under way before the authentication.

 * *Level 2.*  `TimingInv` relates the clock to the engine's lateness as in PostOpen;
   the total timeout ends the wait for the last answer too, so that
   `LongestAuthentication` adds only lateness to it.
   `ResetInv` says that since the engine has sent to a closed transponder no poll has
   prolonged the wait.  `WholeAnswers` (no answer is torn, a challenge waits at least
   2 s) is needed: see `NoSecondSendToClosed` above; that answers in two parts do no
   harm with the code's times is checked, not proved.
 * *`04_engine_ignore.c`.*  `FramesInv`: both queues and the transponder's buffer are
   whole frames, each with counter and block of one challenge; `CountInv`: the counter
   is the number of the challenge, as each challenge before has taken its whole
   timeout.  Both speak of a transponder that can still be heard (`Live`), as one that
   has closed makes the engine send challenges as fast as it can.  `WholeFrames`: the
   transponder sends frames of 17 bytes, no `recv()` tears them, and
   `TOTAL_AUTH_TIMEOUT <= 255 * PER_CHALLENGE_TIMEOUT` (15 and 1275 s in the code).
   When a frame is torn, what is left of it joins the next one, and a counter is
   followed by another challenge's block: TLC finds `CounterNamesChallenge`
   violated with `ShortReads = {1}`.

**Strings.**  `TypeOK` says that no index leaves the array; it rests on the rest of the
invariant, which says where each loop stands: `FindInv` (the
terminator is not behind us yet), `CopyInv` (the first `j` characters taken are
written behind the first `Base` that were there, and the rest still fits),
`CompareInv` (the first `i` characters are there and equal), and `ValueHeld` (while
no loop writes, `dest` is `value`).  There is one lemma for each action; `TakenIsPrefix`
and `AfterIsMade` relate the loops' characters to the string promised.  The caller's
duty, room for the result, is the assumption `MayCall` in the guard of `Begin`.

**Exercises.**  `Room` is what the sizes of the code give: a buffer holds a block
(`Cap >= 16`, the code has 1024), a `char` counts to seven or more (127), so that no request
of the model comes round to a positive number, and a user's
line is shorter than the array it is typed into, as `scanf()` into it requires.
The proof goes from the programs, which are data, to their steps:

 * The first two sections have a lemma for every program (`...Code`) and every
   exercise (`Runs_...`), which say which instruction stands where (`CodeOk`: jumps
   stay inside, only `goto` and `return` may be last; `Serves`, `Asks`, `Waits`).
   `AllCodes` puts them together.  What follows mentions programs by these predicates,
   and the echo servers, UDP servers, servers that send once (`Singles`) and level 1 by
   what their kind has in common.
 * *Types.*  `TypedState` is inductive: `TypeOK`, and that queues, histories and
   datagrams hold characters, that lines fit, and that only clients wait in the
   backlog.  There is a lemma for each kind of instruction (`ConnectStep`, ...,
   `TickTyped`).  They also say what the step does to the sockets, as one of `Quiet`
   (nothing flows), `Sending` or `Receiving`, so that the proofs that follow have
   three cases instead of twelve.
 * *`AnswersInOrder`.*  It is about `got`, the inductive invariant about `Flow(c)`: what
   c has received and what is on its way to it.  For a server that sends once,
   `SinglesInv`: nothing flows before its one `send()` (`SilentSoFar`), the request is in the
   queue or in the buffer (`AskedOnce`, `InBuffer`), and so what flows is the beginning of
   the answer owed (`Kept`).  For the echo servers, `LoopInv`: while the connection of c is
   open, all c has sent is what flows back, then what the server holds, then what it has
   not received yet (`Echoed`); nobody else's bytes are there because only the current
   client's connection is served (`LoopServer`, `Unconnected`), and what flows stays the
   beginning of what was sent when the server has gone (`EchoBegins`).  For UDP, `UdpInv`: no datagram is under way, or one,
   which is the client's last line or its capitals (`Between`, `Asked`), so that a
   late answer cannot be taken for that of the next line.
   `AnswersInOrder` leaves out the second answer of `two_request`, which is wrong
   (its property is `AnswersComplete`), and `chat`, where a server's user types what
   he likes; it speaks of the other twenty-six.
 * *`PatienceBounded`.*  `Patient` says for each place of the loop how much of the five
   seconds may be over: the client sleeps only when the test before has found less,
   a sleep is half a second, and every other half second was the scheduler's,
   counted in `late`.  The bound is reached.
 * *`VerdictIsRight`.*  `VerdictInv` has two parts.  Of a transponder without the key
   no byte of the expected answer is ever on its way or in the engine's buffer
   (`Keyless`), so that it does not matter how `recv()` tears or what an answer that
   is too short leaves of the new buffer's junk.  With the key and whole messages, `Stage` lists how far the
   two programs can be together; in each stage at most one message is on its way, so
   the sixteen bytes received are all of the challenge or of the answer.  A
   transponder whose buffer holds exactly sixteen bytes writes its terminator beside
   it (`NoWildWrite` lists it); the answer is right nevertheless.

**Only model-checked.**  Liveness (`DemoCompletes`, `BothEnd`, `GenuineAccepted`,
`PairFinishes`), which the prover does not do.  `AES`: its properties are what loops
compute for given blocks, which is induction over data.  `Calculators` for the same
reason, and because it uses `Bitwise`, which the provers do not take.  Of `Exercises`,
`AnswersComplete`, `KilledWithReason`, `NoWildWrite` and `TimeoutReported`: they name
single exercises as exceptions and depend on the lengths of their texts and the
lateness of their programs, so that their invariants would list, for every exercise,
the pairs of places its programs can be at, as `Stage` does for level 1; TLC lists
them.

## Where code and documents differ

 * `README.md:69`: a valid transponder enables the engine.  As the Makefile pairs
   them, `02`/`03` and `01` disagree about the size of a frame
   (`no_counter_makefile`).
 * `src/Network-Frames/README.md:82`: DIV is opcode 4 of the opcode protocol.  The
   tables of `Opcode_S.c:14-18` and `Opcode_res_s.c` end with MUL; a request with DIV
   passes an unset pointer to `strcmp()` (`Opcode_S.c:68`), and the server is killed or
   answers by what was in memory (`calculator_div`).
 * `astr_test.c:18`: `astrcmp("abc", "abcd")` must not be 0; it is (`strings_tests`).

Seen while modelling, without a run of their own:

 * `astrncmp()` returns -1 for two equal strings shorter than n (`astrncmp.c:11`), where
   `strncmp()` of the C library returns 0; the repository's tests have no such case.
   `ComparesRight` asks for -1, as a comparison of n characters that are not there.
 * `06_post_trans.c:101`: `sleep(7)` is to exceed the window of 6 s.  The pauses
   add up to ten seconds from the second start, but the window counts from the
   ENGINE OFF two to four seconds after it.  With programs a second late the third
   start falls into the window, no challenge comes, and both programs block in
   `recv()`; `post_demo` has programs that are not late.
 * `README.md:71` of the repository: all steps within two seconds.  The code's
   timeouts are 5 and 15 s (`05_engine_post.c:12-13`).
   `src/sockets/timeout_sequence_flow.txt` describes the two-second design.
 * The transponder of level 2 sleeps ten seconds before it answers
   (`Transponder_ecu_l2_c.c:159`), when the engine has replaced its challenge: with
   the right key it is never let in.  `l2` has the delays 0, 3, 6 and 12 s.
 * `ECU_Authentication_Documentation.pdf` speaks of 4 s for each response and 20 s
   in total; the code of level 2 has 5 and 15 s.

## What is not modelled

 * Failures of `socket()`, `bind()`, `listen()`, `accept()` and `fopen()`: none is
   handled, and the programs' behaviour after them is undefined or to end.
 * More than one client of an ECU: each program accepts once.
 * A wall clock that is set back; lossy links (TCP hides them).
 * AES as a function of all blocks: taken for ideal in the other modules, checked
   on some blocks in `AES`.
 * `flush_socket` of `04_engine_ignore.c`, which nothing calls.
 * In the calculators, what the exercises' run already has: who connects to whom,
   ports, and the interleaving of calls that do not matter to one request and one
   answer.  Digits are not modelled one by one: a number is cut by a division.
 * `07-multicast` (a sender, no receiver in the repository), `one_way_client.c` (does
   not compile), `just_c.c`/`just_s.c`, `socketcli.c`/`socketserv.c` (a loop with an
   empty body that never ends), `garbage.c`, `struct.c`, `just.c`, `Temp.c` and the
   other exercises that only print a value.
 * Copies: `ikshwak/sockets` repeats files of `ikshwak`, the numbered files of
   `moksha/sockets` those without a number, `astring-lib` the string functions.

## Plan

Done, in this order: `ByteStream`, `Immobilizer`, `EnginePost`, `PostOpen` with its
proofs, `PostDemo`, the single authentications, `AES`; then the socket exercises with
level 1, the calculators, the string functions and their proofs.

Proofs since then: the single authentications (`ImplementsImmobilizer` from the
shared `EngineMove`, then what is particular to level 2 and to the counters),
`LateAnswerIgnored` of PostOpen, the demonstration, and the exercises (types, the
order of answers, patience, the verdict of level 1).

Open: the same for `AnswersComplete`, from a `Stage` for each kind of server, as for
level 1, and from it `NoWildWrite` and `KilledWithReason`.
