------------------------------ MODULE Exercises ------------------------------
(***************************************************************************)
(* The socket exercises running: a server and its clients execute their    *)
(* programs (module Programs) call by call, in any interleaving, over the  *)
(* TCP or UDP sockets of one machine, with a clock that counts half        *)
(* seconds.  Process 0 is the server, 1 and 2 are clients.                 *)
(*                                                                         *)
(* What the kernel does is modelled as Linux does it: a connection waits   *)
(* in the backlog until it is accepted; data may be sent before that; a    *)
(* send() to a closed peer is lost and makes the next one raise SIGPIPE;   *)
(* closing with unread data resets the connection.                         *)
(***************************************************************************)
EXTENDS Programs, Integers, FiniteSets, SequencesExt

CONSTANTS
    Chosen,      \* the exercises that are run
    Cap,         \* the size of every buffer (1024 in most programs)
    CharMax,     \* the largest value of a char (127)
    Leftover,    \* how many cells of an uninitialised array may hold junk
    Scripts,     \* what a user may type, as sequences of lines
    MayLose,     \* whether UDP may lose a datagram
    Slack        \* half seconds for which a process may fail to get the CPU

ASSUME ExercisesAssumption ==
    /\ Cap \in Nat \ {0} /\ CharMax \in Nat /\ Slack \in Nat
    /\ Leftover \subseteq 0..Cap
    /\ Scripts \subseteq Seq(Seq(STRING \X {0} \X Nat))
    /\ MayLose \subseteq BOOLEAN /\ FALSE \in MayLose

Exercise(server, clients, answer) ==
    [programs |-> <<server>> \o clients, answer |-> answer]

\* Which programs are run against each other, and how the server answers.
Exercises ==
    [interaction |-> Exercise(InteractionServer, <<InteractionClient>>, "echo"),
     iterative |-> Exercise(IterativeServer, <<IterativeClient, IterativeClient>>, "echo"),
     iterative_long |-> Exercise(IterativeServer, <<LongerClient, LongClient>>, "echo"),
     two_request |-> Exercise(TwoRequestServer, <<TwoRequestClient>>, "stale"),
     one_way |-> Exercise(OneWayServer, <<SimpleClient5000>>, "echo"),
     one_way_long |-> Exercise(OneWayServer, <<LongClient>>, "echo"),
     simple |-> Exercise(SimpleServer5000, <<SimpleClient5000>>, "hello"),
     simple_5001 |-> Exercise(SimpleServer5001, <<SimpleClient5001>>, "hello"),
     simple_ports |-> Exercise(SimpleServerPause, <<SimpleClient5001>>, "hello"),
     simple_pause |-> Exercise(SimpleServerPause, <<BlockingClient>>, "hello"),
     blocking |-> Exercise(SleepServer15, <<BlockingClient>>, "hello"),
     poll_once |-> Exercise(SleepServer2, <<PollOnceClient>>, "hello"),
     poll_loop |-> Exercise(SleepServer15, <<PollLoopClient>>, "hello"),
     waiting_2 |-> Exercise(SleepServer2, <<WaitingClient2sec>>, "hello"),
     waiting_4 |-> Exercise(SleepServer4, <<WaitingClient2sec>>, "hello"),
     waiting_15 |-> Exercise(SleepServer15, <<WaitingClient2sec>>, "hello"),
     waiting_8 |-> Exercise(SleepServer8, <<WaitingClient>>, "hello"),
     waiting_port |-> Exercise(SleepServer8, <<PollLoopClient>>, "hello"),
     hello_world |-> Exercise(UpperServer, <<HelloWorldClient>>, "upper"),
     checked |-> Exercise(UpperServer2, <<CheckedClient>>, "upper"),
     debug |-> Exercise(DebugServer, <<DebugClient>>, "upper"),
     time |-> Exercise(TimeServer, <<TimeClient, TimeClient>>, "silent"),
     chat |-> Exercise(ChatServer, <<ChatClient>>, "lines"),
     exit |-> Exercise(ExitServer, <<ExitClient>>, "silent"),
     udp |-> Exercise(UdpServer1, <<UdpClient1>>, "upper"),
     udp_lines |-> Exercise(UdpServer2, <<UdpClient2>>, "upper"),
     level_1 |-> Exercise(EngineL1, <<TransponderL1("encrypted")>>, "challenge"),
     level_1_foreign |-> Exercise(EngineL1, <<TransponderL1("miskeyed")>>, "challenge")]

ASSUME ChosenAssumption == Chosen \subseteq DOMAIN Exercises

VARIABLES
    exercise,   \* what is run: its name, the clock's phase and the junk
    proc,       \* every process: program counter, locals, and its own times
    sock,       \* the state of the socket at either end of a connection
    inq,        \* what has arrived at that end and is not received yet
    backlog,    \* the clients whose connections are not accepted yet
    cur,        \* the client whose connection or datagram the server has
    mail,       \* datagrams that have arrived at a UDP socket: [from, data]
    clock,      \* half seconds
    sent, got,  \* all a client has sent, and received
    shown,      \* messages shown, <<process, message>>
    torn,       \* a recv() has split what was there, or a datagram was lost
    wild        \* processes that have written beside their buffer

net  == <<sock, inq, backlog, cur, mail>>
hist == <<sent, got, shown, torn, wild>>
vars == <<exercise, proc, net, clock, hist>>

This     == Exercises[exercise.name]
Procs    == 0..(Len(This.programs) - 1)
Clients  == Procs \ {0}
Ends     == Clients \X {"S", "C"}
Peer(e)  == <<e[1], IF e[2] = "S" THEN "C" ELSE "S">>
Mine(p)  == IF p = 0 THEN <<cur, "S">> ELSE <<p, "C">>
Code(p)  == This.programs[p + 1].code
Ended(p) == proc[p].pc = 0
Instr(p) == Code(p)[proc[p].pc]
Op(p)    == IF Ended(p) THEN "none" ELSE Instr(p).op
Arg(p)   == Instr(p).arg
EAGAIN   == -2   \* recv() returns -1 and sets errno
Never    == -1   \* a time not taken

Calls(program, op) == \E i \in DOMAIN program.code : program.code[i].op = op

Init ==
    \E name \in Chosen, phase \in 0..1, junk \in Leftover :
      LET P == 0..(Len(Exercises[name].programs) - 1)
          prog(p) == Exercises[name].programs[p + 1]
      IN  /\ exercise = [name |-> name, phase |-> phase,
                         array |-> [i \in 1..Cap |-> IF i <= junk THEN Junk ELSE NUL]]
          /\ phase = 0 \/ \E p \in P : Calls(prog(p), "Mark")
          /\ \E typed \in [P -> Scripts \cup {<<>>}] :
               /\ \A p \in P : Calls(prog(p), "Gets") <=> typed[p] # <<>>
               /\ proc = [p \in P |->
                    [pc |-> 1, n |-> 0, buf |-> exercise.array, line |-> <<>>,
                     input |-> typed[p], start |-> Never, wake |-> 0, late |-> 0]]
          /\ sock = [e \in (P \ {0}) \X {"S", "C"} |-> "none"]
          /\ inq = [e \in (P \ {0}) \X {"S", "C"} |-> <<>>]
          /\ backlog = <<>> /\ cur = 1 /\ clock = 0
          /\ mail = [p \in P |-> <<>>]
          /\ sent = [c \in P \ {0} |-> <<>>] /\ got = [c \in P \ {0} |-> <<>>]
          /\ shown = {} /\ torn = FALSE /\ wild = {}

Seconds  == (clock + exercise.phase) \div 2
Awake(p) == clock >= proc[p].wake

\* Mutant of Put: what is received is put in front of what is there.
PutInFront(buf, b) == b \o buf

Put(buf, b)   == [i \in 1..Cap |-> IF i <= Len(b) THEN b[i] ELSE buf[i]]
StringIn(buf) == LET ends == {i \in 1..Cap : buf[i] = NUL}
                 IN  IF ends = {} THEN buf ELSE SubSeq(buf, 1, Min(ends) - 1)

\* Mutant of Retval: the variable is an int in every program.
RetvalInt(kind, k) == k

\* What a variable holds that is assigned the number k of bytes received: a char
\* keeps the remainder, as a negative number when it is above CharMax.
Retval(kind, k) ==
    LET byte == k % (2 * (CharMax + 1))
    IN  IF kind # "char" THEN k
        ELSE IF byte > CharMax THEN byte - 2 * (CharMax + 1) ELSE byte

\* Process p goes on with the next instruction, its locals being r.
GoOn(p, r) == proc' = [proc EXCEPT ![p] = [r EXCEPT !.pc = @ + 1]]


-----------------------------------------------------------------------------
\* Nothing to receive at p's socket now, but there may be later.
Silent(p) == sock[Mine(p)] = "open" /\ inq[Mine(p)] = <<>>

\* The sockets E are closed, all at once.
Shut(E) ==
    /\ sock' = [e \in Ends |->
         IF e \in E THEN "shut"
         ELSE IF ~(Peer(e) \in E /\ sock[e] = "open") THEN sock[e]
         ELSE IF inq[Peer(e)] # <<>> \/ (e[2] = "C" /\ Contains(backlog, e[1]))
         THEN "reset" ELSE "fin"]
    /\ inq' = [e \in Ends |-> IF e \in E THEN <<>> ELSE inq[e]]

\* Process p ends, and the kernel closes what it has open.
Finish(p) ==
    /\ proc' = [proc EXCEPT ![p].pc = 0]
    /\ Shut({e \in Ends : /\ sock[e] # "none"
                          /\ IF p = 0 THEN e[2] = "S" ELSE e = <<p, "C">>})
    /\ backlog' = IF p = 0 THEN <<>> ELSE backlog
    /\ UNCHANGED <<cur, mail>>

\* connect(): completed by the kernel, when somebody listens on the port.
DoConnect(p) ==
    LET listening == ~Ended(0) /\ This.programs[1].port = This.programs[p + 1].port
    IN  /\ Op(p) = "Connect"
        /\ GoOn(p, [proc[p] EXCEPT !.n = IF listening THEN 0 ELSE -1])
        /\ IF listening
           THEN /\ sock' = [sock EXCEPT ![<<p, "S">>] = "open", ![<<p, "C">>] = "open"]
                /\ backlog' = Append(backlog, p)
           ELSE UNCHANGED <<sock, backlog>>
        /\ UNCHANGED <<inq, cur, mail, hist>>

DoAccept(p) ==
    /\ Op(p) = "Accept" /\ backlog # <<>>
    /\ cur' = Head(backlog) /\ backlog' = Tail(backlog)
    /\ GoOn(p, proc[p])
    /\ UNCHANGED <<sock, inq, mail, hist>>

\* All that encryption and memcmp() look at.
FirstBlock(buf) == SubSeq(buf, 1, 16)

\* What the programs send: texts of their own, the bytes received, the string
\* in the buffer, its capitals, as much of "hello" as the string is long, the
\* line typed, the array it is in, and the answer to a level 1 challenge.
Outgoing(p) ==
    LET r   == proc[p]
        str == StringIn(r.buf)
        challenged == FirstBlock(r.buf) = Block("rnd", 1)
    IN  IF Op(p) = "Fixed" THEN Arg(p) ELSE
        CASE Arg(p) = "received" -> SubSeq(r.buf, 1, r.n)
          [] Arg(p) = "string"   -> str
          [] Arg(p) = "upper"    -> [i \in DOMAIN str |-> Upper(str[i])]
          [] Arg(p) = "hello"    -> SubSeq(HelloS, 1, Len(str))
          [] Arg(p) = "line"     -> r.line
          [] Arg(p) = "array"    -> Put(exercise.array, Append(r.line, NUL))
          [] Arg(p) = "encrypted" -> Block("enc", IF challenged THEN 1 ELSE 2)
          [] Arg(p) = "miskeyed"  -> Block("enc", 0)

DoSend(p) ==
    LET e == Mine(p)
        data == Outgoing(p)
    IN  /\ Op(p) \in {"Fixed", "Send"}
        /\ \/ /\ sock[e] = "open"
              /\ inq' = [inq EXCEPT ![Peer(e)] = @ \o data]
              /\ sent' = IF p = 0 THEN sent ELSE [sent EXCEPT ![p] = @ \o data]
              /\ GoOn(p, [proc[p] EXCEPT !.n = Len(data)])
              /\ UNCHANGED <<sock, backlog, cur, mail, shown>>
           \/ /\ sock[e] \in {"fin", "reset"}
              /\ sock' = [sock EXCEPT ![e] = "gone"]
              /\ GoOn(p, [proc[p] EXCEPT !.n = IF sock[e] = "fin" THEN Len(data) ELSE -1])
              /\ UNCHANGED <<inq, backlog, cur, mail, sent, shown>>
           \/ /\ sock[e] \in {"none", "gone", "shut"}
              /\ Finish(p)
              /\ shown' = shown \cup {<<p, "SIGPIPE">>}
              /\ UNCHANGED sent
        /\ UNCHANGED <<got, torn, wild>>

\* recv(), blocking or with MSG_DONTWAIT.
DoRecv(p) ==
    LET e == Mine(p)
        kind == IF Op(p) = "Recv" THEN Arg(p) ELSE "int"
    IN  /\ Op(p) \in {"Recv", "Poll"}
        /\ \/ \E b \in Chunks(inq[e], Cap) \ {<<>>} :
                /\ torn => Len(b) = Min({Cap, Len(inq[e])})  \* a bound: one short read
                /\ inq' = [inq EXCEPT ![e] = Rest(inq[e], b)]
                /\ GoOn(p, [proc[p] EXCEPT !.buf = Put(@, b), !.n = Retval(kind, Len(b))])
                /\ got' = IF p = 0 THEN got ELSE [got EXCEPT ![p] = @ \o b]
                /\ torn' = (torn \/ Len(b) < Min({Cap, Len(inq[e])}))
                /\ UNCHANGED sock
           \/ /\ inq[e] = <<>>
              /\ sock[e] # "open" \/ Op(p) = "Poll"
              /\ GoOn(p, [proc[p] EXCEPT !.n =
                   CASE sock[e] = "open" -> EAGAIN
                     [] sock[e] \in {"fin", "gone"} -> 0
                     [] OTHER -> -1])
              /\ sock' = IF sock[e] = "reset" THEN [sock EXCEPT ![e] = "gone"] ELSE sock
              /\ UNCHANGED <<inq, got, torn>>
        /\ UNCHANGED <<backlog, cur, mail, sent, shown, wild>>

\* A datagram carries the string's terminator too; it may be lost.
DoSendTo(p) ==
    LET r  == proc[p]
        to == IF p = 0 THEN cur ELSE 0
        data == IF Arg(p) = "line" THEN Append(r.line, NUL)
                ELSE [i \in 1..r.n |-> IF i < r.n THEN Upper(r.buf[i]) ELSE r.buf[i]]
    IN  /\ Op(p) = "SendTo"
        /\ \E lost \in MayLose :
             /\ mail' = IF lost \/ Ended(to) THEN mail
                        ELSE [mail EXCEPT ![to] = Append(@, [from |-> p, data |-> data])]
             /\ torn' = (torn \/ lost)
        /\ sent' = IF p = 0 THEN sent ELSE [sent EXCEPT ![p] = @ \o data]
        /\ GoOn(p, r)
        /\ UNCHANGED <<sock, inq, backlog, cur, got, shown, wild>>

DoRecvFrom(p) ==
    /\ Op(p) = "RecvFrom" /\ mail[p] # <<>>
    /\ LET d == Head(mail[p])
       IN  /\ GoOn(p, [proc[p] EXCEPT !.buf = Put(@, d.data), !.n = Len(d.data)])
           /\ cur' = IF p = 0 THEN d.from ELSE cur
           /\ got' = IF p = 0 THEN got ELSE [got EXCEPT ![p] = @ \o d.data]
    /\ mail' = [mail EXCEPT ![p] = Tail(@)]
    /\ UNCHANGED <<sock, inq, backlog, sent, shown, torn, wild>>

\* recvBuffer[retval] = '\0', beside the buffer when retval is no index of it.
DoTerminate(p) ==
    LET r == proc[p]
    IN  /\ Op(p) = "Terminate"
        /\ IF r.n \in 0..(Cap - 1)
           THEN GoOn(p, [r EXCEPT !.buf[r.n + 1] = NUL]) /\ UNCHANGED wild
           ELSE GoOn(p, r) /\ wild' = wild \cup {p}
        /\ UNCHANGED <<net, sent, got, shown, torn>>

\* What concerns the process alone.
DoLocal(p) ==
    LET r == proc[p]
    IN  /\ \/ Op(p) = "Fresh" /\ GoOn(p, [r EXCEPT !.buf = exercise.array])
           \/ Op(p) = "Load" /\ GoOn(p, [r EXCEPT !.line = Arg(p)])
           \/ /\ Op(p) = "Gets" /\ r.input # <<>>
              /\ GoOn(p, [r EXCEPT !.line = Head(r.input), !.input = Tail(@)])
           \/ Op(p) = "Sleep" /\ GoOn(p, [r EXCEPT !.wake = clock + Arg(p)])
           \/ Op(p) = "Mark" /\ GoOn(p, [r EXCEPT !.start = Seconds])
        /\ UNCHANGED <<net, hist>>

\* What the tests look at.
Holds(p) ==
    LET r == proc[p]
    IN  CASE Op(p) = "Goto"  -> TRUE
          [] Op(p) = "Says"  -> StringIn(r.buf) = Arg(p)
          [] Op(p) = "Typed" -> r.line = Arg(p)
          [] Op(p) = "Again" -> r.n = EAGAIN
          [] Op(p) = "When"  ->
               CASE Arg(p) = "closed"   -> r.n <= 0
                 [] Arg(p) = "failed"   -> r.n < 0
                 [] Arg(p) = "answered" -> r.n # EAGAIN
                 [] Arg(p) = "expired"  -> Seconds - r.start >= TIMEOUT_SEC
                 [] Arg(p) = "early"    -> Seconds - r.start < TIMEOUT_SEC

\* A poll in vain is repeated at once: nothing changes until something arrives.
DoTest(p) ==
    /\ Op(p) \in {"Goto", "Says", "Typed", "Again", "When"}
    /\ Op(p) = "Again" /\ Holds(p) => ~Silent(p)
    /\ proc' = [proc EXCEPT ![p].pc = IF Holds(p) THEN Instr(p).to ELSE @ + 1]
    /\ UNCHANGED <<net, hist>>

\* The engine compares all sixteen bytes of the answer with its own encryption.
DoShow(p) ==
    /\ Op(p) = "Show"
    /\ shown' = shown \cup {<<p, IF Arg(p) # "verdict" THEN Arg(p)
                                 ELSE IF FirstBlock(proc[p].buf) = Block("enc", 1)
                                 THEN "valid" ELSE "invalid">>}
    /\ GoOn(p, proc[p])
    /\ UNCHANGED <<net, sent, got, torn, wild>>

DoCloseClient(p) ==
    /\ Op(p) = "CloseClient"
    /\ Shut({Mine(p)})
    /\ GoOn(p, proc[p])
    /\ UNCHANGED <<backlog, cur, mail, hist>>

DoReturn(p) == Op(p) = "Return" /\ Finish(p) /\ UNCHANGED hist

Step(p) ==
    /\ ~Ended(p) /\ Awake(p)
    /\ \/ DoConnect(p) \/ DoAccept(p) \/ DoSend(p) \/ DoRecv(p) \/ DoSendTo(p)
       \/ DoRecvFrom(p) \/ DoTerminate(p) \/ DoLocal(p) \/ DoTest(p) \/ DoShow(p)
       \/ DoCloseClient(p) \/ DoReturn(p)
    /\ UNCHANGED <<exercise, clock>>

\* p has nothing to do now: it has ended, sleeps, or waits in a call.
Idle(p) ==
    \/ Ended(p) \/ ~Awake(p)
    \/ Op(p) = "Accept" /\ backlog = <<>>
    \/ Op(p) = "Recv" /\ Silent(p)
    \/ Op(p) = "Again" /\ Holds(p) /\ Silent(p)
    \/ Op(p) = "RecvFrom" /\ mail[p] = <<>>
    \/ Op(p) = "Gets" /\ proc[p].input = <<>>

\* Lateness matters to programs that take the time; the others are not delayed.
Lateness == IF \E p \in Procs : Calls(This.programs[p + 1], "Mark") THEN Slack ELSE 0

\* Half a second passes; who could go on is late by it.
Tick ==
    /\ \E p \in Procs : ~Awake(p) \/ ~Idle(p)
    /\ \A p \in Procs : Idle(p) \/ proc[p].late < Lateness
    /\ clock' = clock + 1
    /\ proc' = [p \in Procs |-> [proc[p] EXCEPT !.late = IF Idle(p) THEN @ ELSE @ + 1]]
    /\ UNCHANGED <<exercise, net, hist>>

Next == Tick \/ \E p \in Procs : Step(p)

\* The scheduler lets every process go on, and time passes.
Fairness == WF_vars(Tick) /\ \A p \in 0..2 : WF_vars(p \in Procs /\ Step(p))

ExercisesSpec == Init /\ [][Next]_vars /\ Fairness

-----------------------------------------------------------------------------
\* The processes end or go back to waiting for a client or a user.
AtUser(p) == Op(p) = "Gets" /\ proc[p].input = <<>>
Done ==
    \/ \E p \in Procs : AtUser(p)
    \/ /\ \A c \in Clients : Ended(c)
       /\ Ended(0) \/ (Op(0) \in {"Accept", "RecvFrom"} /\ Idle(0))

\* The number a char stands for that is assigned k.
AsChar(k) == CHOOSE n \in -(CharMax + 1)..CharMax : (k - n) % (2 * (CharMax + 1)) = 0

\* The clients send more than a char can count.
AsksLong == exercise.name \in {"iterative_long", "one_way_long"}

\* What the server owes client c for all it has sent: END is not answered, a long
\* request with as many bytes as the char says, and the second answer of the
\* two-request server ends with what the first request, one character longer, has
\* left in the buffer.
Answer(c) ==
    LET s == sent[c]
        asked == IF IsSuffix(END, s) THEN SubSeq(s, 1, Len(s) - Len(END)) ELSE s
    IN  CASE AsksLong                  -> SubSeq(asked, 1, AsChar(Len(asked)))
          [] This.answer = "echo"      -> asked
          [] This.answer = "stale"     -> Append(asked, asked[Len(Moksha)])
          [] This.answer = "upper"     -> [i \in DOMAIN s |-> Upper(s[i])]
          [] This.answer = "hello"     -> HelloS
          [] This.answer = "challenge" -> Block("rnd", 1)
          [] OTHER                     -> <<>>

\* The type invariant.
TypeOK ==
    /\ \A p \in Procs : proc[p].pc \in 0..Len(Code(p)) /\ proc[p].n \in -(CharMax + 1)..Cap
    /\ \A p \in Procs : Len(proc[p].buf) = Cap /\ proc[p].late <= Slack
    /\ \A e \in Ends : sock[e] \in {"none", "open", "fin", "reset", "gone", "shut"}
    /\ cur \in Clients /\ wild \subseteq Procs /\ torn \in BOOLEAN

\* Some beginning of what client c has sent is as long as 300 is to a char: the
\* count is positive and too small, and only the first bytes of it are echoed.
CountedShort(c) == AsksLong /\ \E k \in 1..Len(sent[c]) : AsChar(k) \in 1..(k - 1)

\* However the bytes are split and the clients interleaved, a client receives the
\* answers to its own requests, in order and nothing else.  Not if its request is
\* so long that part of it can go missing in the middle.
AnswersInOrder ==
    0 \notin wild /\ This.answer \notin {"stale", "lines"} =>
        \A c \in Clients : CountedShort(c) \/
            IsPrefix(got[c], IF This.answer = "echo" THEN sent[c] ELSE Answer(c))

\* Clients that are not answered: they do not wait long enough, or call at a port
\* where nobody listens.
Unanswered ==
    exercise.name \in {"poll_once", "waiting_15", "waiting_8", "waiting_port", "simple_ports"}

\* When no recv() was short and no datagram lost, a client that has ended has its
\* whole answer, or none if it is one of those.  A request longer than a char
\* counts gets none if its count is not positive, and else as many bytes as it says.
AnswersComplete ==
    ~torn /\ 0 \notin wild /\ This.answer # "lines" /\ exercise.array[1] = NUL =>
        \A c \in Clients : Ended(c) =>
            \/ got[c] = IF Unanswered THEN <<>> ELSE Answer(c)
            \/ got[c] = <<>> /\ exercise.name = "waiting_4"   \* if the programs are late

\* SIGPIPE ends a program only for these reasons.  A server answers a client that
\* has gone, because a request, END or bye among them, came in two parts or the
\* client has left part of an answer unread.  A client has no connection, because
\* it called the wrong port or its server was ended like that.
KilledWithReason ==
    \A p \in Procs : <<p, "SIGPIPE">> \in shown =>
        IF p = 0 THEN torn /\ This.answer \in {"echo", "stale", "lines"}
        ELSE exercise.name = "simple_ports" \/ <<0, "SIGPIPE">> \in shown

\* recvBuffer[retval] = '\0' stays inside the buffer, with these exceptions: a
\* request longer than a char counts, an answer as long as the whole buffer, the
\* sixteen bytes that fill the level 1 transponder's, and a client whose server
\* was killed: its recv() returns -1.
NoWildWrite ==
    \/ wild = {}
    \/ exercise.name = "one_way_long" /\ wild \subseteq {0, 1}
    \/ exercise.name \in {"two_request", "level_1", "level_1_foreign"} /\ wild = {1}
    \/ <<0, "SIGPIPE">> \in shown /\ 0 \notin wild

\* A client with a timeout has ended when it is over, late by what the scheduler
\* kept it waiting.
PatienceBounded ==
    \A p \in Procs : proc[p].start # Never /\ ~Ended(p) =>
        clock + exercise.phase - 2 * proc[p].start <= 2 * TIMEOUT_SEC + Slack

\* The client that reports timeouts reports one when it has no answer; with an
\* answer, only when the scheduler has kept it waiting since it began to wait.
TimeoutReported ==
    \A c \in Clients : Ended(c) /\ Calls(This.programs[c + 1], "Show") =>
        /\ got[c] = <<>> => <<c, "timeout">> \in shown
        /\ got[c] # <<>> /\ <<c, "timeout">> \in shown =>
             proc[c].late > 0 /\ exercise.name = "waiting_4"

\* Level 1 accepts nobody without the key, and with whole recv()s it accepts
\* whoever has it.
VerdictIsRight ==
    /\ <<0, "valid">> \in shown => exercise.name = "level_1"
    /\ exercise.name = "level_1" /\ Ended(0) /\ ~torn => <<0, "valid">> \in shown

\* Every exercise comes to an end, or back to waiting for a client or a user,
\* unless a datagram is lost or "exit" is received in two parts.
PairFinishes ==
    <>(Done \/ (torn /\ exercise.name \in {"udp", "udp_lines", "exit"}))

=============================================================================
