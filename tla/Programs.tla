------------------------------ MODULE Programs ------------------------------
(***************************************************************************)
(* The socket exercises, one program a definition, as lists of the calls   *)
(* of SocketCalls.  The numbers at the line ends are the positions that    *)
(* tests and jumps lead to.  socket(), bind() and listen() are taken to    *)
(* succeed and the server to be started before its clients, as the         *)
(* exercises' instructions have it.                                        *)
(***************************************************************************)
EXTENDS SocketCalls

-----------------------------------------------------------------------------
\* Requests and answers (Network-Frames/moksha/sockets).

\* The lengths of these are halved, so that a char counts what one recv() can return of a
\* client's requests in the checked instance, as it counts to 127.
Moksha == Text("Moksha", 3)
Yagna  == Text("yagna", 2)
Sweety == Text("Sweety", 3)

InteractionServer == [port |-> 5000, code |-> <<
    Accept,
    Recv, When("closed", 8),                    \* 2
    Terminate, Says(END, 8),                    \* 4
    Send("received"), Goto(2),                  \* 6
    Return>>]                                   \* 8

InteractionClient == [port |-> 5000, code |->
    <<Connect>> \o Ask(Moksha) \o Ask(END) \o <<Return>>]

\* Mutant of IterativeServer: what is echoed goes up to the first zero byte, and none is put.
IterativeServerNoTerminator == [port |-> 5000, code |-> <<
    Accept,
    RecvChar, When("closed", 8), Goto(5), Says(END, 8),
    Send("string"), Goto(2),
    CloseClient, Goto(1)>>]

IterativeServer == [port |-> 5000, code |-> <<
    Accept,                                     \* 1
    RecvChar, When("closed", 8),                \* 2
    Terminate, Says(END, 8),                    \* 4
    Send("received"), Goto(2),                  \* 6
    CloseClient, Goto(1)>>]                     \* 8

IterativeClient == [port |-> 5000, code |->
    <<Connect>> \o Ask(Moksha) \o Ask(Yagna) \o Ask(Sweety)
                \o <<Fixed(END), Return>>]

\* What is sent is what strlen() finds in a buffer without terminator.
TwoRequestServer == [port |-> 5000, code |-> <<
    Accept,
    Recv, When("closed", 6),                    \* 2
    Send("string"), Goto(2),                    \* 4
    Send("string"), Return>>]                   \* 6

TwoRequestClient == [port |-> 5000, code |->
    <<Connect>> \o Ask(Moksha) \o Ask(Yagna) \o <<Return>>]

OneWayServer == [port |-> 5000, code |->
    <<Accept, RecvChar, Terminate, Send("string"), Return>>]

\* Clients of any origin with requests longer than a char counts: where it counts to
\* 6, the length of the first comes round to a negative number and that of the second
\* to a positive one.
Long == Text("long", 12)
LongClient == [port |-> 5000, code |->
    <<Connect>> \o Ask(Long) \o <<Return>>]

Longer == Text("longer", 15)
LongerClient == [port |-> 5000, code |->
    <<Connect>> \o Ask(Longer) \o <<Return>>]

-----------------------------------------------------------------------------
\* Waiting for an answer (01, 02 and timer_simulation).

HelloC == Text("Hello", 5)   \* the client's
HelloS == Text("hello", 5)   \* the server's

SimpleClient(port) == [port |-> port, code |->
    <<Connect>> \o Ask(HelloC) \o <<Return>>]

\* It answers with as many bytes of "hello" as the request is long.
SimpleServer(port, pause) == [port |-> port, code |->
    <<Accept, RecvChar, Terminate, Send("hello")>> \o pause \o <<Return>>]

SleepServer(port, secs) == [port |-> port, code |-> <<
    Accept, Recv, When("closed", 7),
    Terminate, Sleep(secs), Fixed(HelloS),
    Return>>]                                   \* 7

SimpleClient5000 == SimpleClient(5000)
SimpleClient5001 == SimpleClient(5001)
SimpleServer5000 == SimpleServer(5000, <<>>)
SimpleServer5001 == SimpleServer(5001, <<>>)
SimpleServerPause == SimpleServer(5000, <<Sleep(8)>>)
SleepServer15 == SleepServer(5000, 15)
SleepServer2  == SleepServer(5000, 2)
\* A server of any origin that answers just before the client gives up.
SleepServer4  == SleepServer(5000, 4)
SleepServer8  == SleepServer(5002, 8)

BlockingClient == [port |-> 5000, code |-> <<
    Connect, When("failed", 7),
    Fixed(HelloC), Recv, When("closed", 7), Terminate,
    Return>>]                                   \* 7

\* Mutant of PollOnceClient: the buffer is terminated whatever recv() returned.
PollOnceClientUnchecked == [port |-> 5000, code |-> <<
    Connect, When("failed", 6), Fixed(HelloC), Poll, Terminate, Return>>]

PollOnceClient == [port |-> 5000, code |-> <<
    Connect, When("failed", 7),
    Fixed(HelloC), Poll, When("closed", 7), Terminate,
    Return>>]                                   \* 7

PollLoopClient == [port |-> 5000, code |-> <<
    Connect, When("failed", 8), Fixed(HelloC),
    Poll, Again(4),                             \* 4
    When("closed", 8), Terminate,
    Return>>]                                   \* 8

TIMEOUT_SEC == 5


\* Mutant of Waiting: polls for ever.
WaitingNoTimeout(port, end) == <<
    Connect, When("failed", end), Fixed(HelloC), Mark,
    Goto(6), Poll,
    When("answered", 10), HalfSecond, Goto(5),
    When("closed", 12), Terminate>>

\* Polls every half second until TIMEOUT_SEC are over.
Waiting(port, end) == <<
    Connect, When("failed", end), Fixed(HelloC), Mark,
    When("expired", 12), Poll,                  \* 5
    When("answered", 10), HalfSecond, Goto(5),
    When("closed", 12), Terminate>>             \* 10

\* TOTAL_AUTH_TIMEOUT of this one is five seconds too.
WaitingClient == [port |-> 5002, code |-> Waiting(5002, 12) \o <<Return>>]


\* Mutant of WaitingClient2sec: reports a timeout without looking at the time.
WaitingClientAlarmist == [port |-> 5000, code |->
    Waiting(5000, 13) \o <<Show("timeout"), Return>>]

\* This one looks at the time once more and reports a timeout.
WaitingClient2sec == [port |-> 5000, code |->
    Waiting(5000, 14) \o <<When("early", 14), Show("timeout"), Return>>]

-----------------------------------------------------------------------------
\* First programs (src/sockets/01-tcp, src/sockets/6-udp).

HelloWorld == Text("hello world", 11)

HelloWorldClient == [port |-> 5000, code |->
    <<Connect>> \o Ask(HelloWorld) \o <<Return>>]

Checked(pause) ==
    LET end == 8 + Len(pause)
    IN  <<Connect, When("failed", end)>> \o pause \o
        <<Fixed(HelloWorld), When("failed", end),
          Recv, When("failed", end), Terminate,
          Return>>

CheckedClient == [port |-> 5000, code |-> Checked(<<>>)]
DebugClient   == [port |-> 5000, code |-> Checked(<<Sleep(10)>>)]

UpperServer == [port |-> 5000, code |->
    <<Accept, Recv, Terminate, Send("upper"), Return>>]

\* The next lesson's server: its calls are the same.
UpperServer2 == UpperServer

DebugServer == [port |-> 5000, code |-> <<
    Accept, Recv, When("failed", 6),
    Terminate, Send("upper"),
    Return>>]                                   \* 6

\* The time is put into sendBuff, and the connection closed without a send().
TimeServer == [port |-> 5000, code |->
    <<Accept, CloseClient, Sleep(1), Goto(1)>>]

\* Mutant of TimeClient: the end of the connection is not the end of the loop.
TimeClientNoEnd == [port |-> 5000, code |-> <<
    Connect, When("failed", 7),
    Recv, When("failed", 7), Terminate, Goto(3),
    Return>>]

TimeClient == [port |-> 5000, code |-> <<
    Connect, When("failed", 7),
    Recv, When("closed", 7), Terminate, Goto(3),\* 3
    Return>>]                                   \* 7

\* Mutant of ChatServer: goes on after the client's bye.
ChatServerNoBye == [port |-> 8000, code |-> <<
    Accept, Sleep(2), Recv, When("failed", 11), Terminate,
    Gets, Send("line"), When("failed", 11), Typed(Bye, 11), Goto(2),
    Return>>]

ChatServer == [port |-> 8000, code |-> <<
    Accept,
    Sleep(2), Recv, When("failed", 12),         \* 2
    Terminate, Says(Bye, 12),
    Gets, Send("line"), When("failed", 12), Typed(Bye, 12), Goto(2),
    Return>>]                                   \* 12

ChatClient == [port |-> 8000, code |-> <<
    Connect, When("failed", 13),
    Sleep(2), Gets, Send("line"),               \* 3
    When("failed", 13), Typed(Bye, 13),
    Recv, When("failed", 13), Terminate, Says(Bye, 13), Goto(3),
    Return>>]                                   \* 13

\* recv() of 0 or -1 is no reason to stop.
ExitServer == [port |-> 7777, code |-> <<
    Accept,
    Recv, Says(Exit, 5), Goto(2),               \* 2
    Return>>]                                   \* 5

\* The whole array is sent, whatever follows the line in it.
ExitClient == [port |-> 7777, code |-> <<
    Connect,
    Gets, Send("array"), Typed(Exit, 6), Goto(2),
    Return>>]                                   \* 6

UdpServer1 == [port |-> 7891, code |->
    <<RecvFrom, SendTo("uppered"), Sleep(3), Return>>]

UdpClient1 == [port |-> 7891, code |->
    <<Load(Text("client", 10)), SendTo("line"), RecvFrom,
      Sleep(3), Return>>]

UdpServer2 == [port |-> 7891, code |->
    <<RecvFrom, SendTo("uppered"), Goto(1)>>]

UdpClient2 == [port |-> 7891, code |->
    <<Gets, SendTo("line"), RecvFrom, Goto(1)>>]

-----------------------------------------------------------------------------

\* Mutant of EngineL1: compares before the answer is received.
EngineL1NoRecv == [port |-> 5000, code |->
    <<Accept, Recv, Terminate, Fixed(Block("rnd", 1)),
      Fresh, Show("verdict"), Return>>]

\* Level 1 (ikshwak/Build): one challenge, one answer.  The transponder's key
\* is the engine's, or a foreign one.

EngineL1 == [port |-> 5000, code |->
    <<Accept, Recv, Terminate, Fixed(Block("rnd", 1)),
      Fresh, Recv, Show("verdict"), Return>>]

TransponderL1(answer) == [port |-> 5000, code |->
    <<Connect, Fixed(Start), Recv, Terminate, Send(answer), Return>>]

=============================================================================
