----------------------------- MODULE SocketCalls -----------------------------
(***************************************************************************)
(* The vocabulary of the socket exercises: src/sockets, the programs of    *)
(* Network-Frames that practise requests and timers, and the level 1 ECUs. *)
(* Each of them is a short list of socket calls with a few tests in        *)
(* between, so it is written as that list: a program is a record           *)
(* [port, code], code a sequence of instructions.  Module Exercises says   *)
(* what an instruction does.                                               *)
(*                                                                         *)
(* A character is a triple like the bytes of ByteStream: <<text, v, i>> is *)
(* character i of a text, v is 1 when toupper() has changed it.            *)
(***************************************************************************)
EXTENDS ByteStream

\* The text called id, of len characters.
Text(id, len) == [i \in 1..len |-> <<id, 0, i>>]

NUL  == <<"nul", 0, 0>>     \* '\0'
Junk == <<"junk", 0, 0>>    \* what an uninitialised array may hold

Upper(ch) == IF ch \in {NUL, Junk} THEN ch ELSE <<ch[1], 1, ch[3]>>

\* The texts the programs compare with strcmp().
END  == Text("END", 3)
Bye  == Text("bye", 3)
Exit == Text("exit", 4)

\* An instruction: what is called or tested, with which operand, and where a
\* test leads when it holds.
Do(op, arg)  == [op |-> op, arg |-> arg, to |-> 0]
Goto(to)     == [op |-> "Goto", arg |-> 0, to |-> to]
When(c, to)  == [op |-> "When", arg |-> c, to |-> to]   \* a test of retval or time
Says(s, to)  == [op |-> "Says", arg |-> s, to |-> to]   \* strcmp(buffer, s) == 0
Typed(s, to) == [op |-> "Typed", arg |-> s, to |-> to]  \* strcmp(line, s) == 0
Again(to)    == [op |-> "Again", arg |-> 0, to |-> to]  \* a poll in vain, at once again

\* The calls.  Times are in half seconds, for usleep(500000).
Accept       == Do("Accept", 0)
Connect      == Do("Connect", 0)
Fixed(text)  == Do("Fixed", text)        \* send() of a text of the program's
Send(what)   == Do("Send", what)         \* what: see Outgoing of Exercises
Recv         == Do("Recv", "int")        \* retval = recv(...)
RecvChar     == Do("Recv", "char")       \* the same into a char retval
Poll         == Do("Poll", 0)            \* recv(..., MSG_DONTWAIT)
Terminate    == Do("Terminate", 0)       \* recvBuffer[retval] = '\0'
Fresh        == Do("Fresh", 0)           \* another array is received into
Gets         == Do("Gets", 0)            \* a line of the user's
Load(text)   == Do("Load", text)         \* a line of the program's
SendTo(what) == Do("SendTo", what)
RecvFrom     == Do("RecvFrom", 0)
Sleep(secs)  == Do("Sleep", 2 * secs)
HalfSecond   == Do("Sleep", 1)
Mark         == Do("Mark", 0)            \* start = time(NULL)
Show(what)   == Do("Show", what)         \* a message the properties speak of
CloseClient  == Do("CloseClient", 0)     \* close(client_fd)
Return       == Do("Return", 0)          \* closes what is open and ends

\* A request, and the answer to it.
Ask(text) == <<Fixed(text), Recv, Terminate>>

=============================================================================
