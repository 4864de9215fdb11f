-------------------------- MODULE Exercises_proofs --------------------------
(***************************************************************************)
(* Proofs about the socket exercises, for all of them at once and for      *)
(* every size of the buffers, range of a char, lateness, short read and    *)
(* line typed that Room allows.  The exercises differ only in their        *)
(* programs, so the first part says what each program is and sorts the     *)
(* exercises into families; the types of the variables come next, with one *)
(* lemma per action that says what it moves; and then one invariant for    *)
(* each family, which says where everything is that a client has sent.     *)
(***************************************************************************)
EXTENDS Exercises, SequenceTheorems, WellFoundedInduction, TLAPS

-----------------------------------------------------------------------------
(* The characters, and what they make up.                                  *)

\* What the texts of the programs and of the users may be called.
Ids == STRING \cup {"nul", "junk", "Moksha", "yagna", "Sweety", "END", "bye", "exit",
                    "long", "longer",
                    "Hello", "hello", "hello world", "client", "cmd", "rnd", "enc"}

\* HelloS[i] for any i, as Outgoing evaluates it.
Past(i) == HelloS[i]

\* The characters there can be, in a buffer or under way, in capitals or not.
Chars == (Ids \X Nat \X Nat) \cup {Past(i) : i \in Nat}
              \cup {<<Past(i)[1], 1, Past(i)[3]>> : i \in Nat}

\* A text is a sequence of characters, as long as it says.
LEMMA TextType ==
    ASSUME NEW id \in Ids, NEW len \in Nat
    PROVE  Text(id, len) \in Seq(Chars) /\ Len(Text(id, len)) = len
<1>1. \A i \in 1..len : <<id, 0, i>> \in Chars
  BY DEF Chars
<1>2. Text(id, len) \in [1..len -> Chars]
  BY <1>1 DEF Text
<1>3. QED
  BY <1>2

\* So is a random number or an encrypted one.
LEMMA BlockType ==
    ASSUME NEW id \in Ids, NEW n \in Nat
    PROVE  Block(id, n) \in Seq(Chars) /\ Len(Block(id, n)) = 16
<1>1. \A i \in 1..16 : <<id, n, i>> \in Chars
  BY DEF Chars
<1>2. Block(id, n) \in [1..16 -> Chars]
  BY <1>1 DEF Block
<1>3. QED
  BY <1>2 DEF Block

\* The texts of the programs, with their lengths.
LEMMA TextsType ==
    /\ Moksha \in Seq(Chars) /\ Len(Moksha) = 3 /\ Yagna \in Seq(Chars) /\ Len(Yagna) = 2
    /\ Sweety \in Seq(Chars) /\ Len(Sweety) = 3 /\ END \in Seq(Chars) /\ Len(END) = 3
    /\ HelloC \in Seq(Chars) /\ Len(HelloC) = 5 /\ HelloS \in Seq(Chars) /\ Len(HelloS) = 5
    /\ HelloWorld \in Seq(Chars) /\ Len(HelloWorld) = 11
    /\ Long \in Seq(Chars) /\ Len(Long) = 12 /\ Longer \in Seq(Chars) /\ Len(Longer) = 15
    /\ Text("client", 10) \in Seq(Chars) /\ Len(Text("client", 10)) = 10
    /\ Start \in Seq(Chars) /\ Len(Start) = 5
<1>1. Start = Text("cmd", 5)
  BY DEF Start, Text
<1>2. QED
  BY <1>1, TextType DEF Moksha, Yagna, Sweety, END, HelloC, HelloS, HelloWorld, Long,
                        Longer, Ids

-----------------------------------------------------------------------------
(* The programs.                                                           *)

\* The instructions that jump.
Tests == {"Goto", "Says", "Typed", "Again", "When"}

\* The instructions that call send().
Sends == {"Fixed", "Send"}

\* All instructions.
Ops == Tests \cup Sends \cup {"Accept", "Connect", "Recv", "Poll", "Terminate",
                              "Fresh", "Gets", "Load",
    "SendTo", "RecvFrom", "Sleep", "Mark", "Show", "CloseClient", "Return"}

\* What send() may be called for.
Whats == {"received", "string", "upper", "hello", "line", "array", "encrypted", "miskeyed"}

\* Instruction i of a program of len instructions: a test leads to a line of the
\* program, and a text of its own fits in a buffer.
InstrOk(i, len) ==
   /\ i.op \in Ops
   /\ i.op \in Tests => i.to \in 1..len
   /\ i.op \in {"Fixed", "Load"} => i.arg \in Seq(Chars) /\ Len(i.arg) <= 16
   /\ i.op = "Load" => Len(i.arg) <= 15
   /\ i.op = "Send" => i.arg \in Whats

\* A program: only a jump or the end is its last instruction.
CodeOk(code) ==
  /\ Len(code) \in Nat \ {0}
  /\ \A j \in 1..Len(code) :
       /\ InstrOk(code[j], Len(code))
       /\ code[j].op \notin {"Goto", "Return"} => j < Len(code)

\* The program sends once, at its k-th instruction, and all its tests lead past it.
Shape(code, k) == \A j \in 1..Len(code) :
   /\ code[j].op \in Sends => j = k
   /\ code[j].op \in Tests => code[j].to > k

\* A server: it does not connect, and takes no time.
Serves(code) == \A j \in 1..Len(code) : code[j].op \notin {"Connect", "Mark"}

\* The clients with a timeout: they take the time, and then poll, sleep for half a
\* second and test the time in turn.
Waits(code) ==
    /\ code[1].op = "Connect" /\ code[3].op = "Fixed" /\ code[4].op = "Mark"
    /\ code[2].op = "When" /\ code[2].to > 11
    /\ code[5] = When("expired", 12) /\ code[6].op = "Poll"
    /\ code[7].op = "When" /\ code[7].to = 10
    /\ code[8].op = "Sleep" /\ code[8].arg = 1 /\ code[9] = Goto(5)
    /\ \A j \in 10..Len(code) :
         /\ code[j].op \in {"When", "Terminate", "Show", "Return"}
         /\ code[j].op = "When" => code[j].to > 11

\* A client: it does not accept, and takes the time only if it is one of those.
Asks(code) == \A j \in 1..Len(code) :
    /\ code[j].op \notin {"Accept", "CloseClient"}
    /\ code[j].op = "Mark" => Waits(code)

\* It uses no datagrams.
Tcp(code) == \A j \in 1..Len(code) : code[j].op \notin {"SendTo", "RecvFrom"}

\* A server that reports nothing.
Mute(code) == \A j \in 1..Len(code) : code[j].op # "Show"

\* What kind of instruction each of SocketCalls' is.
LEMMA Instrs ==
   /\ Accept.op = "Accept" /\ Connect.op = "Connect" /\ Recv.op = "Recv"
   /\ Recv.arg = "int" /\ RecvChar.op = "Recv" /\ RecvChar.arg = "char"
   /\ Poll.op = "Poll" /\ Terminate.op = "Terminate" /\ Fresh.op = "Fresh"
   /\ Gets.op = "Gets" /\ RecvFrom.op = "RecvFrom"
   /\ HalfSecond.op = "Sleep" /\ Mark.op = "Mark" /\ CloseClient.op = "CloseClient"
   /\ Return.op = "Return"
   /\ \A t : Goto(t).op = "Goto" /\ Goto(t).to = t /\ Again(t).op = "Again" /\ Again(t).to = t
   /\ \A c, t : When(c, t).op = "When" /\ When(c, t).arg = c /\ When(c, t).to = t
   /\ \A c, t : Says(c, t).op = "Says" /\ Says(c, t).arg = c /\ Says(c, t).to = t
   /\ \A c, t : Typed(c, t).op = "Typed" /\ Typed(c, t).arg = c /\ Typed(c, t).to = t
   /\ \A c : Fixed(c).op = "Fixed" /\ Fixed(c).arg = c /\ Load(c).op = "Load" /\ Load(c).arg = c
   /\ \A c : Send(c).op = "Send" /\ Send(c).arg = c /\ SendTo(c).op = "SendTo" /\ SendTo(c).arg = c
   /\ \A c : Sleep(c).op = "Sleep" /\ Show(c).op = "Show"
BY DEF Accept, Connect, Recv, RecvChar, Poll, Terminate, Fresh, Gets, RecvFrom,
   HalfSecond, Mark, CloseClient, Return,
  Goto, Again, When, Says, Typed, Fixed, Load, Send, SendTo, Sleep, Show, Do

\* All of them are as they should be, if their tests lead to a line of the program.
LEMMA InstrsOk ==
   ASSUME NEW len \in Nat
   PROVE
   /\ InstrOk(Accept, len) /\ InstrOk(Connect, len) /\ InstrOk(Recv, len)
   /\ InstrOk(RecvChar, len)
   /\ InstrOk(Poll, len) /\ InstrOk(Terminate, len) /\ InstrOk(Fresh, len)
   /\ InstrOk(Gets, len) /\ InstrOk(RecvFrom, len)
   /\ InstrOk(HalfSecond, len) /\ InstrOk(Mark, len) /\ InstrOk(CloseClient, len)
   /\ InstrOk(Return, len)
   /\ \A t \in 1..len : InstrOk(Goto(t), len) /\ InstrOk(Again(t), len)
   /\ \A c : \A t \in 1..len : InstrOk(When(c, t), len) /\ InstrOk(Says(c, t), len) /\ InstrOk(Typed(c, t), len)
   /\ \A c \in Whats : InstrOk(Send(c), len)
   /\ \A c : InstrOk(SendTo(c), len) /\ InstrOk(Sleep(c), len) /\ InstrOk(Show(c), len)
BY Instrs DEF InstrOk, Ops, Tests, Sends, Whats

\* A text of at most sixteen characters can be sent.
LEMMA TextOk ==
    ASSUME NEW text \in Seq(Chars), Len(text) <= 16, NEW len \in Nat
    PROVE  InstrOk(Fixed(text), len) /\ (Len(text) <= 15 => InstrOk(Load(text), len))
BY Instrs DEF InstrOk, Ops, Tests, Sends, Whats

\* So can the texts made with Text and Block.
LEMMA ShortOk ==
    ASSUME NEW id \in Ids, NEW n \in 0..16, NEW len \in Nat
    PROVE  /\ InstrOk(Fixed(Text(id, n)), len) /\ (n <= 15 => InstrOk(Load(Text(id, n)), len))
           /\ InstrOk(Fixed(Block(id, n)), len)
<1>1. Text(id, n) \in Seq(Chars) /\ Len(Text(id, n)) <= 16 /\ Len(Text(id, n)) = n
  BY TextType
<1>2. Block(id, n) \in Seq(Chars) /\ Len(Block(id, n)) <= 16
  <2>1. Block(id, n) \in Seq(Chars) /\ Len(Block(id, n)) = 16
    <3>1. n \in Nat
      OBVIOUS
    <3>2. QED
      BY <3>1, BlockType, Zenon
  <2>2. QED
    BY <2>1
<1>3. QED
  BY <1>1, <1>2, TextOk

\* So can those the programs have.
LEMMA TextsOk ==
    ASSUME NEW len \in Nat
    PROVE  /\ InstrOk(Fixed(Moksha), len)
           /\ InstrOk(Fixed(Yagna), len)
           /\ InstrOk(Fixed(Sweety), len)
           /\ InstrOk(Fixed(END), len)
           /\ InstrOk(Fixed(HelloC), len)
           /\ InstrOk(Fixed(HelloS), len)
           /\ InstrOk(Fixed(HelloWorld), len)
           /\ InstrOk(Fixed(Long), len)
           /\ InstrOk(Fixed(Longer), len)
           /\ InstrOk(Fixed(Start), len)
           /\ InstrOk(Fixed(Block("rnd", 1)), len)
           /\ InstrOk(Load(Text("client", 10)), len)
<1>1. InstrOk(Fixed(Moksha), len)
  <2>1. Moksha \in Seq(Chars) /\ Len(Moksha) <= 16
    BY TextsType
  <2>2. QED
    BY <2>1, TextOk
<1>2. InstrOk(Fixed(Yagna), len)
  <2>1. Yagna \in Seq(Chars) /\ Len(Yagna) <= 16
    BY TextsType
  <2>2. QED
    BY <2>1, TextOk
<1>3. InstrOk(Fixed(Sweety), len)
  <2>1. Sweety \in Seq(Chars) /\ Len(Sweety) <= 16
    BY TextsType
  <2>2. QED
    BY <2>1, TextOk
<1>4. InstrOk(Fixed(END), len)
  <2>1. END \in Seq(Chars) /\ Len(END) <= 16
    BY TextsType
  <2>2. QED
    BY <2>1, TextOk
<1>5. InstrOk(Fixed(HelloC), len)
  <2>1. HelloC \in Seq(Chars) /\ Len(HelloC) <= 16
    BY TextsType
  <2>2. QED
    BY <2>1, TextOk
<1>6. InstrOk(Fixed(HelloS), len)
  <2>1. HelloS \in Seq(Chars) /\ Len(HelloS) <= 16
    BY TextsType
  <2>2. QED
    BY <2>1, TextOk
<1>7. InstrOk(Fixed(HelloWorld), len)
  <2>1. HelloWorld \in Seq(Chars) /\ Len(HelloWorld) <= 16
    BY TextsType
  <2>2. QED
    BY <2>1, TextOk
<1>8. InstrOk(Fixed(Long), len)
  <2>1. Long \in Seq(Chars) /\ Len(Long) <= 16
    BY TextsType
  <2>2. QED
    BY <2>1, TextOk
<1>9. InstrOk(Fixed(Start), len)
  <2>1. Start \in Seq(Chars) /\ Len(Start) <= 16
    BY TextsType
  <2>2. QED
    BY <2>1, TextOk
<1>10. InstrOk(Fixed(Block("rnd", 1)), len)
  <2>1. "rnd" \in Ids
    BY DEF Ids
  <2>2. QED
    BY <2>1, ShortOk
<1>11. InstrOk(Load(Text("client", 10)), len)
  <2>1. "client" \in Ids
    BY DEF Ids
  <2>2. QED
    BY <2>1, ShortOk
<1>12. InstrOk(Fixed(Longer), len)
  <2>1. Longer \in Seq(Chars) /\ Len(Longer) <= 16
    BY TextsType
  <2>2. QED
    BY <2>1, TextOk
<1>13. QED
  BY <1>1, <1>2, <1>3, <1>4, <1>5, <1>6, <1>7, <1>8, <1>9, <1>10, <1>11, <1>12

-----------------------------------------------------------------------------
(* Programs that are put together of parts.                                *)

\* Concatenation, for programs like that.
LEMMA JoinRequest ==
    ASSUME NEW a, NEW b, NEW c, NEW d, NEW e
    PROVE  <<a>> \o <<b, c, d>> \o <<e>>
           = <<a, b, c, d, e>>
<1> DEFINE S == {a, b, c, d, e}
           joined == <<a>> \o <<b, c, d>> \o <<e>>
           whole == <<a, b, c, d, e>>
<1>1. a \in S /\ b \in S /\ c \in S /\ d \in S /\ e \in S
  OBVIOUS
<1> HIDE DEF S
<1>2. joined \in Seq(S) /\ whole \in Seq(S)
  BY <1>1
<1>3. Len(joined) = 5 /\ Len(whole) = 5
  BY <1>1
<1>4. \A x \in 1..5 : joined[x] = whole[x]
  BY <1>1
<1>5. QED
  BY <1>2, <1>3, <1>4, SeqEqual, Zenon

\* Concatenation, for programs like that.
LEMMA JoinTwoRequests ==
    ASSUME NEW a, NEW b, NEW r, NEW t, NEW e, NEW h
    PROVE  <<a>> \o <<b, r, t>> \o <<e, r, t>> \o <<h>>
           = <<a, b, r, t, e, r, t, h>>
<1> DEFINE S == {a, b, r, t, e, h}
           joined == <<a>> \o <<b, r, t>> \o <<e, r, t>> \o <<h>>
           whole == <<a, b, r, t, e, r, t, h>>
<1>1. a \in S /\ b \in S /\ r \in S /\ t \in S /\ e \in S /\ h \in S
  OBVIOUS
<1> HIDE DEF S
<1>2. joined \in Seq(S) /\ whole \in Seq(S)
  BY <1>1
<1>3. Len(joined) = 8 /\ Len(whole) = 8
  BY <1>1
<1>4. \A x \in 1..8 : joined[x] = whole[x]
  BY <1>1
<1>5. QED
  BY <1>2, <1>3, <1>4, SeqEqual, Zenon

\* Concatenation, for programs like that.
LEMMA JoinFourRequests ==
    ASSUME NEW a, NEW b, NEW r, NEW t, NEW c, NEW d, NEW e, NEW h
    PROVE  <<a>> \o <<b, r, t>> \o <<c, r, t>> \o <<d, r, t>> \o <<e, h>>
           = <<a, b, r, t, c, r, t, d, r, t, e, h>>
<1> DEFINE S == {a, b, r, t, c, d, e, h}
           joined == <<a>> \o <<b, r, t>> \o <<c, r, t>> \o <<d, r, t>> \o <<e, h>>
           whole == <<a, b, r, t, c, r, t, d, r, t, e, h>>
<1>1. a \in S /\ b \in S /\ r \in S /\ t \in S /\ c \in S /\ d \in S /\ e \in S /\ h \in S
  OBVIOUS
<1> HIDE DEF S
<1>2. joined \in Seq(S) /\ whole \in Seq(S)
  BY <1>1
<1>3. Len(joined) = 12 /\ Len(whole) = 12
  BY <1>1
<1>4. \A x \in 1..12 : joined[x] = whole[x]
  BY <1>1
<1>5. QED
  BY <1>2, <1>3, <1>4, SeqEqual, Zenon

\* Concatenation, for programs like that.
LEMMA JoinNoPause ==
    ASSUME NEW a, NEW b, NEW c, NEW d, NEW e
    PROVE  <<a, b, c, d>> \o <<>> \o <<e>>
           = <<a, b, c, d, e>>
<1> DEFINE S == {a, b, c, d, e}
           joined == <<a, b, c, d>> \o <<>> \o <<e>>
           whole == <<a, b, c, d, e>>
<1>1. a \in S /\ b \in S /\ c \in S /\ d \in S /\ e \in S
  OBVIOUS
<1> HIDE DEF S
<1>2. joined \in Seq(S) /\ whole \in Seq(S)
  BY <1>1
<1>3. Len(joined) = 5 /\ Len(whole) = 5
  BY <1>1
<1>4. \A x \in 1..5 : joined[x] = whole[x]
  BY <1>1
<1>5. QED
  BY <1>2, <1>3, <1>4, SeqEqual, Zenon

\* Concatenation, for programs like that.
LEMMA JoinPause ==
    ASSUME NEW a, NEW b, NEW c, NEW d, NEW e, NEW f
    PROVE  <<a, b, c, d>> \o <<e>> \o <<f>>
           = <<a, b, c, d, e, f>>
<1> DEFINE S == {a, b, c, d, e, f}
           joined == <<a, b, c, d>> \o <<e>> \o <<f>>
           whole == <<a, b, c, d, e, f>>
<1>1. a \in S /\ b \in S /\ c \in S /\ d \in S /\ e \in S /\ f \in S
  OBVIOUS
<1> HIDE DEF S
<1>2. joined \in Seq(S) /\ whole \in Seq(S)
  BY <1>1
<1>3. Len(joined) = 6 /\ Len(whole) = 6
  BY <1>1
<1>4. \A x \in 1..6 : joined[x] = whole[x]
  BY <1>1
<1>5. QED
  BY <1>2, <1>3, <1>4, SeqEqual, Zenon

\* Concatenation, for programs like that.
LEMMA JoinReturn ==
    ASSUME NEW a, NEW b, NEW c, NEW d, NEW e, NEW f, NEW g, NEW h, NEW i, NEW j,
           NEW k, NEW l
    PROVE  <<a, b, c, d, e, f, g, h, i, j, k>> \o <<l>>
           = <<a, b, c, d, e, f, g, h, i, j, k, l>>
<1> DEFINE S == {a, b, c, d, e, f, g, h, i, j, k, l}
           joined == <<a, b, c, d, e, f, g, h, i, j, k>> \o <<l>>
           whole == <<a, b, c, d, e, f, g, h, i, j, k, l>>
<1>1. /\ a \in S /\ b \in S /\ c \in S /\ d \in S /\ e \in S /\ f \in S /\ g \in S
      /\ h \in S /\ i \in S /\ j \in S /\ k \in S /\ l \in S
  OBVIOUS
<1> HIDE DEF S
<1>2. joined \in Seq(S) /\ whole \in Seq(S)
  BY <1>1
<1>3. Len(joined) = 12 /\ Len(whole) = 12
  BY <1>1
<1>4. \A x \in 1..12 : joined[x] = whole[x]
  BY <1>1
<1>5. QED
  BY <1>2, <1>3, <1>4, SeqEqual, Zenon

\* Concatenation, for programs like that.
LEMMA JoinReport ==
    ASSUME NEW a, NEW b, NEW c, NEW d, NEW e, NEW f, NEW g, NEW h, NEW i, NEW j,
           NEW k, NEW l, NEW m, NEW n
    PROVE  <<a, b, c, d, e, f, g, h, i, j, k>> \o <<l, m, n>>
           = <<a, b, c, d, e, f, g, h, i, j, k, l, m, n>>
<1> DEFINE S == {a, b, c, d, e, f, g, h, i, j, k, l, m, n}
           joined == <<a, b, c, d, e, f, g, h, i, j, k>> \o <<l, m, n>>
           whole == <<a, b, c, d, e, f, g, h, i, j, k, l, m, n>>
<1>1. /\ a \in S /\ b \in S /\ c \in S /\ d \in S /\ e \in S /\ f \in S /\ g \in S
      /\ h \in S /\ i \in S /\ j \in S /\ k \in S /\ l \in S /\ m \in S /\ n \in S
  OBVIOUS
<1> HIDE DEF S
<1>2. joined \in Seq(S) /\ whole \in Seq(S)
  BY <1>1
<1>3. Len(joined) = 14 /\ Len(whole) = 14
  BY <1>1
<1>4. \A x \in 1..14 : joined[x] = whole[x]
  BY <1>1
<1>5. QED
  BY <1>2, <1>3, <1>4, SeqEqual, Zenon

\* Concatenation, for programs like that.
LEMMA JoinChecked ==
    ASSUME NEW a, NEW b, NEW c, NEW d, NEW e, NEW f, NEW g, NEW h
    PROVE  <<a, b>> \o <<>> \o <<c, d, e, f, g, h>>
           = <<a, b, c, d, e, f, g, h>>
<1> DEFINE S == {a, b, c, d, e, f, g, h}
           joined == <<a, b>> \o <<>> \o <<c, d, e, f, g, h>>
           whole == <<a, b, c, d, e, f, g, h>>
<1>1. a \in S /\ b \in S /\ c \in S /\ d \in S /\ e \in S /\ f \in S /\ g \in S /\ h \in S
  OBVIOUS
<1> HIDE DEF S
<1>2. joined \in Seq(S) /\ whole \in Seq(S)
  BY <1>1
<1>3. Len(joined) = 8 /\ Len(whole) = 8
  BY <1>1
<1>4. \A x \in 1..8 : joined[x] = whole[x]
  BY <1>1
<1>5. QED
  BY <1>2, <1>3, <1>4, SeqEqual, Zenon

\* Concatenation, for programs like that.
LEMMA JoinDebug ==
    ASSUME NEW a, NEW b, NEW c, NEW d, NEW e, NEW f, NEW g, NEW h, NEW i
    PROVE  <<a, b>> \o <<c>> \o <<d, e, f, g, h, i>>
           = <<a, b, c, d, e, f, g, h, i>>
<1> DEFINE S == {a, b, c, d, e, f, g, h, i}
           joined == <<a, b>> \o <<c>> \o <<d, e, f, g, h, i>>
           whole == <<a, b, c, d, e, f, g, h, i>>
<1>1. /\ a \in S /\ b \in S /\ c \in S /\ d \in S /\ e \in S /\ f \in S /\ g \in S
      /\ h \in S /\ i \in S
  OBVIOUS
<1> HIDE DEF S
<1>2. joined \in Seq(S) /\ whole \in Seq(S)
  BY <1>1
<1>3. Len(joined) = 9 /\ Len(whole) = 9
  BY <1>1
<1>4. \A x \in 1..9 : joined[x] = whole[x]
  BY <1>1
<1>5. QED
  BY <1>2, <1>3, <1>4, SeqEqual, Zenon

-----------------------------------------------------------------------------
(* What every program looks like.                                          *)

\* The instructions of InteractionServer.
LEMMA InteractionServerCode ==
    ASSUME NEW s, s = InteractionServer.code
    PROVE  /\ s = <<Accept, Recv, When("closed", 8), Terminate,
                    Says(END, 8), Send("received"), Goto(2), Return>>
           /\ CodeOk(s)
           /\ Tcp(s)
           /\ Serves(s)
           /\ Mute(s)
<1>1. s = <<Accept, Recv, When("closed", 8), Terminate, Says(END, 8),
            Send("received"), Goto(2), Return>>
  BY DEF InteractionServer
<1>2. /\ InstrOk(Accept, 8) /\ InstrOk(Recv, 8) /\ InstrOk(When("closed", 8), 8)
      /\ InstrOk(Terminate, 8) /\ InstrOk(Says(END, 8), 8) /\ InstrOk(Send("received"), 8)
      /\ InstrOk(Goto(2), 8) /\ InstrOk(Return, 8)
  BY InstrsOk, TextsOk DEF Whats
<1>3. Len(s) = 8 /\ \A j \in 1..8 : InstrOk(s[j], 8)
  BY <1>1, <1>2
<1>4. \A j \in 1..8 : s[j].op \notin {"Goto", "Return"} => j < 8
  BY <1>1, Instrs
<1>5. CodeOk(s)
  BY <1>3, <1>4 DEF CodeOk
<1>6. Tcp(s)
  BY <1>1, <1>3, Instrs DEF Tcp
<1>7. Serves(s)
  BY <1>1, <1>3, Instrs DEF Serves
<1>8. Mute(s)
  BY <1>1, <1>3, Instrs DEF Mute
<1>9. QED
  BY <1>1, <1>5, <1>6, <1>7, <1>8

\* The instructions of IterativeServer.
LEMMA IterativeServerCode ==
    ASSUME NEW s, s = IterativeServer.code
    PROVE  /\ s = <<Accept, RecvChar, When("closed", 8), Terminate,
                    Says(END, 8), Send("received"), Goto(2), CloseClient,
                    Goto(1)>>
           /\ CodeOk(s)
           /\ Tcp(s)
           /\ Serves(s)
           /\ Mute(s)
<1>1. s = <<Accept, RecvChar, When("closed", 8), Terminate, Says(END, 8),
            Send("received"), Goto(2), CloseClient, Goto(1)>>
  BY DEF IterativeServer
<1>2. /\ InstrOk(Accept, 9) /\ InstrOk(RecvChar, 9) /\ InstrOk(When("closed", 8), 9)
      /\ InstrOk(Terminate, 9) /\ InstrOk(Says(END, 8), 9) /\ InstrOk(Send("received"), 9)
      /\ InstrOk(Goto(2), 9) /\ InstrOk(CloseClient, 9) /\ InstrOk(Goto(1), 9)
  BY InstrsOk, TextsOk DEF Whats
<1>3. Len(s) = 9 /\ \A j \in 1..9 : InstrOk(s[j], 9)
  BY <1>1, <1>2
<1>4. \A j \in 1..9 : s[j].op \notin {"Goto", "Return"} => j < 9
  BY <1>1, Instrs
<1>5. CodeOk(s)
  BY <1>3, <1>4 DEF CodeOk
<1>6. Tcp(s)
  BY <1>1, <1>3, Instrs DEF Tcp
<1>7. Serves(s)
  BY <1>1, <1>3, Instrs DEF Serves
<1>8. Mute(s)
  BY <1>1, <1>3, Instrs DEF Mute
<1>9. QED
  BY <1>1, <1>5, <1>6, <1>7, <1>8

\* The instructions of TwoRequestServer.
LEMMA TwoRequestServerCode ==
    ASSUME NEW s, s = TwoRequestServer.code
    PROVE  /\ s = <<Accept, Recv, When("closed", 6), Send("string"),
                    Goto(2), Send("string"), Return>>
           /\ CodeOk(s)
           /\ Tcp(s)
           /\ Serves(s)
           /\ Mute(s)
<1>1. s = <<Accept, Recv, When("closed", 6), Send("string"), Goto(2),
            Send("string"), Return>>
  BY DEF TwoRequestServer
<1>2. /\ InstrOk(Accept, 7) /\ InstrOk(Recv, 7) /\ InstrOk(When("closed", 6), 7)
      /\ InstrOk(Send("string"), 7) /\ InstrOk(Goto(2), 7) /\ InstrOk(Return, 7)
  BY InstrsOk, TextsOk DEF Whats
<1>3. Len(s) = 7 /\ \A j \in 1..7 : InstrOk(s[j], 7)
  BY <1>1, <1>2
<1>4. \A j \in 1..7 : s[j].op \notin {"Goto", "Return"} => j < 7
  BY <1>1, Instrs
<1>5. CodeOk(s)
  BY <1>3, <1>4 DEF CodeOk
<1>6. Tcp(s)
  BY <1>1, <1>3, Instrs DEF Tcp
<1>7. Serves(s)
  BY <1>1, <1>3, Instrs DEF Serves
<1>8. Mute(s)
  BY <1>1, <1>3, Instrs DEF Mute
<1>9. QED
  BY <1>1, <1>5, <1>6, <1>7, <1>8

\* The instructions of OneWayServer.
LEMMA OneWayServerCode ==
    ASSUME NEW s, s = OneWayServer.code
    PROVE  /\ s = <<Accept, RecvChar, Terminate, Send("string"), Return>>
           /\ CodeOk(s)
           /\ Tcp(s)
           /\ Shape(s, 4)
           /\ Serves(s)
           /\ Mute(s)
<1>1. s = <<Accept, RecvChar, Terminate, Send("string"), Return>>
  BY DEF OneWayServer
<1>2. /\ InstrOk(Accept, 5) /\ InstrOk(RecvChar, 5) /\ InstrOk(Terminate, 5)
      /\ InstrOk(Send("string"), 5) /\ InstrOk(Return, 5)
  BY InstrsOk, TextsOk DEF Whats
<1>3. Len(s) = 5 /\ \A j \in 1..5 : InstrOk(s[j], 5)
  BY <1>1, <1>2
<1>4. \A j \in 1..5 : s[j].op \notin {"Goto", "Return"} => j < 5
  BY <1>1, Instrs
<1>5. CodeOk(s)
  BY <1>3, <1>4 DEF CodeOk
<1>6. Tcp(s)
  BY <1>1, <1>3, Instrs DEF Tcp
<1>7. Shape(s, 4)
  BY <1>1, <1>3, Instrs DEF Shape, Tests, Sends
<1>8. Serves(s)
  BY <1>1, <1>3, Instrs DEF Serves
<1>9. Mute(s)
  BY <1>1, <1>3, Instrs DEF Mute
<1>10. QED
  BY <1>1, <1>5, <1>6, <1>7, <1>8, <1>9

\* The instructions of SimpleServer5000.
LEMMA SimpleServer5000Code ==
    ASSUME NEW s, s = SimpleServer5000.code
    PROVE  /\ s = <<Accept, RecvChar, Terminate, Send("hello"), Return>>
           /\ CodeOk(s)
           /\ Tcp(s)
           /\ Shape(s, 4)
           /\ Serves(s)
           /\ Mute(s)
<1>a. s = <<Accept, RecvChar, Terminate, Send("hello")>>
           \o <<>>
           \o <<Return>>
  BY DEF SimpleServer5000, SimpleServer
<1>b. <<Accept, RecvChar, Terminate, Send("hello")>>
           \o <<>>
           \o <<Return>>
        = <<Accept, RecvChar, Terminate, Send("hello"), Return>>
  BY JoinNoPause
<1>1. s = <<Accept, RecvChar, Terminate, Send("hello"), Return>>
  BY <1>a, <1>b, Zenon
<1>2. /\ InstrOk(Accept, 5) /\ InstrOk(RecvChar, 5) /\ InstrOk(Terminate, 5)
      /\ InstrOk(Send("hello"), 5) /\ InstrOk(Return, 5)
  BY InstrsOk, TextsOk DEF Whats
<1>3. Len(s) = 5 /\ \A j \in 1..5 : InstrOk(s[j], 5)
  BY <1>1, <1>2
<1>4. \A j \in 1..5 : s[j].op \notin {"Goto", "Return"} => j < 5
  BY <1>1, Instrs
<1>5. CodeOk(s)
  BY <1>3, <1>4 DEF CodeOk
<1>6. Tcp(s)
  BY <1>1, <1>3, Instrs DEF Tcp
<1>7. Shape(s, 4)
  BY <1>1, <1>3, Instrs DEF Shape, Tests, Sends
<1>8. Serves(s)
  BY <1>1, <1>3, Instrs DEF Serves
<1>9. Mute(s)
  BY <1>1, <1>3, Instrs DEF Mute
<1>10. QED
  BY <1>1, <1>5, <1>6, <1>7, <1>8, <1>9

\* The instructions of SimpleServer5001.
LEMMA SimpleServer5001Code ==
    ASSUME NEW s, s = SimpleServer5001.code
    PROVE  /\ s = <<Accept, RecvChar, Terminate, Send("hello"), Return>>
           /\ CodeOk(s)
           /\ Tcp(s)
           /\ Shape(s, 4)
           /\ Serves(s)
           /\ Mute(s)
<1>a. s = <<Accept, RecvChar, Terminate, Send("hello")>>
           \o <<>>
           \o <<Return>>
  BY DEF SimpleServer5001, SimpleServer
<1>b. <<Accept, RecvChar, Terminate, Send("hello")>>
           \o <<>>
           \o <<Return>>
        = <<Accept, RecvChar, Terminate, Send("hello"), Return>>
  BY JoinNoPause
<1>1. s = <<Accept, RecvChar, Terminate, Send("hello"), Return>>
  BY <1>a, <1>b, Zenon
<1>2. /\ InstrOk(Accept, 5) /\ InstrOk(RecvChar, 5) /\ InstrOk(Terminate, 5)
      /\ InstrOk(Send("hello"), 5) /\ InstrOk(Return, 5)
  BY InstrsOk, TextsOk DEF Whats
<1>3. Len(s) = 5 /\ \A j \in 1..5 : InstrOk(s[j], 5)
  BY <1>1, <1>2
<1>4. \A j \in 1..5 : s[j].op \notin {"Goto", "Return"} => j < 5
  BY <1>1, Instrs
<1>5. CodeOk(s)
  BY <1>3, <1>4 DEF CodeOk
<1>6. Tcp(s)
  BY <1>1, <1>3, Instrs DEF Tcp
<1>7. Shape(s, 4)
  BY <1>1, <1>3, Instrs DEF Shape, Tests, Sends
<1>8. Serves(s)
  BY <1>1, <1>3, Instrs DEF Serves
<1>9. Mute(s)
  BY <1>1, <1>3, Instrs DEF Mute
<1>10. QED
  BY <1>1, <1>5, <1>6, <1>7, <1>8, <1>9

\* The instructions of SimpleServerPause.
LEMMA SimpleServerPauseCode ==
    ASSUME NEW s, s = SimpleServerPause.code
    PROVE  /\ s = <<Accept, RecvChar, Terminate, Send("hello"), Sleep(8),
                    Return>>
           /\ CodeOk(s)
           /\ Tcp(s)
           /\ Shape(s, 4)
           /\ Serves(s)
           /\ Mute(s)
<1>a. s = <<Accept, RecvChar, Terminate, Send("hello")>>
           \o <<Sleep(8)>>
           \o <<Return>>
  BY DEF SimpleServerPause, SimpleServer
<1>b. <<Accept, RecvChar, Terminate, Send("hello")>>
           \o <<Sleep(8)>>
           \o <<Return>>
        = <<Accept, RecvChar, Terminate, Send("hello"), Sleep(8), Return>>
  BY JoinPause
<1>1. s = <<Accept, RecvChar, Terminate, Send("hello"), Sleep(8), Return>>
  BY <1>a, <1>b, Zenon
<1>2. /\ InstrOk(Accept, 6) /\ InstrOk(RecvChar, 6) /\ InstrOk(Terminate, 6)
      /\ InstrOk(Send("hello"), 6) /\ InstrOk(Sleep(8), 6) /\ InstrOk(Return, 6)
  BY InstrsOk, TextsOk DEF Whats
<1>3. Len(s) = 6 /\ \A j \in 1..6 : InstrOk(s[j], 6)
  BY <1>1, <1>2
<1>4. \A j \in 1..6 : s[j].op \notin {"Goto", "Return"} => j < 6
  BY <1>1, Instrs
<1>5. CodeOk(s)
  BY <1>3, <1>4 DEF CodeOk
<1>6. Tcp(s)
  BY <1>1, <1>3, Instrs DEF Tcp
<1>7. Shape(s, 4)
  BY <1>1, <1>3, Instrs DEF Shape, Tests, Sends
<1>8. Serves(s)
  BY <1>1, <1>3, Instrs DEF Serves
<1>9. Mute(s)
  BY <1>1, <1>3, Instrs DEF Mute
<1>10. QED
  BY <1>1, <1>5, <1>6, <1>7, <1>8, <1>9

\* The instructions of SleepServer15.
LEMMA SleepServer15Code ==
    ASSUME NEW s, s = SleepServer15.code
    PROVE  /\ s = <<Accept, Recv, When("closed", 7), Terminate, Sleep(15),
                    Fixed(HelloS), Return>>
           /\ CodeOk(s)
           /\ Tcp(s)
           /\ Shape(s, 6)
           /\ Serves(s)
           /\ Mute(s)
<1>1. s = <<Accept, Recv, When("closed", 7), Terminate, Sleep(15),
            Fixed(HelloS), Return>>
  BY DEF SleepServer15, SleepServer
<1>2. /\ InstrOk(Accept, 7) /\ InstrOk(Recv, 7) /\ InstrOk(When("closed", 7), 7)
      /\ InstrOk(Terminate, 7) /\ InstrOk(Sleep(15), 7) /\ InstrOk(Fixed(HelloS), 7)
      /\ InstrOk(Return, 7)
  BY InstrsOk, TextsOk DEF Whats
<1>3. Len(s) = 7 /\ \A j \in 1..7 : InstrOk(s[j], 7)
  BY <1>1, <1>2
<1>4. \A j \in 1..7 : s[j].op \notin {"Goto", "Return"} => j < 7
  BY <1>1, Instrs
<1>5. CodeOk(s)
  BY <1>3, <1>4 DEF CodeOk
<1>6. Tcp(s)
  BY <1>1, <1>3, Instrs DEF Tcp
<1>7. Shape(s, 6)
  BY <1>1, <1>3, Instrs DEF Shape, Tests, Sends
<1>8. Serves(s)
  BY <1>1, <1>3, Instrs DEF Serves
<1>9. Mute(s)
  BY <1>1, <1>3, Instrs DEF Mute
<1>10. QED
  BY <1>1, <1>5, <1>6, <1>7, <1>8, <1>9

\* The instructions of SleepServer2.
LEMMA SleepServer2Code ==
    ASSUME NEW s, s = SleepServer2.code
    PROVE  /\ s = <<Accept, Recv, When("closed", 7), Terminate, Sleep(2),
                    Fixed(HelloS), Return>>
           /\ CodeOk(s)
           /\ Tcp(s)
           /\ Shape(s, 6)
           /\ Serves(s)
           /\ Mute(s)
<1>1. s = <<Accept, Recv, When("closed", 7), Terminate, Sleep(2),
            Fixed(HelloS), Return>>
  BY DEF SleepServer2, SleepServer
<1>2. /\ InstrOk(Accept, 7) /\ InstrOk(Recv, 7) /\ InstrOk(When("closed", 7), 7)
      /\ InstrOk(Terminate, 7) /\ InstrOk(Sleep(2), 7) /\ InstrOk(Fixed(HelloS), 7)
      /\ InstrOk(Return, 7)
  BY InstrsOk, TextsOk DEF Whats
<1>3. Len(s) = 7 /\ \A j \in 1..7 : InstrOk(s[j], 7)
  BY <1>1, <1>2
<1>4. \A j \in 1..7 : s[j].op \notin {"Goto", "Return"} => j < 7
  BY <1>1, Instrs
<1>5. CodeOk(s)
  BY <1>3, <1>4 DEF CodeOk
<1>6. Tcp(s)
  BY <1>1, <1>3, Instrs DEF Tcp
<1>7. Shape(s, 6)
  BY <1>1, <1>3, Instrs DEF Shape, Tests, Sends
<1>8. Serves(s)
  BY <1>1, <1>3, Instrs DEF Serves
<1>9. Mute(s)
  BY <1>1, <1>3, Instrs DEF Mute
<1>10. QED
  BY <1>1, <1>5, <1>6, <1>7, <1>8, <1>9

\* The instructions of SleepServer4.
LEMMA SleepServer4Code ==
    ASSUME NEW s, s = SleepServer4.code
    PROVE  /\ s = <<Accept, Recv, When("closed", 7), Terminate, Sleep(4),
                    Fixed(HelloS), Return>>
           /\ CodeOk(s)
           /\ Tcp(s)
           /\ Shape(s, 6)
           /\ Serves(s)
           /\ Mute(s)
<1>1. s = <<Accept, Recv, When("closed", 7), Terminate, Sleep(4),
            Fixed(HelloS), Return>>
  BY DEF SleepServer4, SleepServer
<1>2. /\ InstrOk(Accept, 7) /\ InstrOk(Recv, 7) /\ InstrOk(When("closed", 7), 7)
      /\ InstrOk(Terminate, 7) /\ InstrOk(Sleep(4), 7) /\ InstrOk(Fixed(HelloS), 7)
      /\ InstrOk(Return, 7)
  BY InstrsOk, TextsOk DEF Whats
<1>3. Len(s) = 7 /\ \A j \in 1..7 : InstrOk(s[j], 7)
  BY <1>1, <1>2
<1>4. \A j \in 1..7 : s[j].op \notin {"Goto", "Return"} => j < 7
  BY <1>1, Instrs
<1>5. CodeOk(s)
  BY <1>3, <1>4 DEF CodeOk
<1>6. Tcp(s)
  BY <1>1, <1>3, Instrs DEF Tcp
<1>7. Shape(s, 6)
  BY <1>1, <1>3, Instrs DEF Shape, Tests, Sends
<1>8. Serves(s)
  BY <1>1, <1>3, Instrs DEF Serves
<1>9. Mute(s)
  BY <1>1, <1>3, Instrs DEF Mute
<1>10. QED
  BY <1>1, <1>5, <1>6, <1>7, <1>8, <1>9

\* The instructions of SleepServer8.
LEMMA SleepServer8Code ==
    ASSUME NEW s, s = SleepServer8.code
    PROVE  /\ s = <<Accept, Recv, When("closed", 7), Terminate, Sleep(8),
                    Fixed(HelloS), Return>>
           /\ CodeOk(s)
           /\ Tcp(s)
           /\ Shape(s, 6)
           /\ Serves(s)
           /\ Mute(s)
<1>1. s = <<Accept, Recv, When("closed", 7), Terminate, Sleep(8),
            Fixed(HelloS), Return>>
  BY DEF SleepServer8, SleepServer
<1>2. /\ InstrOk(Accept, 7) /\ InstrOk(Recv, 7) /\ InstrOk(When("closed", 7), 7)
      /\ InstrOk(Terminate, 7) /\ InstrOk(Sleep(8), 7) /\ InstrOk(Fixed(HelloS), 7)
      /\ InstrOk(Return, 7)
  BY InstrsOk, TextsOk DEF Whats
<1>3. Len(s) = 7 /\ \A j \in 1..7 : InstrOk(s[j], 7)
  BY <1>1, <1>2
<1>4. \A j \in 1..7 : s[j].op \notin {"Goto", "Return"} => j < 7
  BY <1>1, Instrs
<1>5. CodeOk(s)
  BY <1>3, <1>4 DEF CodeOk
<1>6. Tcp(s)
  BY <1>1, <1>3, Instrs DEF Tcp
<1>7. Shape(s, 6)
  BY <1>1, <1>3, Instrs DEF Shape, Tests, Sends
<1>8. Serves(s)
  BY <1>1, <1>3, Instrs DEF Serves
<1>9. Mute(s)
  BY <1>1, <1>3, Instrs DEF Mute
<1>10. QED
  BY <1>1, <1>5, <1>6, <1>7, <1>8, <1>9

\* The instructions of UpperServer.
LEMMA UpperServerCode ==
    ASSUME NEW s, s = UpperServer.code
    PROVE  /\ s = <<Accept, Recv, Terminate, Send("upper"), Return>>
           /\ CodeOk(s)
           /\ Tcp(s)
           /\ Shape(s, 4)
           /\ Serves(s)
           /\ Mute(s)
<1>1. s = <<Accept, Recv, Terminate, Send("upper"), Return>>
  BY DEF UpperServer
<1>2. /\ InstrOk(Accept, 5) /\ InstrOk(Recv, 5) /\ InstrOk(Terminate, 5)
      /\ InstrOk(Send("upper"), 5) /\ InstrOk(Return, 5)
  BY InstrsOk, TextsOk DEF Whats
<1>3. Len(s) = 5 /\ \A j \in 1..5 : InstrOk(s[j], 5)
  BY <1>1, <1>2
<1>4. \A j \in 1..5 : s[j].op \notin {"Goto", "Return"} => j < 5
  BY <1>1, Instrs
<1>5. CodeOk(s)
  BY <1>3, <1>4 DEF CodeOk
<1>6. Tcp(s)
  BY <1>1, <1>3, Instrs DEF Tcp
<1>7. Shape(s, 4)
  BY <1>1, <1>3, Instrs DEF Shape, Tests, Sends
<1>8. Serves(s)
  BY <1>1, <1>3, Instrs DEF Serves
<1>9. Mute(s)
  BY <1>1, <1>3, Instrs DEF Mute
<1>10. QED
  BY <1>1, <1>5, <1>6, <1>7, <1>8, <1>9

\* The instructions of DebugServer.
LEMMA DebugServerCode ==
    ASSUME NEW s, s = DebugServer.code
    PROVE  /\ s = <<Accept, Recv, When("failed", 6), Terminate,
                    Send("upper"), Return>>
           /\ CodeOk(s)
           /\ Tcp(s)
           /\ Shape(s, 5)
           /\ Serves(s)
           /\ Mute(s)
<1>1. s = <<Accept, Recv, When("failed", 6), Terminate, Send("upper"),
            Return>>
  BY DEF DebugServer
<1>2. /\ InstrOk(Accept, 6) /\ InstrOk(Recv, 6) /\ InstrOk(When("failed", 6), 6)
      /\ InstrOk(Terminate, 6) /\ InstrOk(Send("upper"), 6) /\ InstrOk(Return, 6)
  BY InstrsOk, TextsOk DEF Whats
<1>3. Len(s) = 6 /\ \A j \in 1..6 : InstrOk(s[j], 6)
  BY <1>1, <1>2
<1>4. \A j \in 1..6 : s[j].op \notin {"Goto", "Return"} => j < 6
  BY <1>1, Instrs
<1>5. CodeOk(s)
  BY <1>3, <1>4 DEF CodeOk
<1>6. Tcp(s)
  BY <1>1, <1>3, Instrs DEF Tcp
<1>7. Shape(s, 5)
  BY <1>1, <1>3, Instrs DEF Shape, Tests, Sends
<1>8. Serves(s)
  BY <1>1, <1>3, Instrs DEF Serves
<1>9. Mute(s)
  BY <1>1, <1>3, Instrs DEF Mute
<1>10. QED
  BY <1>1, <1>5, <1>6, <1>7, <1>8, <1>9

\* The instructions of TimeServer.
LEMMA TimeServerCode ==
    ASSUME NEW s, s = TimeServer.code
    PROVE  /\ s = <<Accept, CloseClient, Sleep(1), Goto(1)>>
           /\ CodeOk(s)
           /\ Tcp(s)
           /\ Shape(s, 0)
           /\ Serves(s)
           /\ Mute(s)
<1>1. s = <<Accept, CloseClient, Sleep(1), Goto(1)>>
  BY DEF TimeServer
<1>2. /\ InstrOk(Accept, 4) /\ InstrOk(CloseClient, 4) /\ InstrOk(Sleep(1), 4)
      /\ InstrOk(Goto(1), 4)
  BY InstrsOk, TextsOk DEF Whats
<1>3. Len(s) = 4 /\ \A j \in 1..4 : InstrOk(s[j], 4)
  BY <1>1, <1>2
<1>4. \A j \in 1..4 : s[j].op \notin {"Goto", "Return"} => j < 4
  BY <1>1, Instrs
<1>5. CodeOk(s)
  BY <1>3, <1>4 DEF CodeOk
<1>6. Tcp(s)
  BY <1>1, <1>3, Instrs DEF Tcp
<1>7. Shape(s, 0)
  BY <1>1, <1>3, Instrs DEF Shape, Tests, Sends
<1>8. Serves(s)
  BY <1>1, <1>3, Instrs DEF Serves
<1>9. Mute(s)
  BY <1>1, <1>3, Instrs DEF Mute
<1>10. QED
  BY <1>1, <1>5, <1>6, <1>7, <1>8, <1>9

\* The instructions of ChatServer.
LEMMA ChatServerCode ==
    ASSUME NEW s, s = ChatServer.code
    PROVE  /\ s = <<Accept, Sleep(2), Recv, When("failed", 12), Terminate,
                    Says(Bye, 12), Gets, Send("line"), When("failed", 12),
                    Typed(Bye, 12), Goto(2), Return>>
           /\ CodeOk(s)
           /\ Tcp(s)
           /\ Serves(s)
           /\ Mute(s)
<1>1. s = <<Accept, Sleep(2), Recv, When("failed", 12), Terminate,
            Says(Bye, 12), Gets, Send("line"), When("failed", 12),
            Typed(Bye, 12), Goto(2), Return>>
  BY DEF ChatServer
<1>2. /\ InstrOk(Accept, 12) /\ InstrOk(Sleep(2), 12) /\ InstrOk(Recv, 12)
      /\ InstrOk(When("failed", 12), 12) /\ InstrOk(Terminate, 12)
      /\ InstrOk(Says(Bye, 12), 12)
      /\ InstrOk(Gets, 12) /\ InstrOk(Send("line"), 12) /\ InstrOk(Typed(Bye, 12), 12)
      /\ InstrOk(Goto(2), 12) /\ InstrOk(Return, 12)
  BY InstrsOk, TextsOk DEF Whats
<1>3. Len(s) = 12 /\ \A j \in 1..12 : InstrOk(s[j], 12)
  BY <1>1, <1>2
<1>4. \A j \in 1..12 : s[j].op \notin {"Goto", "Return"} => j < 12
  BY <1>1, Instrs
<1>5. CodeOk(s)
  BY <1>3, <1>4 DEF CodeOk
<1>6. Tcp(s)
  BY <1>1, <1>3, Instrs DEF Tcp
<1>7. Serves(s)
  BY <1>1, <1>3, Instrs DEF Serves
<1>8. Mute(s)
  BY <1>1, <1>3, Instrs DEF Mute
<1>9. QED
  BY <1>1, <1>5, <1>6, <1>7, <1>8

\* The instructions of ExitServer.
LEMMA ExitServerCode ==
    ASSUME NEW s, s = ExitServer.code
    PROVE  /\ s = <<Accept, Recv, Says(Exit, 5), Goto(2), Return>>
           /\ CodeOk(s)
           /\ Tcp(s)
           /\ Shape(s, 0)
           /\ Serves(s)
           /\ Mute(s)
<1>1. s = <<Accept, Recv, Says(Exit, 5), Goto(2), Return>>
  BY DEF ExitServer
<1>2. /\ InstrOk(Accept, 5) /\ InstrOk(Recv, 5) /\ InstrOk(Says(Exit, 5), 5)
      /\ InstrOk(Goto(2), 5) /\ InstrOk(Return, 5)
  BY InstrsOk, TextsOk DEF Whats
<1>3. Len(s) = 5 /\ \A j \in 1..5 : InstrOk(s[j], 5)
  BY <1>1, <1>2
<1>4. \A j \in 1..5 : s[j].op \notin {"Goto", "Return"} => j < 5
  BY <1>1, Instrs
<1>5. CodeOk(s)
  BY <1>3, <1>4 DEF CodeOk
<1>6. Tcp(s)
  BY <1>1, <1>3, Instrs DEF Tcp
<1>7. Shape(s, 0)
  BY <1>1, <1>3, Instrs DEF Shape, Tests, Sends
<1>8. Serves(s)
  BY <1>1, <1>3, Instrs DEF Serves
<1>9. Mute(s)
  BY <1>1, <1>3, Instrs DEF Mute
<1>10. QED
  BY <1>1, <1>5, <1>6, <1>7, <1>8, <1>9

\* The instructions of UdpServer1.
LEMMA UdpServer1Code ==
    ASSUME NEW s, s = UdpServer1.code
    PROVE  /\ s = <<RecvFrom, SendTo("uppered"), Sleep(3), Return>>
           /\ CodeOk(s)
           /\ Serves(s)
           /\ Mute(s)
<1>1. s = <<RecvFrom, SendTo("uppered"), Sleep(3), Return>>
  BY DEF UdpServer1
<1>2. /\ InstrOk(RecvFrom, 4) /\ InstrOk(SendTo("uppered"), 4) /\ InstrOk(Sleep(3), 4)
      /\ InstrOk(Return, 4)
  BY InstrsOk, TextsOk DEF Whats
<1>3. Len(s) = 4 /\ \A j \in 1..4 : InstrOk(s[j], 4)
  BY <1>1, <1>2
<1>4. \A j \in 1..4 : s[j].op \notin {"Goto", "Return"} => j < 4
  BY <1>1, Instrs
<1>5. CodeOk(s)
  BY <1>3, <1>4 DEF CodeOk
<1>6. Serves(s)
  BY <1>1, <1>3, Instrs DEF Serves
<1>7. Mute(s)
  BY <1>1, <1>3, Instrs DEF Mute
<1>8. QED
  BY <1>1, <1>5, <1>6, <1>7

\* The instructions of UdpServer2.
LEMMA UdpServer2Code ==
    ASSUME NEW s, s = UdpServer2.code
    PROVE  /\ s = <<RecvFrom, SendTo("uppered"), Goto(1)>>
           /\ CodeOk(s)
           /\ Serves(s)
           /\ Mute(s)
<1>1. s = <<RecvFrom, SendTo("uppered"), Goto(1)>>
  BY DEF UdpServer2
<1>2. /\ InstrOk(RecvFrom, 3) /\ InstrOk(SendTo("uppered"), 3) /\ InstrOk(Goto(1), 3)
  BY InstrsOk, TextsOk DEF Whats
<1>3. Len(s) = 3 /\ \A j \in 1..3 : InstrOk(s[j], 3)
  BY <1>1, <1>2
<1>4. \A j \in 1..3 : s[j].op \notin {"Goto", "Return"} => j < 3
  BY <1>1, Instrs
<1>5. CodeOk(s)
  BY <1>3, <1>4 DEF CodeOk
<1>6. Serves(s)
  BY <1>1, <1>3, Instrs DEF Serves
<1>7. Mute(s)
  BY <1>1, <1>3, Instrs DEF Mute
<1>8. QED
  BY <1>1, <1>5, <1>6, <1>7

\* The instructions of EngineL1.
LEMMA EngineL1Code ==
    ASSUME NEW s, s = EngineL1.code
    PROVE  /\ s = <<Accept, Recv, Terminate, Fixed(Block("rnd", 1)), Fresh,
                    Recv, Show("verdict"), Return>>
           /\ CodeOk(s)
           /\ Tcp(s)
           /\ Shape(s, 4)
           /\ Serves(s)
<1>1. s = <<Accept, Recv, Terminate, Fixed(Block("rnd", 1)), Fresh, Recv,
            Show("verdict"), Return>>
  BY DEF EngineL1
<1>2. /\ InstrOk(Accept, 8) /\ InstrOk(Recv, 8) /\ InstrOk(Terminate, 8)
      /\ InstrOk(Fixed(Block("rnd", 1)), 8) /\ InstrOk(Fresh, 8)
      /\ InstrOk(Show("verdict"), 8)
      /\ InstrOk(Return, 8)
  BY InstrsOk, TextsOk DEF Whats
<1>3. Len(s) = 8 /\ \A j \in 1..8 : InstrOk(s[j], 8)
  BY <1>1, <1>2
<1>4. \A j \in 1..8 : s[j].op \notin {"Goto", "Return"} => j < 8
  BY <1>1, Instrs
<1>5. CodeOk(s)
  BY <1>3, <1>4 DEF CodeOk
<1>6. Tcp(s)
  BY <1>1, <1>3, Instrs DEF Tcp
<1>7. Shape(s, 4)
  BY <1>1, <1>3, Instrs DEF Shape, Tests, Sends
<1>8. Serves(s)
  BY <1>1, <1>3, Instrs DEF Serves
<1>9. QED
  BY <1>1, <1>5, <1>6, <1>7, <1>8

\* The instructions of InteractionClient.
LEMMA InteractionClientCode ==
    ASSUME NEW s, s = InteractionClient.code
    PROVE  /\ s = <<Connect, Fixed(Moksha), Recv, Terminate, Fixed(END),
                    Recv, Terminate, Return>>
           /\ CodeOk(s)
           /\ Tcp(s)
           /\ Asks(s)
<1>a. s = <<Connect>>
           \o <<Fixed(Moksha), Recv, Terminate>>
           \o <<Fixed(END), Recv, Terminate>>
           \o <<Return>>
  BY DEF InteractionClient, Ask
<1>b. <<Connect>>
           \o <<Fixed(Moksha), Recv, Terminate>>
           \o <<Fixed(END), Recv, Terminate>>
           \o <<Return>>
        = <<Connect, Fixed(Moksha), Recv, Terminate, Fixed(END), Recv,
            Terminate, Return>>
  BY JoinTwoRequests
<1>1. s = <<Connect, Fixed(Moksha), Recv, Terminate, Fixed(END), Recv,
            Terminate, Return>>
  BY <1>a, <1>b, Zenon
<1>2. /\ InstrOk(Connect, 8) /\ InstrOk(Fixed(Moksha), 8) /\ InstrOk(Recv, 8)
      /\ InstrOk(Terminate, 8) /\ InstrOk(Fixed(END), 8) /\ InstrOk(Return, 8)
  BY InstrsOk, TextsOk DEF Whats
<1>3. Len(s) = 8 /\ \A j \in 1..8 : InstrOk(s[j], 8)
  BY <1>1, <1>2
<1>4. \A j \in 1..8 : s[j].op \notin {"Goto", "Return"} => j < 8
  BY <1>1, Instrs
<1>5. CodeOk(s)
  BY <1>3, <1>4 DEF CodeOk
<1>6. Tcp(s)
  BY <1>1, <1>3, Instrs DEF Tcp
<1>7. Asks(s)
  BY <1>1, <1>3, Instrs DEF Asks
<1>8. QED
  BY <1>1, <1>5, <1>6, <1>7

\* The instructions of IterativeClient.
LEMMA IterativeClientCode ==
    ASSUME NEW s, s = IterativeClient.code
    PROVE  /\ s = <<Connect, Fixed(Moksha), Recv, Terminate, Fixed(Yagna),
                    Recv, Terminate, Fixed(Sweety), Recv, Terminate,
                    Fixed(END), Return>>
           /\ CodeOk(s)
           /\ Tcp(s)
           /\ Asks(s)
<1>a. s = <<Connect>>
           \o <<Fixed(Moksha), Recv, Terminate>>
           \o <<Fixed(Yagna), Recv, Terminate>>
           \o <<Fixed(Sweety), Recv, Terminate>>
           \o <<Fixed(END), Return>>
  BY DEF IterativeClient, Ask
<1>b. <<Connect>>
           \o <<Fixed(Moksha), Recv, Terminate>>
           \o <<Fixed(Yagna), Recv, Terminate>>
           \o <<Fixed(Sweety), Recv, Terminate>>
           \o <<Fixed(END), Return>>
        = <<Connect, Fixed(Moksha), Recv, Terminate, Fixed(Yagna), Recv,
            Terminate, Fixed(Sweety), Recv, Terminate, Fixed(END), Return>>
  BY JoinFourRequests
<1>1. s = <<Connect, Fixed(Moksha), Recv, Terminate, Fixed(Yagna), Recv,
            Terminate, Fixed(Sweety), Recv, Terminate, Fixed(END), Return>>
  BY <1>a, <1>b, Zenon
<1>2. /\ InstrOk(Connect, 12) /\ InstrOk(Fixed(Moksha), 12) /\ InstrOk(Recv, 12)
      /\ InstrOk(Terminate, 12) /\ InstrOk(Fixed(Yagna), 12) /\ InstrOk(Fixed(Sweety), 12)
      /\ InstrOk(Fixed(END), 12) /\ InstrOk(Return, 12)
  BY InstrsOk, TextsOk DEF Whats
<1>3. Len(s) = 12 /\ \A j \in 1..12 : InstrOk(s[j], 12)
  BY <1>1, <1>2
<1>4. \A j \in 1..12 : s[j].op \notin {"Goto", "Return"} => j < 12
  BY <1>1, Instrs
<1>5. CodeOk(s)
  BY <1>3, <1>4 DEF CodeOk
<1>6. Tcp(s)
  BY <1>1, <1>3, Instrs DEF Tcp
<1>7. Asks(s)
  BY <1>1, <1>3, Instrs DEF Asks
<1>8. QED
  BY <1>1, <1>5, <1>6, <1>7

\* The instructions of LongClient.
LEMMA LongClientCode ==
    ASSUME NEW s, s = LongClient.code
    PROVE  /\ s = <<Connect, Fixed(Long), Recv, Terminate, Return>>
           /\ CodeOk(s)
           /\ Tcp(s)
           /\ Shape(s, 2)
           /\ Asks(s)
<1>a. s = <<Connect>>
           \o <<Fixed(Long), Recv, Terminate>>
           \o <<Return>>
  BY DEF LongClient, Ask
<1>b. <<Connect>>
           \o <<Fixed(Long), Recv, Terminate>>
           \o <<Return>>
        = <<Connect, Fixed(Long), Recv, Terminate, Return>>
  BY JoinRequest
<1>1. s = <<Connect, Fixed(Long), Recv, Terminate, Return>>
  BY <1>a, <1>b, Zenon
<1>2. /\ InstrOk(Connect, 5) /\ InstrOk(Fixed(Long), 5) /\ InstrOk(Recv, 5)
      /\ InstrOk(Terminate, 5) /\ InstrOk(Return, 5)
  BY InstrsOk, TextsOk DEF Whats
<1>3. Len(s) = 5 /\ \A j \in 1..5 : InstrOk(s[j], 5)
  BY <1>1, <1>2
<1>4. \A j \in 1..5 : s[j].op \notin {"Goto", "Return"} => j < 5
  BY <1>1, Instrs
<1>5. CodeOk(s)
  BY <1>3, <1>4 DEF CodeOk
<1>6. Tcp(s)
  BY <1>1, <1>3, Instrs DEF Tcp
<1>7. Shape(s, 2)
  BY <1>1, <1>3, Instrs DEF Shape, Tests, Sends
<1>8. Asks(s)
  BY <1>1, <1>3, Instrs DEF Asks
<1>9. QED
  BY <1>1, <1>5, <1>6, <1>7, <1>8

\* The instructions of LongerClient.
LEMMA LongerClientCode ==
    ASSUME NEW s, s = LongerClient.code
    PROVE  /\ s = <<Connect, Fixed(Longer), Recv, Terminate, Return>>
           /\ CodeOk(s)
           /\ Tcp(s)
           /\ Shape(s, 2)
           /\ Asks(s)
<1>a. s = <<Connect>>
           \o <<Fixed(Longer), Recv, Terminate>>
           \o <<Return>>
  BY DEF LongerClient, Ask
<1>b. <<Connect>>
           \o <<Fixed(Longer), Recv, Terminate>>
           \o <<Return>>
        = <<Connect, Fixed(Longer), Recv, Terminate, Return>>
  BY JoinRequest
<1>1. s = <<Connect, Fixed(Longer), Recv, Terminate, Return>>
  BY <1>a, <1>b, Zenon
<1>2. /\ InstrOk(Connect, 5) /\ InstrOk(Fixed(Longer), 5) /\ InstrOk(Recv, 5)
      /\ InstrOk(Terminate, 5) /\ InstrOk(Return, 5)
  BY InstrsOk, TextsOk DEF Whats
<1>3. Len(s) = 5 /\ \A j \in 1..5 : InstrOk(s[j], 5)
  BY <1>1, <1>2
<1>4. \A j \in 1..5 : s[j].op \notin {"Goto", "Return"} => j < 5
  BY <1>1, Instrs
<1>5. CodeOk(s)
  BY <1>3, <1>4 DEF CodeOk
<1>6. Tcp(s)
  BY <1>1, <1>3, Instrs DEF Tcp
<1>7. Shape(s, 2)
  BY <1>1, <1>3, Instrs DEF Shape, Tests, Sends
<1>8. Asks(s)
  BY <1>1, <1>3, Instrs DEF Asks
<1>9. QED
  BY <1>1, <1>5, <1>6, <1>7, <1>8

\* The instructions of TwoRequestClient.
LEMMA TwoRequestClientCode ==
    ASSUME NEW s, s = TwoRequestClient.code
    PROVE  /\ s = <<Connect, Fixed(Moksha), Recv, Terminate, Fixed(Yagna),
                    Recv, Terminate, Return>>
           /\ CodeOk(s)
           /\ Tcp(s)
           /\ Asks(s)
<1>a. s = <<Connect>>
           \o <<Fixed(Moksha), Recv, Terminate>>
           \o <<Fixed(Yagna), Recv, Terminate>>
           \o <<Return>>
  BY DEF TwoRequestClient, Ask
<1>b. <<Connect>>
           \o <<Fixed(Moksha), Recv, Terminate>>
           \o <<Fixed(Yagna), Recv, Terminate>>
           \o <<Return>>
        = <<Connect, Fixed(Moksha), Recv, Terminate, Fixed(Yagna), Recv,
            Terminate, Return>>
  BY JoinTwoRequests
<1>1. s = <<Connect, Fixed(Moksha), Recv, Terminate, Fixed(Yagna), Recv,
            Terminate, Return>>
  BY <1>a, <1>b, Zenon
<1>2. /\ InstrOk(Connect, 8) /\ InstrOk(Fixed(Moksha), 8) /\ InstrOk(Recv, 8)
      /\ InstrOk(Terminate, 8) /\ InstrOk(Fixed(Yagna), 8) /\ InstrOk(Return, 8)
  BY InstrsOk, TextsOk DEF Whats
<1>3. Len(s) = 8 /\ \A j \in 1..8 : InstrOk(s[j], 8)
  BY <1>1, <1>2
<1>4. \A j \in 1..8 : s[j].op \notin {"Goto", "Return"} => j < 8
  BY <1>1, Instrs
<1>5. CodeOk(s)
  BY <1>3, <1>4 DEF CodeOk
<1>6. Tcp(s)
  BY <1>1, <1>3, Instrs DEF Tcp
<1>7. Asks(s)
  BY <1>1, <1>3, Instrs DEF Asks
<1>8. QED
  BY <1>1, <1>5, <1>6, <1>7

\* The instructions of SimpleClient5000.
LEMMA SimpleClient5000Code ==
    ASSUME NEW s, s = SimpleClient5000.code
    PROVE  /\ s = <<Connect, Fixed(HelloC), Recv, Terminate, Return>>
           /\ CodeOk(s)
           /\ Tcp(s)
           /\ Shape(s, 2)
           /\ Asks(s)
<1>a. s = <<Connect>>
           \o <<Fixed(HelloC), Recv, Terminate>>
           \o <<Return>>
  BY DEF SimpleClient5000, SimpleClient, Ask
<1>b. <<Connect>>
           \o <<Fixed(HelloC), Recv, Terminate>>
           \o <<Return>>
        = <<Connect, Fixed(HelloC), Recv, Terminate, Return>>
  BY JoinRequest
<1>1. s = <<Connect, Fixed(HelloC), Recv, Terminate, Return>>
  BY <1>a, <1>b, Zenon
<1>2. /\ InstrOk(Connect, 5) /\ InstrOk(Fixed(HelloC), 5) /\ InstrOk(Recv, 5)
      /\ InstrOk(Terminate, 5) /\ InstrOk(Return, 5)
  BY InstrsOk, TextsOk DEF Whats
<1>3. Len(s) = 5 /\ \A j \in 1..5 : InstrOk(s[j], 5)
  BY <1>1, <1>2
<1>4. \A j \in 1..5 : s[j].op \notin {"Goto", "Return"} => j < 5
  BY <1>1, Instrs
<1>5. CodeOk(s)
  BY <1>3, <1>4 DEF CodeOk
<1>6. Tcp(s)
  BY <1>1, <1>3, Instrs DEF Tcp
<1>7. Shape(s, 2)
  BY <1>1, <1>3, Instrs DEF Shape, Tests, Sends
<1>8. Asks(s)
  BY <1>1, <1>3, Instrs DEF Asks
<1>9. QED
  BY <1>1, <1>5, <1>6, <1>7, <1>8

\* The instructions of SimpleClient5001.
LEMMA SimpleClient5001Code ==
    ASSUME NEW s, s = SimpleClient5001.code
    PROVE  /\ s = <<Connect, Fixed(HelloC), Recv, Terminate, Return>>
           /\ CodeOk(s)
           /\ Tcp(s)
           /\ Shape(s, 2)
           /\ Asks(s)
<1>a. s = <<Connect>>
           \o <<Fixed(HelloC), Recv, Terminate>>
           \o <<Return>>
  BY DEF SimpleClient5001, SimpleClient, Ask
<1>b. <<Connect>>
           \o <<Fixed(HelloC), Recv, Terminate>>
           \o <<Return>>
        = <<Connect, Fixed(HelloC), Recv, Terminate, Return>>
  BY JoinRequest
<1>1. s = <<Connect, Fixed(HelloC), Recv, Terminate, Return>>
  BY <1>a, <1>b, Zenon
<1>2. /\ InstrOk(Connect, 5) /\ InstrOk(Fixed(HelloC), 5) /\ InstrOk(Recv, 5)
      /\ InstrOk(Terminate, 5) /\ InstrOk(Return, 5)
  BY InstrsOk, TextsOk DEF Whats
<1>3. Len(s) = 5 /\ \A j \in 1..5 : InstrOk(s[j], 5)
  BY <1>1, <1>2
<1>4. \A j \in 1..5 : s[j].op \notin {"Goto", "Return"} => j < 5
  BY <1>1, Instrs
<1>5. CodeOk(s)
  BY <1>3, <1>4 DEF CodeOk
<1>6. Tcp(s)
  BY <1>1, <1>3, Instrs DEF Tcp
<1>7. Shape(s, 2)
  BY <1>1, <1>3, Instrs DEF Shape, Tests, Sends
<1>8. Asks(s)
  BY <1>1, <1>3, Instrs DEF Asks
<1>9. QED
  BY <1>1, <1>5, <1>6, <1>7, <1>8

\* The instructions of BlockingClient.
LEMMA BlockingClientCode ==
    ASSUME NEW s, s = BlockingClient.code
    PROVE  /\ s = <<Connect, When("failed", 7), Fixed(HelloC), Recv,
                    When("closed", 7), Terminate, Return>>
           /\ CodeOk(s)
           /\ Tcp(s)
           /\ Shape(s, 3)
           /\ Asks(s)
<1>1. s = <<Connect, When("failed", 7), Fixed(HelloC), Recv,
            When("closed", 7), Terminate, Return>>
  BY DEF BlockingClient
<1>2. /\ InstrOk(Connect, 7) /\ InstrOk(When("failed", 7), 7) /\ InstrOk(Fixed(HelloC), 7)
      /\ InstrOk(Recv, 7) /\ InstrOk(When("closed", 7), 7) /\ InstrOk(Terminate, 7)
      /\ InstrOk(Return, 7)
  BY InstrsOk, TextsOk DEF Whats
<1>3. Len(s) = 7 /\ \A j \in 1..7 : InstrOk(s[j], 7)
  BY <1>1, <1>2
<1>4. \A j \in 1..7 : s[j].op \notin {"Goto", "Return"} => j < 7
  BY <1>1, Instrs
<1>5. CodeOk(s)
  BY <1>3, <1>4 DEF CodeOk
<1>6. Tcp(s)
  BY <1>1, <1>3, Instrs DEF Tcp
<1>7. Shape(s, 3)
  BY <1>1, <1>3, Instrs DEF Shape, Tests, Sends
<1>8. Asks(s)
  BY <1>1, <1>3, Instrs DEF Asks
<1>9. QED
  BY <1>1, <1>5, <1>6, <1>7, <1>8

\* The instructions of PollOnceClient.
LEMMA PollOnceClientCode ==
    ASSUME NEW s, s = PollOnceClient.code
    PROVE  /\ s = <<Connect, When("failed", 7), Fixed(HelloC), Poll,
                    When("closed", 7), Terminate, Return>>
           /\ CodeOk(s)
           /\ Tcp(s)
           /\ Shape(s, 3)
           /\ Asks(s)
<1>1. s = <<Connect, When("failed", 7), Fixed(HelloC), Poll,
            When("closed", 7), Terminate, Return>>
  BY DEF PollOnceClient
<1>2. /\ InstrOk(Connect, 7) /\ InstrOk(When("failed", 7), 7) /\ InstrOk(Fixed(HelloC), 7)
      /\ InstrOk(Poll, 7) /\ InstrOk(When("closed", 7), 7) /\ InstrOk(Terminate, 7)
      /\ InstrOk(Return, 7)
  BY InstrsOk, TextsOk DEF Whats
<1>3. Len(s) = 7 /\ \A j \in 1..7 : InstrOk(s[j], 7)
  BY <1>1, <1>2
<1>4. \A j \in 1..7 : s[j].op \notin {"Goto", "Return"} => j < 7
  BY <1>1, Instrs
<1>5. CodeOk(s)
  BY <1>3, <1>4 DEF CodeOk
<1>6. Tcp(s)
  BY <1>1, <1>3, Instrs DEF Tcp
<1>7. Shape(s, 3)
  BY <1>1, <1>3, Instrs DEF Shape, Tests, Sends
<1>8. Asks(s)
  BY <1>1, <1>3, Instrs DEF Asks
<1>9. QED
  BY <1>1, <1>5, <1>6, <1>7, <1>8

\* The instructions of PollLoopClient.
LEMMA PollLoopClientCode ==
    ASSUME NEW s, s = PollLoopClient.code
    PROVE  /\ s = <<Connect, When("failed", 8), Fixed(HelloC), Poll,
                    Again(4), When("closed", 8), Terminate, Return>>
           /\ CodeOk(s)
           /\ Tcp(s)
           /\ Shape(s, 3)
           /\ Asks(s)
<1>1. s = <<Connect, When("failed", 8), Fixed(HelloC), Poll, Again(4),
            When("closed", 8), Terminate, Return>>
  BY DEF PollLoopClient
<1>2. /\ InstrOk(Connect, 8) /\ InstrOk(When("failed", 8), 8) /\ InstrOk(Fixed(HelloC), 8)
      /\ InstrOk(Poll, 8) /\ InstrOk(Again(4), 8) /\ InstrOk(When("closed", 8), 8)
      /\ InstrOk(Terminate, 8) /\ InstrOk(Return, 8)
  BY InstrsOk, TextsOk DEF Whats
<1>3. Len(s) = 8 /\ \A j \in 1..8 : InstrOk(s[j], 8)
  BY <1>1, <1>2
<1>4. \A j \in 1..8 : s[j].op \notin {"Goto", "Return"} => j < 8
  BY <1>1, Instrs
<1>5. CodeOk(s)
  BY <1>3, <1>4 DEF CodeOk
<1>6. Tcp(s)
  BY <1>1, <1>3, Instrs DEF Tcp
<1>7. Shape(s, 3)
  BY <1>1, <1>3, Instrs DEF Shape, Tests, Sends
<1>8. Asks(s)
  BY <1>1, <1>3, Instrs DEF Asks
<1>9. QED
  BY <1>1, <1>5, <1>6, <1>7, <1>8

\* The instructions of WaitingClient.
LEMMA WaitingClientCode ==
    ASSUME NEW s, s = WaitingClient.code
    PROVE  /\ s = <<Connect, When("failed", 12), Fixed(HelloC), Mark,
                    When("expired", 12), Poll, When("answered", 10),
                    HalfSecond, Goto(5), When("closed", 12), Terminate,
                    Return>>
           /\ CodeOk(s)
           /\ Tcp(s)
           /\ Shape(s, 3)
           /\ Asks(s)
<1>a. s = <<Connect, When("failed", 12), Fixed(HelloC), Mark, When("expired", 12),
            Poll, When("answered", 10), HalfSecond, Goto(5), When("closed", 12),
            Terminate>>
           \o <<Return>>
  BY DEF WaitingClient, Waiting
<1>b. <<Connect, When("failed", 12), Fixed(HelloC), Mark, When("expired", 12), Poll,
        When("answered", 10), HalfSecond, Goto(5), When("closed", 12), Terminate>>
           \o <<Return>>
        = <<Connect, When("failed", 12), Fixed(HelloC), Mark,
            When("expired", 12), Poll, When("answered", 10), HalfSecond,
            Goto(5), When("closed", 12), Terminate, Return>>
  BY JoinReturn
<1>1. s = <<Connect, When("failed", 12), Fixed(HelloC), Mark,
            When("expired", 12), Poll, When("answered", 10), HalfSecond,
            Goto(5), When("closed", 12), Terminate, Return>>
  BY <1>a, <1>b, Zenon
<1>2. /\ InstrOk(Connect, 12) /\ InstrOk(When("failed", 12), 12)
      /\ InstrOk(Fixed(HelloC), 12)
      /\ InstrOk(Mark, 12) /\ InstrOk(When("expired", 12), 12) /\ InstrOk(Poll, 12)
      /\ InstrOk(When("answered", 10), 12) /\ InstrOk(HalfSecond, 12)
      /\ InstrOk(Goto(5), 12)
      /\ InstrOk(When("closed", 12), 12) /\ InstrOk(Terminate, 12) /\ InstrOk(Return, 12)
  BY InstrsOk, TextsOk DEF Whats
<1>3. Len(s) = 12 /\ \A j \in 1..12 : InstrOk(s[j], 12)
  BY <1>1, <1>2
<1>4. \A j \in 1..12 : s[j].op \notin {"Goto", "Return"} => j < 12
  BY <1>1, Instrs
<1>5. CodeOk(s)
  BY <1>3, <1>4 DEF CodeOk
<1>6. Tcp(s)
  BY <1>1, <1>3, Instrs DEF Tcp
<1>7. Shape(s, 3)
  BY <1>1, <1>3, Instrs DEF Shape, Tests, Sends
<1>8. Waits(s)
  BY <1>1, <1>3, Instrs DEF Waits, HalfSecond, Do
<1>9. Asks(s)
  BY <1>1, <1>3, <1>8, Instrs DEF Asks
<1>10. QED
  BY <1>1, <1>5, <1>6, <1>7, <1>9

\* The instructions of WaitingClient2sec.
LEMMA WaitingClient2secCode ==
    ASSUME NEW s, s = WaitingClient2sec.code
    PROVE  /\ s = <<Connect, When("failed", 14), Fixed(HelloC), Mark,
                    When("expired", 12), Poll, When("answered", 10),
                    HalfSecond, Goto(5), When("closed", 12), Terminate,
                    When("early", 14), Show("timeout"), Return>>
           /\ CodeOk(s)
           /\ Tcp(s)
           /\ Shape(s, 3)
           /\ Asks(s)
<1>a. s = <<Connect, When("failed", 14), Fixed(HelloC), Mark, When("expired", 12),
            Poll, When("answered", 10), HalfSecond, Goto(5), When("closed", 12),
            Terminate>>
           \o <<When("early", 14), Show("timeout"), Return>>
  BY DEF WaitingClient2sec, Waiting
<1>b. <<Connect, When("failed", 14), Fixed(HelloC), Mark, When("expired", 12), Poll,
        When("answered", 10), HalfSecond, Goto(5), When("closed", 12), Terminate>>
           \o <<When("early", 14), Show("timeout"), Return>>
        = <<Connect, When("failed", 14), Fixed(HelloC), Mark,
            When("expired", 12), Poll, When("answered", 10), HalfSecond,
            Goto(5), When("closed", 12), Terminate, When("early", 14),
            Show("timeout"), Return>>
  BY JoinReport
<1>1. s = <<Connect, When("failed", 14), Fixed(HelloC), Mark,
            When("expired", 12), Poll, When("answered", 10), HalfSecond,
            Goto(5), When("closed", 12), Terminate, When("early", 14),
            Show("timeout"), Return>>
  BY <1>a, <1>b, Zenon
<1>2. /\ InstrOk(Connect, 14) /\ InstrOk(When("failed", 14), 14)
      /\ InstrOk(Fixed(HelloC), 14)
      /\ InstrOk(Mark, 14) /\ InstrOk(When("expired", 12), 14) /\ InstrOk(Poll, 14)
      /\ InstrOk(When("answered", 10), 14) /\ InstrOk(HalfSecond, 14)
      /\ InstrOk(Goto(5), 14)
      /\ InstrOk(When("closed", 12), 14) /\ InstrOk(Terminate, 14)
      /\ InstrOk(When("early", 14), 14)
      /\ InstrOk(Show("timeout"), 14) /\ InstrOk(Return, 14)
  BY InstrsOk, TextsOk DEF Whats
<1>3. Len(s) = 14 /\ \A j \in 1..14 : InstrOk(s[j], 14)
  BY <1>1, <1>2
<1>4. \A j \in 1..14 : s[j].op \notin {"Goto", "Return"} => j < 14
  BY <1>1, Instrs
<1>5. CodeOk(s)
  BY <1>3, <1>4 DEF CodeOk
<1>6. Tcp(s)
  BY <1>1, <1>3, Instrs DEF Tcp
<1>7. Shape(s, 3)
  BY <1>1, <1>3, Instrs DEF Shape, Tests, Sends
<1>8. Waits(s)
  BY <1>1, <1>3, Instrs DEF Waits, HalfSecond, Do
<1>9. Asks(s)
  BY <1>1, <1>3, <1>8, Instrs DEF Asks
<1>10. QED
  BY <1>1, <1>5, <1>6, <1>7, <1>9

\* The instructions of HelloWorldClient.
LEMMA HelloWorldClientCode ==
    ASSUME NEW s, s = HelloWorldClient.code
    PROVE  /\ s = <<Connect, Fixed(HelloWorld), Recv, Terminate, Return>>
           /\ CodeOk(s)
           /\ Tcp(s)
           /\ Shape(s, 2)
           /\ Asks(s)
<1>a. s = <<Connect>>
           \o <<Fixed(HelloWorld), Recv, Terminate>>
           \o <<Return>>
  BY DEF HelloWorldClient, Ask
<1>b. <<Connect>>
           \o <<Fixed(HelloWorld), Recv, Terminate>>
           \o <<Return>>
        = <<Connect, Fixed(HelloWorld), Recv, Terminate, Return>>
  BY JoinRequest
<1>1. s = <<Connect, Fixed(HelloWorld), Recv, Terminate, Return>>
  BY <1>a, <1>b, Zenon
<1>2. /\ InstrOk(Connect, 5) /\ InstrOk(Fixed(HelloWorld), 5) /\ InstrOk(Recv, 5)
      /\ InstrOk(Terminate, 5) /\ InstrOk(Return, 5)
  BY InstrsOk, TextsOk DEF Whats
<1>3. Len(s) = 5 /\ \A j \in 1..5 : InstrOk(s[j], 5)
  BY <1>1, <1>2
<1>4. \A j \in 1..5 : s[j].op \notin {"Goto", "Return"} => j < 5
  BY <1>1, Instrs
<1>5. CodeOk(s)
  BY <1>3, <1>4 DEF CodeOk
<1>6. Tcp(s)
  BY <1>1, <1>3, Instrs DEF Tcp
<1>7. Shape(s, 2)
  BY <1>1, <1>3, Instrs DEF Shape, Tests, Sends
<1>8. Asks(s)
  BY <1>1, <1>3, Instrs DEF Asks
<1>9. QED
  BY <1>1, <1>5, <1>6, <1>7, <1>8

\* The instructions of CheckedClient.
LEMMA CheckedClientCode ==
    ASSUME NEW s, s = CheckedClient.code
    PROVE  /\ s = <<Connect, When("failed", 8), Fixed(HelloWorld),
                    When("failed", 8), Recv, When("failed", 8), Terminate,
                    Return>>
           /\ CodeOk(s)
           /\ Tcp(s)
           /\ Shape(s, 3)
           /\ Asks(s)
<1>a. s = <<Connect, When("failed", 8)>>
           \o <<>>
           \o <<Fixed(HelloWorld), When("failed", 8), Recv, When("failed", 8),
                Terminate, Return>>
  BY DEF CheckedClient, Checked
<1>b. <<Connect, When("failed", 8)>>
           \o <<>>
           \o <<Fixed(HelloWorld), When("failed", 8), Recv, When("failed", 8),
                Terminate, Return>>
        = <<Connect, When("failed", 8), Fixed(HelloWorld),
            When("failed", 8), Recv, When("failed", 8), Terminate, Return>>
  BY JoinChecked
<1>1. s = <<Connect, When("failed", 8), Fixed(HelloWorld),
            When("failed", 8), Recv, When("failed", 8), Terminate, Return>>
  BY <1>a, <1>b, Zenon
<1>2. /\ InstrOk(Connect, 8) /\ InstrOk(When("failed", 8), 8)
      /\ InstrOk(Fixed(HelloWorld), 8)
      /\ InstrOk(Recv, 8) /\ InstrOk(Terminate, 8) /\ InstrOk(Return, 8)
  BY InstrsOk, TextsOk DEF Whats
<1>3. Len(s) = 8 /\ \A j \in 1..8 : InstrOk(s[j], 8)
  BY <1>1, <1>2
<1>4. \A j \in 1..8 : s[j].op \notin {"Goto", "Return"} => j < 8
  BY <1>1, Instrs
<1>5. CodeOk(s)
  BY <1>3, <1>4 DEF CodeOk
<1>6. Tcp(s)
  BY <1>1, <1>3, Instrs DEF Tcp
<1>7. Shape(s, 3)
  BY <1>1, <1>3, Instrs DEF Shape, Tests, Sends
<1>8. Asks(s)
  BY <1>1, <1>3, Instrs DEF Asks
<1>9. QED
  BY <1>1, <1>5, <1>6, <1>7, <1>8

\* The instructions of DebugClient.
LEMMA DebugClientCode ==
    ASSUME NEW s, s = DebugClient.code
    PROVE  /\ s = <<Connect, When("failed", 9), Sleep(10),
                    Fixed(HelloWorld), When("failed", 9), Recv,
                    When("failed", 9), Terminate, Return>>
           /\ CodeOk(s)
           /\ Tcp(s)
           /\ Shape(s, 4)
           /\ Asks(s)
<1>a. s = <<Connect, When("failed", 9)>>
           \o <<Sleep(10)>>
           \o <<Fixed(HelloWorld), When("failed", 9), Recv, When("failed", 9),
                Terminate, Return>>
  BY DEF DebugClient, Checked
<1>b. <<Connect, When("failed", 9)>>
           \o <<Sleep(10)>>
           \o <<Fixed(HelloWorld), When("failed", 9), Recv, When("failed", 9),
                Terminate, Return>>
        = <<Connect, When("failed", 9), Sleep(10), Fixed(HelloWorld),
            When("failed", 9), Recv, When("failed", 9), Terminate, Return>>
  BY JoinDebug
<1>1. s = <<Connect, When("failed", 9), Sleep(10), Fixed(HelloWorld),
            When("failed", 9), Recv, When("failed", 9), Terminate, Return>>
  BY <1>a, <1>b, Zenon
<1>2. /\ InstrOk(Connect, 9) /\ InstrOk(When("failed", 9), 9) /\ InstrOk(Sleep(10), 9)
      /\ InstrOk(Fixed(HelloWorld), 9) /\ InstrOk(Recv, 9) /\ InstrOk(Terminate, 9)
      /\ InstrOk(Return, 9)
  BY InstrsOk, TextsOk DEF Whats
<1>3. Len(s) = 9 /\ \A j \in 1..9 : InstrOk(s[j], 9)
  BY <1>1, <1>2
<1>4. \A j \in 1..9 : s[j].op \notin {"Goto", "Return"} => j < 9
  BY <1>1, Instrs
<1>5. CodeOk(s)
  BY <1>3, <1>4 DEF CodeOk
<1>6. Tcp(s)
  BY <1>1, <1>3, Instrs DEF Tcp
<1>7. Shape(s, 4)
  BY <1>1, <1>3, Instrs DEF Shape, Tests, Sends
<1>8. Asks(s)
  BY <1>1, <1>3, Instrs DEF Asks
<1>9. QED
  BY <1>1, <1>5, <1>6, <1>7, <1>8

\* The instructions of TimeClient.
LEMMA TimeClientCode ==
    ASSUME NEW s, s = TimeClient.code
    PROVE  /\ s = <<Connect, When("failed", 7), Recv, When("closed", 7),
                    Terminate, Goto(3), Return>>
           /\ CodeOk(s)
           /\ Tcp(s)
           /\ Shape(s, 0)
           /\ Asks(s)
<1>1. s = <<Connect, When("failed", 7), Recv, When("closed", 7), Terminate,
            Goto(3), Return>>
  BY DEF TimeClient
<1>2. /\ InstrOk(Connect, 7) /\ InstrOk(When("failed", 7), 7) /\ InstrOk(Recv, 7)
      /\ InstrOk(When("closed", 7), 7) /\ InstrOk(Terminate, 7) /\ InstrOk(Goto(3), 7)
      /\ InstrOk(Return, 7)
  BY InstrsOk, TextsOk DEF Whats
<1>3. Len(s) = 7 /\ \A j \in 1..7 : InstrOk(s[j], 7)
  BY <1>1, <1>2
<1>4. \A j \in 1..7 : s[j].op \notin {"Goto", "Return"} => j < 7
  BY <1>1, Instrs
<1>5. CodeOk(s)
  BY <1>3, <1>4 DEF CodeOk
<1>6. Tcp(s)
  BY <1>1, <1>3, Instrs DEF Tcp
<1>7. Shape(s, 0)
  BY <1>1, <1>3, Instrs DEF Shape, Tests, Sends
<1>8. Asks(s)
  BY <1>1, <1>3, Instrs DEF Asks
<1>9. QED
  BY <1>1, <1>5, <1>6, <1>7, <1>8

\* The instructions of ChatClient.
LEMMA ChatClientCode ==
    ASSUME NEW s, s = ChatClient.code
    PROVE  /\ s = <<Connect, When("failed", 13), Sleep(2), Gets,
                    Send("line"), When("failed", 13), Typed(Bye, 13), Recv,
                    When("failed", 13), Terminate, Says(Bye, 13), Goto(3),
                    Return>>
           /\ CodeOk(s)
           /\ Tcp(s)
           /\ Asks(s)
<1>1. s = <<Connect, When("failed", 13), Sleep(2), Gets, Send("line"),
            When("failed", 13), Typed(Bye, 13), Recv, When("failed", 13),
            Terminate, Says(Bye, 13), Goto(3), Return>>
  BY DEF ChatClient
<1>2. /\ InstrOk(Connect, 13) /\ InstrOk(When("failed", 13), 13) /\ InstrOk(Sleep(2), 13)
      /\ InstrOk(Gets, 13) /\ InstrOk(Send("line"), 13) /\ InstrOk(Typed(Bye, 13), 13)
      /\ InstrOk(Recv, 13) /\ InstrOk(Terminate, 13) /\ InstrOk(Says(Bye, 13), 13)
      /\ InstrOk(Goto(3), 13) /\ InstrOk(Return, 13)
  BY InstrsOk, TextsOk DEF Whats
<1>3. Len(s) = 13 /\ \A j \in 1..13 : InstrOk(s[j], 13)
  BY <1>1, <1>2
<1>4. \A j \in 1..13 : s[j].op \notin {"Goto", "Return"} => j < 13
  BY <1>1, Instrs
<1>5. CodeOk(s)
  BY <1>3, <1>4 DEF CodeOk
<1>6. Tcp(s)
  BY <1>1, <1>3, Instrs DEF Tcp
<1>7. Asks(s)
  BY <1>1, <1>3, Instrs DEF Asks
<1>8. QED
  BY <1>1, <1>5, <1>6, <1>7

\* The instructions of ExitClient.
LEMMA ExitClientCode ==
    ASSUME NEW s, s = ExitClient.code
    PROVE  /\ s = <<Connect, Gets, Send("array"), Typed(Exit, 6), Goto(2),
                    Return>>
           /\ CodeOk(s)
           /\ Tcp(s)
           /\ Asks(s)
<1>1. s = <<Connect, Gets, Send("array"), Typed(Exit, 6), Goto(2), Return>>
  BY DEF ExitClient
<1>2. /\ InstrOk(Connect, 6) /\ InstrOk(Gets, 6) /\ InstrOk(Send("array"), 6)
      /\ InstrOk(Typed(Exit, 6), 6) /\ InstrOk(Goto(2), 6) /\ InstrOk(Return, 6)
  BY InstrsOk, TextsOk DEF Whats
<1>3. Len(s) = 6 /\ \A j \in 1..6 : InstrOk(s[j], 6)
  BY <1>1, <1>2
<1>4. \A j \in 1..6 : s[j].op \notin {"Goto", "Return"} => j < 6
  BY <1>1, Instrs
<1>5. CodeOk(s)
  BY <1>3, <1>4 DEF CodeOk
<1>6. Tcp(s)
  BY <1>1, <1>3, Instrs DEF Tcp
<1>7. Asks(s)
  BY <1>1, <1>3, Instrs DEF Asks
<1>8. QED
  BY <1>1, <1>5, <1>6, <1>7

\* The instructions of UdpClient1.
LEMMA UdpClient1Code ==
    ASSUME NEW s, s = UdpClient1.code
    PROVE  /\ s = <<Load(Text("client", 10)), SendTo("line"), RecvFrom,
                    Sleep(3), Return>>
           /\ CodeOk(s)
           /\ Asks(s)
<1>1. s = <<Load(Text("client", 10)), SendTo("line"), RecvFrom, Sleep(3),
            Return>>
  BY DEF UdpClient1
<1>2. /\ InstrOk(Load(Text("client", 10)), 5) /\ InstrOk(SendTo("line"), 5)
      /\ InstrOk(RecvFrom, 5)
      /\ InstrOk(Sleep(3), 5) /\ InstrOk(Return, 5)
  BY InstrsOk, TextsOk DEF Whats
<1>3. Len(s) = 5 /\ \A j \in 1..5 : InstrOk(s[j], 5)
  BY <1>1, <1>2
<1>4. \A j \in 1..5 : s[j].op \notin {"Goto", "Return"} => j < 5
  BY <1>1, Instrs
<1>5. CodeOk(s)
  BY <1>3, <1>4 DEF CodeOk
<1>6. Asks(s)
  BY <1>1, <1>3, Instrs DEF Asks
<1>7. QED
  BY <1>1, <1>5, <1>6

\* The instructions of UdpClient2.
LEMMA UdpClient2Code ==
    ASSUME NEW s, s = UdpClient2.code
    PROVE  /\ s = <<Gets, SendTo("line"), RecvFrom, Goto(1)>>
           /\ CodeOk(s)
           /\ Asks(s)
<1>1. s = <<Gets, SendTo("line"), RecvFrom, Goto(1)>>
  BY DEF UdpClient2
<1>2. /\ InstrOk(Gets, 4) /\ InstrOk(SendTo("line"), 4) /\ InstrOk(RecvFrom, 4)
      /\ InstrOk(Goto(1), 4)
  BY InstrsOk, TextsOk DEF Whats
<1>3. Len(s) = 4 /\ \A j \in 1..4 : InstrOk(s[j], 4)
  BY <1>1, <1>2
<1>4. \A j \in 1..4 : s[j].op \notin {"Goto", "Return"} => j < 4
  BY <1>1, Instrs
<1>5. CodeOk(s)
  BY <1>3, <1>4 DEF CodeOk
<1>6. Asks(s)
  BY <1>1, <1>3, Instrs DEF Asks
<1>7. QED
  BY <1>1, <1>5, <1>6

\* The instructions of TransponderL1.
LEMMA TransponderL1Code ==
    ASSUME NEW answer \in Whats, NEW s, s = TransponderL1(answer).code
    PROVE  /\ s = <<Connect, Fixed(Start), Recv, Terminate, Send(answer),
                    Return>>
           /\ CodeOk(s)
           /\ Tcp(s)
           /\ Asks(s)
<1>1. s = <<Connect, Fixed(Start), Recv, Terminate, Send(answer), Return>>
  BY DEF TransponderL1
<1>2. /\ InstrOk(Connect, 6) /\ InstrOk(Fixed(Start), 6) /\ InstrOk(Recv, 6)
      /\ InstrOk(Terminate, 6) /\ InstrOk(Send(answer), 6) /\ InstrOk(Return, 6)
  BY InstrsOk, TextsOk DEF Whats
<1>3. Len(s) = 6 /\ \A j \in 1..6 : InstrOk(s[j], 6)
  BY <1>1, <1>2
<1>4. \A j \in 1..6 : s[j].op \notin {"Goto", "Return"} => j < 6
  BY <1>1, Instrs
<1>5. CodeOk(s)
  BY <1>3, <1>4 DEF CodeOk
<1>6. Tcp(s)
  BY <1>1, <1>3, Instrs DEF Tcp
<1>7. Asks(s)
  BY <1>1, <1>3, Instrs DEF Asks
<1>8. QED
  BY <1>1, <1>5, <1>6, <1>7

-----------------------------------------------------------------------------
(* What every exercise runs.                                               *)

\* Concatenation, for programs like that.
LEMMA JoinPair ==
    ASSUME NEW a, NEW b
    PROVE  <<a>> \o <<b>>
           = <<a, b>>
<1> DEFINE S == {a, b}
           joined == <<a>> \o <<b>>
           whole == <<a, b>>
<1>1. a \in S /\ b \in S
  OBVIOUS
<1> HIDE DEF S
<1>2. joined \in Seq(S) /\ whole \in Seq(S)
  BY <1>1
<1>3. Len(joined) = 2 /\ Len(whole) = 2
  BY <1>1
<1>4. \A x \in 1..2 : joined[x] = whole[x]
  BY <1>1
<1>5. QED
  BY <1>2, <1>3, <1>4, SeqEqual, Zenon

\* Concatenation, for programs like that.
LEMMA JoinTriple ==
    ASSUME NEW a, NEW b, NEW c
    PROVE  <<a>> \o <<b, c>>
           = <<a, b, c>>
<1> DEFINE S == {a, b, c}
           joined == <<a>> \o <<b, c>>
           whole == <<a, b, c>>
<1>1. a \in S /\ b \in S /\ c \in S
  OBVIOUS
<1> HIDE DEF S
<1>2. joined \in Seq(S) /\ whole \in Seq(S)
  BY <1>1
<1>3. Len(joined) = 3 /\ Len(whole) = 3
  BY <1>1
<1>4. \A x \in 1..3 : joined[x] = whole[x]
  BY <1>1
<1>5. QED
  BY <1>2, <1>3, <1>4, SeqEqual, Zenon

\* Exercise interaction.
LEMMA Runs_interaction ==
    ASSUME exercise.name = "interaction"
    PROVE  /\ This.answer = "echo"
           /\ Procs = 0..1 /\ Clients = 1..1
           /\ Code(0) = InteractionServer.code
           /\ Code(1) = InteractionClient.code
<1>1. This = Exercise(InteractionServer, <<InteractionClient>>, "echo")
  BY DEF This, Exercises
<1>2. <<InteractionServer>> \o <<InteractionClient>> = <<InteractionServer, InteractionClient>>
  BY JoinPair
<1>3. This = [programs |-> <<InteractionServer, InteractionClient>>, answer |-> "echo"]
  BY <1>1, <1>2 DEF Exercise
<1>4. QED
  BY <1>3 DEF Procs, Clients, Code

\* Exercise iterative.
LEMMA Runs_iterative ==
    ASSUME exercise.name = "iterative"
    PROVE  /\ This.answer = "echo"
           /\ Procs = 0..2 /\ Clients = 1..2
           /\ Code(0) = IterativeServer.code
           /\ Code(1) = IterativeClient.code
           /\ Code(2) = IterativeClient.code
<1>1. This = Exercise(IterativeServer, <<IterativeClient, IterativeClient>>, "echo")
  BY DEF This, Exercises
<1>2. <<IterativeServer>> \o <<IterativeClient, IterativeClient>> = <<IterativeServer, IterativeClient, IterativeClient>>
  BY JoinTriple
<1>3. This = [programs |-> <<IterativeServer, IterativeClient, IterativeClient>>,
                             answer |-> "echo"]
  BY <1>1, <1>2 DEF Exercise
<1>4. QED
  BY <1>3 DEF Procs, Clients, Code

\* Exercise iterative_long.
LEMMA Runs_iterative_long ==
    ASSUME exercise.name = "iterative_long"
    PROVE  /\ This.answer = "echo"
           /\ Procs = 0..2 /\ Clients = 1..2
           /\ Code(0) = IterativeServer.code
           /\ Code(1) = LongerClient.code
           /\ Code(2) = LongClient.code
<1>1. This = Exercise(IterativeServer, <<LongerClient, LongClient>>, "echo")
  BY DEF This, Exercises
<1>2. <<IterativeServer>> \o <<LongerClient, LongClient>> = <<IterativeServer, LongerClient, LongClient>>
  BY JoinTriple
<1>3. This = [programs |-> <<IterativeServer, LongerClient, LongClient>>,
                             answer |-> "echo"]
  BY <1>1, <1>2 DEF Exercise
<1>4. QED
  BY <1>3 DEF Procs, Clients, Code

\* Exercise two_request.
LEMMA Runs_two_request ==
    ASSUME exercise.name = "two_request"
    PROVE  /\ This.answer = "stale"
           /\ Procs = 0..1 /\ Clients = 1..1
           /\ Code(0) = TwoRequestServer.code
           /\ Code(1) = TwoRequestClient.code
<1>1. This = Exercise(TwoRequestServer, <<TwoRequestClient>>, "stale")
  BY DEF This, Exercises
<1>2. <<TwoRequestServer>> \o <<TwoRequestClient>> = <<TwoRequestServer, TwoRequestClient>>
  BY JoinPair
<1>3. This = [programs |-> <<TwoRequestServer, TwoRequestClient>>, answer |-> "stale"]
  BY <1>1, <1>2 DEF Exercise
<1>4. QED
  BY <1>3 DEF Procs, Clients, Code

\* Exercise one_way.
LEMMA Runs_one_way ==
    ASSUME exercise.name = "one_way"
    PROVE  /\ This.answer = "echo"
           /\ Procs = 0..1 /\ Clients = 1..1
           /\ Code(0) = OneWayServer.code
           /\ Code(1) = SimpleClient5000.code
<1>1. This = Exercise(OneWayServer, <<SimpleClient5000>>, "echo")
  BY DEF This, Exercises
<1>2. <<OneWayServer>> \o <<SimpleClient5000>> = <<OneWayServer, SimpleClient5000>>
  BY JoinPair
<1>3. This = [programs |-> <<OneWayServer, SimpleClient5000>>, answer |-> "echo"]
  BY <1>1, <1>2 DEF Exercise
<1>4. QED
  BY <1>3 DEF Procs, Clients, Code

\* Exercise one_way_long.
LEMMA Runs_one_way_long ==
    ASSUME exercise.name = "one_way_long"
    PROVE  /\ This.answer = "echo"
           /\ Procs = 0..1 /\ Clients = 1..1
           /\ Code(0) = OneWayServer.code
           /\ Code(1) = LongClient.code
<1>1. This = Exercise(OneWayServer, <<LongClient>>, "echo")
  BY DEF This, Exercises
<1>2. <<OneWayServer>> \o <<LongClient>> = <<OneWayServer, LongClient>>
  BY JoinPair
<1>3. This = [programs |-> <<OneWayServer, LongClient>>, answer |-> "echo"]
  BY <1>1, <1>2 DEF Exercise
<1>4. QED
  BY <1>3 DEF Procs, Clients, Code

\* Exercise simple.
LEMMA Runs_simple ==
    ASSUME exercise.name = "simple"
    PROVE  /\ This.answer = "hello"
           /\ Procs = 0..1 /\ Clients = 1..1
           /\ Code(0) = SimpleServer5000.code
           /\ Code(1) = SimpleClient5000.code
<1>1. This = Exercise(SimpleServer5000, <<SimpleClient5000>>, "hello")
  BY DEF This, Exercises
<1>2. <<SimpleServer5000>> \o <<SimpleClient5000>> = <<SimpleServer5000, SimpleClient5000>>
  BY JoinPair
<1>3. This = [programs |-> <<SimpleServer5000, SimpleClient5000>>, answer |-> "hello"]
  BY <1>1, <1>2 DEF Exercise
<1>4. QED
  BY <1>3 DEF Procs, Clients, Code

\* Exercise simple_5001.
LEMMA Runs_simple_5001 ==
    ASSUME exercise.name = "simple_5001"
    PROVE  /\ This.answer = "hello"
           /\ Procs = 0..1 /\ Clients = 1..1
           /\ Code(0) = SimpleServer5001.code
           /\ Code(1) = SimpleClient5001.code
<1>1. This = Exercise(SimpleServer5001, <<SimpleClient5001>>, "hello")
  BY DEF This, Exercises
<1>2. <<SimpleServer5001>> \o <<SimpleClient5001>> = <<SimpleServer5001, SimpleClient5001>>
  BY JoinPair
<1>3. This = [programs |-> <<SimpleServer5001, SimpleClient5001>>, answer |-> "hello"]
  BY <1>1, <1>2 DEF Exercise
<1>4. QED
  BY <1>3 DEF Procs, Clients, Code

\* Exercise simple_ports.
LEMMA Runs_simple_ports ==
    ASSUME exercise.name = "simple_ports"
    PROVE  /\ This.answer = "hello"
           /\ Procs = 0..1 /\ Clients = 1..1
           /\ Code(0) = SimpleServerPause.code
           /\ Code(1) = SimpleClient5001.code
<1>1. This = Exercise(SimpleServerPause, <<SimpleClient5001>>, "hello")
  BY DEF This, Exercises
<1>2. <<SimpleServerPause>> \o <<SimpleClient5001>> = <<SimpleServerPause, SimpleClient5001>>
  BY JoinPair
<1>3. This = [programs |-> <<SimpleServerPause, SimpleClient5001>>, answer |-> "hello"]
  BY <1>1, <1>2 DEF Exercise
<1>4. QED
  BY <1>3 DEF Procs, Clients, Code

\* Exercise simple_pause.
LEMMA Runs_simple_pause ==
    ASSUME exercise.name = "simple_pause"
    PROVE  /\ This.answer = "hello"
           /\ Procs = 0..1 /\ Clients = 1..1
           /\ Code(0) = SimpleServerPause.code
           /\ Code(1) = BlockingClient.code
<1>1. This = Exercise(SimpleServerPause, <<BlockingClient>>, "hello")
  BY DEF This, Exercises
<1>2. <<SimpleServerPause>> \o <<BlockingClient>> = <<SimpleServerPause, BlockingClient>>
  BY JoinPair
<1>3. This = [programs |-> <<SimpleServerPause, BlockingClient>>, answer |-> "hello"]
  BY <1>1, <1>2 DEF Exercise
<1>4. QED
  BY <1>3 DEF Procs, Clients, Code

\* Exercise blocking.
LEMMA Runs_blocking ==
    ASSUME exercise.name = "blocking"
    PROVE  /\ This.answer = "hello"
           /\ Procs = 0..1 /\ Clients = 1..1
           /\ Code(0) = SleepServer15.code
           /\ Code(1) = BlockingClient.code
<1>1. This = Exercise(SleepServer15, <<BlockingClient>>, "hello")
  BY DEF This, Exercises
<1>2. <<SleepServer15>> \o <<BlockingClient>> = <<SleepServer15, BlockingClient>>
  BY JoinPair
<1>3. This = [programs |-> <<SleepServer15, BlockingClient>>, answer |-> "hello"]
  BY <1>1, <1>2 DEF Exercise
<1>4. QED
  BY <1>3 DEF Procs, Clients, Code

\* Exercise poll_once.
LEMMA Runs_poll_once ==
    ASSUME exercise.name = "poll_once"
    PROVE  /\ This.answer = "hello"
           /\ Procs = 0..1 /\ Clients = 1..1
           /\ Code(0) = SleepServer2.code
           /\ Code(1) = PollOnceClient.code
<1>1. This = Exercise(SleepServer2, <<PollOnceClient>>, "hello")
  BY DEF This, Exercises
<1>2. <<SleepServer2>> \o <<PollOnceClient>> = <<SleepServer2, PollOnceClient>>
  BY JoinPair
<1>3. This = [programs |-> <<SleepServer2, PollOnceClient>>, answer |-> "hello"]
  BY <1>1, <1>2 DEF Exercise
<1>4. QED
  BY <1>3 DEF Procs, Clients, Code

\* Exercise poll_loop.
LEMMA Runs_poll_loop ==
    ASSUME exercise.name = "poll_loop"
    PROVE  /\ This.answer = "hello"
           /\ Procs = 0..1 /\ Clients = 1..1
           /\ Code(0) = SleepServer15.code
           /\ Code(1) = PollLoopClient.code
<1>1. This = Exercise(SleepServer15, <<PollLoopClient>>, "hello")
  BY DEF This, Exercises
<1>2. <<SleepServer15>> \o <<PollLoopClient>> = <<SleepServer15, PollLoopClient>>
  BY JoinPair
<1>3. This = [programs |-> <<SleepServer15, PollLoopClient>>, answer |-> "hello"]
  BY <1>1, <1>2 DEF Exercise
<1>4. QED
  BY <1>3 DEF Procs, Clients, Code

\* Exercise waiting_2.
LEMMA Runs_waiting_2 ==
    ASSUME exercise.name = "waiting_2"
    PROVE  /\ This.answer = "hello"
           /\ Procs = 0..1 /\ Clients = 1..1
           /\ Code(0) = SleepServer2.code
           /\ Code(1) = WaitingClient2sec.code
<1>1. This = Exercise(SleepServer2, <<WaitingClient2sec>>, "hello")
  BY DEF This, Exercises
<1>2. <<SleepServer2>> \o <<WaitingClient2sec>> = <<SleepServer2, WaitingClient2sec>>
  BY JoinPair
<1>3. This = [programs |-> <<SleepServer2, WaitingClient2sec>>, answer |-> "hello"]
  BY <1>1, <1>2 DEF Exercise
<1>4. QED
  BY <1>3 DEF Procs, Clients, Code

\* Exercise waiting_4.
LEMMA Runs_waiting_4 ==
    ASSUME exercise.name = "waiting_4"
    PROVE  /\ This.answer = "hello"
           /\ Procs = 0..1 /\ Clients = 1..1
           /\ Code(0) = SleepServer4.code
           /\ Code(1) = WaitingClient2sec.code
<1>1. This = Exercise(SleepServer4, <<WaitingClient2sec>>, "hello")
  BY DEF This, Exercises
<1>2. <<SleepServer4>> \o <<WaitingClient2sec>> = <<SleepServer4, WaitingClient2sec>>
  BY JoinPair
<1>3. This = [programs |-> <<SleepServer4, WaitingClient2sec>>, answer |-> "hello"]
  BY <1>1, <1>2 DEF Exercise
<1>4. QED
  BY <1>3 DEF Procs, Clients, Code

\* Exercise waiting_15.
LEMMA Runs_waiting_15 ==
    ASSUME exercise.name = "waiting_15"
    PROVE  /\ This.answer = "hello"
           /\ Procs = 0..1 /\ Clients = 1..1
           /\ Code(0) = SleepServer15.code
           /\ Code(1) = WaitingClient2sec.code
<1>1. This = Exercise(SleepServer15, <<WaitingClient2sec>>, "hello")
  BY DEF This, Exercises
<1>2. <<SleepServer15>> \o <<WaitingClient2sec>> = <<SleepServer15, WaitingClient2sec>>
  BY JoinPair
<1>3. This = [programs |-> <<SleepServer15, WaitingClient2sec>>, answer |-> "hello"]
  BY <1>1, <1>2 DEF Exercise
<1>4. QED
  BY <1>3 DEF Procs, Clients, Code

\* Exercise waiting_8.
LEMMA Runs_waiting_8 ==
    ASSUME exercise.name = "waiting_8"
    PROVE  /\ This.answer = "hello"
           /\ Procs = 0..1 /\ Clients = 1..1
           /\ Code(0) = SleepServer8.code
           /\ Code(1) = WaitingClient.code
<1>1. This = Exercise(SleepServer8, <<WaitingClient>>, "hello")
  BY DEF This, Exercises
<1>2. <<SleepServer8>> \o <<WaitingClient>> = <<SleepServer8, WaitingClient>>
  BY JoinPair
<1>3. This = [programs |-> <<SleepServer8, WaitingClient>>, answer |-> "hello"]
  BY <1>1, <1>2 DEF Exercise
<1>4. QED
  BY <1>3 DEF Procs, Clients, Code

\* Exercise waiting_port.
LEMMA Runs_waiting_port ==
    ASSUME exercise.name = "waiting_port"
    PROVE  /\ This.answer = "hello"
           /\ Procs = 0..1 /\ Clients = 1..1
           /\ Code(0) = SleepServer8.code
           /\ Code(1) = PollLoopClient.code
<1>1. This = Exercise(SleepServer8, <<PollLoopClient>>, "hello")
  BY DEF This, Exercises
<1>2. <<SleepServer8>> \o <<PollLoopClient>> = <<SleepServer8, PollLoopClient>>
  BY JoinPair
<1>3. This = [programs |-> <<SleepServer8, PollLoopClient>>, answer |-> "hello"]
  BY <1>1, <1>2 DEF Exercise
<1>4. QED
  BY <1>3 DEF Procs, Clients, Code

\* Exercise hello_world.
LEMMA Runs_hello_world ==
    ASSUME exercise.name = "hello_world"
    PROVE  /\ This.answer = "upper"
           /\ Procs = 0..1 /\ Clients = 1..1
           /\ Code(0) = UpperServer.code
           /\ Code(1) = HelloWorldClient.code
<1>1. This = Exercise(UpperServer, <<HelloWorldClient>>, "upper")
  BY DEF This, Exercises
<1>2. <<UpperServer>> \o <<HelloWorldClient>> = <<UpperServer, HelloWorldClient>>
  BY JoinPair
<1>3. This = [programs |-> <<UpperServer, HelloWorldClient>>, answer |-> "upper"]
  BY <1>1, <1>2 DEF Exercise
<1>4. QED
  BY <1>3 DEF Procs, Clients, Code

\* Exercise checked.
LEMMA Runs_checked ==
    ASSUME exercise.name = "checked"
    PROVE  /\ This.answer = "upper"
           /\ Procs = 0..1 /\ Clients = 1..1
           /\ Code(0) = UpperServer2.code
           /\ Code(1) = CheckedClient.code
<1>1. This = Exercise(UpperServer2, <<CheckedClient>>, "upper")
  BY DEF This, Exercises
<1>2. <<UpperServer2>> \o <<CheckedClient>> = <<UpperServer2, CheckedClient>>
  BY JoinPair
<1>3. This = [programs |-> <<UpperServer2, CheckedClient>>, answer |-> "upper"]
  BY <1>1, <1>2 DEF Exercise
<1>4. QED
  BY <1>3 DEF Procs, Clients, Code

\* Exercise debug.
LEMMA Runs_debug ==
    ASSUME exercise.name = "debug"
    PROVE  /\ This.answer = "upper"
           /\ Procs = 0..1 /\ Clients = 1..1
           /\ Code(0) = DebugServer.code
           /\ Code(1) = DebugClient.code
<1>1. This = Exercise(DebugServer, <<DebugClient>>, "upper")
  BY DEF This, Exercises
<1>2. <<DebugServer>> \o <<DebugClient>> = <<DebugServer, DebugClient>>
  BY JoinPair
<1>3. This = [programs |-> <<DebugServer, DebugClient>>, answer |-> "upper"]
  BY <1>1, <1>2 DEF Exercise
<1>4. QED
  BY <1>3 DEF Procs, Clients, Code

\* Exercise time.
LEMMA Runs_time ==
    ASSUME exercise.name = "time"
    PROVE  /\ This.answer = "silent"
           /\ Procs = 0..2 /\ Clients = 1..2
           /\ Code(0) = TimeServer.code
           /\ Code(1) = TimeClient.code
           /\ Code(2) = TimeClient.code
<1>1. This = Exercise(TimeServer, <<TimeClient, TimeClient>>, "silent")
  BY DEF This, Exercises
<1>2. <<TimeServer>> \o <<TimeClient, TimeClient>> = <<TimeServer, TimeClient, TimeClient>>
  BY JoinTriple
<1>3. This = [programs |-> <<TimeServer, TimeClient, TimeClient>>, answer |-> "silent"]
  BY <1>1, <1>2 DEF Exercise
<1>4. QED
  BY <1>3 DEF Procs, Clients, Code

\* Exercise chat.
LEMMA Runs_chat ==
    ASSUME exercise.name = "chat"
    PROVE  /\ This.answer = "lines"
           /\ Procs = 0..1 /\ Clients = 1..1
           /\ Code(0) = ChatServer.code
           /\ Code(1) = ChatClient.code
<1>1. This = Exercise(ChatServer, <<ChatClient>>, "lines")
  BY DEF This, Exercises
<1>2. <<ChatServer>> \o <<ChatClient>> = <<ChatServer, ChatClient>>
  BY JoinPair
<1>3. This = [programs |-> <<ChatServer, ChatClient>>, answer |-> "lines"]
  BY <1>1, <1>2 DEF Exercise
<1>4. QED
  BY <1>3 DEF Procs, Clients, Code

\* Exercise exit.
LEMMA Runs_exit ==
    ASSUME exercise.name = "exit"
    PROVE  /\ This.answer = "silent"
           /\ Procs = 0..1 /\ Clients = 1..1
           /\ Code(0) = ExitServer.code
           /\ Code(1) = ExitClient.code
<1>1. This = Exercise(ExitServer, <<ExitClient>>, "silent")
  BY DEF This, Exercises
<1>2. <<ExitServer>> \o <<ExitClient>> = <<ExitServer, ExitClient>>
  BY JoinPair
<1>3. This = [programs |-> <<ExitServer, ExitClient>>, answer |-> "silent"]
  BY <1>1, <1>2 DEF Exercise
<1>4. QED
  BY <1>3 DEF Procs, Clients, Code

\* Exercise udp.
LEMMA Runs_udp ==
    ASSUME exercise.name = "udp"
    PROVE  /\ This.answer = "upper"
           /\ Procs = 0..1 /\ Clients = 1..1
           /\ Code(0) = UdpServer1.code
           /\ Code(1) = UdpClient1.code
<1>1. This = Exercise(UdpServer1, <<UdpClient1>>, "upper")
  BY DEF This, Exercises
<1>2. <<UdpServer1>> \o <<UdpClient1>> = <<UdpServer1, UdpClient1>>
  BY JoinPair
<1>3. This = [programs |-> <<UdpServer1, UdpClient1>>, answer |-> "upper"]
  BY <1>1, <1>2 DEF Exercise
<1>4. QED
  BY <1>3 DEF Procs, Clients, Code

\* Exercise udp_lines.
LEMMA Runs_udp_lines ==
    ASSUME exercise.name = "udp_lines"
    PROVE  /\ This.answer = "upper"
           /\ Procs = 0..1 /\ Clients = 1..1
           /\ Code(0) = UdpServer2.code
           /\ Code(1) = UdpClient2.code
<1>1. This = Exercise(UdpServer2, <<UdpClient2>>, "upper")
  BY DEF This, Exercises
<1>2. <<UdpServer2>> \o <<UdpClient2>> = <<UdpServer2, UdpClient2>>
  BY JoinPair
<1>3. This = [programs |-> <<UdpServer2, UdpClient2>>, answer |-> "upper"]
  BY <1>1, <1>2 DEF Exercise
<1>4. QED
  BY <1>3 DEF Procs, Clients, Code

\* Exercise level_1.
LEMMA Runs_level_1 ==
    ASSUME exercise.name = "level_1"
    PROVE  /\ This.answer = "challenge"
           /\ Procs = 0..1 /\ Clients = 1..1
           /\ Code(0) = EngineL1.code
           /\ Code(1) = TransponderL1("encrypted").code
<1>1. This = Exercise(EngineL1, <<TransponderL1("encrypted")>>, "challenge")
  BY DEF This, Exercises
<1>2. <<EngineL1>> \o <<TransponderL1("encrypted")>> = <<EngineL1, TransponderL1("encrypted")>>
  BY JoinPair
<1>3. This = [programs |-> <<EngineL1, TransponderL1("encrypted")>>, answer |-> "challenge"]
  BY <1>1, <1>2 DEF Exercise
<1>4. QED
  BY <1>3 DEF Procs, Clients, Code

\* Exercise level_1_foreign.
LEMMA Runs_level_1_foreign ==
    ASSUME exercise.name = "level_1_foreign"
    PROVE  /\ This.answer = "challenge"
           /\ Procs = 0..1 /\ Clients = 1..1
           /\ Code(0) = EngineL1.code
           /\ Code(1) = TransponderL1("miskeyed").code
<1>1. This = Exercise(EngineL1, <<TransponderL1("miskeyed")>>, "challenge")
  BY DEF This, Exercises
<1>2. <<EngineL1>> \o <<TransponderL1("miskeyed")>> = <<EngineL1, TransponderL1("miskeyed")>>
  BY JoinPair
<1>3. This = [programs |-> <<EngineL1, TransponderL1("miskeyed")>>, answer |-> "challenge"]
  BY <1>1, <1>2 DEF Exercise
<1>4. QED
  BY <1>3 DEF Procs, Clients, Code

-----------------------------------------------------------------------------
(* The exercises by what their servers do.                                 *)

\* The exercises by what their servers do.  They answer request after request ...
Loops  == {"interaction", "iterative", "iterative_long"}

\* ... answer one with the string they have received, or its capitals ...
Wholes == {"one_way", "one_way_long", "hello_world", "checked", "debug"}

\* ... answer with as much of hello as the request is long ...
Hellos == {"simple", "simple_5001", "simple_ports", "simple_pause"}

\* ... sleep, and answer hello ...
Sleeps == {"blocking", "poll_once", "poll_loop", "waiting_2", "waiting_4",
           "waiting_15", "waiting_8", "waiting_port"}

\* ... answer nothing ...
Silents == {"time", "exit"}

\* ... send a challenge ...
Levels == {"level_1", "level_1_foreign"}

\* ... or answer datagrams.
Udps == {"udp", "udp_lines"}

\* All exercises.  two_request and chat promise no more than their requests' lengths
\* or the users' lines, and AnswersInOrder leaves them out.
Names  == Loops \cup Wholes \cup Hellos \cup Sleeps \cup Silents \cup Levels \cup Udps
          \cup {"two_request", "chat"}

\* The servers of these send at most once.
Singles == Wholes \cup Hellos \cup Sleeps \cup Silents \cup Levels

\* These are the exercises of Exercises.
LEMMA NamesAre == DOMAIN Exercises = Names
BY DEF Exercises, Names, Loops, Wholes, Hellos, Sleeps, Silents, Levels, Udps

\* The instruction at which such a server sends, or 0.
SendAt ==
    IF exercise.name \in Silents THEN 0
    ELSE IF exercise.name \in Sleeps THEN 6
    ELSE IF exercise.name = "debug" THEN 5 ELSE 4

\* The instruction at which the client of a server that answers one request sends it.
AskAt ==
    IF exercise.name \in {"checked", "simple_pause"} THEN 3
    ELSE IF exercise.name = "debug" THEN 4 ELSE 2

\* That request.
Request ==
    IF exercise.name = "one_way_long" THEN Long
    ELSE IF exercise.name \in {"hello_world", "checked", "debug"} THEN HelloWorld ELSE HelloC

\* What the programs of every exercise have in common.
LEMMA AllCodes ==
    ASSUME exercise.name \in Names
    PROVE  /\ Procs \in {0..1, 0..2} /\ Clients = Procs \ {0} /\ 1 \in Clients
           /\ \A p \in Procs : CodeOk(Code(p))
           /\ Serves(Code(0)) /\ \A c \in Clients : Asks(Code(c))
           /\ exercise.name \notin Levels => Mute(Code(0))
<1>1. CASE exercise.name = "interaction"
  BY <1>1, Runs_interaction, InteractionServerCode, InteractionClientCode
<1>2. CASE exercise.name = "iterative"
  BY <1>2, Runs_iterative, IterativeServerCode, IterativeClientCode
<1>3. CASE exercise.name = "iterative_long"
  BY <1>3, Runs_iterative_long, IterativeServerCode, LongerClientCode, LongClientCode
<1>4. CASE exercise.name = "two_request"
  BY <1>4, Runs_two_request, TwoRequestServerCode, TwoRequestClientCode
<1>5. CASE exercise.name = "one_way"
  BY <1>5, Runs_one_way, OneWayServerCode, SimpleClient5000Code
<1>6. CASE exercise.name = "one_way_long"
  BY <1>6, Runs_one_way_long, OneWayServerCode, LongClientCode
<1>7. CASE exercise.name = "simple"
  BY <1>7, Runs_simple, SimpleServer5000Code, SimpleClient5000Code
<1>8. CASE exercise.name = "simple_5001"
  BY <1>8, Runs_simple_5001, SimpleServer5001Code, SimpleClient5001Code
<1>9. CASE exercise.name = "simple_ports"
  BY <1>9, Runs_simple_ports, SimpleServerPauseCode, SimpleClient5001Code
<1>10. CASE exercise.name = "simple_pause"
  BY <1>10, Runs_simple_pause, SimpleServerPauseCode, BlockingClientCode
<1>11. CASE exercise.name = "blocking"
  BY <1>11, Runs_blocking, SleepServer15Code, BlockingClientCode
<1>12. CASE exercise.name = "poll_once"
  BY <1>12, Runs_poll_once, SleepServer2Code, PollOnceClientCode
<1>13. CASE exercise.name = "poll_loop"
  BY <1>13, Runs_poll_loop, SleepServer15Code, PollLoopClientCode
<1>14. CASE exercise.name = "waiting_2"
  BY <1>14, Runs_waiting_2, SleepServer2Code, WaitingClient2secCode
<1>15. CASE exercise.name = "waiting_4"
  BY <1>15, Runs_waiting_4, SleepServer4Code, WaitingClient2secCode
<1>16. CASE exercise.name = "waiting_15"
  BY <1>16, Runs_waiting_15, SleepServer15Code, WaitingClient2secCode
<1>17. CASE exercise.name = "waiting_8"
  BY <1>17, Runs_waiting_8, SleepServer8Code, WaitingClientCode
<1>18. CASE exercise.name = "waiting_port"
  BY <1>18, Runs_waiting_port, SleepServer8Code, PollLoopClientCode
<1>19. CASE exercise.name = "hello_world"
  BY <1>19, Runs_hello_world, UpperServerCode, HelloWorldClientCode
<1>20. CASE exercise.name = "checked"
  BY <1>20, Runs_checked, UpperServerCode, CheckedClientCode
     DEF UpperServer2
<1>21. CASE exercise.name = "debug"
  BY <1>21, Runs_debug, DebugServerCode, DebugClientCode
<1>22. CASE exercise.name = "time"
  BY <1>22, Runs_time, TimeServerCode, TimeClientCode
<1>23. CASE exercise.name = "chat"
  BY <1>23, Runs_chat, ChatServerCode, ChatClientCode
<1>24. CASE exercise.name = "exit"
  BY <1>24, Runs_exit, ExitServerCode, ExitClientCode
<1>25. CASE exercise.name = "udp"
  BY <1>25, Runs_udp, UdpServer1Code, UdpClient1Code
<1>26. CASE exercise.name = "udp_lines"
  BY <1>26, Runs_udp_lines, UdpServer2Code, UdpClient2Code
<1>27. CASE exercise.name = "level_1"
  BY <1>27, Runs_level_1, EngineL1Code, TransponderL1Code
     DEF Whats, Levels
<1>28. CASE exercise.name = "level_1_foreign"
  BY <1>28, Runs_level_1_foreign, EngineL1Code, TransponderL1Code
     DEF Whats, Levels
<1>29. QED
  BY <1>1, <1>2, <1>3, <1>4, <1>5, <1>6, <1>7, <1>8, <1>9, <1>10, <1>11, <1>12,
     <1>13, <1>14, <1>15, <1>16, <1>17, <1>18, <1>19, <1>20, <1>21, <1>22, <1>23,
     <1>24, <1>25, <1>26, <1>27, <1>28
     DEF Names, Loops, Wholes, Hellos, Sleeps, Silents, Levels, Udps

\* The programs of the exercises whose server sends at most once.
LEMMA SingleCodes ==
    ASSUME exercise.name \in Singles
    PROVE  /\ Shape(Code(0), SendAt)
           /\ \A p \in Procs : Tcp(Code(p))
<1>1. CASE exercise.name = "one_way"
  BY <1>1, Runs_one_way, OneWayServerCode, SimpleClient5000Code
     DEF SendAt, Singles, Wholes, Hellos, Sleeps, Silents, Levels
<1>2. CASE exercise.name = "one_way_long"
  BY <1>2, Runs_one_way_long, OneWayServerCode, LongClientCode
     DEF SendAt, Singles, Wholes, Hellos, Sleeps, Silents, Levels
<1>3. CASE exercise.name = "simple"
  BY <1>3, Runs_simple, SimpleServer5000Code, SimpleClient5000Code
     DEF SendAt, Singles, Wholes, Hellos, Sleeps, Silents, Levels
<1>4. CASE exercise.name = "simple_5001"
  BY <1>4, Runs_simple_5001, SimpleServer5001Code, SimpleClient5001Code
     DEF SendAt, Singles, Wholes, Hellos, Sleeps, Silents, Levels
<1>5. CASE exercise.name = "simple_ports"
  BY <1>5, Runs_simple_ports, SimpleServerPauseCode, SimpleClient5001Code
     DEF SendAt, Singles, Wholes, Hellos, Sleeps, Silents, Levels
<1>6. CASE exercise.name = "simple_pause"
  BY <1>6, Runs_simple_pause, SimpleServerPauseCode, BlockingClientCode
     DEF SendAt, Singles, Wholes, Hellos, Sleeps, Silents, Levels
<1>7. CASE exercise.name = "blocking"
  BY <1>7, Runs_blocking, SleepServer15Code, BlockingClientCode
     DEF SendAt, Singles, Wholes, Hellos, Sleeps, Silents, Levels
<1>8. CASE exercise.name = "poll_once"
  BY <1>8, Runs_poll_once, SleepServer2Code, PollOnceClientCode
     DEF SendAt, Singles, Wholes, Hellos, Sleeps, Silents, Levels
<1>9. CASE exercise.name = "poll_loop"
  BY <1>9, Runs_poll_loop, SleepServer15Code, PollLoopClientCode
     DEF SendAt, Singles, Wholes, Hellos, Sleeps, Silents, Levels
<1>10. CASE exercise.name = "waiting_2"
  BY <1>10, Runs_waiting_2, SleepServer2Code, WaitingClient2secCode
     DEF SendAt, Singles, Wholes, Hellos, Sleeps, Silents, Levels
<1>11. CASE exercise.name = "waiting_4"
  BY <1>11, Runs_waiting_4, SleepServer4Code, WaitingClient2secCode
     DEF SendAt, Singles, Wholes, Hellos, Sleeps, Silents, Levels
<1>12. CASE exercise.name = "waiting_15"
  BY <1>12, Runs_waiting_15, SleepServer15Code, WaitingClient2secCode
     DEF SendAt, Singles, Wholes, Hellos, Sleeps, Silents, Levels
<1>13. CASE exercise.name = "waiting_8"
  BY <1>13, Runs_waiting_8, SleepServer8Code, WaitingClientCode
     DEF SendAt, Singles, Wholes, Hellos, Sleeps, Silents, Levels
<1>14. CASE exercise.name = "waiting_port"
  BY <1>14, Runs_waiting_port, SleepServer8Code, PollLoopClientCode
     DEF SendAt, Singles, Wholes, Hellos, Sleeps, Silents, Levels
<1>15. CASE exercise.name = "hello_world"
  BY <1>15, Runs_hello_world, UpperServerCode, HelloWorldClientCode
     DEF SendAt, Singles, Wholes, Hellos, Sleeps, Silents, Levels
<1>16. CASE exercise.name = "checked"
  BY <1>16, Runs_checked, UpperServerCode, CheckedClientCode
     DEF SendAt, Singles, Wholes, Hellos, Sleeps, Silents, Levels, UpperServer2
<1>17. CASE exercise.name = "debug"
  BY <1>17, Runs_debug, DebugServerCode, DebugClientCode
     DEF SendAt, Singles, Wholes, Hellos, Sleeps, Silents, Levels
<1>18. CASE exercise.name = "time"
  BY <1>18, Runs_time, TimeServerCode, TimeClientCode
     DEF SendAt, Singles, Wholes, Hellos, Sleeps, Silents, Levels
<1>19. CASE exercise.name = "exit"
  BY <1>19, Runs_exit, ExitServerCode, ExitClientCode
     DEF SendAt, Singles, Wholes, Hellos, Sleeps, Silents, Levels
<1>20. CASE exercise.name = "level_1"
  BY <1>20, Runs_level_1, EngineL1Code, TransponderL1Code
     DEF SendAt, Singles, Wholes, Hellos, Sleeps, Silents, Levels, Whats
<1>21. CASE exercise.name = "level_1_foreign"
  BY <1>21, Runs_level_1_foreign, EngineL1Code, TransponderL1Code
     DEF SendAt, Singles, Wholes, Hellos, Sleeps, Silents, Levels, Whats
<1>22. QED
  BY <1>1, <1>2, <1>3, <1>4, <1>5, <1>6, <1>7, <1>8, <1>9, <1>10, <1>11, <1>12,
     <1>13, <1>14, <1>15, <1>16, <1>17, <1>18, <1>19, <1>20, <1>21
     DEF Singles, Wholes, Hellos, Sleeps, Silents, Levels

\* The servers that sleep.
LEMMA SleepCodes ==
    ASSUME exercise.name \in Sleeps
    PROVE  /\ This.answer = "hello" /\ Clients = {1} /\ SendAt = 6
           /\ Len(Code(0)) = 7 /\ Code(0)[6] = Fixed(HelloS)
<1>1. CASE exercise.name = "blocking"
  BY <1>1, Runs_blocking, SleepServer15Code, BlockingClientCode
     DEF SendAt, Sleeps, Silents
<1>2. CASE exercise.name = "poll_once"
  BY <1>2, Runs_poll_once, SleepServer2Code, PollOnceClientCode
     DEF SendAt, Sleeps, Silents
<1>3. CASE exercise.name = "poll_loop"
  BY <1>3, Runs_poll_loop, SleepServer15Code, PollLoopClientCode
     DEF SendAt, Sleeps, Silents
<1>4. CASE exercise.name = "waiting_2"
  BY <1>4, Runs_waiting_2, SleepServer2Code, WaitingClient2secCode
     DEF SendAt, Sleeps, Silents
<1>5. CASE exercise.name = "waiting_4"
  BY <1>5, Runs_waiting_4, SleepServer4Code, WaitingClient2secCode
     DEF SendAt, Sleeps, Silents
<1>6. CASE exercise.name = "waiting_15"
  BY <1>6, Runs_waiting_15, SleepServer15Code, WaitingClient2secCode
     DEF SendAt, Sleeps, Silents
<1>7. CASE exercise.name = "waiting_8"
  BY <1>7, Runs_waiting_8, SleepServer8Code, WaitingClientCode
     DEF SendAt, Sleeps, Silents
<1>8. CASE exercise.name = "waiting_port"
  BY <1>8, Runs_waiting_port, SleepServer8Code, PollLoopClientCode
     DEF SendAt, Sleeps, Silents
<1>9. QED
  BY <1>1, <1>2, <1>3, <1>4, <1>5, <1>6, <1>7, <1>8
     DEF Sleeps

\* The engine of level 1.
LEMMA LevelCodes ==
    ASSUME exercise.name \in Levels
    PROVE  /\ This.answer = "challenge" /\ Clients = {1} /\ SendAt = 4
           /\ Len(Code(0)) = 8 /\ Code(0)[4] = Fixed(Block("rnd", 1))
<1>1. CASE exercise.name = "level_1"
  BY <1>1, Runs_level_1, EngineL1Code, TransponderL1Code
     DEF SendAt, Sleeps, Silents, Whats
<1>2. CASE exercise.name = "level_1_foreign"
  BY <1>2, Runs_level_1_foreign, EngineL1Code, TransponderL1Code
     DEF SendAt, Sleeps, Silents, Whats
<1>3. QED
  BY <1>1, <1>2
     DEF Levels

\* The servers that answer with part of hello, and their clients.
LEMMA HelloCodes ==
    ASSUME exercise.name \in Hellos
    PROVE  /\ This.answer = "hello" /\ Clients = {1} /\ SendAt = 4
           /\ Len(Code(0)) \in {5, 6} /\ Code(0)[1] = Accept /\ Code(0)[2] = RecvChar
           /\ Code(0)[3] = Terminate /\ Code(0)[4] = Send("hello")
           /\ AskAt \in 1..Len(Code(1)) /\ Shape(Code(1), AskAt)
           /\ Request = HelloC /\ Code(1)[AskAt] = Fixed(Request)
<1>1. CASE exercise.name = "simple"
  BY <1>1, Runs_simple, SimpleServer5000Code, SimpleClient5000Code
     DEF SendAt, AskAt, Request, Sleeps, Silents
<1>2. CASE exercise.name = "simple_5001"
  BY <1>2, Runs_simple_5001, SimpleServer5001Code, SimpleClient5001Code
     DEF SendAt, AskAt, Request, Sleeps, Silents
<1>3. CASE exercise.name = "simple_ports"
  BY <1>3, Runs_simple_ports, SimpleServerPauseCode, SimpleClient5001Code, SMTT(20)
     DEF SendAt, AskAt, Request, Sleeps, Silents
<1>4. CASE exercise.name = "simple_pause"
  BY <1>4, Runs_simple_pause, SimpleServerPauseCode, BlockingClientCode
     DEF SendAt, AskAt, Request, Sleeps, Silents
<1>5. QED
  BY <1>1, <1>2, <1>3, <1>4
     DEF Hellos

\* The servers that answer with the string, and their clients.
LEMMA WholeCodes ==
    ASSUME exercise.name \in Wholes
    PROVE  /\ Clients = {1} /\ SendAt \in {4, 5}
           /\ Len(Code(0)) = SendAt + 1 /\ Code(0)[1] = Accept /\ Code(0)[2] \in {Recv, RecvChar}
           /\ SendAt = 5 => Code(0)[3] = When("failed", 6)
           /\ Code(0)[SendAt - 1] = Terminate
           /\ \/ This.answer = "echo" /\ Code(0)[SendAt] = Send("string")
              \/ This.answer = "upper" /\ Code(0)[SendAt] = Send("upper")
           /\ AskAt \in 1..Len(Code(1)) /\ Shape(Code(1), AskAt)
           /\ Code(1)[AskAt] = Fixed(Request)
<1>1. CASE exercise.name = "one_way"
  BY <1>1, Runs_one_way, OneWayServerCode, SimpleClient5000Code, SMTT(20)
     DEF SendAt, AskAt, Request, Sleeps, Silents
<1>2. CASE exercise.name = "one_way_long"
  BY <1>2, Runs_one_way_long, OneWayServerCode, LongClientCode, SMTT(20)
     DEF SendAt, AskAt, Request, Sleeps, Silents
<1>3. CASE exercise.name = "hello_world"
  BY <1>3, Runs_hello_world, UpperServerCode, HelloWorldClientCode, SMTT(20)
     DEF SendAt, AskAt, Request, Sleeps, Silents
<1>4. CASE exercise.name = "checked"
  BY <1>4, Runs_checked, UpperServerCode, CheckedClientCode, SMTT(40)
     DEF SendAt, AskAt, Request, Sleeps, Silents, UpperServer2
<1>5. CASE exercise.name = "debug"
  BY <1>5, Runs_debug, DebugServerCode, DebugClientCode, SMTT(20)
     DEF SendAt, AskAt, Request, Sleeps, Silents
<1>6. QED
  BY <1>1, <1>2, <1>3, <1>4, <1>5
     DEF Wholes

\* The servers that answer nothing.
LEMMA SilentCodes ==
    ASSUME exercise.name \in Silents
    PROVE  This.answer = "silent" /\ SendAt = 0
BY Runs_time, Runs_exit DEF Silents, SendAt

USE ExercisesAssumption, ShortReadsAssumption, ChosenAssumption

-----------------------------------------------------------------------------
(* Buffers and texts.                                                      *)

\* What recv() returns is what comes first, and the rest stays.
LEMMA ReadsPrefix ==
    ASSUME NEW S, NEW s \in Seq(S), NEW b \in Chunks(s, Cap)
    PROVE  /\ b \in Seq(S) /\ Len(b) \in 0..Len(s) /\ Len(b) <= Cap
           /\ \A i \in 1..Len(b) : b[i] = s[i]
           /\ Rest(s, b) \in Seq(S) /\ Len(Rest(s, b)) = Len(s) - Len(b)
           /\ b \o Rest(s, b) = s
<1> DEFINE full == IF Len(s) < Cap THEN Len(s) ELSE Cap
<1>0. Len(s) \in Nat
  OBVIOUS
<1>1. full \in 0..Len(s) /\ full <= Cap
  OBVIOUS
<1>2. PICK k \in {full} \cup {r \in ShortReads : r < full} : b = SubSeq(s, 1, k)
  BY DEF Chunks
<1>3. k \in Nat /\ k <= full
  <2>1. CASE k = full
    BY <2>1, <1>1
  <2>2. CASE k \in ShortReads /\ k < full
    BY <2>2, <1>1
  <2>3. QED
    BY <1>2, <2>1, <2>2
<1> HIDE DEF full
<1>4. k \in 0..Len(s) /\ k <= Cap
  BY <1>1, <1>3
<1>5. b \in Seq(S) /\ Len(b) = k /\ \A i \in 1..k : b[i] = s[i]
  <2>1. /\ SubSeq(s, 1, k) \in Seq(S)
        /\ Len(SubSeq(s, 1, k)) = IF 1 <= k THEN k - 1 + 1 ELSE 0
        /\ \A i \in 1..(k - 1 + 1) : SubSeq(s, 1, k)[i] = s[1 + i - 1]
    BY <1>4, SubSeqProperties
  <2>2. QED
    BY <1>2, <1>4, <2>1
<1>6. /\ Rest(s, b) \in Seq(S) /\ Len(Rest(s, b)) = Len(s) - k
      /\ \A i \in 1..(Len(s) - k) : Rest(s, b)[i] = s[k + i]
  <2>1. PICK n : n = Len(s)
    OBVIOUS
  <2>2. PICK t : t = SubSeq(s, k + 1, n)
    OBVIOUS
  <2>3. n \in Nat /\ k \in 0..n /\ \A i \in (k + 1)..n : s[i] \in S
    BY <1>4, <2>1
  <2>4. /\ t \in Seq(S)
        /\ Len(t) = IF k + 1 <= n THEN n - (k + 1) + 1 ELSE 0
        /\ \A i \in 1..(n - (k + 1) + 1) : t[i] = s[k + 1 + i - 1]
    BY <2>2, <2>3, SubSeqProperties
  <2>5. Len(t) = n - k
    BY <2>3, <2>4
  <2>6. \A i \in 1..(n - k) : i \in 1..(n - (k + 1) + 1) /\ k + 1 + i - 1 = k + i
    BY <2>3
  <2>7. \A i \in 1..(n - k) : t[i] = s[k + i]
    BY <2>4, <2>6
  <2>8. Rest(s, b) = t
    BY <1>5, <2>1, <2>2 DEF Rest
  <2>9. QED
    BY <2>1, <2>4, <2>5, <2>7, <2>8
<1>7. /\ b \o Rest(s, b) \in Seq(S) /\ Len(b \o Rest(s, b)) = Len(s)
      /\ \A i \in 1..Len(s) : (b \o Rest(s, b))[i] = s[i]
  <2>1. PICK t : t = Rest(s, b)
    OBVIOUS
  <2>2. /\ b \o t \in Seq(S) /\ Len(b \o t) = Len(b) + Len(t)
        /\ \A i \in 1..(Len(b) + Len(t)) :
             (b \o t)[i] = IF i <= Len(b) THEN b[i] ELSE t[i - Len(b)]
    <3>1. b \in Seq(S) /\ t \in Seq(S)
      BY <1>5, <1>6, <2>1
    <3>2. QED
      BY <3>1, ConcatProperties, Zenon
  <2>3. Len(b) + Len(t) = Len(s)
    BY <1>4, <1>5, <1>6, <2>1
  <2>4. \A i \in 1..Len(s) : (b \o t)[i] = s[i]
    <3>1. SUFFICES ASSUME NEW i \in 1..Len(s)
                   PROVE  (b \o t)[i] = s[i]
      OBVIOUS
    <3>2. CASE i <= k
      BY <1>4, <1>5, <2>2, <2>3, <3>2
    <3>3. CASE i > k
      <4>1. i - k \in 1..(Len(s) - k) /\ k + (i - k) = i
        BY <1>4, <3>3
      <4>2. (b \o t)[i] = t[i - k]
        BY <1>4, <1>5, <2>2, <2>3, <3>3
      <4>3. t[i - k] = s[k + (i - k)]
        BY <1>6, <2>1, <4>1
      <4>4. QED
        BY <4>1, <4>2, <4>3
    <3>4. i <= k \/ i > k
      BY <1>0, <1>3
    <3>5. QED
      BY <3>2, <3>3, <3>4
  <2>5. QED
    BY <2>1, <2>2, <2>3, <2>4
<1>8. b \o Rest(s, b) = s
  BY <1>7, SeqEqual, Zenon
<1>9. QED
  BY <1>4, <1>5, <1>6, <1>8

\* A set of numbers has a least one.
LEMMA Least ==
    ASSUME NEW T, T \subseteq Nat, T # {}
    PROVE  \E m \in T : \A i \in T : m <= i
<1>1. PICK m \in T : \A i \in T : ~(<<i, m>> \in OpToRel(<, Nat))
  BY WFMin, NatLessThanWellFounded
<1>2. \A i \in T : ~(i < m)
  BY <1>1 DEF OpToRel
<1>3. QED
  BY <1>2

\* The string in a buffer reaches up to the first zero byte.
LEMMA StringType ==
    ASSUME NEW buf \in [1..Cap -> Chars]
    PROVE  /\ StringIn(buf) \in Seq(Chars) /\ Len(StringIn(buf)) \in 0..Cap
           /\ \A i \in 1..Len(StringIn(buf)) : StringIn(buf)[i] = buf[i] /\ buf[i] # NUL
           /\ Len(StringIn(buf)) < Cap => buf[Len(StringIn(buf)) + 1] = NUL
<1> DEFINE ends == {i \in 1..Cap : buf[i] = NUL}
<1>0. buf \in Seq(Chars) /\ Len(buf) = Cap
  OBVIOUS
<1>1. CASE ends = {}
  <2>1. StringIn(buf) = buf
    BY <1>1 DEF StringIn
  <2>2. \A i \in 1..Cap : buf[i] # NUL
    BY <1>1
  <2>3. QED
    BY <1>0, <2>1, <2>2
<1>2. CASE ends # {}
  <2>0. ends \subseteq Nat
    OBVIOUS
  <2>1. PICK m \in ends : \A i \in ends : m <= i
    <3> HIDE DEF ends
    <3>1. QED
      BY <1>2, <2>0, Least
  <2>2. Min(ends) = m
    <3>1. Min(ends) \in ends /\ \A i \in ends : Min(ends) <= i
      BY <2>1 DEF Min
    <3>2. QED
      BY <2>1, <3>1
  <2>3. StringIn(buf) = SubSeq(buf, 1, m - 1)
    BY <1>2, <2>2 DEF StringIn
  <2>4. m \in 1..Cap /\ buf[m] = NUL /\ \A i \in 1..(m - 1) : buf[i] # NUL
    BY <2>1
  <2>5. /\ SubSeq(buf, 1, m - 1) \in Seq(Chars) /\ Len(SubSeq(buf, 1, m - 1)) = m - 1
        /\ \A i \in 1..(m - 1) : SubSeq(buf, 1, m - 1)[i] = buf[i]
    BY <1>0, <2>4
  <2>6. QED
    BY <2>3, <2>4, <2>5
<1>3. QED
  BY <1>1, <1>2

\* The zero byte, junk and capitals are characters.
LEMMA CharsType ==
    /\ NUL \in Chars /\ Junk \in Chars
    /\ \A ch \in Chars : Upper(ch) \in Chars
<1>1. NUL \in Chars /\ Junk \in Chars
  BY DEF NUL, Junk, Chars, Ids
<1>2. \A a, b, c : <<a, b, c>>[1] = a /\ <<a, b, c>>[3] = c
  OBVIOUS
<1>3. \A ch : Upper(ch) \in {ch, <<ch[1], 1, ch[3]>>}
  BY Zenon DEF Upper
<1>4. ASSUME NEW ch \in Chars
      PROVE  <<ch[1], 1, ch[3]>> \in Chars
  <2>1. CASE ch \in Ids \X Nat \X Nat
    <3>1. PICK a \in Ids, b \in Nat, c \in Nat : ch = <<a, b, c>>
      BY <2>1
    <3>2. <<a, 1, c>> \in Ids \X Nat \X Nat
      OBVIOUS
    <3>3. <<ch[1], 1, ch[3]>> = <<a, 1, c>>
      BY <3>1, <1>2
    <3>4. QED
      BY <3>2, <3>3 DEF Chars
  <2>2. CASE \E i \in Nat : ch = Past(i)
    BY <2>2, Zenon DEF Chars
  <2>3. CASE \E i \in Nat : ch = <<Past(i)[1], 1, Past(i)[3]>>
    <3>1. PICK i \in Nat : ch = <<Past(i)[1], 1, Past(i)[3]>>
      BY <2>3
    <3>2. ch[1] = Past(i)[1] /\ ch[3] = Past(i)[3]
      BY <1>2, <3>1, Zenon
    <3>3. <<ch[1], 1, ch[3]>> = ch
      BY <3>1, <3>2, Zenon
    <3>4. QED
      BY <3>3, Zenon
  <2>4. QED
    BY <2>1, <2>2, <2>3, Zenon DEF Chars
<1>5. \A ch \in Chars : Upper(ch) \in Chars
  BY <1>3, <1>4, Zenon
<1>6. QED
  BY <1>1, <1>5

\* The capitals of a text.
Uppers(s) == [i \in DOMAIN s |-> Upper(s[i])]

\* They are as many as the text has characters.
LEMMA UppersType ==
    ASSUME NEW s \in Seq(Chars)
    PROVE  /\ Uppers(s) \in Seq(Chars) /\ Len(Uppers(s)) = Len(s)
           /\ \A i \in 1..Len(s) : Uppers(s)[i] = Upper(s[i])
<1>1. \A i \in 1..Len(s) : s[i] \in Chars /\ Upper(s[i]) \in Chars
  BY CharsType
<1>2. Uppers(s) = [i \in 1..Len(s) |-> Upper(s[i])]
  BY DEF Uppers
<1>3. Uppers(s) \in [1..Len(s) -> Chars]
  BY <1>1, <1>2
<1>4. QED
  BY <1>2, <1>3

\* Receiving overwrites as much of the buffer as is received.
LEMMA PutType ==
    ASSUME NEW buf \in [1..Cap -> Chars], NEW b \in Seq(Chars)
    PROVE  /\ Put(buf, b) \in [1..Cap -> Chars]
           /\ \A i \in 1..Cap : Put(buf, b)[i] = IF i <= Len(b) THEN b[i] ELSE buf[i]
BY DEF Put

\* The users type characters.
LEMMA LinesType == Scripts \subseteq Seq(Seq(Chars))
<1>1. STRING \X {0} \X Nat \subseteq Chars
  <2>1. STRING \subseteq Ids
    BY Zenon DEF Ids
  <2>2. {0} \subseteq Nat
    OBVIOUS
  <2>3. QED
    BY <2>1, <2>2 DEF Chars
<1>2. Seq(STRING \X {0} \X Nat) \subseteq Seq(Chars)
  BY <1>1
<1>3. Seq(Seq(STRING \X {0} \X Nat)) \subseteq Seq(Seq(Chars))
  BY <1>2
<1>4. QED
  BY <1>3

-----------------------------------------------------------------------------
(* The types of the variables.                                             *)

\* A buffer has room for a random number, as recvBuffer of 1024 bytes has for one of
\* 16, a char counts to seven or more, as it does up to 127, and a line that is typed
\* fits in its array, with its terminator.
Room ==
    /\ Cap >= 16 /\ CharMax >= 7
    /\ \A script \in Scripts : \A i \in 1..Len(script) : Len(script[i]) < Cap

\* Texts of at most n characters.
Sized(n) == {s \in Seq(Chars) : Len(s) <= n}

\* The locals of a process.
Fields == {"pc", "n", "buf", "line", "input", "start", "wake", "late"}

\* The states of a socket.
States == {"none", "open", "fin", "reset", "gone", "shut"}

\* The locals r of process p have their types.  A line leaves room for its terminator.
ProcOk(p, r) ==
    /\ DOMAIN r = Fields
    /\ r.pc \in 0..Len(Code(p)) /\ r.n \in -(CharMax + 1)..Cap /\ r.late \in 0..Slack
    /\ r.buf \in [1..Cap -> Chars]
    /\ r.line \in Sized(Cap - 1) /\ r.input \in Seq(Sized(Cap - 1))

\* All processes' locals.
ProcsOk == DOMAIN proc = Procs /\ \A p \in Procs : ProcOk(p, proc[p])

\* No process gets a datagram of its own, nor one longer than a buffer.
MailOk ==
    /\ DOMAIN mail = Procs
    /\ \A p \in Procs : mail[p] \in Seq([from : Procs \ {p}, data : Sized(Cap)])

\* The connections.
SocketsOk == sock \in [Ends -> States] /\ inq \in [Ends -> Seq(Chars)]

\* Who waits to be accepted, and who is served.
QueueOk   == backlog \in Seq(Clients) /\ cur \in Clients

\* What the clients have sent and received.
HistOk    == sent \in [Clients -> Seq(Chars)] /\ got \in [Clients -> Seq(Chars)]

\* The flags.
WildOk    == wild \subseteq Procs /\ torn \in BOOLEAN

\* What never changes.
Constant  == Room /\ exercise.name \in Names /\ exercise.array \in [1..Cap -> Chars]

\* All variables have their types: TypeOK says less of them, and this is inductive.
TypedState == Constant /\ ProcsOk /\ SocketsOk /\ QueueOk /\ MailOk /\ HistOk /\ WildOk

\* The programs stay the same while the exercise does.
LEMMA Same ==
    ASSUME UNCHANGED exercise
    PROVE  /\ This' = This /\ Procs' = Procs /\ Clients' = Clients /\ Ends' = Ends
           /\ \A p : Code(p)' = Code(p)
           /\ Constant => Constant'
           /\ SendAt' = SendAt /\ AskAt' = AskAt /\ Request' = Request
BY DEF This, Procs, Clients, Ends, Code, Constant, SendAt, AskAt, Request

\* A process that has not ended is at an instruction of its program.
LEMMA At ==
    ASSUME TypedState, NEW p \in Procs, ~Ended(p)
    PROVE  /\ proc[p].pc \in 1..Len(Code(p)) /\ Len(Code(p)) \in Nat
           /\ Op(p) = Code(p)[proc[p].pc].op /\ Instr(p) = Code(p)[proc[p].pc]
           /\ Arg(p) = Code(p)[proc[p].pc].arg
           /\ InstrOk(Code(p)[proc[p].pc], Len(Code(p)))
           /\ Op(p) \notin {"Goto", "Return"} => proc[p].pc < Len(Code(p))
<1>1. CodeOk(Code(p)) /\ proc[p].pc \in 0..Len(Code(p)) /\ proc[p].pc # 0
  BY AllCodes DEF TypedState, Constant, ProcsOk, ProcOk, Ended
<1>2. QED
  BY <1>1 DEF CodeOk, Op, Instr, Ended, Arg

\* The server and one or two clients, and the sockets at either end.
LEMMA ProcessesAre ==
    ASSUME TypedState
    PROVE  /\ Procs \in {0..1, 0..2} /\ Clients = Procs \ {0} /\ 1 \in Clients
           /\ 0 \in Procs
           /\ \A p \in Procs : /\ p # 0 => p \in Clients
                              /\ Mine(p) \in Ends /\ Peer(Mine(p)) \in Ends
           /\ \A e \in Ends : Peer(e) \in Ends /\ Peer(e) # e
<1>1. Procs \in {0..1, 0..2} /\ Clients = Procs \ {0} /\ 1 \in Clients /\ 0 \in Procs
  BY AllCodes DEF TypedState, Constant
<1>2. cur \in Clients
  BY DEF TypedState, QueueOk
<1>3. QED
  BY <1>1, <1>2 DEF Mine, Peer, Ends

\* GoOn keeps the locals' types, if the new ones have them.
LEMMA GoOnOk ==
    ASSUME TypedState, NEW p \in Procs, ~Ended(p), Op(p) \notin {"Goto", "Return"},
           NEW r, ProcOk(p, r), r.pc = proc[p].pc, GoOn(p, r), UNCHANGED exercise
    PROVE  /\ ProcsOk'
           /\ \A q \in Procs \ {p} : proc'[q] = proc[q]
           /\ proc'[p].pc = proc[p].pc + 1
           /\ proc'[p].n = r.n /\ proc'[p].buf = r.buf
<1>1. proc[p].pc + 1 \in 0..Len(Code(p)) /\ proc[p].pc \in Int
  BY At
<1>2. DOMAIN proc = Procs
  BY DEF TypedState, ProcsOk
<1>3. proc' = [proc EXCEPT ![p] = [r EXCEPT !.pc = @ + 1]]
  BY DEF GoOn
<1>4. PICK s : s = [r EXCEPT !.pc = @ + 1]
  OBVIOUS
<1>5. DOMAIN r = Fields
  BY DEF ProcOk
<1>6. /\ DOMAIN s = Fields /\ s.pc = r.pc + 1 /\ s.n = r.n /\ s.buf = r.buf
      /\ s.line = r.line /\ s.input = r.input /\ s.late = r.late
  BY <1>4, <1>5 DEF Fields
<1>7. proc'[p] = s /\ DOMAIN proc' = Procs /\ \A q \in Procs \ {p} : proc'[q] = proc[q]
  BY <1>2, <1>3, <1>4
<1>8. ProcOk(p, s)
  BY <1>1, <1>6 DEF ProcOk
<1>9. \A q \in Procs : ProcOk(q, proc'[q])
  BY <1>7, <1>8 DEF TypedState, ProcsOk
<1>10. \A q \in Procs : ProcOk(q, proc[q])'
  BY <1>9, Same DEF ProcOk
<1>11. ProcsOk'
  BY <1>7, <1>10, Same DEF ProcsOk
<1>12. QED
  BY <1>1, <1>6, <1>7, <1>11

\* The same when only the program counter changes.
LEMMA JumpOk ==
    ASSUME TypedState, NEW p \in Procs, NEW t, t \in 0..Len(Code(p)),
           proc' = [proc EXCEPT ![p].pc = t], UNCHANGED exercise
    PROVE  /\ ProcsOk'
           /\ \A q \in Procs \ {p} : proc'[q] = proc[q]
           /\ proc'[p].pc = t
           /\ proc'[p].n = proc[p].n /\ proc'[p].buf = proc[p].buf
<1>2. DOMAIN proc = Procs /\ ProcOk(p, proc[p])
  BY DEF TypedState, ProcsOk
<1>4. PICK s : s = [proc[p] EXCEPT !.pc = t]
  OBVIOUS
<1>5. DOMAIN proc[p] = Fields
  BY <1>2 DEF ProcOk
<1>6. /\ DOMAIN s = Fields /\ s.pc = t /\ s.n = proc[p].n /\ s.buf = proc[p].buf
      /\ s.line = proc[p].line /\ s.input = proc[p].input /\ s.late = proc[p].late
  BY <1>4, <1>5 DEF Fields
<1>7. proc'[p] = s /\ DOMAIN proc' = Procs /\ \A q \in Procs \ {p} : proc'[q] = proc[q]
  BY <1>2, <1>4
<1>8. ProcOk(p, s)
  BY <1>2, <1>6 DEF ProcOk
<1>9. \A q \in Procs : ProcOk(q, proc'[q])
  BY <1>7, <1>8 DEF TypedState, ProcsOk
<1>10. \A q \in Procs : ProcOk(q, proc[q])'
  BY <1>9, Same DEF ProcOk
<1>11. ProcsOk'
  BY <1>7, <1>10, Same DEF ProcsOk
<1>12. QED
  BY <1>6, <1>7, <1>11

-----------------------------------------------------------------------------
(* The steps, and what they do to the sockets.                             *)

\* The peer of an open socket is connected and not closed yet.
Coupled ==
    \A e \in Ends : sock[e] = "open" => sock[Peer(e)] \notin {"none", "shut"}

\* Sockets only close.
Fewer ==
    /\ \A e \in Ends : sock'[e] = sock[e] \/ sock'[e] \in {"shut", "fin", "reset", "gone"}
    /\ \A e \in Ends : sock[e] = "shut" => sock'[e] = "shut"

\* Closing sockets only closes, and discards what has arrived at them.
LEMMA ShutOk ==
    ASSUME TypedState, NEW E, E \subseteq Ends, Shut(E), UNCHANGED exercise
    PROVE  /\ SocketsOk' /\ Fewer /\ (Coupled => Coupled')
           /\ \A e \in Ends : inq'[e] = inq[e] \/ (inq'[e] = <<>> /\ sock'[e] = "shut")
           /\ \A e \in E : sock'[e] = "shut" /\ inq'[e] = <<>>
<1>1. \A e \in E : sock'[e] = "shut" /\ inq'[e] = <<>>
  BY DEF Shut
<1>2. \A e \in Ends \ E : inq'[e] = inq[e]
  BY DEF Shut
<1>3. \A e \in Ends \ E :
        \/ sock'[e] = sock[e] /\ (sock[e] = "open" => Peer(e) \notin E)
        \/ sock[e] = "open" /\ sock'[e] \in {"fin", "reset"}
  <2>1. TAKE e \in Ends \ E
  <2>2. PICK c : c = (inq[Peer(e)] # <<>> \/ (e[2] = "C" /\ Contains(backlog, e[1])))
    OBVIOUS
  <2>3. sock'[e] = IF ~(Peer(e) \in E /\ sock[e] = "open") THEN sock[e]
                   ELSE IF c THEN "reset" ELSE "fin"
    BY <2>2 DEF Shut
  <2>4. CASE ~(Peer(e) \in E /\ sock[e] = "open")
    BY <2>3, <2>4
  <2>5. CASE Peer(e) \in E /\ sock[e] = "open"
    BY <2>3, <2>5
  <2>6. QED
    BY <2>4, <2>5
<1>4. sock' \in [Ends -> States] /\ inq' \in [Ends -> Seq(Chars)]
  <2>1. sock \in [Ends -> States] /\ inq \in [Ends -> Seq(Chars)]
    BY DEF TypedState, SocketsOk
  <2>2. <<>> \in Seq(Chars)
    OBVIOUS
  <2>3. DOMAIN sock' = Ends /\ DOMAIN inq' = Ends
    BY DEF Shut
  <2>4. \A e \in Ends : sock'[e] \in States /\ inq'[e] \in Seq(Chars)
    BY <1>1, <1>2, <1>3, <2>1, <2>2 DEF States
  <2>5. sock' = [e \in Ends |-> sock'[e]] /\ inq' = [e \in Ends |-> inq'[e]]
    BY <2>3 DEF Shut
  <2>6. QED
    BY <2>4, <2>5
<1>5. ASSUME NEW e \in Ends
      PROVE  inq'[e] = inq[e] \/ (inq'[e] = <<>> /\ sock'[e] = "shut")
  BY <1>1, <1>2
<1>6. Fewer
  <2>1. \A e \in Ends : e \in E \/ e \in Ends \ E
    OBVIOUS
  <2>2. QED
    BY <1>1, <1>3, <2>1 DEF Fewer
<1>7. ASSUME Coupled
      PROVE  Coupled'
  <2>1. ASSUME NEW e \in Ends, sock'[e] = "open"
        PROVE  sock'[Peer(e)] \notin {"none", "shut"}
    <3>1. e \in Ends \ E
      BY <1>1, <2>1
    <3>2. sock[e] = "open" /\ Peer(e) \notin E
      BY <1>3, <2>1, <3>1
    <3>3. Peer(e) \in Ends \ E /\ sock[Peer(e)] \notin {"none", "shut"}
      BY <1>7, <3>2, ProcessesAre DEF Coupled
    <3>4. QED
      BY <1>3, <3>3
  <2>2. \A e : Peer(e)' = Peer(e)
    BY DEF Peer
  <2>3. QED
    BY <2>1, <2>2, Same DEF Coupled
<1>8. QED
  BY <1>1, <1>4, <1>5, <1>6, <1>7, Same DEF SocketsOk

\* The first n characters of a buffer.
LEMMA PieceOf ==
    ASSUME NEW n \in 0..Cap, NEW s, \A i \in 1..n : s[i] \in Chars
    PROVE  /\ SubSeq(s, 1, n) \in Sized(Cap) /\ Len(SubSeq(s, 1, n)) = n
           /\ \A i \in 1..n : SubSeq(s, 1, n)[i] = s[i]
<1>1. /\ SubSeq(s, 1, n) \in Seq(Chars)
      /\ Len(SubSeq(s, 1, n)) = IF 1 <= n THEN n - 1 + 1 ELSE 0
      /\ \A i \in 1..(n - 1 + 1) : SubSeq(s, 1, n)[i] = s[1 + i - 1]
  BY SubSeqProperties
<1>2. QED
  BY <1>1 DEF Sized

\* What is sent is a text that fits in a buffer.
LEMMA OutgoingOk ==
    ASSUME TypedState, NEW p \in Procs, ~Ended(p), Op(p) \in Sends
    PROVE  Outgoing(p) \in Sized(Cap)
<1>1. /\ InstrOk(Instr(p), Len(Code(p))) /\ Instr(p).op = Op(p) /\ Arg(p) = Instr(p).arg
  BY At
<1>2. PICK r : r = proc[p]
  OBVIOUS
<1>3. r.buf \in [1..Cap -> Chars] /\ r.n \in Int /\ r.n <= Cap /\ r.line \in Sized(Cap - 1)
  BY <1>2 DEF TypedState, ProcsOk, ProcOk
<1>4. PICK str : str = StringIn(r.buf)
  OBVIOUS
<1>5. str \in Seq(Chars) /\ Len(str) \in 0..Cap /\ str \in Sized(Cap)
  BY <1>3, <1>4, StringType DEF Sized
<1>6. Cap >= 16
  BY DEF TypedState, Constant, Room
<1>7. CASE Op(p) = "Fixed"
  <2>1. Arg(p) \in Seq(Chars) /\ Len(Arg(p)) <= 16
    BY <1>1, <1>7 DEF InstrOk
  <2>2. Outgoing(p) = Arg(p)
    BY <1>7, Zenon DEF Outgoing
  <2>3. QED
    BY <1>6, <2>1, <2>2 DEF Sized
<1>8. CASE Op(p) # "Fixed"
  <2>1. Arg(p) \in Whats
    BY <1>1, <1>8 DEF InstrOk, Sends
  <2>2. CASE Arg(p) = "received"
    <3>1. Outgoing(p) = SubSeq(r.buf, 1, r.n)
      BY <1>2, <1>8, <2>2 DEF Outgoing
    <3>2. CASE r.n >= 0
      <4>1. \A i \in 1..r.n : r.buf[i] \in Chars
        BY <1>3
      <4>2. QED
        BY <1>3, <3>1, <3>2, <4>1, PieceOf
    <3>3. CASE r.n < 0
      <4>1. SubSeq(r.buf, 1, r.n) = <<>>
        BY <1>3, <3>3, SubSeqEmpty
      <4>2. <<>> \in Seq(Chars) /\ Len(<<>>) = 0
        OBVIOUS
      <4>3. Outgoing(p) \in Seq(Chars) /\ Len(Outgoing(p)) = 0
        BY <3>1, <4>1, <4>2, Zenon
      <4>4. QED
        BY <4>3 DEF Sized
    <3>4. QED
      BY <1>3, <3>2, <3>3
  <2>3. CASE Arg(p) = "string"
    <3>1. Outgoing(p) = str
      BY <1>2, <1>4, <1>8, <2>3 DEF Outgoing
    <3>2. QED
      BY <1>5, <3>1
  <2>4. CASE Arg(p) = "upper"
    <3>1. Outgoing(p) = Uppers(str)
      BY <1>2, <1>4, <1>8, <2>4 DEF Outgoing, Uppers
    <3>2. QED
      BY <1>5, <3>1, UppersType DEF Sized
  <2>5. CASE Arg(p) = "hello"
    <3>1. Outgoing(p) = SubSeq(HelloS, 1, Len(str))
      BY <1>2, <1>4, <1>8, <2>5 DEF Outgoing
    <3>2. \A i \in 1..Len(str) : HelloS[i] \in Chars
      <4>1. \A i \in Nat : Past(i) \in Chars
        BY DEF Chars
      <4>2. QED
        BY <1>5, <4>1 DEF Past
    <3>3. QED
      BY <1>5, <3>1, <3>2, PieceOf
  <2>6. CASE Arg(p) = "line"
    <3>1. Outgoing(p) = r.line
      BY <1>2, <1>8, <2>6 DEF Outgoing
    <3>2. QED
      BY <1>3, <3>1 DEF Sized
  <2>7. CASE Arg(p) = "array"
    <3>1. Outgoing(p) = Put(exercise.array, Append(r.line, NUL))
      BY <1>2, <1>8, <2>7 DEF Outgoing
    <3>2. Append(r.line, NUL) \in Seq(Chars)
      BY <1>3, CharsType, AppendProperties DEF Sized
    <3>3. Put(exercise.array, Append(r.line, NUL)) \in [1..Cap -> Chars]
      BY <3>2, PutType DEF TypedState, Constant
    <3>4. QED
      BY <3>1, <3>3 DEF Sized
  <2>8. CASE Arg(p) \in {"encrypted", "miskeyed"}
    <3>1. PICK n \in Nat : Outgoing(p) = Block("enc", n)
      BY <1>8, <2>8 DEF Outgoing
    <3>2. "enc" \in Ids
      BY DEF Ids
    <3>3. Block("enc", n) \in Seq(Chars) /\ Len(Block("enc", n)) = 16
      BY <3>2, BlockType, Zenon
    <3>4. QED
      BY <1>6, <3>1, <3>3 DEF Sized
  <2>9. QED
    BY <2>1, <2>2, <2>3, <2>4, <2>5, <2>6, <2>7, <2>8 DEF Whats
<1>9. QED
  BY <1>7, <1>8

\* What a step changes besides proc, for the conjuncts of TypedState.
LEMMA Unchanged ==
    ASSUME TypedState, UNCHANGED exercise
    PROVE  /\ Constant'
           /\ UNCHANGED <<sock, inq>> => SocketsOk'
           /\ UNCHANGED <<backlog, cur>> => QueueOk'
           /\ UNCHANGED mail => MailOk'
           /\ UNCHANGED <<sent, got>> => HistOk'
           /\ UNCHANGED <<wild, torn>> => WildOk'
BY Same DEF TypedState, SocketsOk, QueueOk, MailOk, HistOk, WildOk

\* The locals of p.
LEMMA LocalsOk ==
    ASSUME TypedState, NEW p \in Procs
    PROVE  /\ ProcOk(p, proc[p]) /\ DOMAIN proc[p] = Fields
           /\ \A n \in -(CharMax + 1)..Cap :
                ProcOk(p, [proc[p] EXCEPT !.n = n]) /\ [proc[p] EXCEPT !.n = n].pc = proc[p].pc
           /\ \A buf \in [1..Cap -> Chars] :
                ProcOk(p, [proc[p] EXCEPT !.buf = buf]) /\ [proc[p] EXCEPT !.buf = buf].pc = proc[p].pc
           /\ \A t :
                /\ ProcOk(p, [proc[p] EXCEPT !.wake = t]) /\ [proc[p] EXCEPT !.wake = t].pc = proc[p].pc
                /\ ProcOk(p, [proc[p] EXCEPT !.start = t]) /\ [proc[p] EXCEPT !.start = t].pc = proc[p].pc
<1>1. ProcOk(p, proc[p]) /\ DOMAIN proc[p] = Fields
  BY DEF TypedState, ProcsOk, ProcOk
<1>2. ASSUME NEW n \in -(CharMax + 1)..Cap
      PROVE  ProcOk(p, [proc[p] EXCEPT !.n = n]) /\ [proc[p] EXCEPT !.n = n].pc = proc[p].pc
  BY <1>1 DEF ProcOk, Fields
<1>3. ASSUME NEW buf \in [1..Cap -> Chars]
      PROVE  ProcOk(p, [proc[p] EXCEPT !.buf = buf]) /\ [proc[p] EXCEPT !.buf = buf].pc = proc[p].pc
  BY <1>1 DEF ProcOk, Fields
<1>4. ASSUME NEW t
      PROVE  /\ ProcOk(p, [proc[p] EXCEPT !.wake = t]) /\ [proc[p] EXCEPT !.wake = t].pc = proc[p].pc
             /\ ProcOk(p, [proc[p] EXCEPT !.start = t]) /\ [proc[p] EXCEPT !.start = t].pc = proc[p].pc
  BY <1>1 DEF ProcOk, Fields
<1>5. QED
  BY <1>1, <1>2, <1>3, <1>4

\* A number of bytes as a variable keeps it is the number or less, and if that is
\* positive and the number at most 2 * (CharMax + 1), it is the number.
LEMMA RetvalIs ==
    ASSUME CharMax \in Nat, NEW kind, NEW k \in Nat
    PROVE  /\ Retval(kind, k) \in -(CharMax + 1)..k
           /\ Retval(kind, k) > 0 /\ k <= 2 * (CharMax + 1) => Retval(kind, k) = k
           /\ kind = "int" => Retval(kind, k) = k
<1>1. PICK w : w = 2 * (CharMax + 1)
  OBVIOUS
<1>2. w \in Nat \ {0}
  BY <1>1
<1>3. PICK m : m = k % w
  OBVIOUS
<1>4. m \in 0..(w - 1) /\ (k < w => m = k) /\ m <= k
  BY <1>2, <1>3
<1>5. k = w => m = 0
  BY <1>2, <1>3
<1>6. Retval(kind, k) = IF kind # "char" THEN k ELSE IF m > CharMax THEN m - w ELSE m
  BY <1>1, <1>3 DEF Retval
<1>7. CASE kind # "char"
  BY <1>6, <1>7
<1>8. CASE kind = "char"
  <2>1. Retval(kind, k) = IF m > CharMax THEN m - w ELSE m
    BY <1>6, <1>8
  <2>2. CASE m > CharMax
    BY <1>1, <1>4, <1>8, <2>1, <2>2
  <2>3. CASE ~(m > CharMax)
    BY <1>1, <1>4, <1>5, <1>8, <2>1, <2>3
  <2>4. QED
    BY <2>2, <2>3
<1>9. QED
  BY <1>7, <1>8

\* What recv() may return, also when a char holds it.
LEMMA NumbersOk ==
    ASSUME Room
    PROVE  /\ 0..Cap \subseteq -(CharMax + 1)..Cap
           /\ {-1, EAGAIN} \subseteq -(CharMax + 1)..Cap
           /\ \A kind : \A k \in 0..Cap : Retval(kind, k) \in -(CharMax + 1)..Cap
<1>1. CharMax \in Nat /\ Cap \in Nat
  BY ExercisesAssumption
<1>2. ASSUME NEW kind, NEW k \in 0..Cap
      PROVE  Retval(kind, k) \in -(CharMax + 1)..Cap
  <2>1. Retval(kind, k) \in -(CharMax + 1)..k
    BY <1>1, RetvalIs
  <2>2. QED
    BY <1>1, <2>1
<1>3. QED
  BY <1>1, <1>2 DEF EAGAIN, Room

\* The Moves of a process: nothing flows ...
Quiet(p) ==
    /\ UNCHANGED <<sent, got>> /\ wild \subseteq wild'
    /\ \A e \in Ends : inq'[e] = inq[e] \/ (inq'[e] = <<>> /\ sock'[e] = "shut")
    /\ Op(p) # "Connect" => Fewer
    /\ Coupled => Coupled'
    /\ Op(p) # "Accept" => cur' = cur

\* ... or it sends ...
Sending(p) ==
    /\ Op(p) \in Sends /\ sock[Mine(p)] = "open" /\ UNCHANGED <<sock, got, wild, cur>>
    /\ inq' = [inq EXCEPT ![Peer(Mine(p))] = @ \o Outgoing(p)]
    /\ sent' = IF p = 0 THEN sent ELSE [sent EXCEPT ![p] = @ \o Outgoing(p)]
    /\ proc'[p].pc = proc[p].pc + 1 /\ proc'[p].n = Len(Outgoing(p))
    /\ proc'[p].buf = proc[p].buf

\* ... or it receives b.
Receiving(p, b) ==
    /\ Op(p) \in {"Recv", "Poll"} /\ UNCHANGED <<sock, sent, wild, cur>>
    /\ b # <<>> /\ b \in Chunks(inq[Mine(p)], Cap)
    /\ inq' = [inq EXCEPT ![Mine(p)] = Rest(@, b)]
    /\ got' = IF p = 0 THEN got ELSE [got EXCEPT ![p] = @ \o b]
    /\ proc'[p].pc = proc[p].pc + 1
    /\ proc'[p].n = Retval(IF Op(p) = "Recv" THEN Arg(p) ELSE "int", Len(b))
    /\ proc'[p].buf = Put(proc[p].buf, b)

\* Where process p can be after a step: at the end, one further, or where its test leads.
Targets(p) == {0, proc[p].pc + 1} \cup (IF Op(p) \in Tests THEN {Instr(p).to} ELSE {})

\* Process p moves and nobody else.
Others(p) == (\A q \in Procs \ {p} : proc'[q] = proc[q]) /\ proc'[p].pc \in Targets(p)

\* Nothing closes when no socket changes.
LEMMA Still ==
    ASSUME UNCHANGED <<exercise, sock>>
    PROVE  Fewer /\ (Coupled => Coupled')
<1>1. \A e : Peer(e)' = Peer(e)
  BY DEF Peer
<1>2. QED
  BY <1>1, Same DEF Fewer, Coupled

\* What the end of a process does to the sockets.
LEMMA FinishOk ==
    ASSUME TypedState, NEW p \in Procs, ~Ended(p), Finish(p), UNCHANGED exercise
    PROVE  /\ ProcsOk' /\ SocketsOk' /\ QueueOk' /\ MailOk' /\ Others(p) /\ proc'[p].pc = 0
           /\ \A e \in Ends : inq'[e] = inq[e] \/ (inq'[e] = <<>> /\ sock'[e] = "shut")
           /\ Fewer /\ (Coupled => Coupled') /\ cur' = cur
           /\ p = 0 => \A c \in Clients : sock'[<<c, "S">>] # "open"
           /\ p # 0 => UNCHANGED backlog
<1>1. 0 \in 0..Len(Code(p))
  BY At
<1>2. ProcsOk' /\ Others(p) /\ proc'[p].pc = 0
  BY <1>1, JumpOk DEF Finish, Others, Targets
<1>3. PICK E : E = {e \in Ends : /\ sock[e] # "none"
                          /\ IF p = 0 THEN e[2] = "S" ELSE e = <<p, "C">>}
  OBVIOUS
<1>4. Shut(E) /\ E \subseteq Ends
  BY <1>3 DEF Finish
<1>5. /\ SocketsOk' /\ \A e \in E : sock'[e] = "shut"
      /\ \A e \in Ends : inq'[e] = inq[e] \/ (inq'[e] = <<>> /\ sock'[e] = "shut")
      /\ Fewer /\ (Coupled => Coupled')
  BY <1>4, ShutOk
<1>6. QueueOk'
  <2>1. <<>> \in Seq(Clients)
    OBVIOUS
  <2>2. QED
    BY <2>1, Same DEF TypedState, QueueOk, Finish
<1>7. MailOk'
  BY Unchanged DEF Finish
<1>8. ASSUME p = 0, NEW c \in Clients
      PROVE  sock'[<<c, "S">>] # "open"
  <2>1. <<c, "S">> \in Ends
    BY DEF Ends
  <2>2. CASE sock[<<c, "S">>] = "none"
    BY <1>5, <2>1, <2>2 DEF Fewer
  <2>3. CASE sock[<<c, "S">>] # "none"
    <3>1. <<c, "S">> \in E
      BY <1>3, <1>8, <2>1, <2>3
    <3>2. QED
      BY <1>5, <3>1
  <2>4. QED
    BY <2>2, <2>3
<1>9. cur' = cur /\ (p # 0 => backlog' = backlog)
  BY DEF Finish
<1>10. QED
  BY <1>2, <1>5, <1>6, <1>7, <1>8, <1>9

\* The steps, one by one.  connect() lets nothing flow.
LEMMA ConnectStep ==
    ASSUME TypedState, NEW p \in Procs, ~Ended(p), DoConnect(p), UNCHANGED exercise
    PROVE  TypedState' /\ Others(p) /\ Quiet(p) /\ p \in Clients
<1>0. p \in Clients
  <2>1. Op(p) = "Connect" /\ Op(p) = Code(p)[proc[p].pc].op /\ proc[p].pc \in 1..Len(Code(p))
    BY At DEF DoConnect
  <2>2. Serves(Code(0))
    BY AllCodes DEF TypedState, Constant
  <2>3. p # 0
    BY <2>1, <2>2 DEF Serves
  <2>4. QED
    BY <2>3, ProcessesAre
<1>1. PICK k \in {0, -1} : GoOn(p, [proc[p] EXCEPT !.n = k])
  BY DEF DoConnect
<1>2. ProcsOk' /\ Others(p)
  <2>1. ProcOk(p, [proc[p] EXCEPT !.n = k]) /\ [proc[p] EXCEPT !.n = k].pc = proc[p].pc
    <3>1. k \in -(CharMax + 1)..Cap
      BY NumbersOk DEF TypedState, Constant
    <3>2. QED
      BY <3>1, LocalsOk
  <2>2. Op(p) = "Connect"
    BY DEF DoConnect
  <2>3. QED
    BY <1>1, <2>1, <2>2, GoOnOk DEF Others, Targets
<1>3. SocketsOk' /\ QueueOk'
  <2>1. <<p, "S">> \in Ends /\ <<p, "C">> \in Ends /\ p \in Clients
    BY <1>0 DEF Ends
  <2>2. Append(backlog, p) \in Seq(Clients)
    BY <2>1 DEF TypedState, QueueOk
  <2>3. [sock EXCEPT ![<<p, "S">>] = "open", ![<<p, "C">>] = "open"] \in [Ends -> States]
    BY <2>1 DEF TypedState, SocketsOk, States
  <2>4. UNCHANGED <<inq, cur>>
    BY DEF DoConnect
  <2>5. sock' \in {sock, [sock EXCEPT ![<<p, "S">>] = "open", ![<<p, "C">>] = "open"]}
        /\ backlog' \in {backlog, Append(backlog, p)}
    BY DEF DoConnect
  <2>6. QED
    BY <2>2, <2>3, <2>4, <2>5, Same DEF TypedState, SocketsOk, QueueOk
<1>4. UNCHANGED <<inq, mail, sent, got, torn, wild>>
  BY DEF DoConnect, hist
<1>5. ASSUME Coupled
      PROVE  Coupled'
  <2>1. sock' \in {sock, [sock EXCEPT ![<<p, "S">>] = "open", ![<<p, "C">>] = "open"]}
    BY DEF DoConnect
  <2>2. CASE sock' = sock
    BY <1>5, <2>2, Still
  <2>3. CASE sock' = [sock EXCEPT ![<<p, "S">>] = "open", ![<<p, "C">>] = "open"]
    <3>1. DOMAIN sock = Ends /\ <<p, "S">> \in Ends /\ <<p, "C">> \in Ends
      BY <1>0 DEF TypedState, SocketsOk, Ends
    <3>2. sock'[<<p, "S">>] = "open" /\ sock'[<<p, "C">>] = "open"
      BY <2>3, <3>1
    <3>3. \A e \in Ends \ {<<p, "S">>, <<p, "C">>} : sock'[e] = sock[e]
      BY <2>3, <3>1
    <3>4. ASSUME NEW e \in Ends, sock'[e] = "open"
          PROVE  sock'[Peer(e)] \notin {"none", "shut"}
      <4>1. CASE e \in {<<p, "S">>, <<p, "C">>}
        <5>1. Peer(e) \in {<<p, "S">>, <<p, "C">>}
          BY <4>1 DEF Peer
        <5>2. QED
          BY <3>2, <5>1
      <4>2. CASE e \notin {<<p, "S">>, <<p, "C">>}
        <5>1. sock[Peer(e)] \notin {"none", "shut"} /\ Peer(e) \in Ends
          BY <1>5, <3>3, <3>4, <4>2, ProcessesAre DEF Coupled
        <5>2. CASE Peer(e) \in {<<p, "S">>, <<p, "C">>}
          BY <3>2, <5>2
        <5>3. CASE Peer(e) \notin {<<p, "S">>, <<p, "C">>}
          BY <3>3, <5>1, <5>3
        <5>4. QED
          BY <5>2, <5>3
      <4>3. QED
        BY <4>1, <4>2
    <3>5. \A e : Peer(e)' = Peer(e)
      BY DEF Peer
    <3>6. QED
      BY <3>4, <3>5, Same DEF Coupled
  <2>4. QED
    BY <2>1, <2>2, <2>3
<1>6. Op(p) = "Connect" /\ cur' = cur
  BY DEF DoConnect
<1>7. QED
  BY <1>0, <1>2, <1>3, <1>4, <1>5, <1>6, Unchanged DEF TypedState, Quiet

\* accept() lets nothing flow.
LEMMA AcceptStep ==
    ASSUME TypedState, NEW p \in Procs, ~Ended(p), DoAccept(p), UNCHANGED exercise
    PROVE  TypedState' /\ Others(p) /\ Quiet(p)
<1>1. ProcsOk' /\ Others(p)
  BY GoOnOk, LocalsOk DEF DoAccept, Others, Targets
<1>2. QueueOk'
  <2>1. Head(backlog) \in Clients /\ Tail(backlog) \in Seq(Clients)
    BY HeadTailProperties DEF DoAccept, TypedState, QueueOk
  <2>2. QED
    BY <2>1, Same DEF DoAccept, QueueOk
<1>3. UNCHANGED <<sock, inq, mail, sent, got, torn, wild>>
  BY DEF DoAccept, hist
<1>4. Op(p) = "Accept"
  BY DEF DoAccept
<1>5. QED
  BY <1>1, <1>2, <1>3, <1>4, Unchanged, Still DEF TypedState, Quiet

\* A queue that something is appended to is still a queue.
LEMMA Extended ==
    ASSUME NEW I, NEW f \in [I -> Seq(Chars)], NEW e \in I, NEW data \in Seq(Chars)
    PROVE  [f EXCEPT ![e] = @ \o data] \in [I -> Seq(Chars)]
OBVIOUS

\* A socket whose peer has closed can only be gone.
LEMMA GoneMoves ==
    ASSUME TypedState, UNCHANGED exercise, NEW e \in Ends, sock[e] \in {"fin", "reset"},
           sock' = [sock EXCEPT ![e] = "gone"]
    PROVE  Fewer /\ (Coupled => Coupled')
<1>1. DOMAIN sock = Ends
  BY DEF TypedState, SocketsOk
<1>2. sock'[e] = "gone" /\ \A x \in Ends \ {e} : sock'[x] = sock[x]
  BY <1>1
<1>3. Fewer
  BY <1>2 DEF Fewer
<1>4. ASSUME Coupled, NEW x \in Ends, sock'[x] = "open"
      PROVE  sock'[Peer(x)] \notin {"none", "shut"}
  <2>1. sock[x] = "open" /\ Peer(x) \in Ends
    BY <1>2, <1>4, ProcessesAre
  <2>2. sock[Peer(x)] \notin {"none", "shut"}
    BY <1>4, <2>1 DEF Coupled
  <2>3. QED
    BY <1>2, <2>1, <2>2
<1>5. \A x : Peer(x)' = Peer(x)
  BY DEF Peer
<1>6. Coupled => Coupled'
  BY <1>4, <1>5, Same DEF Coupled
<1>7. QED
  BY <1>3, <1>6

\* send() sends when the socket is open.
LEMMA SendStep ==
    ASSUME TypedState, NEW p \in Procs, ~Ended(p), DoSend(p), UNCHANGED exercise
    PROVE  /\ TypedState' /\ Others(p) /\ (Quiet(p) \/ Sending(p))
           /\ sock[Mine(p)] = "open" => Sending(p)
<1> DEFINE e == Mine(p)
           data == Outgoing(p)
<1>1. data \in Sized(Cap) /\ data \in Seq(Chars) /\ Len(data) \in 0..Cap
  BY OutgoingOk DEF DoSend, Sized, Sends
<1>2. e \in Ends /\ Peer(e) \in Ends /\ (p # 0 => p \in Clients)
  BY ProcessesAre
<1>3. Op(p) \in Sends /\ Op(p) \notin {"Goto", "Return"} /\ UNCHANGED <<got, torn, wild>>
  BY DEF DoSend, Sends
<1>4. Len(data) \in -(CharMax + 1)..Cap /\ -1 \in -(CharMax + 1)..Cap
  BY <1>1, NumbersOk DEF TypedState, Constant
<1>5. CASE /\ sock[e] = "open"
           /\ inq' = [inq EXCEPT ![Peer(e)] = @ \o data]
           /\ sent' = IF p = 0 THEN sent ELSE [sent EXCEPT ![p] = @ \o data]
           /\ GoOn(p, [proc[p] EXCEPT !.n = Len(data)])
           /\ UNCHANGED <<sock, backlog, cur, mail, shown>>
  <2> HIDE DEF e, data
  <2>1. /\ ProcsOk' /\ (\A q \in Procs \ {p} : proc'[q] = proc[q])
        /\ proc'[p].pc = proc[p].pc + 1 /\ proc'[p].n = Len(data) /\ proc'[p].buf = proc[p].buf
    <3>1. PICK r : r = [proc[p] EXCEPT !.n = Len(data)]
      OBVIOUS
    <3>2. ProcOk(p, r) /\ r.pc = proc[p].pc
      BY <1>4, <3>1, LocalsOk
    <3>3. r.n = Len(data) /\ r.buf = proc[p].buf
      BY <3>1, LocalsOk DEF Fields
    <3>4. GoOn(p, r)
      BY <1>5, <3>1
    <3>5. QED
      BY <1>3, <3>2, <3>3, <3>4, GoOnOk
  <2>2. inq' \in [Ends -> Seq(Chars)]
    BY <1>1, <1>2, <1>5, Extended DEF TypedState, SocketsOk
  <2>3. sent' \in [Clients -> Seq(Chars)]
    BY <1>1, <1>2, <1>5, Extended DEF TypedState, HistOk
  <2>4. SocketsOk' /\ HistOk'
    BY <1>3, <1>5, <2>2, <2>3, Same DEF TypedState, SocketsOk, HistOk
  <2>5. TypedState'
    BY <1>3, <1>5, <2>1, <2>4, Unchanged DEF TypedState
  <2>6. Sending(p) /\ Others(p)
    BY <1>3, <1>5, <2>1 DEF Sending, Others, Targets, e, data
  <2>7. QED
    BY <2>5, <2>6
<1>6. CASE /\ sock[e] \in {"fin", "reset"}
           /\ sock' = [sock EXCEPT ![e] = "gone"]
           /\ GoOn(p, [proc[p] EXCEPT !.n = IF sock[e] = "fin" THEN Len(data) ELSE -1])
           /\ UNCHANGED <<inq, backlog, cur, mail, sent, shown>>
  <2> HIDE DEF e, data
  <2>1. ProcsOk' /\ Others(p)
    BY <1>3, <1>4, <1>6, LocalsOk, GoOnOk DEF Others, Targets
  <2>2. SocketsOk'
    BY <1>2, <1>6, Same DEF TypedState, SocketsOk, States
  <2>3. TypedState'
    BY <1>3, <1>6, <2>1, <2>2, Unchanged DEF TypedState
  <2>4. Fewer /\ (Coupled => Coupled')
    BY <1>2, <1>6, GoneMoves DEF e
  <2>5. Quiet(p)
    BY <1>3, <1>6, <2>4 DEF Quiet
  <2>6. QED
    BY <1>6, <2>1, <2>3, <2>5 DEF e
<1>7. CASE /\ sock[e] \in {"none", "gone", "shut"}
           /\ Finish(p)
           /\ UNCHANGED sent
  <2>1. /\ ProcsOk' /\ SocketsOk' /\ QueueOk' /\ MailOk' /\ Others(p)
        /\ \A x \in Ends : inq'[x] = inq[x] \/ (inq'[x] = <<>> /\ sock'[x] = "shut")
        /\ Fewer /\ (Coupled => Coupled') /\ cur' = cur
    BY <1>7, FinishOk
  <2>2. TypedState'
    BY <1>3, <1>7, <2>1, Unchanged DEF TypedState
  <2>3. UNCHANGED <<sent, got>> /\ wild \subseteq wild'
    BY <1>3, <1>7
  <2>4. Quiet(p)
    BY <2>1, <2>3, Zenon DEF Quiet
  <2>5. QED
    BY <1>7, <2>1, <2>2, <2>4
<1>8. QED
  BY <1>5, <1>6, <1>7 DEF DoSend

\* recv() without data: it returns 0 or less.
Missing(p) ==
    /\ Quiet(p) /\ UNCHANGED <<inq, wild, cur, backlog>>
    /\ Op(p) = "Poll" \/ sock[Mine(p)] # "open"
    /\ proc'[p].pc = proc[p].pc + 1 /\ proc'[p].n <= 0 /\ proc'[p].buf = proc[p].buf

\* recv() receives something, or has nothing to receive.
LEMMA RecvStep ==
    ASSUME TypedState, NEW p \in Procs, ~Ended(p), DoRecv(p), UNCHANGED exercise
    PROVE  TypedState' /\ Others(p) /\ (Missing(p) \/ \E b : Receiving(p, b))
<1> DEFINE e == Mine(p)
           kind == IF Op(p) = "Recv" THEN Arg(p) ELSE "int"
<1>1. e \in Ends /\ inq[e] \in Seq(Chars) /\ (p # 0 => p \in Clients)
  BY ProcessesAre DEF TypedState, SocketsOk
<1>2. Op(p) \in {"Recv", "Poll"} /\ UNCHANGED <<backlog, cur, mail, sent, shown, wild>>
  BY DEF DoRecv
<1>3. CASE \E b \in Chunks(inq[e], Cap) \ {<<>>} :
                /\ inq' = [inq EXCEPT ![e] = Rest(inq[e], b)]
                /\ GoOn(p, [proc[p] EXCEPT !.buf = Put(@, b), !.n = Retval(kind, Len(b))])
                /\ got' = IF p = 0 THEN got ELSE [got EXCEPT ![p] = @ \o b]
                /\ torn' = (torn \/ Len(b) < Min({Cap, Len(inq[e])}))
                /\ UNCHANGED sock
  <2> HIDE DEF e, kind
  <2>1. PICK b \in Chunks(inq[e], Cap) :
                /\ b # <<>>
                /\ inq' = [inq EXCEPT ![e] = Rest(inq[e], b)]
                /\ GoOn(p, [proc[p] EXCEPT !.buf = Put(@, b), !.n = Retval(kind, Len(b))])
                /\ got' = IF p = 0 THEN got ELSE [got EXCEPT ![p] = @ \o b]
                /\ torn' = (torn \/ Len(b) < Min({Cap, Len(inq[e])}))
                /\ UNCHANGED sock
    BY <1>3
  <2>2. b \in Seq(Chars) /\ Len(b) \in 0..Cap /\ Rest(inq[e], b) \in Seq(Chars)
    BY <1>1, <2>1, ReadsPrefix
  <2>3. /\ ProcsOk' /\ (\A q \in Procs \ {p} : proc'[q] = proc[q])
        /\ proc'[p].pc = proc[p].pc + 1 /\ proc'[p].n = Retval(kind, Len(b))
        /\ proc'[p].buf = Put(proc[p].buf, b)
    <3>1. PICK r : r = [proc[p] EXCEPT !.buf = Put(@, b), !.n = Retval(kind, Len(b))]
      OBVIOUS
    <3>2. /\ r.n = Retval(kind, Len(b)) /\ r.buf = Put(proc[p].buf, b) /\ r.pc = proc[p].pc
          /\ DOMAIN r = Fields /\ r.line = proc[p].line /\ r.input = proc[p].input
          /\ r.late = proc[p].late
      BY <3>1, LocalsOk DEF Fields
    <3>3. Retval(kind, Len(b)) \in -(CharMax + 1)..Cap
      BY <2>2, NumbersOk DEF TypedState, Constant
    <3>4. ProcOk(p, r)
      <4>1. ProcOk(p, proc[p])
        BY LocalsOk
      <4>2. Put(proc[p].buf, b) \in [1..Cap -> Chars]
        BY <2>2, <4>1, PutType DEF ProcOk
      <4>3. QED
        BY <3>2, <3>3, <4>1, <4>2 DEF ProcOk
    <3>5. GoOn(p, r)
      BY <2>1, <3>1
    <3>6. QED
      BY <1>2, <3>2, <3>4, <3>5, GoOnOk
  <2>4. SocketsOk'
    BY <1>1, <2>1, <2>2, Same DEF TypedState, SocketsOk
  <2>5. HistOk'
    <3>1. got' \in [Clients -> Seq(Chars)]
      BY <1>1, <2>1, <2>2, Extended DEF TypedState, HistOk
    <3>2. QED
      BY <1>2, <3>1, Same DEF TypedState, HistOk
  <2>6. WildOk'
    BY <1>2, <2>1, Same DEF TypedState, WildOk
  <2>7. TypedState'
    BY <1>2, <2>1, <2>3, <2>4, <2>5, <2>6, Unchanged DEF TypedState
  <2>8. Receiving(p, b) /\ Others(p)
    BY <1>2, <2>1, <2>3 DEF Receiving, Others, Targets, e, kind
  <2>9. QED
    BY <2>7, <2>8
<1>4. CASE /\ sock[e] # "open" \/ Op(p) = "Poll"
           /\ GoOn(p, [proc[p] EXCEPT !.n =
                   CASE sock[e] = "open" -> EAGAIN
                     [] sock[e] \in {"fin", "gone"} -> 0
                     [] OTHER -> -1])
           /\ sock' = IF sock[e] = "reset" THEN [sock EXCEPT ![e] = "gone"] ELSE sock
           /\ UNCHANGED <<inq, got, torn>>
  <2> HIDE DEF e
  <2>1. PICK n : n = CASE sock[e] = "open" -> EAGAIN
                     [] sock[e] \in {"fin", "gone"} -> 0
                     [] OTHER -> -1
    OBVIOUS
  <2>2. n \in {EAGAIN, 0, -1}
    BY <2>1
  <2>3. n \in -(CharMax + 1)..Cap
    BY <2>2, NumbersOk DEF TypedState, Constant
  <2>4. /\ ProcsOk' /\ (\A q \in Procs \ {p} : proc'[q] = proc[q])
        /\ proc'[p].pc = proc[p].pc + 1 /\ proc'[p].n = n
        /\ proc'[p].buf = proc[p].buf
    <3>1. PICK r : r = [proc[p] EXCEPT !.n = n]
      OBVIOUS
    <3>2. ProcOk(p, r) /\ r.pc = proc[p].pc
      BY <2>3, <3>1, LocalsOk
    <3>3. r.n = n /\ r.buf = proc[p].buf
      BY <3>1, LocalsOk DEF Fields
    <3>4. GoOn(p, r)
      BY <1>4, <2>1, <3>1
    <3>5. QED
      BY <1>2, <3>2, <3>3, <3>4, GoOnOk
  <2>5. SocketsOk'
    BY <1>1, <1>4, Same DEF TypedState, SocketsOk, States
  <2>6. Fewer /\ (Coupled => Coupled')
    <3>1. CASE sock[e] = "reset"
      BY <1>1, <1>4, <3>1, GoneMoves
    <3>2. CASE sock[e] # "reset"
      BY <1>4, <3>2, Still
    <3>3. QED
      BY <3>1, <3>2
  <2>7. TypedState'
    BY <1>2, <1>4, <2>4, <2>5, Unchanged DEF TypedState
  <2>8. Quiet(p)
    BY <1>2, <1>4, <2>6, Zenon DEF Quiet
  <2>9. n <= 0
    BY <2>2 DEF EAGAIN
  <2>10. Missing(p) /\ Others(p)
    BY <1>2, <1>4, <2>4, <2>8, <2>9 DEF Missing, Others, Targets, e
  <2>11. QED
    BY <2>7, <2>10
<1>5. QED
  BY <1>3, <1>4 DEF DoRecv

\* The terminator changes one byte of the buffer, or counts as a wild write.
LEMMA TerminateStep ==
    ASSUME TypedState, NEW p \in Procs, ~Ended(p), DoTerminate(p), UNCHANGED exercise
    PROVE  /\ TypedState' /\ Others(p) /\ Quiet(p)
           /\ proc'[p].pc = proc[p].pc + 1 /\ proc'[p].n = proc[p].n
           /\ UNCHANGED <<sock, inq, cur, sent, got>>
           /\ IF proc[p].n \in 0..(Cap - 1)
              THEN /\ wild' = wild
                   /\ proc'[p].buf = [proc[p].buf EXCEPT ![proc[p].n + 1] = NUL]
              ELSE p \in wild'
<1>1. Op(p) = "Terminate" /\ UNCHANGED <<sock, inq, backlog, cur, mail, sent, got, torn>>
  BY DEF DoTerminate, net
<1>2. CASE proc[p].n \in 0..(Cap - 1)
  <2>1. PICK buf : buf = [proc[p].buf EXCEPT ![proc[p].n + 1] = NUL]
    OBVIOUS
  <2>2. buf \in [1..Cap -> Chars]
    BY <1>2, <2>1, LocalsOk, CharsType DEF ProcOk
  <2>3. PICK r : r = [proc[p] EXCEPT !.buf = buf]
    OBVIOUS
  <2>4. ProcOk(p, r) /\ r.pc = proc[p].pc
    BY <2>2, <2>3, LocalsOk
  <2>5. r.n = proc[p].n /\ r.buf = buf /\ r = [proc[p] EXCEPT !.buf[proc[p].n + 1] = NUL]
    BY <2>1, <2>3, LocalsOk DEF Fields
  <2>6. GoOn(p, r) /\ UNCHANGED wild
    BY <1>2, <2>5 DEF DoTerminate
  <2>7. /\ ProcsOk' /\ (\A q \in Procs \ {p} : proc'[q] = proc[q])
        /\ proc'[p].pc = proc[p].pc + 1 /\ proc'[p].n = proc[p].n /\ proc'[p].buf = buf
    BY <1>1, <2>4, <2>5, <2>6, GoOnOk
  <2>8. TypedState' /\ Others(p)
    BY <1>1, <2>6, <2>7, Unchanged DEF TypedState, Others, Targets
  <2>9. QED
    BY <1>1, <1>2, <2>1, <2>6, <2>7, <2>8, Still DEF Quiet
<1>3. CASE proc[p].n \notin 0..(Cap - 1)
  <2>1. GoOn(p, proc[p]) /\ wild' = wild \cup {p}
    BY <1>3 DEF DoTerminate
  <2>2. /\ ProcsOk' /\ (\A q \in Procs \ {p} : proc'[q] = proc[q])
        /\ proc'[p].pc = proc[p].pc + 1 /\ proc'[p].n = proc[p].n
    BY <1>1, <2>1, LocalsOk, GoOnOk
  <2>3. WildOk'
    BY <1>1, <2>1, Same DEF TypedState, WildOk
  <2>4. TypedState' /\ Others(p)
    BY <1>1, <2>2, <2>3, Unchanged DEF TypedState, Others, Targets
  <2>5. QED
    BY <1>1, <1>3, <2>1, <2>2, <2>4, Still DEF Quiet
<1>4. QED
  BY <1>2, <1>3

\* What concerns the process alone lets nothing flow.
LEMMA LocalStep ==
    ASSUME TypedState, NEW p \in Procs, ~Ended(p), DoLocal(p), UNCHANGED exercise
    PROVE  TypedState' /\ Others(p) /\ Quiet(p)
<1>1. UNCHANGED <<sock, inq, backlog, cur, mail, sent, got, torn, wild>>
  BY DEF DoLocal, net, hist
<1>2. ProcOk(p, proc[p]) /\ DOMAIN proc[p] = Fields
  BY LocalsOk
<1>3. \A r : /\ GoOn(p, r) /\ ProcOk(p, r) /\ r.pc = proc[p].pc
             /\ Op(p) \in {"Fresh", "Load", "Gets", "Sleep", "Mark"}
             => ProcsOk' /\ Others(p)
  BY GoOnOk DEF Others, Targets
<1>4. SUFFICES ProcsOk' /\ Others(p)
  BY <1>1, Unchanged, Still DEF TypedState, Quiet
<1>5. CASE Op(p) = "Fresh" /\ GoOn(p, [proc[p] EXCEPT !.buf = exercise.array])
  BY <1>3, <1>5, LocalsOk DEF TypedState, Constant
<1>6. CASE Op(p) = "Load" /\ GoOn(p, [proc[p] EXCEPT !.line = Arg(p)])
  <2>1. Arg(p) \in Seq(Chars) /\ Len(Arg(p)) <= 15
    BY <1>6, At DEF InstrOk
  <2>2. Arg(p) \in Sized(Cap - 1)
    BY <2>1 DEF Sized, TypedState, Constant, Room
  <2>3. PICK r : r = [proc[p] EXCEPT !.line = Arg(p)]
    OBVIOUS
  <2>4. ProcOk(p, r) /\ r.pc = proc[p].pc
    BY <1>2, <2>2, <2>3 DEF ProcOk, Fields
  <2>5. QED
    BY <1>3, <1>6, <2>3, <2>4
<1>7. CASE /\ Op(p) = "Gets" /\ proc[p].input # <<>>
           /\ GoOn(p, [proc[p] EXCEPT !.line = Head(proc[p].input), !.input = Tail(@)])
  <2>1. Head(proc[p].input) \in Sized(Cap - 1) /\ Tail(proc[p].input) \in Seq(Sized(Cap - 1))
    BY <1>2, <1>7, HeadTailProperties DEF ProcOk
  <2>2. PICK r : r = [proc[p] EXCEPT !.line = Head(proc[p].input), !.input = Tail(@)]
    OBVIOUS
  <2>3. ProcOk(p, r) /\ r.pc = proc[p].pc
    BY <1>2, <2>1, <2>2 DEF ProcOk, Fields
  <2>4. QED
    BY <1>3, <1>7, <2>2, <2>3
<1>8. CASE Op(p) = "Sleep" /\ GoOn(p, [proc[p] EXCEPT !.wake = clock + Arg(p)])
  BY <1>3, <1>8, LocalsOk
<1>9. CASE Op(p) = "Mark" /\ GoOn(p, [proc[p] EXCEPT !.start = Seconds])
  BY <1>3, <1>9, LocalsOk
<1>10. QED
  BY <1>5, <1>6, <1>7, <1>8, <1>9 DEF DoLocal

\* A test changes the program counter only.
LEMMA TestStep ==
    ASSUME TypedState, NEW p \in Procs, ~Ended(p), DoTest(p), UNCHANGED exercise
    PROVE  /\ TypedState' /\ Others(p) /\ Quiet(p)
           /\ UNCHANGED <<sock, inq, cur, sent, got, wild>>
           /\ proc'[p].pc = IF Holds(p) THEN Instr(p).to ELSE proc[p].pc + 1
           /\ proc'[p].n = proc[p].n /\ proc'[p].buf = proc[p].buf
<1>1. UNCHANGED <<sock, inq, backlog, cur, mail, sent, got, torn, wild>> /\ Op(p) \in Tests
  BY DEF DoTest, net, hist, Tests
<1>2. PICK t : t = IF Holds(p) THEN Instr(p).to ELSE proc[p].pc + 1
  OBVIOUS
<1>3. t \in 0..Len(Code(p))
  <2>1. Instr(p).to \in 1..Len(Code(p))
    BY <1>1, At DEF InstrOk
  <2>2. Op(p) # "Goto" => proc[p].pc + 1 \in 0..Len(Code(p))
    BY <1>1, At DEF Tests
  <2>3. Op(p) = "Goto" => Holds(p)
    BY Zenon DEF Holds
  <2>4. CASE Holds(p)
    BY <1>2, <2>1, <2>4
  <2>5. CASE ~Holds(p)
    BY <1>2, <2>2, <2>3, <2>5
  <2>6. QED
    BY <2>4, <2>5
<1>4. proc' = [proc EXCEPT ![p].pc = t]
  BY <1>2, Zenon DEF DoTest
<1>5. /\ ProcsOk' /\ (\A q \in Procs \ {p} : proc'[q] = proc[q])
      /\ proc'[p].pc = t /\ proc'[p].n = proc[p].n /\ proc'[p].buf = proc[p].buf
  BY <1>3, <1>4, JumpOk
<1>6. Others(p)
  BY <1>1, <1>2, <1>5 DEF Others, Targets
<1>7. QED
  BY <1>1, <1>2, <1>5, <1>6, Unchanged, Still DEF TypedState, Quiet

\* A message lets nothing flow.
LEMMA ShowStep ==
    ASSUME TypedState, NEW p \in Procs, ~Ended(p), DoShow(p), UNCHANGED exercise
    PROVE  TypedState' /\ Others(p) /\ Quiet(p)
<1>1. UNCHANGED <<sock, inq, backlog, cur, mail, sent, got, torn, wild>> /\ Op(p) = "Show"
  BY DEF DoShow, net
<1>2. GoOn(p, proc[p])
  BY DEF DoShow
<1>3. ProcsOk' /\ Others(p)
  BY <1>1, <1>2, LocalsOk, GoOnOk DEF Others, Targets
<1>4. QED
  BY <1>1, <1>3, Unchanged, Still DEF TypedState, Quiet

\* close() closes the server's socket of the client it serves.
LEMMA CloseStep ==
    ASSUME TypedState, NEW p \in Procs, ~Ended(p), DoCloseClient(p), UNCHANGED exercise
    PROVE  /\ TypedState' /\ Others(p) /\ Quiet(p)
           /\ sock'[Mine(p)] = "shut" /\ UNCHANGED backlog
<1>1. ProcsOk' /\ Others(p)
  BY LocalsOk, GoOnOk DEF DoCloseClient, Others, Targets
<1>2. UNCHANGED <<backlog, cur, mail, sent, got, torn, wild>>
  BY DEF DoCloseClient, hist
<1>3. {Mine(p)} \subseteq Ends
  BY ProcessesAre
<1>4. /\ SocketsOk' /\ Fewer /\ (Coupled => Coupled')
      /\ \A e \in Ends : inq'[e] = inq[e] \/ (inq'[e] = <<>> /\ sock'[e] = "shut")
      /\ sock'[Mine(p)] = "shut"
  BY <1>3, ShutOk DEF DoCloseClient
<1>5. TypedState'
  BY <1>1, <1>2, <1>4, Unchanged DEF TypedState
<1>6. Quiet(p)
  BY <1>2, <1>4, Zenon DEF Quiet
<1>7. QED
  BY <1>1, <1>2, <1>4, <1>5, <1>6

\* The end of a program.
LEMMA ReturnStep ==
    ASSUME TypedState, NEW p \in Procs, ~Ended(p), DoReturn(p), UNCHANGED exercise
    PROVE  TypedState' /\ Others(p) /\ Quiet(p) /\ proc'[p].pc = 0
<1>1. UNCHANGED <<sent, got, torn, wild>> /\ Finish(p)
  BY DEF DoReturn, hist
<1>2. /\ ProcsOk' /\ SocketsOk' /\ QueueOk' /\ MailOk' /\ Others(p) /\ proc'[p].pc = 0
      /\ \A x \in Ends : inq'[x] = inq[x] \/ (inq'[x] = <<>> /\ sock'[x] = "shut")
      /\ Fewer /\ (Coupled => Coupled') /\ cur' = cur
  BY <1>1, FinishOk
<1>3. TypedState'
  BY <1>1, <1>2, Unchanged DEF TypedState
<1>4. Quiet(p)
  BY <1>1, <1>2, Zenon DEF Quiet
<1>5. QED
  BY <1>2, <1>3, <1>4

\* A datagram that is sent to somebody else keeps the mail's type.
LEMMA DatagramOk ==
    ASSUME TypedState, NEW p \in Procs, NEW to \in Procs \ {p}, NEW data \in Sized(Cap)
    PROVE  LET m == [mail EXCEPT ![to] = Append(@, [from |-> p, data |-> data])]
           IN  /\ DOMAIN m = Procs
               /\ \A q \in Procs : m[q] \in Seq([from : Procs \ {q}, data : Sized(Cap)])
<1>1. PICK d : d = [from |-> p, data |-> data]
  OBVIOUS
<1>2. d \in [from : Procs \ {to}, data : Sized(Cap)]
  BY <1>1
<1>3. PICK s : s = Append(mail[to], d)
  OBVIOUS
<1>4. s \in Seq([from : Procs \ {to}, data : Sized(Cap)])
  BY <1>2, <1>3, AppendProperties DEF TypedState, MailOk
<1>5. PICK m : m = [mail EXCEPT ![to] = s]
  OBVIOUS
<1>6. /\ DOMAIN m = Procs
      /\ \A q \in Procs : m[q] \in Seq([from : Procs \ {q}, data : Sized(Cap)])
  BY <1>4, <1>5 DEF TypedState, MailOk
<1>7. QED
  BY <1>1, <1>3, <1>5, <1>6

\* What a datagram of p carries.
Packet(p) ==
    IF Arg(p) = "line" THEN Append(proc[p].line, NUL)
    ELSE [i \in 1..proc[p].n |-> IF i < proc[p].n THEN Upper(proc[p].buf[i]) ELSE proc[p].buf[i]]

\* What is sent fits in a buffer.
LEMMA PacketOk ==
    ASSUME TypedState, NEW p \in Procs
    PROVE  Packet(p) \in Sized(Cap)
<1>1. PICK r : r = proc[p]
  OBVIOUS
<1>2. /\ r.buf \in [1..Cap -> Chars] /\ r.n \in Int /\ r.n <= Cap
      /\ r.line \in Seq(Chars) /\ Len(r.line) <= Cap - 1
  <2>1. /\ r.buf \in [1..Cap -> Chars] /\ r.n \in -(CharMax + 1)..Cap
        /\ r.line \in Sized(Cap - 1)
    BY <1>1, LocalsOk DEF ProcOk
  <2>2. QED
    BY <2>1 DEF Sized
<1>3. CASE Arg(p) = "line"
  <2>1. Append(r.line, NUL) \in Seq(Chars) /\ Len(Append(r.line, NUL)) = Len(r.line) + 1
    BY <1>2, CharsType, AppendProperties
  <2>2. Packet(p) = Append(r.line, NUL)
    BY <1>1, <1>3 DEF Packet
  <2>3. QED
    BY <1>2, <2>1, <2>2 DEF Sized
<1>4. CASE Arg(p) # "line"
  <2>1. Packet(p) = [i \in 1..r.n |-> IF i < r.n THEN Upper(r.buf[i]) ELSE r.buf[i]]
    BY <1>1, <1>4 DEF Packet
  <2>2. \A i \in 1..r.n : r.buf[i] \in Chars /\ Upper(r.buf[i]) \in Chars
    BY <1>2, CharsType
  <2>3. Packet(p) \in [1..r.n -> Chars]
    BY <2>1, <2>2
  <2>4. PICK k : k = IF r.n < 0 THEN 0 ELSE r.n
    OBVIOUS
  <2>5. 1..r.n = 1..k /\ k \in Nat /\ k <= Cap
    BY <1>2, <2>4
  <2>6. Packet(p) \in [1..k -> Chars]
    BY <2>3, <2>5
  <2>7. Packet(p) \in Seq(Chars) /\ Len(Packet(p)) = k
    BY <2>5, <2>6
  <2>8. QED
    BY <2>5, <2>7 DEF Sized
<1>5. QED
  BY <1>3, <1>4

\* sendto() brings a datagram to the peer, or loses it.
LEMMA SendToStep ==
    ASSUME TypedState, NEW p \in Procs, ~Ended(p), DoSendTo(p), UNCHANGED exercise
    PROVE  /\ TypedState' /\ Others(p) /\ UNCHANGED <<got, wild, sock, inq, cur>>
           /\ proc'[p].pc = proc[p].pc + 1 /\ proc'[p].n = proc[p].n /\ proc'[p].buf = proc[p].buf
           /\ sent' = IF p = 0 THEN sent ELSE [sent EXCEPT ![p] = @ \o Packet(p)]
           /\ LET to == IF p = 0 THEN cur ELSE 0
              IN  mail' \in {mail,
                   [mail EXCEPT ![to] = Append(@, [from |-> p, data |-> Packet(p)])]}
<1>1. PICK to : to = IF p = 0 THEN cur ELSE 0
  OBVIOUS
<1>2. PICK data : data = Packet(p)
  OBVIOUS
<1>3. data = IF Arg(p) = "line" THEN Append(proc[p].line, NUL)
             ELSE [i \in 1..proc[p].n |-> IF i < proc[p].n THEN Upper(proc[p].buf[i]) ELSE proc[p].buf[i]]
  BY <1>2 DEF Packet
<1>4. PICK m : m = [mail EXCEPT ![to] = Append(@, [from |-> p, data |-> data])]
  OBVIOUS
<1>5. /\ mail' \in {mail, m} /\ torn' \in BOOLEAN
      /\ sent' = IF p = 0 THEN sent ELSE [sent EXCEPT ![p] = @ \o data]
      /\ GoOn(p, proc[p]) /\ Op(p) = "SendTo"
      /\ UNCHANGED <<sock, inq, backlog, cur, got, shown, wild>>
  <2>1. PICK lost \in MayLose :
             /\ mail' = IF lost \/ Ended(to) THEN mail ELSE m
             /\ torn' = (torn \/ lost)
    BY <1>1, <1>3, <1>4, Zenon DEF DoSendTo
  <2>2. lost \in BOOLEAN /\ torn \in BOOLEAN
    BY DEF TypedState, WildOk
  <2>3. (torn \/ lost) \in BOOLEAN
    OBVIOUS
  <2>4. mail' \in {mail, m} /\ torn' \in BOOLEAN
    BY <2>1, <2>3
  <2>5. sent' = IF p = 0 THEN sent ELSE [sent EXCEPT ![p] = @ \o data]
    BY <1>3, Zenon DEF DoSendTo
  <2>6. QED
    BY <2>4, <2>5 DEF DoSendTo
<1>6. to \in Procs \ {p} /\ (p # 0 => p \in Clients)
  BY <1>1, ProcessesAre DEF TypedState, QueueOk
<1>7. data \in Sized(Cap) /\ data \in Seq(Chars)
  BY <1>2, PacketOk DEF Sized
<1>8. MailOk'
  <2>1. DOMAIN m = Procs /\ \A q \in Procs : m[q] \in Seq([from : Procs \ {q}, data : Sized(Cap)])
    BY <1>4, <1>6, <1>7, DatagramOk
  <2>2. DOMAIN mail' = Procs /\ \A q \in Procs : mail'[q] \in Seq([from : Procs \ {q}, data : Sized(Cap)])
    BY <1>5, <2>1 DEF TypedState, MailOk
  <2>3. QED
    BY <2>2, Same DEF MailOk
<1>9. HistOk'
  <2>1. sent' \in [Clients -> Seq(Chars)]
    BY <1>5, <1>6, <1>7, Extended DEF TypedState, HistOk
  <2>2. QED
    BY <1>5, <2>1, Same DEF TypedState, HistOk
<1>10. /\ ProcsOk' /\ (\A q \in Procs \ {p} : proc'[q] = proc[q])
       /\ proc'[p].pc = proc[p].pc + 1 /\ proc'[p].n = proc[p].n /\ proc'[p].buf = proc[p].buf
  BY <1>5, LocalsOk, GoOnOk
<1>11. WildOk'
  BY <1>5, Same DEF TypedState, WildOk
<1>12. TypedState' /\ Others(p)
  BY <1>5, <1>8, <1>9, <1>10, <1>11, Unchanged DEF TypedState, Others, Targets
<1>13. QED
  BY <1>1, <1>2, <1>4, <1>5, <1>10, <1>12

\* recvfrom() takes the oldest datagram, and remembers who has sent it.
LEMMA RecvFromStep ==
    ASSUME TypedState, NEW p \in Procs, ~Ended(p), DoRecvFrom(p), UNCHANGED exercise
    PROVE  /\ TypedState' /\ Others(p) /\ UNCHANGED <<sent, wild, sock, inq>>
           /\ mail[p] # <<>> /\ mail' = [mail EXCEPT ![p] = Tail(@)]
           /\ cur' = IF p = 0 THEN Head(mail[p]).from ELSE cur
           /\ got' = IF p = 0 THEN got ELSE [got EXCEPT ![p] = @ \o Head(mail[p]).data]
           /\ proc'[p].pc = proc[p].pc + 1 /\ proc'[p].n = Len(Head(mail[p]).data)
           /\ proc'[p].buf = Put(proc[p].buf, Head(mail[p]).data)
<1> DEFINE D == [from : Procs \ {p}, data : Sized(Cap)]
<1>1. mail[p] \in Seq(D) /\ mail[p] # <<>> /\ (p # 0 => p \in Clients)
  BY ProcessesAre DEF DoRecvFrom, TypedState, MailOk
<1>2. PICK d : d = Head(mail[p])
  OBVIOUS
<1>3. d \in D /\ Tail(mail[p]) \in Seq(D)
  <2> HIDE DEF D
  <2>1. QED
    BY <1>1, <1>2, HeadTailProperties
<1>4. d.from \in Procs \ {p} /\ d.data \in Seq(Chars) /\ Len(d.data) \in 0..Cap
  BY <1>3 DEF Sized
<1>5. /\ GoOn(p, [proc[p] EXCEPT !.buf = Put(@, d.data), !.n = Len(d.data)])
      /\ cur' = IF p = 0 THEN d.from ELSE cur
      /\ got' = IF p = 0 THEN got ELSE [got EXCEPT ![p] = @ \o d.data]
      /\ mail' = [mail EXCEPT ![p] = Tail(@)] /\ Op(p) = "RecvFrom"
      /\ UNCHANGED <<sock, inq, backlog, sent, shown, torn, wild>>
  BY <1>2 DEF DoRecvFrom
<1>6. /\ ProcsOk' /\ (\A q \in Procs \ {p} : proc'[q] = proc[q])
      /\ proc'[p].pc = proc[p].pc + 1 /\ proc'[p].n = Len(d.data)
      /\ proc'[p].buf = Put(proc[p].buf, d.data)
  <2>1. PICK r : r = [proc[p] EXCEPT !.buf = Put(@, d.data), !.n = Len(d.data)]
    OBVIOUS
  <2>2. /\ r.n = Len(d.data) /\ r.buf = Put(proc[p].buf, d.data) /\ r.pc = proc[p].pc
        /\ DOMAIN r = Fields /\ r.line = proc[p].line /\ r.input = proc[p].input
        /\ r.late = proc[p].late
    BY <2>1, LocalsOk DEF Fields
  <2>3. Len(d.data) \in -(CharMax + 1)..Cap
    BY <1>4, NumbersOk DEF TypedState, Constant
  <2>4. ProcOk(p, proc[p])
    BY LocalsOk
  <2>5. Put(proc[p].buf, d.data) \in [1..Cap -> Chars]
    BY <1>4, <2>4, PutType DEF ProcOk
  <2>6. ProcOk(p, r)
    BY <2>2, <2>3, <2>4, <2>5 DEF ProcOk
  <2>7. GoOn(p, r)
    BY <1>5, <2>1
  <2>8. QED
    BY <1>5, <2>2, <2>6, <2>7, GoOnOk
<1>7. QueueOk'
  <2>1. cur' \in Clients
    BY <1>4, <1>5, ProcessesAre DEF TypedState, QueueOk
  <2>2. QED
    BY <1>5, <2>1, Same DEF TypedState, QueueOk
<1>8. MailOk'
  <2>1. DOMAIN mail' = Procs /\ \A q \in Procs : mail'[q] \in Seq([from : Procs \ {q}, data : Sized(Cap)])
    BY <1>3, <1>5 DEF TypedState, MailOk
  <2>2. QED
    BY <2>1, Same DEF MailOk
<1>9. HistOk'
  <2>1. got' \in [Clients -> Seq(Chars)]
    BY <1>1, <1>4, <1>5, Extended DEF TypedState, HistOk
  <2>2. QED
    BY <1>5, <2>1, Same DEF TypedState, HistOk
<1>10. TypedState' /\ Others(p)
  BY <1>5, <1>6, <1>7, <1>8, <1>9, Unchanged DEF TypedState, Others, Targets
<1>11. QED
  BY <1>1, <1>2, <1>5, <1>6, <1>10

\* Every step keeps the types and is one of the three moves, unless it uses datagrams.
LEMMA StepTyped ==
    ASSUME TypedState, NEW p \in Procs, Step(p)
    PROVE  /\ TypedState' /\ Others(p) /\ UNCHANGED exercise /\ ~Ended(p)
           /\ (Tcp(Code(p)) => Quiet(p) \/ Sending(p) \/ \E b : Receiving(p, b))
<1>1. ~Ended(p) /\ UNCHANGED exercise
  BY DEF Step
<1>2. CASE DoConnect(p)
  BY <1>1, <1>2, ConnectStep
<1>3. CASE DoAccept(p)
  BY <1>1, <1>3, AcceptStep
<1>4. CASE DoSend(p)
  BY <1>1, <1>4, SendStep
<1>5. CASE DoRecv(p)
  BY <1>1, <1>5, RecvStep DEF Missing
<1>6. CASE DoSendTo(p)
  <2>1. ~Tcp(Code(p))
    BY <1>1, <1>6, At DEF DoSendTo, Tcp
  <2>2. QED
    BY <1>1, <1>6, <2>1, SendToStep
<1>7. CASE DoRecvFrom(p)
  <2>1. ~Tcp(Code(p))
    BY <1>1, <1>7, At DEF DoRecvFrom, Tcp
  <2>2. QED
    BY <1>1, <1>7, <2>1, RecvFromStep
<1>8. CASE DoTerminate(p)
  BY <1>1, <1>8, TerminateStep
<1>9. CASE DoLocal(p)
  BY <1>1, <1>9, LocalStep
<1>10. CASE DoTest(p)
  BY <1>1, <1>10, TestStep
<1>11. CASE DoShow(p)
  BY <1>1, <1>11, ShowStep
<1>12. CASE DoCloseClient(p)
  BY <1>1, <1>12, CloseStep
<1>13. CASE DoReturn(p)
  BY <1>1, <1>13, ReturnStep
<1>14. QED
  BY <1>2, <1>3, <1>4, <1>5, <1>6, <1>7, <1>8, <1>9, <1>10, <1>11, <1>12, <1>13 DEF Step

\* So does the clock, and nothing moves.
LEMMA TickTyped ==
    ASSUME TypedState, Tick
    PROVE  /\ TypedState' /\ UNCHANGED <<exercise, net, hist>>
           /\ \A p \in Procs : /\ proc'[p].pc = proc[p].pc /\ proc'[p].n = proc[p].n
                               /\ proc'[p].buf = proc[p].buf
<1>1. /\ UNCHANGED <<exercise, net, hist>>
      /\ UNCHANGED <<sock, inq, backlog, cur, mail, sent, got, torn, wild>>
  BY DEF Tick, net, hist
<1>2. DOMAIN proc' = Procs
  BY DEF Tick
<1>3. ASSUME NEW p \in Procs
      PROVE  /\ ProcOk(p, proc'[p]) /\ proc'[p].pc = proc[p].pc /\ proc'[p].n = proc[p].n
             /\ proc'[p].buf = proc[p].buf
  <2>1. ProcOk(p, proc[p]) /\ DOMAIN proc[p] = Fields
    BY LocalsOk
  <2>2. proc'[p] = [proc[p] EXCEPT !.late = IF Idle(p) THEN @ ELSE @ + 1]
    BY DEF Tick
  <2>3. PICK l : l = IF Idle(p) THEN proc[p].late ELSE proc[p].late + 1
    OBVIOUS
  <2>4. l \in 0..Slack
    <3>1. Idle(p) \/ proc[p].late < Lateness
      BY DEF Tick
    <3>2. Lateness \in {0, Slack}
      BY DEF Lateness
    <3>3. CASE Idle(p)
      BY <2>1, <2>3, <3>3 DEF ProcOk
    <3>4. CASE ~Idle(p)
      BY <2>1, <2>3, <3>1, <3>2, <3>4 DEF ProcOk
    <3>5. QED
      BY <3>3, <3>4
  <2>5. proc'[p] = [proc[p] EXCEPT !.late = l]
    BY <2>2, <2>3
  <2>6. QED
    BY <2>1, <2>4, <2>5 DEF ProcOk, Fields
<1>4. ProcsOk'
  <2>1. \A p \in Procs : ProcOk(p, proc[p])'
    BY <1>1, <1>3, Same DEF ProcOk
  <2>2. QED
    BY <1>1, <1>2, <2>1, Same DEF ProcsOk
<1>5. QED
  BY <1>1, <1>3, <1>4, Unchanged DEF TypedState

\* At the start nothing has been sent, and no time taken.
LEMMA InitTyped ==
    ASSUME Room, Init
    PROVE  /\ TypedState
           /\ \A e \in Ends : sock[e] = "none" /\ inq[e] = <<>>
           /\ \A c \in Clients : sent[c] = <<>> /\ got[c] = <<>>
           /\ \A p \in Procs : mail[p] = <<>> /\ proc[p].pc = 1
           /\ backlog = <<>>
           /\ clock = 0 /\ exercise.phase \in 0..1
           /\ \A p \in Procs : proc[p].start = Never /\ proc[p].wake = 0
           /\ \A p \in Procs : proc[p].buf = exercise.array
           /\ \A i \in 1..Cap : exercise.array[i] \in {NUL, Junk}
           /\ shown = {}
<1>1. PICK name \in Chosen, phase \in 0..1, junk \in Leftover :
        LET P == 0..(Len(Exercises[name].programs) - 1)
            prog(p) == Exercises[name].programs[p + 1]
        IN  /\ exercise = [name |-> name, phase |-> phase,
                           array |-> [i \in 1..Cap |-> IF i <= junk THEN Junk ELSE NUL]]
            /\ phase = 0 \/ \E p \in P : Calls(prog(p), "Mark")
            /\ \E typed \in [P -> Scripts \cup {<<>>}] :
                 /\ \A p \in P : Calls(prog(p), "Gets") <=> typed[p] # <<>>
                 /\ proc = [p \in P |->
                      [pc |-> 1, n |-> 0, buf |-> exercise.array, line |-> <<>>,
                       input |-> typed[p], start |-> Never, wake |-> 0, late |-> 0]]
            /\ sock = [e \in (P \ {0}) \X {"S", "C"} |-> "none"]
            /\ inq = [e \in (P \ {0}) \X {"S", "C"} |-> <<>>]
            /\ backlog = <<>> /\ cur = 1 /\ clock = 0
            /\ mail = [p \in P |-> <<>>]
            /\ sent = [c \in P \ {0} |-> <<>>] /\ got = [c \in P \ {0} |-> <<>>]
            /\ shown = {} /\ torn = FALSE /\ wild = {}
  BY Zenon DEF Init
<1>2. exercise.name = name /\ Procs = 0..(Len(Exercises[name].programs) - 1)
  BY <1>1 DEF Procs, This
<1>3. exercise.name \in Names
  BY <1>2, NamesAre
<1>4. exercise.array \in [1..Cap -> Chars] /\ \A i \in 1..Cap : exercise.array[i] \in {NUL, Junk}
  BY <1>1, CharsType
<1>5. Constant
  BY <1>3, <1>4 DEF Constant
<1>6. /\ \E typed \in [Procs -> Scripts \cup {<<>>}] :
           proc = [p \in Procs |->
                [pc |-> 1, n |-> 0, buf |-> exercise.array, line |-> <<>>,
                 input |-> typed[p], start |-> Never, wake |-> 0, late |-> 0]]
      /\ sock = [e \in (Procs \ {0}) \X {"S", "C"} |-> "none"]
      /\ inq = [e \in (Procs \ {0}) \X {"S", "C"} |-> <<>>]
      /\ mail = [p \in Procs |-> <<>>]
      /\ sent = [c \in Procs \ {0} |-> <<>>] /\ got = [c \in Procs \ {0} |-> <<>>]
      /\ backlog = <<>> /\ cur = 1 /\ torn = FALSE /\ wild = {}
  <2> DEFINE P == 0..(Len(Exercises[name].programs) - 1)
  <2>1. P = Procs
    BY <1>2
  <2>2. \E typed \in [P -> Scripts \cup {<<>>}] :
           proc = [p \in P |->
                [pc |-> 1, n |-> 0, buf |-> exercise.array, line |-> <<>>,
                 input |-> typed[p], start |-> Never, wake |-> 0, late |-> 0]]
    BY <1>1, Zenon
  <2>3. /\ sock = [e \in (P \ {0}) \X {"S", "C"} |-> "none"]
        /\ inq = [e \in (P \ {0}) \X {"S", "C"} |-> <<>>]
        /\ backlog = <<>> /\ cur = 1
        /\ mail = [p \in P |-> <<>>]
        /\ sent = [c \in P \ {0} |-> <<>>] /\ got = [c \in P \ {0} |-> <<>>]
        /\ torn = FALSE /\ wild = {}
    BY <1>1, Zenon
  <2> HIDE DEF P
  <2>4. QED
    BY <2>1, <2>2, <2>3, Zenon
<1>7. ASSUME NEW script \in Scripts \cup {<<>>}
      PROVE  script \in Seq(Sized(Cap - 1))
  <2>1. CASE script \in Scripts
    <3>1. script \in Seq(Seq(Chars))
      BY <2>1, LinesType
    <3>2. \A i \in 1..Len(script) : script[i] \in Seq(Chars) /\ Len(script[i]) < Cap
      BY <2>1, <3>1 DEF Room
    <3>3. \A i \in 1..Len(script) : script[i] \in Sized(Cap - 1)
      BY <3>2 DEF Sized
    <3>4. QED
      BY <3>1, <3>3, SMTT(20)
  <2>2. CASE script = <<>>
    BY <2>2
  <2>3. QED
    BY <2>1, <2>2
<1>8. /\ ProcsOk
      /\ \A p \in Procs : /\ proc[p].pc = 1 /\ proc[p].start = Never /\ proc[p].wake = 0
                          /\ proc[p].buf = exercise.array
  <2>1. PICK typed \in [Procs -> Scripts \cup {<<>>}] :
           proc = [p \in Procs |->
                [pc |-> 1, n |-> 0, buf |-> exercise.array, line |-> <<>>,
                 input |-> typed[p], start |-> Never, wake |-> 0, late |-> 0]]
    BY <1>6
  <2>2. ASSUME NEW p \in Procs
        PROVE  /\ ProcOk(p, proc[p]) /\ proc[p].pc = 1 /\ proc[p].start = Never
               /\ proc[p].wake = 0 /\ proc[p].buf = exercise.array
    <3>1. typed[p] \in Seq(Sized(Cap - 1))
      BY <1>7, <2>1
    <3>2. proc[p] = [pc |-> 1, n |-> 0, buf |-> exercise.array, line |-> <<>>,
                     input |-> typed[p], start |-> Never, wake |-> 0, late |-> 0]
      BY <2>1
    <3>3. 1 \in 0..Len(Code(p))
      <4>1. Len(Code(p)) \in Nat /\ Len(Code(p)) # 0
        BY <1>3, AllCodes DEF CodeOk
      <4>2. QED
        BY <4>1
    <3>4. 0 \in -(CharMax + 1)..Cap /\ 0 \in 0..Slack
      OBVIOUS
    <3>5. <<>> \in Sized(Cap - 1)
      <4>1. <<>> \in Seq(Chars) /\ Len(<<>>) = 0
        OBVIOUS
      <4>2. QED
        BY <4>1 DEF Sized
    <3>6. DOMAIN proc[p] = Fields
      BY <3>2 DEF Fields
    <3>7. QED
      BY <1>4, <3>1, <3>2, <3>3, <3>4, <3>5, <3>6 DEF ProcOk
  <2>3. QED
    BY <2>1, <2>2 DEF ProcsOk
<1>9. SocketsOk /\ \A e \in Ends : sock[e] = "none" /\ inq[e] = <<>>
  <2>1. <<>> \in Seq(Chars)
    OBVIOUS
  <2>2. QED
    BY <1>6, <2>1 DEF SocketsOk, States, Ends, Clients
<1>10. QueueOk
  <2>1. <<>> \in Seq(Clients)
    OBVIOUS
  <2>2. 1 \in Clients
    BY <1>3, AllCodes
  <2>3. QED
    BY <1>6, <2>1, <2>2 DEF QueueOk
<1>11. MailOk /\ \A p \in Procs : mail[p] = <<>>
  <2>1. \A S : <<>> \in Seq(S)
    OBVIOUS
  <2>2. QED
    BY <1>6, <2>1 DEF MailOk
<1>12. HistOk /\ \A c \in Clients : sent[c] = <<>> /\ got[c] = <<>>
  <2>1. <<>> \in Seq(Chars)
    OBVIOUS
  <2>2. QED
    BY <1>6, <2>1 DEF HistOk, Clients
<1>13. WildOk
  BY <1>6 DEF WildOk
<1>14. clock = 0 /\ exercise.phase \in 0..1 /\ shown = {}
  BY <1>1, Zenon
<1>15. QED
  BY <1>4, <1>5, <1>6, <1>8, <1>9, <1>10, <1>11, <1>12, <1>13, <1>14 DEF TypedState

\* The types are kept.
LEMMA NextTyped ==
    ASSUME TypedState, [Next]_vars
    PROVE  TypedState'
<1>1. CASE Tick
  BY <1>1, TickTyped
<1>2. CASE \E p \in Procs : Step(p)
  BY <1>2, StepTyped
<1>3. CASE UNCHANGED vars
  <2>1. UNCHANGED <<exercise, sock, inq, backlog, cur, mail, sent, got, torn, wild, proc>>
    BY <1>3 DEF vars, net, hist
  <2>2. ProcsOk'
    <3>1. \A p \in Procs : ProcOk(p, proc[p])'
      BY <2>1, Same DEF ProcOk, TypedState, ProcsOk
    <3>2. QED
      BY <2>1, <3>1, Same DEF ProcsOk, TypedState
  <2>3. QED
    BY <2>1, <2>2, Unchanged DEF TypedState
<1>4. QED
  BY <1>1, <1>2, <1>3 DEF Next

\* They are more than TypeOK asks for.
LEMMA TypedIsTypeOK == TypedState => TypeOK
<1> SUFFICES ASSUME TypedState PROVE TypeOK
  OBVIOUS
<1>1. ASSUME NEW p \in Procs
      PROVE  /\ proc[p].pc \in 0..Len(Code(p)) /\ proc[p].n \in -(CharMax + 1)..Cap
             /\ Len(proc[p].buf) = Cap /\ proc[p].late <= Slack
  <2>1. ProcOk(p, proc[p])
    BY LocalsOk
  <2>2. QED
    BY <2>1 DEF ProcOk
<1>2. \A e \in Ends : sock[e] \in {"none", "open", "fin", "reset", "gone", "shut"}
  BY DEF TypedState, SocketsOk, States
<1>3. QED
  BY <1>1, <1>2 DEF TypeOK, TypedState, QueueOk, WildOk

\* Type correctness of all exercises: program counters stay inside the programs, what
\* recv() returns, as an int or a char, inside what its type and the buffer allow, and
\* sockets in their six states, whatever recv() tears, UDP loses and users type.
THEOREM TypeCorrect == ASSUME Room PROVE ExercisesSpec => []TypeOK
<1>1. Init => TypedState
  BY InitTyped
<1>2. TypedState /\ [Next]_vars => TypedState'
  BY NextTyped
<1>3. QED
  BY <1>1, <1>2, TypedIsTypeOK, PTL DEF ExercisesSpec

\* The instruction decides which action a step is.
LEMMA OpIs ==
    ASSUME TypedState, NEW p \in Procs, Step(p)
    PROVE  /\ ~Ended(p) /\ UNCHANGED exercise
           /\ Op(p) = "Connect" => DoConnect(p)
           /\ Op(p) = "Accept" => DoAccept(p)
           /\ Op(p) \in Sends => DoSend(p)
           /\ Op(p) \in {"Recv", "Poll"} => DoRecv(p)
           /\ Op(p) = "SendTo" => DoSendTo(p)
           /\ Op(p) = "RecvFrom" => DoRecvFrom(p)
           /\ Op(p) = "Terminate" => DoTerminate(p)
           /\ Op(p) \in Tests => DoTest(p)
           /\ Op(p) = "CloseClient" => DoCloseClient(p)
           /\ Op(p) = "Return" => DoReturn(p)
           /\ Op(p) = "Show" => DoShow(p)
           /\ Op(p) \in {"Load", "Gets", "Sleep", "Mark", "Fresh"} => DoLocal(p)
<1>1. /\ DoConnect(p) => Op(p) = "Connect"
      /\ DoAccept(p) => Op(p) = "Accept"
      /\ DoSend(p) => Op(p) \in Sends
      /\ DoRecv(p) => Op(p) \in {"Recv", "Poll"}
      /\ DoSendTo(p) => Op(p) = "SendTo"
      /\ DoRecvFrom(p) => Op(p) = "RecvFrom"
      /\ DoTerminate(p) => Op(p) = "Terminate"
      /\ DoLocal(p) => Op(p) \in {"Fresh", "Load", "Gets", "Sleep", "Mark"}
      /\ DoTest(p) => Op(p) \in Tests
      /\ DoShow(p) => Op(p) = "Show"
      /\ DoCloseClient(p) => Op(p) = "CloseClient"
      /\ DoReturn(p) => Op(p) = "Return"
  BY DEF DoConnect, DoAccept, DoSend, DoRecv, DoSendTo, DoRecvFrom, DoTerminate, DoLocal,
         DoTest, DoShow, DoCloseClient, DoReturn, Sends, Tests
<1>2. /\ ~Ended(p) /\ UNCHANGED exercise
      /\ \/ DoConnect(p) \/ DoAccept(p) \/ DoSend(p) \/ DoRecv(p) \/ DoSendTo(p)
         \/ DoRecvFrom(p) \/ DoTerminate(p) \/ DoLocal(p) \/ DoTest(p) \/ DoShow(p)
         \/ DoCloseClient(p) \/ DoReturn(p)
  BY DEF Step
<1>3. QED
  BY <1>1, <1>2 DEF Sends, Tests

-----------------------------------------------------------------------------
(* What flows to the clients, in which order.                              *)

\* s is the beginning of t.
Begins(s, t) == Len(s) <= Len(t) /\ \A i \in 1..Len(s) : s[i] = t[i]

\* Being the beginning of something is a partial order.
LEMMA BeginsOrder ==
    ASSUME NEW s \in Seq(Chars), NEW t \in Seq(Chars), NEW u \in Seq(Chars)
    PROVE  /\ Begins(s, s) /\ Begins(<<>>, s) /\ (Begins(s, <<>>) => s = <<>>)
           /\ Begins(s, t) /\ Begins(t, u) => Begins(s, u)
           /\ Begins(s, s \o t)
<1>1. Begins(s, s) /\ Begins(<<>>, s)
  BY DEF Begins
<1>2. Begins(s, <<>>) => s = <<>>
  BY EmptySeq DEF Begins
<1>3. ASSUME Begins(s, t), Begins(t, u)
      PROVE  Begins(s, u)
  <2>1. /\ Len(s) <= Len(t) /\ Len(t) <= Len(u) /\ Len(s) \in Nat /\ Len(t) \in Nat
        /\ Len(u) \in Nat
    BY <1>3 DEF Begins
  <2>2. \A i \in 1..Len(s) : i \in 1..Len(t)
    BY <2>1
  <2>3. QED
    BY <1>3, <2>1, <2>2 DEF Begins
<1>4. Begins(s, s \o t)
  <2>1. Len(s \o t) = Len(s) + Len(t) /\ Len(s) \in Nat /\ Len(t) \in Nat
    BY ConcatProperties
  <2>2. \A i \in 1..Len(s) : i \in 1..(Len(s) + Len(t))
    BY <2>1
  <2>3. \A i \in 1..(Len(s) + Len(t)) : (s \o t)[i] = IF i <= Len(s) THEN s[i] ELSE t[i - Len(s)]
    BY ConcatProperties
  <2>4. \A i \in 1..Len(s) : (s \o t)[i] = s[i]
    BY <2>1, <2>2, <2>3
  <2>5. QED
    BY <2>1, <2>4 DEF Begins
<1>5. QED
  BY <1>1, <1>2, <1>3, <1>4

\* The same text in front of both changes nothing.
LEMMA BeginsJoin ==
    ASSUME NEW g \in Seq(Chars), NEW s \in Seq(Chars), NEW t \in Seq(Chars), Begins(s, t)
    PROVE  Begins(g \o s, g \o t) /\ (Begins(g \o t, g \o s) => s = t)
<1>1. PICK a : a = g \o s
  OBVIOUS
<1>2. PICK b : b = g \o t
  OBVIOUS
<1>3. /\ Len(a) = Len(g) + Len(s)
      /\ \A i \in 1..(Len(g) + Len(s)) : a[i] = IF i <= Len(g) THEN g[i] ELSE s[i - Len(g)]
  BY <1>1, ConcatProperties
<1>4. /\ Len(b) = Len(g) + Len(t)
      /\ \A i \in 1..(Len(g) + Len(t)) : b[i] = IF i <= Len(g) THEN g[i] ELSE t[i - Len(g)]
  BY <1>2, ConcatProperties
<1>5. Len(g) \in Nat /\ Len(s) \in Nat /\ Len(t) \in Nat /\ Len(s) <= Len(t)
  BY DEF Begins
<1>6. ASSUME NEW i \in 1..Len(a)
      PROVE  a[i] = b[i]
  <2>1. CASE i <= Len(g)
    BY <1>3, <1>4, <1>5, <2>1
  <2>2. CASE i > Len(g)
    <3>1. i - Len(g) \in 1..Len(s) /\ a[i] = s[i - Len(g)] /\ b[i] = t[i - Len(g)]
      BY <1>3, <1>4, <1>5, <2>2
    <3>2. QED
      BY <3>1 DEF Begins
  <2>3. i <= Len(g) \/ i > Len(g)
    BY <1>3, <1>5
  <2>4. QED
    BY <2>1, <2>2, <2>3
<1>7. Begins(a, b)
  BY <1>3, <1>4, <1>5, <1>6 DEF Begins
<1>8. Begins(b, a) => s = t
  <2>1. SUFFICES ASSUME Begins(b, a) PROVE s = t
    OBVIOUS
  <2>2. Len(s) = Len(t)
    BY <1>3, <1>4, <1>5, <2>1 DEF Begins
  <2>3. QED
    BY <2>2, SeqEqual DEF Begins
<1>9. QED
  BY <1>1, <1>2, <1>7, <1>8

\* What is left of a beginning is IsPrefix of the community modules.
LEMMA BeginsIsPrefix ==
    ASSUME NEW s \in Seq(Chars), NEW x \in Seq(Chars), NEW t \in Seq(Chars),
           Begins(s \o x, t)
    PROVE  IsPrefix(s, t)
<1>1. s \o x \in Seq(Chars)
  OBVIOUS
<1>2. Begins(s, s \o x)
  BY BeginsOrder
<1>3. Begins(s, t)
  <2>1. PICK y : y = s \o x
    OBVIOUS
  <2>2. QED
    BY <1>1, <1>2, <2>1, BeginsOrder
<1>4. SubSeq(s, 1, Len(s)) = SubSeq(t, 1, Len(s))
  <2>1. PICK a : a = SubSeq(s, 1, Len(s))
    OBVIOUS
  <2>2. PICK b : b = SubSeq(t, 1, Len(s))
    OBVIOUS
  <2>3. Len(s) \in Nat /\ Len(t) \in Nat /\ Len(s) <= Len(t)
    BY <1>3 DEF Begins
  <2>4. /\ a \in Seq(Chars) /\ Len(a) = Len(s) /\ \A i \in 1..Len(s) : a[i] = s[i]
    BY <2>1, <2>3
  <2>5. /\ b \in Seq(Chars) /\ Len(b) = Len(s) /\ \A i \in 1..Len(s) : b[i] = t[i]
    BY <2>2, <2>3
  <2>6. a = b
    BY <1>3, <2>3, <2>4, <2>5, SeqEqual DEF Begins
  <2>7. QED
    BY <2>1, <2>2, <2>6
<1>5. QED
  BY <1>3, <1>4 DEF IsPrefix, Begins

\* Capitals of a beginning begin the capitals.
LEMMA BeginsUppers ==
    ASSUME NEW s \in Seq(Chars), NEW t \in Seq(Chars), Begins(s, t)
    PROVE  Begins(Uppers(s), Uppers(t))
<1>1. \A i \in 1..Len(s) : i \in 1..Len(t) /\ s[i] = t[i]
  BY DEF Begins
<1>2. QED
  BY <1>1, UppersType DEF Begins

\* Capitals of two texts, one after the other.
LEMMA UppersJoin ==
    ASSUME NEW s \in Seq(Chars), NEW t \in Seq(Chars)
    PROVE  Uppers(s \o t) = Uppers(s) \o Uppers(t)
<1>1. PICK j : j = s \o t
  OBVIOUS
<1>2. /\ j \in Seq(Chars) /\ Len(j) = Len(s) + Len(t)
      /\ \A i \in 1..(Len(s) + Len(t)) : j[i] = IF i <= Len(s) THEN s[i] ELSE t[i - Len(s)]
  BY <1>1, ConcatProperties
<1>3. PICK a : a = Uppers(s)
  OBVIOUS
<1>4. PICK b : b = Uppers(t)
  OBVIOUS
<1>5. /\ a \in Seq(Chars) /\ Len(a) = Len(s) /\ \A i \in 1..Len(s) : a[i] = Upper(s[i])
  BY <1>3, UppersType
<1>6. /\ b \in Seq(Chars) /\ Len(b) = Len(t) /\ \A i \in 1..Len(t) : b[i] = Upper(t[i])
  BY <1>4, UppersType
<1>7. PICK u : u = Uppers(j)
  OBVIOUS
<1>8. /\ u \in Seq(Chars) /\ Len(u) = Len(j) /\ \A i \in 1..Len(j) : u[i] = Upper(j[i])
  BY <1>2, <1>7, UppersType
<1>9. PICK v : v = a \o b
  OBVIOUS
<1>10. /\ v \in Seq(Chars) /\ Len(v) = Len(a) + Len(b)
       /\ \A i \in 1..(Len(a) + Len(b)) : v[i] = IF i <= Len(a) THEN a[i] ELSE b[i - Len(a)]
  <2>1. a \in Seq(Chars) /\ b \in Seq(Chars)
    BY <1>5, <1>6
  <2>2. QED
    BY <1>9, <2>1, ConcatProperties, Zenon
<1>11. ASSUME NEW i \in 1..Len(u)
       PROVE  u[i] = v[i]
  <2>1. Len(s) \in Nat /\ Len(t) \in Nat /\ i \in 1..(Len(s) + Len(t))
    BY <1>2, <1>8
  <2>2. CASE i <= Len(s)
    BY <1>2, <1>5, <1>8, <1>10, <1>6, <2>1, <2>2
  <2>3. CASE i > Len(s)
    <3>1. i - Len(s) \in 1..Len(t)
      BY <2>1, <2>3
    <3>2. u[i] = Upper(t[i - Len(s)])
      BY <1>2, <1>8, <2>1, <2>3
    <3>3. v[i] = b[i - Len(s)]
      BY <1>5, <1>6, <1>10, <2>1, <2>3
    <3>4. QED
      BY <1>6, <3>1, <3>2, <3>3
  <2>4. QED
    BY <2>1, <2>2, <2>3
<1>12. Len(u) = Len(v)
  BY <1>2, <1>5, <1>6, <1>8, <1>10
<1>13. u = v
  BY <1>8, <1>10, <1>11, <1>12, SeqEqual
<1>14. QED
  BY <1>1, <1>3, <1>4, <1>7, <1>9, <1>13

\* What has arrived at the server from client c.
InqS(c) == inq[<<c, "S">>]

\* What has arrived at client c.
InqC(c) == inq[<<c, "C">>]

\* All that the server has sent to client c and that is not lost.
Flow(c) == got[c] \o InqC(c)

\* These are texts.
LEMMA Flowing ==
    ASSUME TypedState, NEW c \in Clients
    PROVE  /\ <<c, "S">> \in Ends /\ <<c, "C">> \in Ends
           /\ got[c] \in Seq(Chars) /\ sent[c] \in Seq(Chars)
           /\ InqS(c) \in Seq(Chars) /\ InqC(c) \in Seq(Chars) /\ Flow(c) \in Seq(Chars)
<1>1. <<c, "S">> \in Ends /\ <<c, "C">> \in Ends
  BY DEF Ends
<1>2. /\ got[c] \in Seq(Chars) /\ sent[c] \in Seq(Chars)
      /\ InqS(c) \in Seq(Chars) /\ InqC(c) \in Seq(Chars)
  BY <1>1 DEF TypedState, SocketsOk, HistOk, InqS, InqC
<1>3. Flow(c) \in Seq(Chars)
  BY <1>2, ConcatProperties, Zenon DEF Flow
<1>4. QED
  BY <1>1, <1>2, <1>3

\* Putting texts one behind the other.
LEMMA Joined ==
    ASSUME NEW s \in Seq(Chars), NEW t \in Seq(Chars), NEW u \in Seq(Chars)
    PROVE  /\ (s \o t) \o u = s \o (t \o u) /\ s \o t \in Seq(Chars)
           /\ s \o <<>> = s /\ <<>> \o s = s
           /\ Len(s \o t) = Len(s) + Len(t)
<1>1. (s \o t) \o u = s \o (t \o u)
  <2>1. PICK S : S = Chars
    OBVIOUS
  <2>2. s \in Seq(S) /\ t \in Seq(S) /\ u \in Seq(S)
    BY <2>1
  <2>3. QED
    BY <2>2, ConcatAssociative
<1>2. QED
  BY <1>1, ConcatProperties

\* What sending changes for client c.
LEMMA SendsTo ==
    ASSUME TypedState, NEW p \in Procs, ~Ended(p), Sending(p), NEW c \in Clients
    PROVE  /\ InqC(c)' = IF p = 0 /\ c = cur THEN InqC(c) \o Outgoing(p) ELSE InqC(c)
           /\ InqS(c)' = IF p = c THEN InqS(c) \o Outgoing(p) ELSE InqS(c)
           /\ sent'[c] = IF p = c THEN sent[c] \o Outgoing(p) ELSE sent[c]
           /\ got'[c] = got[c]
<1>1. DOMAIN inq = Ends /\ DOMAIN sent = Clients /\ cur \in Clients /\ 0 \notin Clients
  BY ProcessesAre DEF TypedState, SocketsOk, HistOk, QueueOk
<1>2. <<c, "S">> \in Ends /\ <<c, "C">> \in Ends /\ Peer(Mine(p)) \in Ends
  BY Flowing, ProcessesAre
<1>3. inq' = [inq EXCEPT ![Peer(Mine(p))] = @ \o Outgoing(p)]
  BY DEF Sending
<1>4. inq'[Peer(Mine(p))] = inq[Peer(Mine(p))] \o Outgoing(p)
  BY <1>1, <1>2, <1>3
<1>5. \A e \in Ends : e # Peer(Mine(p)) => inq'[e] = inq[e]
  BY <1>1, <1>3
<1>6. Peer(Mine(p)) = IF p = 0 THEN <<cur, "C">> ELSE <<p, "S">>
  BY DEF Peer, Mine
<1>7. InqC(c)' = IF p = 0 /\ c = cur THEN InqC(c) \o Outgoing(p) ELSE InqC(c)
  <2>1. InqC(c) = inq[<<c, "C">>] /\ InqC(c)' = inq'[<<c, "C">>]
    BY DEF InqC
  <2>2. CASE p = 0 /\ c = cur
    <3>1. Peer(Mine(p)) = <<c, "C">>
      BY <1>6, <2>2
    <3>2. QED
      BY <1>4, <2>1, <2>2, <3>1
  <2>3. CASE ~(p = 0 /\ c = cur)
    <3>1. Peer(Mine(p)) # <<c, "C">>
      BY <1>6, <2>3
    <3>2. QED
      BY <1>2, <1>5, <2>1, <2>3, <3>1
  <2>4. QED
    BY <2>2, <2>3
<1>8. InqS(c)' = IF p = c THEN InqS(c) \o Outgoing(p) ELSE InqS(c)
  <2>1. InqS(c) = inq[<<c, "S">>] /\ InqS(c)' = inq'[<<c, "S">>]
    BY DEF InqS
  <2>2. CASE p = c
    <3>1. Peer(Mine(p)) = <<c, "S">>
      BY <1>1, <1>6, <2>2
    <3>2. QED
      BY <1>4, <2>1, <2>2, <3>1
  <2>3. CASE p # c
    <3>1. Peer(Mine(p)) # <<c, "S">>
      BY <1>6, <2>3
    <3>2. QED
      BY <1>2, <1>5, <2>1, <2>3, <3>1
  <2>4. QED
    BY <2>2, <2>3
<1>9. sent'[c] = IF p = c THEN sent[c] \o Outgoing(p) ELSE sent[c]
  BY <1>1 DEF Sending
<1>10. got'[c] = got[c]
  BY DEF Sending
<1>11. QED
  BY <1>7, <1>8, <1>9, <1>10

\* What receiving changes for client c: the order of what flows stays.
LEMMA ReceivesFrom ==
    ASSUME TypedState, NEW p \in Procs, ~Ended(p), NEW b, Receiving(p, b), NEW c \in Clients
    PROVE  /\ b \in Seq(Chars) /\ Len(b) \in 1..Cap /\ sent'[c] = sent[c]
           /\ p = c => got'[c] = got[c] \o b /\ b \o InqC(c)' = InqC(c)
           /\ p # c => got'[c] = got[c] /\ InqC(c)' = InqC(c)
           /\ p = 0 /\ c = cur => /\ b \o InqS(c)' = InqS(c) /\ Begins(b, InqS(c))
                                  /\ InqS(c)' \in Seq(Chars)
           /\ ~(p = 0 /\ c = cur) => InqS(c)' = InqS(c)
<1>1. DOMAIN inq = Ends /\ DOMAIN got = Clients /\ cur \in Clients /\ 0 \notin Clients
  BY ProcessesAre DEF TypedState, SocketsOk, HistOk, QueueOk
<1>2. /\ <<c, "S">> \in Ends /\ <<c, "C">> \in Ends /\ Mine(p) \in Ends
      /\ inq[Mine(p)] \in Seq(Chars)
  BY Flowing, ProcessesAre DEF TypedState, SocketsOk
<1>3. /\ inq' = [inq EXCEPT ![Mine(p)] = Rest(@, b)] /\ b \in Chunks(inq[Mine(p)], Cap)
      /\ b # <<>> /\ got' = IF p = 0 THEN got ELSE [got EXCEPT ![p] = @ \o b]
      /\ sent' = sent
  BY DEF Receiving
<1>4. inq'[Mine(p)] = Rest(inq[Mine(p)], b)
  BY <1>1, <1>2, <1>3
<1>5. \A e \in Ends : e # Mine(p) => inq'[e] = inq[e]
  BY <1>1, <1>3
<1>6. /\ b \in Seq(Chars) /\ Len(b) \in 0..Len(inq[Mine(p)]) /\ Len(b) <= Cap
      /\ \A i \in 1..Len(b) : b[i] = inq[Mine(p)][i]
      /\ b \o inq'[Mine(p)] = inq[Mine(p)] /\ inq'[Mine(p)] \in Seq(Chars)
  BY <1>2, <1>3, <1>4, ReadsPrefix, SMTT(20)
<1>7. Len(b) \in 1..Cap
  <2>1. Len(b) # 0
    BY <1>3, <1>6, EmptySeq
  <2>2. QED
    BY <1>6, <2>1
<1>8. Mine(p) = IF p = 0 THEN <<cur, "S">> ELSE <<p, "C">>
  BY DEF Mine
<1>9. InqC(c) = inq[<<c, "C">>] /\ InqC(c)' = inq'[<<c, "C">>]
  BY DEF InqC
<1>10. InqS(c) = inq[<<c, "S">>] /\ InqS(c)' = inq'[<<c, "S">>]
  BY DEF InqS
<1>11. ASSUME p = c
       PROVE  got'[c] = got[c] \o b /\ b \o InqC(c)' = InqC(c)
  <2>1. Mine(p) = <<c, "C">> /\ p # 0
    BY <1>1, <1>8, <1>11
  <2>2. QED
    BY <1>1, <1>3, <1>6, <1>9, <1>11, <2>1
<1>12. ASSUME p # c
       PROVE  got'[c] = got[c] /\ InqC(c)' = InqC(c)
  <2>1. Mine(p) # <<c, "C">>
    BY <1>1, <1>8, <1>12
  <2>2. QED
    BY <1>1, <1>2, <1>3, <1>5, <1>9, <1>12, <2>1
<1>13. ASSUME p = 0, c = cur
       PROVE  b \o InqS(c)' = InqS(c) /\ Begins(b, InqS(c)) /\ InqS(c)' \in Seq(Chars)
  <2>1. Mine(p) = <<c, "S">>
    BY <1>8, <1>13
  <2>2. inq[Mine(p)] = InqS(c) /\ inq'[Mine(p)] = InqS(c)'
    BY <1>10, <2>1
  <2>3. Len(b) <= Len(InqS(c)) /\ \A i \in 1..Len(b) : b[i] = InqS(c)[i]
    BY <1>6, <2>2
  <2>4. QED
    BY <1>6, <2>2, <2>3, Zenon DEF Begins
<1>14. ASSUME ~(p = 0 /\ c = cur)
       PROVE  InqS(c)' = InqS(c)
  <2>1. Mine(p) # <<c, "S">>
    BY <1>1, <1>8, <1>14
  <2>2. QED
    BY <1>2, <1>5, <1>10, <2>1
<1>15. QED
  BY <1>3, <1>6, <1>7, <1>11, <1>12, <1>13, <1>14

\* A quiet step loses at most what has arrived at a socket that closes.
LEMMA QuietAbout ==
    ASSUME TypedState, NEW p \in Procs, Quiet(p), NEW c \in Clients
    PROVE  /\ got'[c] = got[c] /\ sent'[c] = sent[c]
           /\ InqC(c)' = InqC(c) \/ (InqC(c)' = <<>> /\ sock'[<<c, "C">>] = "shut")
           /\ InqS(c)' = InqS(c) \/ (InqS(c)' = <<>> /\ sock'[<<c, "S">>] = "shut")
BY Flowing DEF Quiet, InqS, InqC

\* They are still texts after the step.
LEMMA FlowingNext ==
    ASSUME TypedState', UNCHANGED exercise, NEW c \in Clients
    PROVE  /\ got'[c] \in Seq(Chars) /\ sent'[c] \in Seq(Chars)
           /\ InqS(c)' \in Seq(Chars) /\ InqC(c)' \in Seq(Chars) /\ Flow(c)' \in Seq(Chars)
<1>1. Clients' = Clients /\ Ends' = Ends
  BY Same
<1>2. <<c, "S">> \in Ends /\ <<c, "C">> \in Ends
  BY DEF Ends
<1>3. /\ got'[c] \in Seq(Chars) /\ sent'[c] \in Seq(Chars)
      /\ InqS(c)' \in Seq(Chars) /\ InqC(c)' \in Seq(Chars)
  BY <1>1, <1>2 DEF TypedState, HistOk, SocketsOk, InqS, InqC
<1>4. Flow(c)' \in Seq(Chars)
  BY <1>3, ConcatProperties, Zenon DEF Flow
<1>5. QED
  BY <1>3, <1>4

\* What flows to a client only gets shorter, at its end, when the client closes, or gets
\* longer by what the server sends to it.
LEMMA FlowMoves ==
    ASSUME TypedState, NEW p \in Procs, Step(p), Tcp(Code(p)), NEW c \in Clients
    PROVE  /\ \/ Begins(Flow(c)', Flow(c))
              \/ p = 0 /\ c = cur /\ Sending(0) /\ Flow(c)' = Flow(c) \o Outgoing(0)
           /\ Begins(sent[c], sent'[c])
           /\ Flow(c)' \in Seq(Chars) /\ sent'[c] \in Seq(Chars) /\ wild \subseteq wild'
<1>1. /\ TypedState' /\ ~Ended(p) /\ UNCHANGED exercise
      /\ Quiet(p) \/ Sending(p) \/ \E b : Receiving(p, b)
  BY StepTyped
<1>2. PICK g, s, f, i : g = got[c] /\ s = sent[c] /\ f = Flow(c) /\ i = InqC(c)
  OBVIOUS
<1>3. PICK g1, s1, f1, i1 : g1 = got'[c] /\ s1 = sent'[c] /\ f1 = Flow(c)' /\ i1 = InqC(c)'
  OBVIOUS
<1>4. /\ g \in Seq(Chars) /\ s \in Seq(Chars) /\ f \in Seq(Chars)
      /\ i \in Seq(Chars) /\ f = g \o i
  BY <1>2, Flowing DEF Flow
<1>5. /\ g1 \in Seq(Chars) /\ s1 \in Seq(Chars) /\ f1 \in Seq(Chars)
      /\ i1 \in Seq(Chars) /\ f1 = g1 \o i1
  BY <1>1, <1>3, FlowingNext DEF Flow
<1>6. CASE Quiet(p)
  <2>1. g1 = g /\ s1 = s /\ i1 \in {i, <<>>} /\ wild \subseteq wild'
    BY <1>2, <1>3, <1>6, QuietAbout DEF Quiet
  <2>2. Begins(i1, i)
    BY <1>4, <2>1, BeginsOrder
  <2>3. Begins(f1, f)
    BY <1>4, <1>5, <2>1, <2>2, BeginsJoin
  <2>4. Begins(s, s1)
    BY <1>4, <2>1, BeginsOrder
  <2>5. QED
    BY <1>2, <1>3, <1>5, <2>1, <2>3, <2>4
<1>7. CASE Sending(p)
  <2>1. PICK d : d = Outgoing(p)
    OBVIOUS
  <2>2. d \in Seq(Chars)
    BY <1>1, <1>7, <2>1, OutgoingOk DEF Sized, Sending
  <2>3. /\ i1 = IF p = 0 /\ c = cur THEN i \o d ELSE i
        /\ s1 = IF p = c THEN s \o d ELSE s
        /\ g1 = g
    BY <1>1, <1>2, <1>3, <1>7, <2>1, SendsTo
  <2>4. wild' = wild
    BY <1>7 DEF Sending
  <2>5. Begins(s, s1)
    BY <1>4, <2>2, <2>3, BeginsOrder
  <2>6. CASE p = 0 /\ c = cur
    <3>1. f1 = f \o d
      <4>1. i1 = i \o d
        BY <2>3, <2>6
      <4>2. g \in Seq(Chars) /\ i \in Seq(Chars) /\ d \in Seq(Chars)
        BY <1>4, <2>2
      <4>3. (g \o i) \o d = g \o (i \o d)
        BY <4>2, Joined
      <4>4. QED
        BY <1>4, <1>5, <2>3, <4>1, <4>3, Zenon
    <3>2. QED
      BY <1>2, <1>3, <1>5, <1>7, <2>1, <2>4, <2>5, <2>6, <3>1
  <2>7. CASE ~(p = 0 /\ c = cur)
    <3>1. f1 = f
      BY <1>4, <1>5, <2>3, <2>7
    <3>2. Begins(f1, f)
      BY <1>4, <3>1, BeginsOrder
    <3>3. QED
      BY <1>2, <1>3, <1>5, <2>4, <2>5, <3>2
  <2>8. QED
    BY <2>6, <2>7
<1>8. CASE \E b : Receiving(p, b)
  <2>1. PICK b : Receiving(p, b)
    BY <1>8
  <2>2. /\ b \in Seq(Chars) /\ s1 = s
        /\ p = c => g1 = g \o b /\ b \o i1 = i
        /\ p # c => g1 = g /\ i1 = i
    <3>1. /\ b \in Seq(Chars)
          /\ sent'[c] = sent[c]
          /\ p = c => got'[c] = got[c] \o b /\ b \o InqC(c)' = InqC(c)
          /\ p # c => got'[c] = got[c] /\ InqC(c)' = InqC(c)
      BY <1>1, <2>1, ReceivesFrom
    <3>2. QED
      BY <1>2, <1>3, <3>1
  <2>3. f1 = f
    <3>1. CASE p = c
      <4>0. g \in Seq(Chars) /\ b \in Seq(Chars) /\ i1 \in Seq(Chars)
        BY <1>4, <1>5, <2>2
      <4>1. (g \o b) \o i1 = g \o (b \o i1)
        BY <4>0, Joined
      <4>2. QED
        BY <1>4, <1>5, <2>2, <3>1, <4>1, Zenon
    <3>2. CASE p # c
      BY <1>4, <1>5, <2>2, <3>2
    <3>3. QED
      BY <3>1, <3>2
  <2>4. Begins(f1, f) /\ Begins(s, s1)
    BY <1>4, <2>2, <2>3, BeginsOrder
  <2>5. wild' = wild
    BY <2>1 DEF Receiving
  <2>6. QED
    BY <1>2, <1>3, <1>5, <2>4, <2>5
<1>9. QED
  BY <1>1, <1>6, <1>7, <1>8

\* A program that sends once goes straight to that instruction, and not back.
LEMMA Straight ==
    ASSUME TypedState, NEW p \in Procs, Step(p), NEW k \in Nat, Shape(Code(p), k)
    PROVE  /\ proc[p].pc \in 1..Len(Code(p)) /\ Len(Code(p)) \in Nat
           /\ Sending(p) => proc[p].pc = k /\ proc'[p].pc = k + 1
           /\ proc'[p].pc \in 1..k =>
                /\ proc[p].pc \in 1..(k - 1) /\ proc'[p].pc = proc[p].pc + 1 /\ ~Sending(p)
<1>1. TypedState' /\ Others(p) /\ ~Ended(p)
  BY StepTyped
<1>2. /\ proc[p].pc \in 1..Len(Code(p)) /\ Len(Code(p)) \in Nat
      /\ Op(p) = Code(p)[proc[p].pc].op /\ Instr(p) = Code(p)[proc[p].pc]
  BY <1>1, At
<1>3. Op(p) \in Sends => proc[p].pc = k
  BY <1>2 DEF Shape
<1>4. Op(p) \in Tests => Instr(p).to > k
  BY <1>2 DEF Shape
<1>5. Sending(p) => proc[p].pc = k /\ proc'[p].pc = k + 1
  BY <1>3 DEF Sending
<1>6. ASSUME proc'[p].pc \in 1..k
      PROVE  /\ proc[p].pc \in 1..(k - 1) /\ proc'[p].pc = proc[p].pc + 1 /\ ~Sending(p)
  <2>1. proc'[p].pc \in Targets(p)
    BY <1>1 DEF Others
  <2>2. CASE Op(p) \in Tests
    <3>1. proc'[p].pc = proc[p].pc + 1
      BY <1>4, <1>6, <2>1, <2>2 DEF Targets
    <3>2. QED
      BY <1>2, <1>6, <3>1, <1>5
  <2>3. CASE Op(p) \notin Tests
    <3>1. proc'[p].pc = proc[p].pc + 1
      BY <1>6, <2>1, <2>3 DEF Targets
    <3>2. QED
      BY <1>2, <1>6, <3>1, <1>5
  <2>4. QED
    BY <2>2, <2>3
<1>7. QED
  BY <1>2, <1>5, <1>6

-----------------------------------------------------------------------------
(* Servers that send at most once.                                         *)

\* What the server owes client c for what it has sent so far.
Promise(c) ==
    CASE This.answer = "echo"      -> sent[c]
      [] This.answer = "upper"     -> Uppers(sent[c])
      [] This.answer = "hello"     -> HelloS
      [] This.answer = "challenge" -> Block("rnd", 1)
      [] OTHER                     -> <<>>

\* A server that has not written beside its buffer has sent nothing but that.
Kept == 0 \notin wild => \A c \in Clients : Begins(Flow(c), Promise(c))

\* Before its only send() the server has sent nothing.
SilentSoFar == proc[0].pc \in 1..SendAt => \A c \in Clients : Flow(c) = <<>>

\* A promise is a text.
LEMMA PromiseType ==
    ASSUME TypedState, NEW c \in Clients
    PROVE  Promise(c) \in Seq(Chars)
<1>1. CASE This.answer = "echo"
  BY <1>1, Flowing DEF Promise
<1>2. CASE This.answer = "upper"
  BY <1>2, Flowing, UppersType DEF Promise
<1>3. CASE This.answer \notin {"echo", "upper"}
  <2>1. PICK x : x = Promise(c)
    OBVIOUS
  <2>2. x \in {HelloS, Block("rnd", 1), <<>>}
    BY <1>3, <2>1 DEF Promise
  <2>3. "rnd" \in Ids /\ 1 \in Nat
    BY DEF Ids
  <2>4. Block("rnd", 1) \in Seq(Chars)
    BY <2>3, BlockType, Zenon
  <2>5. HelloS \in Seq(Chars) /\ <<>> \in Seq(Chars)
    BY TextsType
  <2>6. x \in Seq(Chars)
    BY <2>2, <2>4, <2>5, Zenon
  <2>7. QED
    BY <2>1, <2>6
<1>4. QED
  BY <1>1, <1>2, <1>3

\* A promise grows with the requests.
LEMMA PromiseGrows ==
    ASSUME TypedState, TypedState', UNCHANGED exercise, NEW c \in Clients,
           Begins(sent[c], sent'[c])
    PROVE  /\ Promise(c) \in Seq(Chars) /\ Promise(c)' \in Seq(Chars)
           /\ Begins(Promise(c), Promise(c)')
<1>1. This' = This /\ Clients' = Clients
  BY Same
<1>2. sent[c] \in Seq(Chars) /\ sent'[c] \in Seq(Chars)
  BY Flowing, FlowingNext
<1>3. CASE This.answer = "echo"
  <2>1. Promise(c) = sent[c] /\ Promise(c)' = sent'[c]
    BY <1>1, <1>3 DEF Promise
  <2>2. QED
    BY <1>2, <2>1
<1>4. CASE This.answer = "upper"
  <2>1. Promise(c) = Uppers(sent[c]) /\ Promise(c)' = Uppers(sent'[c])
    BY <1>1, <1>4 DEF Promise, Uppers
  <2>2. QED
    BY <1>2, <2>1, UppersType, BeginsUppers
<1>5. CASE This.answer \notin {"echo", "upper"}
  <2>1. PICK x : x = Promise(c)
    OBVIOUS
  <2>2. Promise(c)' = x
    BY <1>1, <1>5, <2>1 DEF Promise
  <2>3. x \in Seq(Chars)
    BY <2>1, PromiseType
  <2>4. Begins(x, x)
    BY <2>3, BeginsOrder
  <2>5. QED
    BY <2>1, <2>2, <2>3, <2>4
<1>6. QED
  BY <1>3, <1>4, <1>5

\* If what the server sends begins its promise, the promise is kept.
LEMMA SinglesStep ==
    ASSUME TypedState, exercise.name \in Singles, SilentSoFar, Kept, NEW p \in Procs,
           Step(p),
           Sending(0) /\ p = 0 /\ proc[0].pc = SendAt /\ 0 \notin wild
             => Begins(Outgoing(0), Promise(cur))
    PROVE  SilentSoFar' /\ Kept'
<1>1. /\ TypedState' /\ Others(p) /\ ~Ended(p) /\ UNCHANGED exercise
  BY StepTyped
<1>2. Tcp(Code(p)) /\ Shape(Code(0), SendAt) /\ SendAt \in Nat
  BY SingleCodes DEF SendAt
<1>3. 0 \in Procs /\ Clients' = Clients /\ SendAt' = SendAt
  BY <1>1, Same, ProcessesAre
<1>4. /\ Sending(0) /\ p = 0 => proc[0].pc = SendAt /\ proc'[0].pc = SendAt + 1
      /\ proc'[0].pc \in 1..SendAt => /\ proc[0].pc \in 1..SendAt
                                      /\ ~(p = 0 /\ Sending(0))
  <2>1. CASE p = 0
    BY <1>2, <2>1, Straight
  <2>2. CASE p # 0
    BY <1>1, <1>3, <2>2 DEF Others
  <2>3. QED
    BY <2>1, <2>2
<1>5. ASSUME NEW c \in Clients
      PROVE  /\ \/ Begins(Flow(c)', Flow(c))
                \/ p = 0 /\ c = cur /\ Sending(0) /\ Flow(c)' = Flow(c) \o Outgoing(0)
             /\ Begins(sent[c], sent'[c])
             /\ Flow(c)' \in Seq(Chars) /\ Flow(c) \in Seq(Chars) /\ wild \subseteq wild'
  BY <1>2, FlowMoves, Flowing
<1>6. ASSUME NEW c \in Clients, proc'[0].pc \in 1..SendAt
      PROVE  Flow(c)' = <<>>
  <2>1. Flow(c) = <<>> /\ Begins(Flow(c)', Flow(c))
    BY <1>4, <1>5, <1>6 DEF SilentSoFar
  <2>2. QED
    BY <1>5, <2>1, BeginsOrder
<1>7. SilentSoFar'
  BY <1>3, <1>6 DEF SilentSoFar
<1>8. ASSUME NEW c \in Clients, 0 \notin wild'
      PROVE  Begins(Flow(c)', Promise(c)')
  <2>1. 0 \notin wild /\ Begins(Flow(c), Promise(c))
    BY <1>5, <1>8 DEF Kept
  <2>2. PICK a, b : a = Promise(c) /\ b = Promise(c)'
    OBVIOUS
  <2>3. PICK f, g : f = Flow(c) /\ g = Flow(c)'
    OBVIOUS
  <2>4. a \in Seq(Chars) /\ b \in Seq(Chars) /\ Begins(a, b)
    BY <1>1, <1>5, <2>2, PromiseGrows
  <2>5. f \in Seq(Chars) /\ g \in Seq(Chars) /\ Begins(f, a)
    BY <1>5, <2>1, <2>2, <2>3
  <2>6. CASE Begins(g, f)
    <3>1. Begins(g, a)
      BY <2>4, <2>5, <2>6, BeginsOrder
    <3>2. Begins(g, b)
      BY <2>4, <2>5, <3>1, BeginsOrder
    <3>3. QED
      BY <2>2, <2>3, <3>2
  <2>7. CASE p = 0 /\ c = cur /\ Sending(0) /\ g = f \o Outgoing(0)
    <3>1. proc[0].pc = SendAt /\ proc[0].pc \in 1..SendAt
      <4>1. proc[0].pc = SendAt
        BY <1>4, <2>7
      <4>2. proc[0].pc # 0
        BY <1>1, <2>7 DEF Ended
      <4>3. QED
        BY <1>2, <4>1, <4>2
    <3>2. f = <<>>
      BY <2>3, <3>1 DEF SilentSoFar
    <3>3. Begins(Outgoing(0), a) /\ Outgoing(0) \in Seq(Chars)
      <4>1. Op(0) \in Sends
        BY <2>7 DEF Sending
      <4>2. QED
        BY <1>1, <1>3, <2>1, <2>2, <2>7, <3>1, <4>1, OutgoingOk DEF Sized
    <3>4. g = Outgoing(0)
      BY <2>7, <3>2, <3>3, Joined
    <3>5. Begins(g, b)
      BY <2>4, <2>5, <3>3, <3>4, BeginsOrder
    <3>6. QED
      BY <2>2, <2>3, <3>5
  <2>8. QED
    BY <1>5, <2>3, <2>6, <2>7
<1>9. Kept'
  BY <1>3, <1>8 DEF Kept
<1>10. QED
  BY <1>7, <1>9

\* The server answers with what it has received.
OneRequest == exercise.name \in Wholes \cup Hellos

\* The client sends its request once, and the server receives it from its beginning.
AskedOnce ==
    /\ proc[1].pc \in 1..AskAt => sent[1] = <<>> /\ InqS(1) = <<>>
    /\ sent[1] \in {<<>>, Request}
    /\ proc[0].pc \in 1..2 => Begins(InqS(1), sent[1])

\* The server's buffer holds the beginning of the request, and then a terminator.
InBuffer ==
    /\ proc[0].pc \in 3..SendAt =>
         /\ proc[0].n <= Len(sent[1])
         /\ \A i \in 1..proc[0].n : proc[0].buf[i] = sent[1][i]
    /\ proc[0].pc = SendAt =>
         \/ 0 \in wild
         \/ proc[0].n \in 0..(Cap - 1) /\ proc[0].buf[proc[0].n + 1] = NUL

\* The programs of these exercises.
LEMMA OneRequestCodes ==
    ASSUME TypedState, OneRequest
    PROVE  /\ exercise.name \in Singles /\ Clients = {1} /\ cur = 1 /\ 0 \in Procs
           /\ 1 \in Procs
           /\ SendAt \in {4, 5} /\ Len(Code(0)) > SendAt
           /\ Code(0)[1] = Accept /\ Code(0)[2] \in {Recv, RecvChar}
           /\ SendAt = 5 => Code(0)[3] = When("failed", 6)
           /\ Code(0)[SendAt - 1] = Terminate
           /\ AskAt \in 1..Len(Code(1)) /\ Shape(Code(1), AskAt) /\ AskAt \in 2..4
           /\ Code(1)[AskAt] = Fixed(Request) /\ Shape(Code(0), SendAt)
           /\ Tcp(Code(0)) /\ Tcp(Code(1))
           /\ Request \in Seq(Chars) /\ Len(Request) <= 12
<1>1. exercise.name \in Singles
  BY DEF OneRequest, Singles
<1>2. /\ Clients = {1} /\ SendAt \in {4, 5} /\ Len(Code(0)) > SendAt
      /\ Code(0)[1] = Accept /\ Code(0)[2] \in {Recv, RecvChar}
      /\ SendAt = 5 => Code(0)[3] = When("failed", 6)
      /\ Code(0)[SendAt - 1] = Terminate
      /\ AskAt \in 1..Len(Code(1)) /\ Shape(Code(1), AskAt)
      /\ Code(1)[AskAt] = Fixed(Request)
  <2>1. CASE exercise.name \in Wholes
    BY <2>1, WholeCodes
  <2>2. CASE exercise.name \in Hellos
    <3>1. /\ Clients = {1} /\ SendAt = 4 /\ Len(Code(0)) \in {5, 6} /\ Code(0)[1] = Accept
          /\ Code(0)[2] = RecvChar /\ Code(0)[3] = Terminate
          /\ AskAt \in 1..Len(Code(1)) /\ Shape(Code(1), AskAt) /\ Code(1)[AskAt] = Fixed(Request)
      BY <2>2, HelloCodes, Zenon
    <3>2. SendAt - 1 = 3 /\ Len(Code(0)) > SendAt /\ SendAt # 5
      BY <3>1
    <3>3. QED
      BY <3>1, <3>2, Zenon
  <2>3. QED
    BY <2>1, <2>2 DEF OneRequest
<1>3. cur = 1 /\ 0 \in Procs /\ 1 \in Procs
  BY <1>2, ProcessesAre DEF TypedState, QueueOk
<1>4. AskAt \in 2..4
  BY DEF AskAt
<1>5. Request \in Seq(Chars) /\ Len(Request) <= 12
  <2>1. Request = Long \/ Request = HelloWorld \/ Request = HelloC
    BY Zenon DEF Request
  <2>2. /\ Long \in Seq(Chars) /\ Len(Long) = 12
        /\ HelloWorld \in Seq(Chars) /\ Len(HelloWorld) = 11
        /\ HelloC \in Seq(Chars) /\ Len(HelloC) = 5
    BY TextsType, Zenon
  <2>3. Len(Request) = 5 \/ Len(Request) = 11 \/ Len(Request) = 12
    BY <2>1, <2>2, Zenon
  <2>4. Request \in Seq(Chars)
    BY <2>1, <2>2, Zenon
  <2>5. \A k : k = 5 \/ k = 11 \/ k = 12 => k <= 12
    OBVIOUS
  <2>6. Len(Request) <= 12
    BY <2>3, <2>5, Zenon
  <2>7. QED
    BY <2>4, <2>6, Zenon
<1>6. Shape(Code(0), SendAt) /\ Tcp(Code(0)) /\ Tcp(Code(1))
  BY <1>1, <1>3, SingleCodes
<1>7. QED
  BY <1>1, <1>2, <1>3, <1>4, <1>5, <1>6

\* AskedOnce is inductive.
LEMMA AskedOnceStep ==
    ASSUME TypedState, OneRequest, AskedOnce, NEW p \in Procs, Step(p)
    PROVE  AskedOnce'
<1>1. /\ TypedState' /\ Others(p) /\ ~Ended(p) /\ UNCHANGED exercise
      /\ Quiet(p) \/ Sending(p) \/ \E b : Receiving(p, b)
  BY StepTyped, OneRequestCodes, ProcessesAre
<1>2. /\ Clients = {1} /\ cur = 1 /\ 0 \in Procs /\ 1 \in Procs /\ 1 \in Clients
      /\ SendAt \in {4, 5} /\ AskAt \in 2..4 /\ AskAt' = AskAt /\ Request' = Request
      /\ Shape(Code(0), SendAt) /\ Shape(Code(1), AskAt) /\ p \in {0, 1}
  BY <1>1, OneRequestCodes, ProcessesAre, Same
<1>3. proc'[1].pc \in 1..AskAt => /\ proc[1].pc \in 1..AskAt
                                  /\ ~(p = 1 /\ Sending(1))
  <2>1. CASE p = 1
    BY <1>2, <2>1, Straight
  <2>2. CASE p # 1
    BY <1>1, <1>2, <2>2 DEF Others
  <2>3. QED
    BY <2>1, <2>2
<1>4. proc'[0].pc \in 1..2 => proc[0].pc \in 1..2 /\ ~\E b : p = 0 /\ Receiving(0, b)
  <2>1. CASE p = 0
    <3>1. SUFFICES ASSUME proc'[0].pc \in 1..2
                   PROVE  proc[0].pc \in 1..2 /\ ~\E b : Receiving(0, b)
      OBVIOUS
    <3>2. proc[0].pc = 1
      <4>1. /\ SendAt \in Nat /\ Shape(Code(0), SendAt) /\ 0 \in Procs /\ Step(0)
            /\ proc'[0].pc \in 1..SendAt
        BY <1>2, <2>1, <3>1
      <4>2. proc[0].pc \in 1..(SendAt - 1) /\ proc'[0].pc = proc[0].pc + 1
        BY <4>1, Straight
      <4>3. QED
        BY <3>1, <4>1, <4>2
    <3>3. Op(0) = "Accept"
      BY <1>1, <2>1, <3>2, At, OneRequestCodes, Instrs
    <3>4. QED
      BY <3>2, <3>3 DEF Receiving
  <2>2. CASE p # 0
    BY <1>1, <1>2, <2>2 DEF Others
  <2>3. QED
    BY <2>1, <2>2
<1>5. PICK s, i, s1, i1 : s = sent[1] /\ i = InqS(1) /\ s1 = sent'[1] /\ i1 = InqS(1)'
  OBVIOUS
<1>6. /\ s \in Seq(Chars) /\ i \in Seq(Chars) /\ s1 \in Seq(Chars) /\ i1 \in Seq(Chars)
      /\ Begins(s, s) /\ Begins(<<>>, s)
  BY <1>1, <1>2, <1>5, Flowing, FlowingNext, BeginsOrder
<1>7. SUFFICES /\ proc'[1].pc \in 1..AskAt => s1 = <<>> /\ i1 = <<>>
               /\ s1 \in {<<>>, Request}
               /\ proc'[0].pc \in 1..2 => Begins(i1, s1)
  BY <1>2, <1>5 DEF AskedOnce
<1>8. /\ proc[1].pc \in 1..AskAt => s = <<>> /\ i = <<>>
      /\ s \in {<<>>, Request}
      /\ proc[0].pc \in 1..2 => Begins(i, s)
  BY <1>5 DEF AskedOnce
<1>9. CASE Quiet(p)
  <2>1. s1 = s /\ (i1 = i \/ i1 = <<>>)
    BY <1>2, <1>5, <1>9, QuietAbout
  <2>2. QED
    BY <1>3, <1>4, <1>6, <1>8, <2>1
<1>10. CASE Sending(p) /\ p = 1
  <2>1. proc[1].pc = AskAt
    BY <1>2, <1>10, Straight
  <2>2. s = <<>> /\ i = <<>>
    BY <1>2, <1>8, <2>1
  <2>3. Outgoing(1) = Request
    <3>1. Op(1) = "Fixed" /\ Arg(1) = Request
      <4>1. Op(1) = Code(1)[proc[1].pc].op /\ Arg(1) = Code(1)[proc[1].pc].arg
        BY <1>1, <1>10, At
      <4>2. Code(1)[AskAt] = Fixed(Request)
        BY OneRequestCodes
      <4>3. Fixed(Request).op = "Fixed" /\ Fixed(Request).arg = Request
        BY Instrs
      <4>4. QED
        BY <2>1, <4>1, <4>2, <4>3, Zenon
    <3>2. QED
      BY <3>1, Zenon DEF Outgoing
  <2>4. s1 = s \o Request /\ i1 = i \o Request
    BY <1>1, <1>2, <1>5, <1>10, <2>3, SendsTo
  <2>5. s1 = Request /\ i1 = Request
    BY <2>2, <2>4, Joined, OneRequestCodes
  <2>6. Begins(i1, s1)
    BY <1>6, <2>5, BeginsOrder
  <2>7. QED
    BY <1>3, <1>10, <2>5, <2>6
<1>11. CASE Sending(p) /\ p # 1
  <2>1. s1 = s /\ i1 = i
    BY <1>1, <1>2, <1>5, <1>11, SendsTo
  <2>2. QED
    BY <1>3, <1>4, <1>6, <1>8, <2>1
<1>12. CASE \E b : Receiving(p, b)
  <2>1. PICK b : Receiving(p, b)
    BY <1>12
  <2>2. s1 = s
    BY <1>1, <1>2, <1>5, <2>1, ReceivesFrom
  <2>3. CASE p = 1
    <3>1. i1 = i
      BY <1>1, <1>2, <1>5, <2>1, <2>3, ReceivesFrom
    <3>2. QED
      BY <1>3, <1>4, <1>6, <1>8, <2>2, <3>1
  <2>4. CASE p = 0
    <3>1. b \in Seq(Chars) /\ b \o i1 = i /\ Len(b) \in 1..Cap
      BY <1>1, <1>2, <1>5, <2>1, <2>4, ReceivesFrom
    <3>2. i # <<>>
      <4>1. Len(i) = Len(b) + Len(i1) /\ Len(b) \in Nat \ {0} /\ Len(i1) \in Nat
        BY <1>6, <3>1, Joined
      <4>2. QED
        BY <4>1
    <3>3. QED
      BY <1>3, <1>4, <1>8, <2>1, <2>2, <2>4, <3>2
  <2>5. QED
    BY <1>2, <2>3, <2>4
<1>13. QED
  BY <1>1, <1>9, <1>10, <1>11, <1>12

\* InBuffer is inductive.
LEMMA InBufferStep ==
    ASSUME TypedState, OneRequest, AskedOnce, InBuffer, NEW p \in Procs, Step(p)
    PROVE  InBuffer'
<1>1. /\ TypedState' /\ Others(p) /\ ~Ended(p) /\ UNCHANGED exercise
      /\ Quiet(p) \/ Sending(p) \/ \E b : Receiving(p, b)
  BY StepTyped, OneRequestCodes, ProcessesAre
<1>2. /\ Clients = {1} /\ cur = 1 /\ 0 \in Procs /\ 1 \in Procs /\ 1 \in Clients
      /\ SendAt \in {4, 5} /\ SendAt' = SendAt
      /\ Shape(Code(0), SendAt) /\ Tcp(Code(p)) /\ p \in {0, 1}
  BY <1>1, OneRequestCodes, ProcessesAre, Same
<1>3. PICK s, s1 : s = sent[1] /\ s1 = sent'[1]
  OBVIOUS
<1>4. /\ s \in Seq(Chars) /\ s1 \in Seq(Chars) /\ Begins(s, s1) /\ wild \subseteq wild'
  BY <1>1, <1>2, <1>3, FlowMoves, Flowing
<1>5. PICK n, n1, buf, buf1 : /\ n = proc[0].n /\ n1 = proc'[0].n
                             /\ buf = proc[0].buf /\ buf1 = proc'[0].buf
  OBVIOUS
<1>6. n \in Int /\ n1 \in Int /\ buf \in [1..Cap -> Chars] /\ Cap \in Nat
  BY <1>1, <1>2, <1>5, Same, SMTT(20) DEF TypedState, ProcsOk, ProcOk
<1>7. SUFFICES /\ proc'[0].pc \in 3..SendAt =>
                    /\ n1 <= Len(s1)
                    /\ \A i \in 1..n1 : buf1[i] = s1[i]
               /\ proc'[0].pc = SendAt =>
                    \/ 0 \in wild'
                    \/ n1 \in 0..(Cap - 1) /\ buf1[n1 + 1] = NUL
  BY <1>2, <1>3, <1>5 DEF InBuffer
<1>8. /\ proc[0].pc \in 3..SendAt => n <= Len(s) /\ \A i \in 1..n : buf[i] = s[i]
      /\ proc[0].pc = SendAt => 0 \in wild \/ (n \in 0..(Cap - 1) /\ buf[n + 1] = NUL)
  BY <1>3, <1>5 DEF InBuffer
<1>9. n <= Len(s) /\ (\A i \in 1..n : buf[i] = s[i])
      => n <= Len(s1) /\ \A i \in 1..n : buf[i] = s1[i]
  BY <1>4, <1>6 DEF Begins
<1>10. CASE p = 1
  <2>1. proc'[0].pc = proc[0].pc /\ n1 = n /\ buf1 = buf
    BY <1>1, <1>2, <1>5, <1>10 DEF Others
  <2>2. QED
    BY <1>4, <1>8, <1>9, <2>1
<1>11. CASE p = 0
  <2>1. SUFFICES ASSUME proc'[0].pc \in 3..SendAt
                 PROVE  /\ n1 <= Len(s1)
                        /\ \A i \in 1..n1 : buf1[i] = s1[i]
                        /\ proc'[0].pc = SendAt =>
                              \/ 0 \in wild'
                              \/ n1 \in 0..(Cap - 1) /\ buf1[n1 + 1] = NUL
    BY <1>2
  <2>2. proc[0].pc \in 2..(SendAt - 1) /\ proc'[0].pc = proc[0].pc + 1
    BY <1>2, <1>11, <2>1, Straight
  <2>3. CASE proc[0].pc = 2
    <3>1. Op(0) = "Recv" /\ DoRecv(0)
      BY <1>1, <1>11, <2>3, At, OneRequestCodes, Instrs, OpIs
    <3>2. Missing(0) \/ \E b : Receiving(0, b)
      BY <1>1, <1>2, <1>11, <3>1, RecvStep
    <3>3. CASE Missing(0)
      BY <1>2, <1>4, <1>5, <1>6, <2>2, <2>3, <3>3 DEF Missing
    <3>4. CASE \E b : Receiving(0, b)
      <4>1. PICK b : Receiving(0, b)
        BY <3>4
      <4>2. PICK q : q = InqS(1)
        OBVIOUS
      <4>3. /\ b \in Seq(Chars) /\ Begins(b, q) /\ Len(b) \in 1..Cap /\ s1 = s
            /\ q \in Seq(Chars)
        BY <1>1, <1>2, <1>3, <1>11, <4>1, <4>2, ReceivesFrom, Flowing
      <4>4. Begins(q, s)
        BY <1>3, <2>3, <4>2 DEF AskedOnce
      <4>5. Begins(b, s)
        BY <1>4, <4>3, <4>4, BeginsOrder
      <4>6. n1 <= Len(b) /\ buf1 = Put(buf, b)
        <5>1. /\ n1 = Retval(IF Op(0) = "Recv" THEN Arg(0) ELSE "int", Len(b))
              /\ buf1 = Put(buf, b)
          BY <1>5, <1>6, <4>1 DEF Receiving
        <5>2. Len(b) \in Nat /\ CharMax \in Nat
          BY <4>3, ExercisesAssumption
        <5>3. n1 \in -(CharMax + 1)..Len(b)
          BY <5>1, <5>2, RetvalIs
        <5>4. QED
          BY <5>1, <5>2, <5>3
      <4>7. \A i \in 1..Cap : buf1[i] = IF i <= Len(b) THEN b[i] ELSE buf[i]
        BY <1>6, <4>3, <4>6, PutType
      <4>8. n1 <= Len(s)
        BY <1>4, <1>6, <4>3, <4>5, <4>6 DEF Begins
      <4>9. \A i \in 1..n1 : i \in 1..Cap /\ i <= Len(b) /\ i \in 1..Len(b)
        BY <1>6, <4>3, <4>6
      <4>10. \A i \in 1..n1 : buf1[i] = s[i]
        BY <4>5, <4>7, <4>9 DEF Begins
      <4>11. QED
        BY <1>2, <2>2, <2>3, <4>3, <4>8, <4>10
    <3>5. QED
      BY <3>2, <3>3, <3>4
  <2>4. CASE proc[0].pc = 3 /\ SendAt = 5
    <3>1. Op(0) \in Tests /\ DoTest(0)
      BY <1>1, <1>11, <2>4, At, OneRequestCodes, Instrs, OpIs DEF Tests
    <3>2. n1 = n /\ buf1 = buf
      BY <1>1, <1>2, <1>5, <1>11, <3>1, TestStep
    <3>3. QED
      BY <1>8, <1>9, <2>2, <2>4, <3>2
  <2>5. CASE proc[0].pc = SendAt - 1
    <3>1. Op(0) = "Terminate" /\ DoTerminate(0)
      BY <1>1, <1>11, <2>5, At, OneRequestCodes, Instrs, OpIs
    <3>2. /\ n1 = n
          /\ IF n \in 0..(Cap - 1) THEN buf1 = [buf EXCEPT ![n + 1] = NUL] ELSE 0 \in wild'
      BY <1>1, <1>2, <1>5, <1>11, <3>1, TerminateStep
    <3>3. n <= Len(s) /\ \A i \in 1..n : buf[i] = s[i]
      BY <1>2, <1>8, <2>2, <2>5
    <3>4. n <= Len(s1) /\ \A i \in 1..n : buf[i] = s1[i]
      BY <1>9, <3>3
    <3>5. CASE n \in 0..(Cap - 1)
      <4>1. buf1 = [buf EXCEPT ![n + 1] = NUL] /\ n + 1 \in 1..Cap
        BY <1>6, <3>2, <3>5
      <4>2. buf1[n + 1] = NUL /\ \A i \in 1..n : buf1[i] = buf[i]
        BY <1>6, <3>5, <4>1
      <4>3. QED
        BY <3>2, <3>4, <3>5, <4>2
    <3>6. CASE n \notin 0..(Cap - 1)
      <4>1. n < 0
        <5>1. n <= 12
          BY <1>3, <1>4, <1>6, <3>3, OneRequestCodes, EmptySeq DEF AskedOnce
        <5>2. QED
          BY <1>6, <3>6, <5>1 DEF TypedState, Constant, Room
      <4>2. QED
        BY <1>4, <1>6, <3>2, <3>6, <4>1
    <3>7. QED
      BY <3>5, <3>6
  <2>6. QED
    BY <1>2, <2>2, <2>3, <2>4, <2>5
<1>12. QED
  BY <1>2, <1>10, <1>11

\* What is sent as part of hello.
LEMMA HelloArg ==
    ASSUME TypedState, exercise.name \in Hellos, proc[0].pc = SendAt
    PROVE  Op(0) = "Send" /\ Arg(0) = "hello" /\ This.answer = "hello" /\ Request = HelloC
<1>1. SendAt = 4 /\ Code(0)[4] = Send("hello") /\ This.answer = "hello" /\ Request = HelloC
  BY HelloCodes, Zenon
<1>2. QED
  BY <1>1, At, ProcessesAre, Instrs DEF Ended

\* What is sent as the string.
LEMMA WholeArg ==
    ASSUME TypedState, exercise.name \in Wholes, proc[0].pc = SendAt
    PROVE  Op(0) = "Send" /\ (\/ This.answer = "echo" /\ Arg(0) = "string"
                              \/ This.answer = "upper" /\ Arg(0) = "upper")
<1>1. SendAt \in {4, 5} /\ (\/ This.answer = "echo" /\ Code(0)[SendAt] = Send("string")
                            \/ This.answer = "upper" /\ Code(0)[SendAt] = Send("upper"))
  BY WholeCodes, Zenon
<1>2. QED
  BY <1>1, At, ProcessesAre, Instrs DEF Ended

\* What a server sends that has received a request begins what it owes.
LEMMA OneAnswer ==
    ASSUME TypedState, OneRequest, AskedOnce, InBuffer, proc[0].pc = SendAt, 0 \notin wild
    PROVE  Begins(Outgoing(0), Promise(cur))
<1>1. cur = 1 /\ 1 \in Clients /\ 0 \in Procs /\ SendAt \in {4, 5}
  BY OneRequestCodes, ProcessesAre
<1>2. PICK s : s = sent[1]
  OBVIOUS
<1>3. PICK n, buf : n = proc[0].n /\ buf = proc[0].buf
  OBVIOUS
<1>4. /\ n \in Int /\ buf \in [1..Cap -> Chars] /\ s \in Seq(Chars) /\ Cap \in Nat
      /\ n <= Len(s) /\ (\A i \in 1..n : buf[i] = s[i])
      /\ n \in 0..(Cap - 1) /\ buf[n + 1] = NUL
  <2>1. SendAt \in 3..SendAt
    BY <1>1
  <2>2. n \in Int /\ buf \in [1..Cap -> Chars] /\ s \in Seq(Chars) /\ Cap \in Nat
    <3>1. s \in Seq(Chars)
      BY <1>1, <1>2, Flowing
    <3>2. n \in Int /\ buf \in [1..Cap -> Chars] /\ Cap \in Nat
      BY <1>1, <1>3 DEF TypedState, ProcsOk, ProcOk
    <3>3. QED
      BY <3>1, <3>2
  <2>3. n <= Len(s) /\ (\A i \in 1..n : buf[i] = s[i])
    BY <1>2, <1>3, <2>1 DEF InBuffer
  <2>4. n \in 0..(Cap - 1) /\ buf[n + 1] = NUL
    BY <1>3 DEF InBuffer
  <2>5. QED
    BY <2>2, <2>3, <2>4
<1>5. PICK str : str = StringIn(buf)
  OBVIOUS
<1>6. /\ str \in Seq(Chars) /\ Len(str) \in 0..Cap
      /\ \A i \in 1..Len(str) : str[i] = buf[i] /\ buf[i] # NUL
  BY <1>4, <1>5, StringType
<1>7. Len(str) <= n
  <2>1. n + 1 \notin 1..Len(str)
    BY <1>4, <1>6
  <2>2. QED
    BY <1>4, <1>6, <2>1
<1>8. Begins(str, s)
  <2>1. \A i \in 1..Len(str) : i \in 1..n
    BY <1>4, <1>6, <1>7
  <2>2. QED
    BY <1>4, <1>6, <1>7, <2>1 DEF Begins
<1>9. CASE exercise.name \in Wholes
  <2>1. Op(0) = "Send" /\ (\/ This.answer = "echo" /\ Arg(0) = "string"
                           \/ This.answer = "upper" /\ Arg(0) = "upper")
    BY <1>9, WholeArg
  <2>2. CASE This.answer = "echo" /\ Arg(0) = "string"
    <3>1. Outgoing(0) = str
      BY <1>3, <1>5, <2>1, <2>2 DEF Outgoing
    <3>2. Promise(1) = s
      BY <1>2, <2>2 DEF Promise
    <3>3. QED
      BY <1>1, <1>8, <3>1, <3>2
  <2>3. CASE This.answer = "upper" /\ Arg(0) = "upper"
    <3>1. Outgoing(0) = Uppers(str)
      BY <1>3, <1>5, <2>1, <2>3 DEF Outgoing, Uppers
    <3>2. Promise(1) = Uppers(s)
      BY <1>2, <2>3 DEF Promise
    <3>3. QED
      BY <1>1, <1>4, <1>6, <1>8, <3>1, <3>2, BeginsUppers
  <2>4. QED
    BY <2>1, <2>2, <2>3
<1>10. CASE exercise.name \in Hellos
  <2>1. Op(0) = "Send" /\ Arg(0) = "hello" /\ This.answer = "hello" /\ Request = HelloC
    BY <1>10, HelloArg
  <2>2. Outgoing(0) = SubSeq(HelloS, 1, Len(str)) /\ Promise(1) = HelloS
    BY <1>3, <1>5, <2>1 DEF Outgoing, Promise
  <2>3. Len(s) <= 5
    <3>1. s = <<>> \/ s = HelloC
      BY <1>2, <2>1 DEF AskedOnce
    <3>2. Len(s) = 0 \/ Len(s) = 5
      BY <3>1, TextsType, EmptySeq, Zenon
    <3>3. \A k : k = 0 \/ k = 5 => k <= 5
      OBVIOUS
    <3>4. QED
      BY <3>2, <3>3, Zenon
  <2>4. PICK h : h = HelloS
    OBVIOUS
  <2>5. h \in Seq(Chars) /\ Len(h) = 5
    BY <2>4, TextsType, Zenon
  <2>6. PICK k : k = Len(str)
    OBVIOUS
  <2>7. k \in 0..5 /\ k \in 0..Cap
    <3>1. PICK m : m = Len(s)
      OBVIOUS
    <3>2. m <= 5 /\ n <= m /\ k <= n /\ k \in 0..Cap /\ n \in Int /\ m \in Nat
      BY <1>4, <1>6, <1>7, <2>3, <2>6, <3>1
    <3>3. QED
      BY <3>2
  <2>8. \A i \in 1..k : h[i] \in Chars
    <3>1. \A i \in 1..k : i \in 1..Len(h)
      BY <2>5, <2>7
    <3>2. QED
      BY <2>5, <3>1, ElementOfSeq
  <2>9. Len(SubSeq(h, 1, k)) = k /\ \A i \in 1..k : SubSeq(h, 1, k)[i] = h[i]
    BY <2>7, <2>8, PieceOf
  <2>10. Begins(SubSeq(h, 1, k), h)
    BY <2>5, <2>7, <2>9 DEF Begins
  <2>11. QED
    BY <1>1, <2>2, <2>4, <2>6, <2>10
<1>11. QED
  BY <1>9, <1>10 DEF OneRequest

\* What a server sends that sends a text of its own is what it owes.
LEMMA FixedAnswer ==
    ASSUME TypedState, exercise.name \in Sleeps \cup Levels, proc[0].pc = SendAt
    PROVE  Begins(Outgoing(0), Promise(cur))
<1>1. 0 \in Procs
  BY ProcessesAre
<1>2. CASE exercise.name \in Sleeps
  <2>1. This.answer = "hello" /\ SendAt = 6 /\ Code(0)[6] = Fixed(HelloS)
    BY <1>2, SleepCodes, Zenon
  <2>2. Op(0) = "Fixed" /\ Arg(0) = HelloS
    BY <1>1, <2>1, At, Instrs DEF Ended
  <2>3. Outgoing(0) = HelloS
    BY <2>2, Zenon DEF Outgoing
  <2>4. Promise(cur) = HelloS
    BY <2>1 DEF Promise
  <2>5. Begins(HelloS, HelloS)
    BY TextsType, BeginsOrder, Zenon
  <2>6. QED
    BY <2>3, <2>4, <2>5
<1>3. CASE exercise.name \in Levels
  <2>0. PICK x : x = Block("rnd", 1)
    OBVIOUS
  <2>1. This.answer = "challenge" /\ SendAt = 4 /\ Code(0)[4] = Fixed(x)
    BY <1>3, <2>0, LevelCodes, Zenon
  <2>2. Op(0) = "Fixed" /\ Arg(0) = x
    BY <1>1, <2>1, At, Instrs DEF Ended
  <2>3. Outgoing(0) = x
    BY <2>2, Zenon DEF Outgoing
  <2>4. Promise(cur) = x
    BY <2>0, <2>1 DEF Promise
  <2>5. x \in Seq(Chars)
    <3>1. "rnd" \in Ids /\ 1 \in Nat
      BY DEF Ids
    <3>2. QED
      BY <2>0, <3>1, BlockType, Zenon
  <2>6. Begins(x, x)
    BY <2>5, BeginsOrder
  <2>7. QED
    BY <2>3, <2>4, <2>6
<1>4. QED
  BY <1>2, <1>3

\* The invariant of the servers that send at most once.
SinglesInv ==
    exercise.name \in Singles =>
        /\ SilentSoFar /\ Kept
        /\ OneRequest => AskedOnce /\ InBuffer

\* It is kept by every step ...
LEMMA SinglesMove ==
    ASSUME TypedState, SinglesInv, NEW p \in Procs, Step(p)
    PROVE  SinglesInv'
<1>1. UNCHANGED exercise /\ ~Ended(p)
  BY StepTyped
<1>2. SUFFICES ASSUME exercise.name \in Singles
               PROVE  SilentSoFar' /\ Kept' /\ (OneRequest => AskedOnce' /\ InBuffer')
  BY <1>1 DEF SinglesInv, OneRequest
<1>3. OneRequest => AskedOnce' /\ InBuffer'
  BY <1>2, AskedOnceStep, InBufferStep DEF SinglesInv
<1>4. ASSUME Sending(0), p = 0, proc[0].pc = SendAt, 0 \notin wild
      PROVE  Begins(Outgoing(0), Promise(cur))
  <2>1. CASE OneRequest
    BY <1>2, <1>4, <2>1, OneAnswer DEF SinglesInv
  <2>2. CASE exercise.name \in Sleeps \cup Levels
    BY <1>4, <2>2, FixedAnswer
  <2>3. CASE exercise.name \in Silents
    <3>1. proc[0].pc = 0
      BY <1>4, <2>3, SilentCodes
    <3>2. QED
      BY <1>1, <1>4, <3>1 DEF Ended
  <2>4. QED
    BY <1>2, <2>1, <2>2, <2>3 DEF Singles, OneRequest
<1>5. SilentSoFar' /\ Kept'
  <2>1. SilentSoFar /\ Kept
    BY <1>2 DEF SinglesInv
  <2>2. QED
    BY <1>2, <1>4, <2>1, SinglesStep
<1>6. QED
  BY <1>3, <1>5

\* Time passes, or nothing happens.
Standing ==
    /\ UNCHANGED <<exercise, sock, inq, backlog, cur, mail, sent, got, wild>>
    /\ \A p \in Procs : /\ proc'[p].pc = proc[p].pc /\ proc'[p].n = proc[p].n
                        /\ proc'[p].buf = proc[p].buf

\* What stays the same while nothing happens.
LEMMA StillFlow ==
    ASSUME TypedState, Standing
    PROVE  /\ This' = This /\ Procs' = Procs /\ Clients' = Clients /\ Ends' = Ends
           /\ SendAt' = SendAt /\ AskAt' = AskAt /\ Request' = Request
           /\ \A p : Code(p)' = Code(p)
           /\ 0 \in Procs /\ 1 \in Procs /\ 1 \in Clients /\ Clients \subseteq Procs
           /\ proc'[0].pc = proc[0].pc /\ proc'[0].n = proc[0].n /\ proc'[0].buf = proc[0].buf
           /\ proc'[1].pc = proc[1].pc
           /\ \A c : Flow(c)' = Flow(c) /\ Promise(c)' = Promise(c) /\ InqS(c)' = InqS(c)
                     /\ InqC(c)' = InqC(c)
<1>1. /\ This' = This /\ Procs' = Procs /\ Clients' = Clients /\ Ends' = Ends
      /\ SendAt' = SendAt /\ AskAt' = AskAt /\ Request' = Request
      /\ \A p : Code(p)' = Code(p)
  BY Same DEF Standing
<1>2. 0 \in Procs /\ 1 \in Procs /\ 1 \in Clients /\ Clients \subseteq Procs
  BY ProcessesAre
<1>3. \A c : Flow(c)' = Flow(c) /\ InqS(c)' = InqS(c) /\ InqC(c)' = InqC(c)
  BY DEF Standing, Flow, InqS, InqC
<1>4. \A c : Promise(c)' = Promise(c)
  BY <1>1 DEF Standing, Promise, Uppers
<1>5. QED
  BY <1>1, <1>2, <1>3, <1>4 DEF Standing

\* ... and while nothing happens ...
LEMMA SinglesStill ==
    ASSUME TypedState, SinglesInv, Standing
    PROVE  SinglesInv'
<1>1. exercise' = exercise /\ sent' = sent /\ wild' = wild
  BY DEF Standing
<1>2. SilentSoFar => SilentSoFar'
  BY StillFlow DEF SilentSoFar
<1>3. Kept => Kept'
  BY <1>1, StillFlow DEF Kept
<1>4. AskedOnce => AskedOnce'
  BY <1>1, StillFlow DEF AskedOnce
<1>5. InBuffer => InBuffer'
  BY <1>1, StillFlow DEF InBuffer
<1>6. QED
  BY <1>1, <1>2, <1>3, <1>4, <1>5 DEF SinglesInv, OneRequest

\* ... and holds at the start.
LEMMA SinglesInit ==
    ASSUME Room, Init
    PROVE  SinglesInv
<1>1. /\ TypedState
      /\ \A e \in Ends : sock[e] = "none" /\ inq[e] = <<>>
      /\ \A c \in Clients : sent[c] = <<>> /\ got[c] = <<>>
      /\ \A p \in Procs : mail[p] = <<>> /\ proc[p].pc = 1
  BY InitTyped
<1>2. ASSUME NEW c \in Clients
      PROVE  Flow(c) = <<>> /\ InqS(c) = <<>> /\ sent[c] = <<>> /\ Promise(c) \in Seq(Chars)
  <2>1. InqS(c) = <<>> /\ InqC(c) = <<>> /\ got[c] = <<>> /\ sent[c] = <<>>
    BY <1>1, Flowing DEF InqS, InqC
  <2>2. Flow(c) = <<>>
    <3>1. <<>> \o <<>> = <<>>
      OBVIOUS
    <3>2. QED
      BY <2>1, <3>1 DEF Flow
  <2>3. Promise(c) \in Seq(Chars)
    BY <1>1, PromiseType
  <2>4. QED
    BY <2>1, <2>2, <2>3
<1>3. SilentSoFar
  BY <1>2 DEF SilentSoFar
<1>4. Kept
  <2>1. \A c \in Clients : Begins(<<>>, Promise(c))
    BY <1>2, BeginsOrder
  <2>2. QED
    BY <1>2, <2>1 DEF Kept
<1>5. ASSUME exercise.name \in Singles, OneRequest
      PROVE  AskedOnce /\ InBuffer
  <2>1. Begins(<<>>, <<>>)
    BY EmptySeq DEF Begins
  <2>2. 1 \in Clients /\ 0 \in Procs /\ SendAt \in {4, 5} /\ proc[0].pc = 1
    BY <1>1, <1>5, OneRequestCodes, ProcessesAre
  <2>3. InBuffer
    BY <2>2 DEF InBuffer
  <2>4. AskedOnce
    BY <1>2, <2>1, <2>2 DEF AskedOnce
  <2>5. QED
    BY <2>3, <2>4
<1>6. QED
  BY <1>3, <1>4, <1>5 DEF SinglesInv

-----------------------------------------------------------------------------
(* The echo servers.                                                       *)

\* The echo servers: accept(), and then recv(), a terminator, a look for END, and send()
\* of what has been received, in a loop that ends with the client or with END.
Echoes(code) ==
    /\ code[1].op = "Accept" /\ code[2].op = "Recv" /\ code[3] = When("closed", 8)
    /\ code[4].op = "Terminate" /\ code[5].op = "Says" /\ code[5].to = 8
    /\ code[6] = Send("received") /\ code[7] = Goto(2)
    /\ \/ Len(code) = 8 /\ code[8].op = "Return"
       \/ Len(code) = 9 /\ code[8].op = "CloseClient" /\ code[9] = Goto(1)

\* Their clients send fifteen characters once, or up to four requests of three each.
Requests(code) ==
    \A j \in 1..Len(code) :
       /\ code[j].op \notin Tests /\ (code[j].op = "Connect" <=> j = 1)
       /\ code[j].op \in Sends =>
            /\ code[j].op = "Fixed"
            /\ \/ Len(code) = 5 /\ j = 2 /\ Len(code[j].arg) <= 15
               \/ Len(code) # 5 /\ j \in {2, 5, 8, 11} /\ Len(code[j].arg) <= 3

\* The two echo servers.
LEMMA EchoServers ==
    ASSUME NEW s, s = InteractionServer.code \/ s = IterativeServer.code
    PROVE  Echoes(s) /\ Tcp(s)
<1>1. CASE s = InteractionServer.code
  BY <1>1, InteractionServerCode, Instrs DEF Echoes
<1>2. CASE s = IterativeServer.code
  BY <1>2, IterativeServerCode, Instrs DEF Echoes
<1>3. QED
  BY <1>1, <1>2

\* The four clients.
LEMMA LoopClients ==
    ASSUME NEW s,
           s = InteractionClient.code \/ s = IterativeClient.code
           \/ s = LongClient.code \/ s = LongerClient.code
    PROVE  Requests(s) /\ Tcp(s)
<1>1. PICK a, b, c, d, e, f : /\ a = Moksha /\ b = Yagna /\ c = Sweety /\ d = END
                              /\ e = Longer /\ f = Long
  OBVIOUS
<1>2. /\ Len(a) <= 3 /\ Len(b) <= 3 /\ Len(c) <= 3 /\ Len(d) <= 3
      /\ Len(e) <= 15 /\ Len(f) <= 15
  <2>1. /\ Len(a) = 3 /\ Len(b) = 2 /\ Len(c) = 3 /\ Len(d) = 3
        /\ Len(e) = 15 /\ Len(f) = 12
    BY <1>1, TextsType, Zenon
  <2>2. 2 <= 3 /\ 3 <= 3 /\ 12 <= 15 /\ 15 <= 15
    OBVIOUS
  <2>3. QED
    BY <2>1, <2>2, Zenon
<1>3. CASE s = InteractionClient.code
  <2>1. s = <<Connect, Fixed(a), Recv, Terminate, Fixed(d), Recv, Terminate, Return>>
    BY <1>1, <1>3, InteractionClientCode, Zenon
  <2>2. Len(s) = 8
    BY <2>1
  <2>3. \A j \in 1..8 : s[j].op \notin Tests /\ (s[j].op = "Connect" <=> j = 1)
    BY <2>1, Instrs DEF Tests
  <2>4. \A j \in 1..8 : s[j].op \in Sends => s[j].op = "Fixed" /\ j \in {2, 5}
    BY <2>1, Instrs DEF Sends
  <2>5. Len(s[2].arg) <= 3 /\ Len(s[5].arg) <= 3
    <3>1. s[2].arg = a /\ s[5].arg = d
      BY <2>1, Instrs
    <3>2. QED
      BY <1>2, <3>1, Zenon
  <2>6. QED
    BY <1>3, <2>2, <2>3, <2>4, <2>5, InteractionClientCode DEF Requests
<1>4. CASE s = IterativeClient.code
  <2>1. s = <<Connect, Fixed(a), Recv, Terminate, Fixed(b), Recv, Terminate,
              Fixed(c), Recv, Terminate, Fixed(d), Return>>
    BY <1>1, <1>4, IterativeClientCode, Zenon
  <2>2. Len(s) = 12
    BY <2>1
  <2>3. \A j \in 1..12 : s[j].op \notin Tests /\ (s[j].op = "Connect" <=> j = 1)
    BY <2>1, Instrs DEF Tests
  <2>4. \A j \in 1..12 : s[j].op \in Sends => s[j].op = "Fixed" /\ j \in {2, 5, 8, 11}
    BY <2>1, Instrs DEF Sends
  <2>5. /\ Len(s[2].arg) <= 3 /\ Len(s[5].arg) <= 3
        /\ Len(s[8].arg) <= 3 /\ Len(s[11].arg) <= 3
    <3>1. s[2].arg = a /\ s[5].arg = b /\ s[8].arg = c /\ s[11].arg = d
      BY <2>1, Instrs
    <3>2. QED
      BY <1>2, <3>1, Zenon
  <2>6. QED
    BY <1>4, <2>2, <2>3, <2>4, <2>5, IterativeClientCode DEF Requests
<1>5. CASE s = LongerClient.code
  <2>1. s = <<Connect, Fixed(e), Recv, Terminate, Return>>
    BY <1>1, <1>5, LongerClientCode, Zenon
  <2>2. Len(s) = 5
    BY <2>1
  <2>3. \A j \in 1..5 : s[j].op \notin Tests /\ (s[j].op = "Connect" <=> j = 1)
    BY <2>1, Instrs DEF Tests
  <2>4. \A j \in 1..5 : s[j].op \in Sends => s[j].op = "Fixed" /\ j = 2
    BY <2>1, Instrs DEF Sends
  <2>5. Len(s[2].arg) <= 15
    <3>1. s[2].arg = e
      BY <2>1, Instrs
    <3>2. QED
      BY <1>2, <3>1, Zenon
  <2>6. QED
    BY <1>5, <2>2, <2>3, <2>4, <2>5, LongerClientCode DEF Requests
<1>6. CASE s = LongClient.code
  <2>1. s = <<Connect, Fixed(f), Recv, Terminate, Return>>
    BY <1>1, <1>6, LongClientCode, Zenon
  <2>2. Len(s) = 5
    BY <2>1
  <2>3. \A j \in 1..5 : s[j].op \notin Tests /\ (s[j].op = "Connect" <=> j = 1)
    BY <2>1, Instrs DEF Tests
  <2>4. \A j \in 1..5 : s[j].op \in Sends => s[j].op = "Fixed" /\ j = 2
    BY <2>1, Instrs DEF Sends
  <2>5. Len(s[2].arg) <= 15
    <3>1. s[2].arg = f
      BY <2>1, Instrs
    <3>2. QED
      BY <1>2, <3>1, Zenon
  <2>6. QED
    BY <1>6, <2>2, <2>3, <2>4, <2>5, LongClientCode DEF Requests
<1>7. QED
  BY <1>3, <1>4, <1>5, <1>6

\* The exercises in which they meet.
LEMMA LoopCodes ==
    ASSUME exercise.name \in Loops
    PROVE  /\ This.answer = "echo" /\ Echoes(Code(0)) /\ Tcp(Code(0))
           /\ \A c \in Clients : Requests(Code(c)) /\ Tcp(Code(c))
<1>1. CASE exercise.name = "interaction"
  BY <1>1, Runs_interaction, EchoServers, LoopClients
<1>2. CASE exercise.name = "iterative"
  BY <1>2, Runs_iterative, EchoServers, LoopClients
<1>3. CASE exercise.name = "iterative_long"
  BY <1>3, Runs_iterative_long, EchoServers, LoopClients
<1>4. QED
  BY <1>1, <1>2, <1>3 DEF Loops

\* What a step may do to the sockets and to the backlog.
LEMMA SocketMoves ==
    ASSUME TypedState, NEW p \in Procs, Step(p), Tcp(Code(p))
    PROVE  /\ \/ Fewer
              \/ /\ Op(p) = "Connect" /\ ~Ended(0)
                 /\ \A e \in Ends : IF e \in {<<p, "S">>, <<p, "C">>}
                                    THEN sock'[e] = "open" ELSE sock'[e] = sock[e]
           /\ \A e \in Ends : sock[e] = "none" /\ sock'[e] # "none" =>
                \/ Op(p) = "Connect" /\ e \in {<<p, "S">>, <<p, "C">>}
                \/ Op(p) = "CloseClient" /\ e = Mine(p)
           /\ \/ backlog' = backlog \/ backlog' = <<>>
              \/ Op(p) = "Accept" /\ backlog # <<>> /\ cur' = Head(backlog)
                 /\ backlog' = Tail(backlog)
              \/ /\ Op(p) = "Connect" /\ backlog' = Append(backlog, p)
                 /\ sock'[<<p, "S">>] = "open"
<1>1. UNCHANGED exercise /\ ~Ended(p)
  BY StepTyped
<1>2. DOMAIN sock = Ends /\ Mine(p) \in Ends /\ \A e \in Ends : Peer(e) \in Ends
  BY ProcessesAre DEF TypedState, SocketsOk
<1>3. UNCHANGED <<sock, backlog>> => Fewer /\ \A e \in Ends : sock'[e] = sock[e]
  BY <1>1, Still
<1>4. ASSUME NEW E, E \subseteq Ends, Shut(E), NEW e \in Ends, sock[e] = "none"
      PROVE  e \in E \/ sock'[e] = "none"
  BY <1>4 DEF Shut
<1>5. ASSUME Finish(p)
      PROVE  /\ Fewer /\ (backlog' = backlog \/ backlog' = <<>>)
             /\ \A e \in Ends : sock[e] = "none" => sock'[e] = "none"
  <2>1. Fewer
    BY <1>1, <1>5, FinishOk
  <2>2. backlog' = backlog \/ backlog' = <<>>
    BY <1>5 DEF Finish
  <2>3. PICK E : /\ E = {e \in Ends : /\ sock[e] # "none"
                                      /\ IF p = 0 THEN e[2] = "S" ELSE e = <<p, "C">>}
                 /\ Shut(E)
    BY <1>5 DEF Finish
  <2>4. E \subseteq Ends /\ \A e \in Ends : sock[e] = "none" => e \notin E
    BY <2>3
  <2>5. QED
    BY <1>4, <2>1, <2>2, <2>3, <2>4
<1>6. ASSUME NEW e \in Ends, sock[e] \in {"fin", "reset"},
             sock' = [sock EXCEPT ![e] = "gone"]
      PROVE  Fewer /\ \A x \in Ends : sock[x] = "none" => sock'[x] = "none"
  <2>1. Fewer
    BY <1>1, <1>6, GoneMoves
  <2>2. QED
    BY <1>2, <1>6, <2>1
<1>7. CASE DoConnect(p)
  <2>1. Op(p) = "Connect"
    BY <1>7 DEF DoConnect
  <2>2. CASE UNCHANGED <<sock, backlog>>
    BY <1>3, <2>2
  <2>3. CASE /\ ~Ended(0) /\ backlog' = Append(backlog, p)
             /\ sock' = [sock EXCEPT ![<<p, "S">>] = "open", ![<<p, "C">>] = "open"]
    <3>1. <<p, "S">> \in Ends /\ <<p, "C">> \in Ends
      BY <1>1, <1>7, ConnectStep, Flowing
    <3>2. \A e \in Ends : IF e \in {<<p, "S">>, <<p, "C">>}
                          THEN sock'[e] = "open" ELSE sock'[e] = sock[e]
      BY <1>2, <2>3, <3>1
    <3>3. QED
      BY <2>1, <2>3, <3>1, <3>2
  <2>4. QED
    BY <1>7, <2>2, <2>3 DEF DoConnect
<1>8. CASE DoAccept(p)
  <2>1. /\ Op(p) = "Accept" /\ backlog # <<>> /\ sock' = sock
        /\ cur' = Head(backlog) /\ backlog' = Tail(backlog)
    BY <1>8 DEF DoAccept
  <2>2. Fewer
    BY <1>1, <2>1, Still
  <2>3. QED
    BY <2>1, <2>2
<1>9. CASE DoSend(p)
  <2>1. CASE Finish(p)
    BY <1>5, <2>1
  <2>2. CASE ~Finish(p)
    <3>1. backlog' = backlog
      BY <1>9, <2>2 DEF DoSend
    <3>2. sock' = sock \/ (sock[Mine(p)] \in {"fin", "reset"}
                           /\ sock' = [sock EXCEPT ![Mine(p)] = "gone"])
      BY <1>9, <2>2 DEF DoSend
    <3>3. QED
      BY <1>2, <1>3, <1>6, <3>1, <3>2
  <2>3. QED
    BY <2>1, <2>2
<1>10. CASE DoRecv(p)
  <2>1. backlog' = backlog
    BY <1>10 DEF DoRecv
  <2>2. sock' = sock \/ (sock[Mine(p)] = "reset"
                         /\ sock' = [sock EXCEPT ![Mine(p)] = "gone"])
    BY <1>10 DEF DoRecv
  <2>3. QED
    BY <1>2, <1>3, <1>6, <2>1, <2>2
<1>11. CASE DoCloseClient(p)
  <2>1. Op(p) = "CloseClient" /\ Shut({Mine(p)}) /\ backlog' = backlog
    BY <1>11 DEF DoCloseClient
  <2>2. {Mine(p)} \subseteq Ends
    BY <1>2
  <2>3. Fewer
    BY <1>1, <2>1, <2>2, ShutOk
  <2>4. QED
    BY <1>4, <2>1, <2>2, <2>3
<1>12. CASE DoReturn(p)
  BY <1>5, <1>12 DEF DoReturn
<1>13. CASE DoTerminate(p) \/ DoLocal(p) \/ DoTest(p) \/ DoShow(p)
  <2>1. UNCHANGED <<sock, backlog>>
    BY <1>13 DEF DoTerminate, DoLocal, DoTest, DoShow, net
  <2>2. QED
    BY <1>3, <2>1
<1>14. ~DoSendTo(p) /\ ~DoRecvFrom(p)
  BY <1>1, At DEF DoSendTo, DoRecvFrom, Tcp
<1>15. QED
  BY <1>7, <1>8, <1>9, <1>10, <1>11, <1>12, <1>13, <1>14 DEF Step

\* Whose connection the server has accepted is connected, it has closed it when it goes
\* back to accept(), and all when it has ended.
LoopServer ==
    /\ \A i \in 1..Len(backlog) : sock[<<backlog[i], "S">>] # "none"
    /\ proc[0].pc > 1 => sock[<<cur, "S">>] # "none"
    /\ proc[0].pc = 9 => sock[<<cur, "S">>] = "shut"
    /\ proc[0].pc = 0 => \A c \in Clients : sock[<<c, "S">>] # "open"

\* Before it connects a client has sent and received nothing.
Unconnected(c) ==
    proc[c].pc = 1 =>
        /\ sock[<<c, "S">>] = "none" /\ sock[<<c, "C">>] = "none"
        /\ sent[c] = <<>> /\ Flow(c) = <<>> /\ InqS(c) = <<>>

\* A client has sent no more than three characters for every request it has come to, so
\* that its requests together fit in a buffer.
Within(c) ==
    /\ proc[c].pc \in 1..2 => sent[c] = <<>>
    /\ \E k \in 0..5 :
         /\ Len(sent[c]) <= 3 * k
         /\ proc[c].pc = 0 \/ Len(Code(c)) = 5 \/ 3 * k <= proc[c].pc

\* Where the processes of these exercises are.
LEMMA LoopProcesses ==
    ASSUME TypedState, exercise.name \in Loops, NEW p \in Procs, ~Ended(p)
    PROVE  /\ Tcp(Code(p))
           /\ p # 0 => /\ p \in Clients /\ Requests(Code(p)) /\ Op(p) \notin Tests
                       /\ Op(p) \notin {"Accept", "CloseClient"}
                       /\ Op(p) = "Connect" <=> proc[p].pc = 1
           /\ p = 0 => /\ Echoes(Code(0)) /\ Op(0) # "Connect" /\ proc[0].pc \in 1..9
                       /\ proc[0].pc = 9 => Len(Code(0)) = 9
<1>1. p # 0 => p \in Clients
  BY ProcessesAre
<1>2. /\ Tcp(Code(p)) /\ (p # 0 => Requests(Code(p)) /\ Asks(Code(p)))
      /\ p = 0 => Echoes(Code(0)) /\ Serves(Code(0))
  BY <1>1, LoopCodes, AllCodes DEF TypedState, Constant
<1>3. Op(p) = Code(p)[proc[p].pc].op /\ proc[p].pc \in 1..Len(Code(p)) /\ Len(Code(p)) \in Nat
  BY At
<1>4. p = 0 => Len(Code(0)) \in {8, 9}
  BY <1>2 DEF Echoes
<1>5. QED
  BY <1>1, <1>2, <1>3, <1>4 DEF Requests, Asks, Serves

\* What a step of them does.
LEMMA LoopSteps ==
    ASSUME TypedState, exercise.name \in Loops, NEW p \in Procs, Step(p)
    PROVE  /\ TypedState' /\ Others(p) /\ UNCHANGED exercise /\ ~Ended(p) /\ Tcp(Code(p))
           /\ Quiet(p) \/ Sending(p) \/ \E b : Receiving(p, b)
           /\ Op(p) # "Accept" => cur' = cur
           /\ p # 0 => /\ p \in Clients /\ Op(p) \notin {"Accept", "CloseClient"}
                       /\ proc'[p].pc \in {0, proc[p].pc + 1} /\ proc[p].pc \in Nat \ {0}
                       /\ cur' = cur /\ proc'[0] = proc[0]
<1>1. ~Ended(p) /\ Tcp(Code(p))
  BY StepTyped, LoopProcesses
<1>2. /\ TypedState' /\ Others(p) /\ UNCHANGED exercise
      /\ Quiet(p) \/ Sending(p) \/ \E b : Receiving(p, b)
  BY <1>1, StepTyped
<1>3. Op(p) # "Accept" => cur' = cur
  BY <1>2 DEF Quiet, Sending, Receiving
<1>4. proc[p].pc \in Nat \ {0}
  BY <1>1, At
<1>5. p # 0 => Op(p) \notin Tests /\ Op(p) \notin {"Accept", "CloseClient"} /\ p \in Clients
  BY <1>1, LoopProcesses
<1>6. QED
  BY <1>1, <1>2, <1>3, <1>4, <1>5, ProcessesAre DEF Others, Targets

\* Unconnected is inductive.
LEMMA UnconnectedStep ==
    ASSUME TypedState, exercise.name \in Loops, LoopServer, NEW c \in Clients,
           Unconnected(c),
           NEW p \in Procs, Step(p)
    PROVE  Unconnected(c)'
<1>1. /\ TypedState' /\ Others(p) /\ UNCHANGED exercise /\ ~Ended(p) /\ Tcp(Code(p))
      /\ Quiet(p) \/ Sending(p) \/ \E b : Receiving(p, b)
      /\ p # 0 => /\ Op(p) \notin {"Accept", "CloseClient"}
                  /\ proc'[p].pc \in {0, proc[p].pc + 1} /\ proc[p].pc \in Nat \ {0}
  BY LoopSteps
<1>2. SUFFICES ASSUME proc'[c].pc = 1
               PROVE  /\ sock'[<<c, "S">>] = "none" /\ sock'[<<c, "C">>] = "none"
                      /\ sent'[c] = <<>> /\ Flow(c)' = <<>> /\ InqS(c)' = <<>>
  BY DEF Unconnected
<1>3. c # 0 /\ c \in Procs /\ p # c
  BY <1>1, <1>2, ProcessesAre
<1>4. /\ sock[<<c, "S">>] = "none" /\ sock[<<c, "C">>] = "none"
      /\ sent[c] = <<>> /\ Flow(c) = <<>> /\ InqS(c) = <<>>
  <2>1. proc[c].pc = 1
    BY <1>1, <1>2, <1>3 DEF Others
  <2>2. QED
    BY <2>1 DEF Unconnected
<1>5. /\ <<c, "S">> \in Ends /\ <<c, "C">> \in Ends
      /\ Flow(c)' \in Seq(Chars) /\ InqS(c)' \in Seq(Chars)
  BY <1>1, Flowing, FlowingNext
<1>6. ASSUME Op(p) = "CloseClient"
      PROVE  Mine(p) = <<cur, "S">> /\ cur # c
  <2>1. p = 0 /\ proc[0].pc \in 1..9 /\ Echoes(Code(0)) /\ Op(0) = Code(0)[proc[0].pc].op
    BY <1>1, <1>6, LoopProcesses, At
  <2>2. proc[0].pc # 1
    BY <1>6, <2>1 DEF Echoes
  <2>3. sock[<<cur, "S">>] # "none"
    BY <2>1, <2>2 DEF LoopServer
  <2>4. QED
    BY <1>4, <2>1, <2>3 DEF Mine
<1>7. ASSUME NEW e \in {<<c, "S">>, <<c, "C">>}
      PROVE  sock'[e] = "none"
  <2>1. e \notin {<<p, "S">>, <<p, "C">>}
    BY <1>3
  <2>2. Op(p) = "CloseClient" => e # Mine(p)
    BY <1>6
  <2>3. e \in Ends /\ sock[e] = "none"
    BY <1>4, <1>5
  <2>4. QED
    BY <1>1, <2>1, <2>2, <2>3, SocketMoves
<1>8. Flow(c)' = <<>>
  <2>1. ~(p = 0 /\ c = cur /\ Sending(0))
    BY <1>4 DEF Sending, Mine
  <2>2. Begins(Flow(c)', Flow(c))
    BY <1>1, <2>1, FlowMoves
  <2>3. QED
    BY <1>4, <1>5, <2>2, BeginsOrder
<1>9. sent'[c] = <<>> /\ InqS(c)' = <<>>
  <2>1. CASE Quiet(p)
    BY <1>4, <2>1, QuietAbout
  <2>2. CASE Sending(p)
    BY <1>1, <1>3, <1>4, <2>2, SendsTo
  <2>3. CASE \E b : Receiving(p, b)
    <3>1. PICK b : Receiving(p, b)
      BY <2>3
    <3>2. sent'[c] = sent[c] /\ (~(p = 0 /\ c = cur) => InqS(c)' = InqS(c))
      BY <1>1, <3>1, ReceivesFrom
    <3>3. CASE p = 0 /\ c = cur
      <4>1. b \in Seq(Chars) /\ Len(b) \in 1..Cap /\ b \o InqS(c)' = <<>>
        BY <1>1, <1>4, <3>1, <3>3, ReceivesFrom
      <4>2. Len(b \o InqS(c)') = Len(b) + Len(InqS(c)') /\ Len(InqS(c)') \in Nat
        BY <1>5, <4>1, Joined
      <4>3. FALSE
        BY <4>1, <4>2, EmptySeq
      <4>4. QED
        BY <4>3
    <3>4. QED
      BY <1>4, <3>2, <3>3
  <2>4. QED
    BY <1>1, <2>1, <2>2, <2>3
<1>10. QED
  BY <1>7, <1>8, <1>9

\* Within is inductive.
LEMMA WithinStep ==
    ASSUME TypedState, exercise.name \in Loops, NEW c \in Clients, Within(c),
           NEW p \in Procs, Step(p)
    PROVE  Within(c)'
<1>1. /\ TypedState' /\ Others(p) /\ UNCHANGED exercise /\ ~Ended(p) /\ Tcp(Code(p))
      /\ Quiet(p) \/ Sending(p) \/ \E b : Receiving(p, b)
      /\ p # 0 => /\ proc'[p].pc \in {0, proc[p].pc + 1} /\ proc[p].pc \in Nat \ {0}
  BY LoopSteps
<1>2. c # 0 /\ c \in Procs /\ sent[c] \in Seq(Chars) /\ Len(sent[c]) \in Nat
  <2>1. c # 0 /\ c \in Procs /\ sent[c] \in Seq(Chars)
    BY ProcessesAre, Flowing
  <2>2. QED
    BY <2>1, LenProperties
<1>3. Code(c)' = Code(c)
  BY <1>1, Same
<1>4. PICK k \in 0..5 :
         /\ Len(sent[c]) <= 3 * k
         /\ proc[c].pc = 0 \/ Len(Code(c)) = 5 \/ 3 * k <= proc[c].pc
  BY DEF Within
<1>5. CASE p # c
  <2>1. sent'[c] = sent[c]
    <3>1. CASE Quiet(p)
      BY <3>1, QuietAbout
    <3>2. CASE Sending(p)
      BY <1>1, <1>5, <3>2, SendsTo
    <3>3. CASE \E b : Receiving(p, b)
      BY <1>1, <3>3, ReceivesFrom
    <3>4. QED
      BY <1>1, <3>1, <3>2, <3>3
  <2>2. proc'[c] = proc[c]
    BY <1>1, <1>2, <1>5 DEF Others
  <2>3. QED
    BY <1>3, <2>1, <2>2 DEF Within
<1>6. CASE p = c /\ ~Sending(c)
  <2>1. sent'[c] = sent[c]
    <3>1. CASE Quiet(p)
      BY <3>1, QuietAbout
    <3>2. CASE \E b : Receiving(p, b)
      BY <1>1, <3>2, ReceivesFrom
    <3>3. QED
      BY <1>1, <1>6, <3>1, <3>2
  <2>2. proc'[c].pc = 0 \/ Len(Code(c)) = 5 \/ 3 * k <= proc'[c].pc
    BY <1>1, <1>2, <1>4, <1>6 DEF Ended
  <2>3. proc'[c].pc \in 1..2 => proc[c].pc \in 1..2
    BY <1>1, <1>2, <1>6
  <2>4. proc'[c].pc \in 1..2 => sent'[c] = <<>>
    BY <2>1, <2>3 DEF Within
  <2>5. QED
    BY <1>3, <1>4, <2>1, <2>2, <2>4 DEF Within
<1>7. CASE p = c /\ Sending(c)
  <2>1. PICK d : d = Outgoing(c)
    OBVIOUS
  <2>2. PICK j : j = proc[c].pc
    OBVIOUS
  <2>3. /\ j \in 1..Len(Code(c)) /\ Len(Code(c)) \in Nat /\ Op(c) = Code(c)[j].op
        /\ Arg(c) = Code(c)[j].arg /\ Op(c) \in Sends
    BY <1>1, <1>2, <1>7, <2>2, At DEF Sending
  <2>4. /\ Op(c) = "Fixed"
        /\ \/ Len(Code(c)) = 5 /\ j = 2 /\ Len(Arg(c)) <= 15
           \/ Len(Code(c)) # 5 /\ j \in {2, 5, 8, 11} /\ Len(Arg(c)) <= 3
    <3>1. Requests(Code(c))
      BY LoopCodes
    <3>2. QED
      BY <2>3, <3>1 DEF Requests
  <2>5. d = Arg(c)
    BY <2>1, <2>4, Zenon DEF Outgoing
  <2>6. d \in Seq(Chars) /\ Len(d) \in Nat
    BY <1>1, <1>2, <1>7, <2>1, <2>3, OutgoingOk DEF Sized
  <2>7. sent'[c] = sent[c] \o d /\ proc'[c].pc = j + 1
    BY <1>1, <1>2, <1>7, <2>1, <2>2, SendsTo DEF Sending
  <2>8. Len(sent'[c]) = Len(sent[c]) + Len(d)
    BY <1>2, <2>6, <2>7, Joined
  <2>9. CASE Len(Code(c)) = 5 /\ j = 2 /\ Len(d) <= 15
    <3>1. Len(sent[c]) = 0
      BY <1>2, <2>2, <2>9, EmptySeq DEF Within
    <3>2. Len(sent'[c]) <= 3 * 5 /\ proc'[c].pc \notin 1..2
      BY <1>2, <2>6, <2>7, <2>8, <2>9, <3>1
    <3>3. QED
      BY <1>3, <2>9, <3>2 DEF Within
  <2>10. CASE Len(Code(c)) # 5 /\ j \in {2, 5, 8, 11} /\ Len(d) <= 3
    <3>1. 3 * k <= j
      BY <1>4, <2>2, <2>3, <2>10
    <3>2. k + 1 \in 0..4 /\ 3 * (k + 1) <= j + 1 /\ Len(sent[c]) + Len(d) <= 3 * (k + 1)
      BY <1>2, <1>4, <2>6, <2>10, <3>1
    <3>3. Len(sent'[c]) <= 3 * (k + 1) /\ 3 * (k + 1) <= proc'[c].pc /\ proc'[c].pc \notin 1..2
      BY <2>7, <2>8, <2>10, <3>2
    <3>4. QED
      BY <1>3, <3>2, <3>3 DEF Within
  <2>11. QED
    BY <2>4, <2>5, <2>9, <2>10
<1>8. QED
  BY <1>5, <1>6, <1>7

\* A process ends in the two ways that close its sockets.
LEMMA EndsByFinish ==
    ASSUME TypedState, NEW p \in Procs, Step(p), Tcp(Code(p)), proc'[p].pc = 0
    PROVE  Finish(p)
<1>1. ~Ended(p) /\ UNCHANGED exercise /\ proc[p].pc \in Nat
  <2>1. ~Ended(p) /\ UNCHANGED exercise
    BY StepTyped
  <2>2. QED
    BY <2>1, At
<1>2. DOMAIN proc = Procs /\ DOMAIN proc[p] = Fields
  BY LocalsOk DEF TypedState, ProcsOk
<1>3. ASSUME NEW r, DOMAIN r = Fields, r.pc = proc[p].pc, GoOn(p, r)
      PROVE  FALSE
  <2>1. PICK s : s = [r EXCEPT !.pc = @ + 1]
    OBVIOUS
  <2>2. s.pc = proc[p].pc + 1
    BY <1>3, <2>1 DEF Fields
  <2>3. proc'[p] = s
    BY <1>2, <1>3, <2>1 DEF GoOn
  <2>4. QED
    BY <1>1, <2>2, <2>3
<1>4. \A k : DOMAIN [proc[p] EXCEPT !.n = k] = Fields /\ [proc[p] EXCEPT !.n = k].pc = proc[p].pc
  BY <1>2 DEF Fields
<1>5. CASE DoConnect(p)
  <2>1. PICK k : GoOn(p, [proc[p] EXCEPT !.n = k])
    BY <1>5 DEF DoConnect
  <2>2. QED
    BY <1>3, <1>4, <2>1
<1>6. CASE DoAccept(p) \/ DoShow(p) \/ DoCloseClient(p)
  BY <1>2, <1>3, <1>6 DEF DoAccept, DoShow, DoCloseClient
<1>7. CASE DoSend(p)
  <2>1. CASE Finish(p)
    BY <2>1
  <2>2. CASE ~Finish(p)
    <3>1. PICK k : GoOn(p, [proc[p] EXCEPT !.n = k])
      BY <1>7, <2>2 DEF DoSend
    <3>2. QED
      BY <1>3, <1>4, <3>1
  <2>3. QED
    BY <2>1, <2>2
<1>8. CASE DoRecv(p)
  <2>1. Missing(p) \/ \E b : Receiving(p, b)
    BY <1>1, <1>8, RecvStep
  <2>2. QED
    BY <1>1, <2>1 DEF Missing, Receiving
<1>9. CASE DoTerminate(p)
  <2>1. proc'[p].pc = proc[p].pc + 1
    BY <1>1, <1>9, TerminateStep
  <2>2. QED
    BY <1>1, <2>1
<1>10. CASE DoTest(p)
  <2>1. proc'[p].pc \in {Instr(p).to, proc[p].pc + 1} /\ Op(p) \in Tests
    BY <1>1, <1>10, TestStep DEF DoTest, Tests
  <2>2. Instr(p).to \in 1..Len(Code(p))
    BY <1>1, <2>1, At DEF InstrOk
  <2>3. QED
    BY <1>1, <2>1, <2>2
<1>11. CASE DoLocal(p)
  <2>1. \A x : /\ DOMAIN [proc[p] EXCEPT !.buf = x] = Fields /\ [proc[p] EXCEPT !.buf = x].pc = proc[p].pc
               /\ DOMAIN [proc[p] EXCEPT !.line = x] = Fields /\ [proc[p] EXCEPT !.line = x].pc = proc[p].pc
               /\ DOMAIN [proc[p] EXCEPT !.wake = x] = Fields /\ [proc[p] EXCEPT !.wake = x].pc = proc[p].pc
               /\ DOMAIN [proc[p] EXCEPT !.start = x] = Fields /\ [proc[p] EXCEPT !.start = x].pc = proc[p].pc
    BY <1>2 DEF Fields
  <2>2. \A x, y : /\ DOMAIN [proc[p] EXCEPT !.line = x, !.input = y] = Fields
                  /\ [proc[p] EXCEPT !.line = x, !.input = y].pc = proc[p].pc
    BY <1>2 DEF Fields
  <2>3. \/ GoOn(p, [proc[p] EXCEPT !.buf = exercise.array])
        \/ GoOn(p, [proc[p] EXCEPT !.line = Arg(p)])
        \/ GoOn(p, [proc[p] EXCEPT !.line = Head(proc[p].input), !.input = Tail(@)])
        \/ GoOn(p, [proc[p] EXCEPT !.wake = clock + Arg(p)])
        \/ GoOn(p, [proc[p] EXCEPT !.start = Seconds])
    BY <1>11 DEF DoLocal
  <2>4. \/ GoOn(p, [proc[p] EXCEPT !.line = Head(proc[p].input), !.input = Tail(proc[p].input)])
        \/ ~GoOn(p, [proc[p] EXCEPT !.line = Head(proc[p].input), !.input = Tail(@)])
    OBVIOUS
  <2>5. QED
    BY <1>3, <2>1, <2>2, <2>3, <2>4
<1>12. CASE DoReturn(p)
  BY <1>12 DEF DoReturn
<1>13. ~DoSendTo(p) /\ ~DoRecvFrom(p)
  BY <1>1, At DEF DoSendTo, DoRecvFrom, Tcp
<1>14. QED
  BY <1>5, <1>6, <1>7, <1>8, <1>9, <1>10, <1>11, <1>12, <1>13 DEF Step

\* A connection once made is not unmade, and what is closed stays closed.
LEMMA NoneKept ==
    ASSUME TypedState, NEW p \in Procs, Step(p), Tcp(Code(p)), NEW e \in Ends
    PROVE  /\ sock[e] # "none" => sock'[e] # "none"
           /\ sock'[e] = "open" => \/ sock[e] = "open"
                                   \/ /\ Op(p) = "Connect" /\ e \in {<<p, "S">>, <<p, "C">>}
                                      /\ ~Ended(0)
           /\ sock[e] = "shut" /\ (Op(p) = "Connect" => e \notin {<<p, "S">>, <<p, "C">>})
                => sock'[e] = "shut"
BY SocketMoves DEF Fewer

\* The same, instruction by instruction.
LEMMA EchoCode ==
    ASSUME NEW code, Echoes(code)
    PROVE  /\ code[1].op = "Accept" /\ code[2].op = "Recv" /\ code[3].op = "When" /\ code[3].arg = "closed"
           /\ code[3].to = 8 /\ code[4].op = "Terminate" /\ code[5].op = "Says" /\ code[5].to = 8
           /\ code[6].op = "Send" /\ code[6].arg = "received"
           /\ code[7].op = "Goto" /\ code[7].to = 2 /\ Len(code) \in {8, 9}
           /\ Len(code) = 8 => code[8].op = "Return"
           /\ Len(code) = 9 => code[8].op = "CloseClient" /\ code[9].op = "Goto" /\ code[9].to = 1
<1>1. /\ When("closed", 8).op = "When" /\ When("closed", 8).arg = "closed"
      /\ When("closed", 8).to = 8
      /\ Send("received").op = "Send" /\ Send("received").arg = "received"
      /\ Goto(1).op = "Goto" /\ Goto(1).to = 1 /\ Goto(2).op = "Goto" /\ Goto(2).to = 2
  BY Instrs
<1>2. /\ code[1].op = "Accept" /\ code[2].op = "Recv" /\ code[3] = When("closed", 8)
      /\ code[4].op = "Terminate" /\ code[5].op = "Says" /\ code[5].to = 8
      /\ code[6] = Send("received") /\ code[7] = Goto(2)
  BY Zenon DEF Echoes
<1>3. \/ Len(code) = 8 /\ code[8].op = "Return"
      \/ Len(code) = 9 /\ code[8].op = "CloseClient" /\ code[9] = Goto(1)
  BY Zenon DEF Echoes
<1>4. Len(code) \in {8, 9}
  BY <1>3, Zenon
<1>5. 8 # 9
  OBVIOUS
<1>6. Len(code) = 8 => code[8].op = "Return"
  BY <1>3, <1>5, Zenon
<1>7. Len(code) = 9 => code[8].op = "CloseClient" /\ code[9].op = "Goto" /\ code[9].to = 1
  BY <1>1, <1>3, <1>5, Zenon
<1>8. QED
  BY <1>1, <1>2, <1>4, <1>6, <1>7, Zenon

\* The echo server's instructions.
LEMMA EchoServer ==
    ASSUME TypedState, exercise.name \in Loops, ~Ended(0)
    PROVE  LET pc == proc[0].pc
           IN  /\ pc \in 1..9 /\ (pc = 9 => Len(Code(0)) = 9) /\ Len(Code(0)) \in {8, 9}
               /\ pc = 1 => Op(0) = "Accept"
               /\ pc = 2 => Op(0) = "Recv"
               /\ pc = 3 => Op(0) = "When" /\ Arg(0) = "closed" /\ Instr(0).to = 8
               /\ pc = 4 => Op(0) = "Terminate"
               /\ pc = 5 => Op(0) = "Says" /\ Instr(0).to = 8
               /\ pc = 6 => Op(0) = "Send" /\ Arg(0) = "received"
               /\ pc = 7 => Op(0) = "Goto" /\ Instr(0).to = 2
               /\ pc = 8 => Op(0) = IF Len(Code(0)) = 8 THEN "Return" ELSE "CloseClient"
               /\ pc = 9 => Op(0) = "Goto" /\ Instr(0).to = 1
<1>1. 0 \in Procs
  BY ProcessesAre
<1>2. Echoes(Code(0)) /\ proc[0].pc \in 1..9 /\ (proc[0].pc = 9 => Len(Code(0)) = 9)
  BY <1>1, LoopProcesses
<1>3. /\ Op(0) = Code(0)[proc[0].pc].op /\ Instr(0) = Code(0)[proc[0].pc]
      /\ Arg(0) = Code(0)[proc[0].pc].arg
  BY <1>1, At
<1>4. QED
  BY <1>2, <1>3, EchoCode

\* LoopServer is inductive.
LEMMA LoopServerStep ==
    ASSUME TypedState, exercise.name \in Loops, LoopServer,
           \A c \in Clients : Unconnected(c),
           NEW p \in Procs, Step(p)
    PROVE  LoopServer'
<1>1. /\ TypedState' /\ Others(p) /\ UNCHANGED exercise /\ ~Ended(p) /\ Tcp(Code(p))
      /\ Op(p) # "Accept" => cur' = cur
      /\ p # 0 => /\ p \in Clients /\ Op(p) \notin {"Accept", "CloseClient"}
                  /\ cur' = cur /\ proc'[0] = proc[0]
  BY LoopSteps
<1>2. /\ 0 \in Procs /\ cur \in Clients /\ backlog \in Seq(Clients) /\ Clients' = Clients
      /\ \A c \in Clients : <<c, "S">> \in Ends
  <2>1. 0 \in Procs /\ Clients' = Clients
    BY <1>1, ProcessesAre, Same
  <2>2. cur \in Clients /\ backlog \in Seq(Clients)
    BY DEF TypedState, QueueOk
  <2>3. QED
    BY <2>1, <2>2, Flowing
<1>3. p = 0 => /\ proc[0].pc \in 1..9 /\ Len(Code(0)) \in {8, 9}
               /\ Op(0) = "Accept" => proc[0].pc = 1
  BY <1>1, EchoServer
<1>4. ASSUME NEW i \in 1..Len(backlog')
      PROVE  sock'[<<backlog'[i], "S">>] # "none"
  <2>1. CASE backlog' = backlog
    <3>1. <<backlog[i], "S">> \in Ends /\ sock[<<backlog[i], "S">>] # "none"
      BY <1>2, <1>4, <2>1 DEF LoopServer
    <3>2. QED
      BY <1>1, <2>1, <3>1, NoneKept
  <2>2. CASE backlog' = <<>>
    BY <1>4, <2>2
  <2>3. CASE Op(p) = "Accept" /\ backlog # <<>> /\ backlog' = Tail(backlog)
    <3>1. i + 1 \in 1..Len(backlog) /\ backlog'[i] = backlog[i + 1]
      BY <1>2, <1>4, <2>3
    <3>2. <<backlog[i + 1], "S">> \in Ends /\ sock[<<backlog[i + 1], "S">>] # "none"
      BY <1>2, <3>1 DEF LoopServer
    <3>3. QED
      BY <1>1, <3>1, <3>2, NoneKept
  <2>4. CASE Op(p) = "Connect" /\ backlog' = Append(backlog, p) /\ sock'[<<p, "S">>] = "open"
    <3>0. p \in Clients
      BY <1>1, <2>4, LoopProcesses
    <3>1. CASE i = Len(backlog) + 1
      <4>1. backlog'[i] = p
        BY <1>2, <2>4, <3>0, <3>1
      <4>2. QED
        BY <2>4, <4>1
    <3>2. CASE i # Len(backlog) + 1
      <4>1. i \in 1..Len(backlog) /\ backlog'[i] = backlog[i]
        BY <1>2, <1>4, <2>4, <3>0, <3>2
      <4>2. <<backlog[i], "S">> \in Ends /\ sock[<<backlog[i], "S">>] # "none"
        BY <1>2, <4>1 DEF LoopServer
      <4>3. QED
        BY <1>1, <4>1, <4>2, NoneKept
    <3>3. QED
      BY <3>1, <3>2
  <2>5. QED
    BY <1>1, <2>1, <2>2, <2>3, <2>4, SocketMoves
<1>5. ASSUME proc'[0].pc > 1
      PROVE  sock'[<<cur', "S">>] # "none"
  <2>1. CASE cur' = cur /\ (p = 0 => proc[0].pc # 1)
    <3>1. proc[0].pc > 1
      BY <1>1, <1>2, <1>3, <1>5, <2>1
    <3>2. sock[<<cur, "S">>] # "none"
      BY <3>1 DEF LoopServer
    <3>3. QED
      BY <1>1, <1>2, <2>1, <3>2, NoneKept
  <2>2. CASE p = 0 /\ proc[0].pc = 1
    <3>1. Op(0) = "Accept" /\ DoAccept(0)
      BY <1>1, <2>2, EchoServer, OpIs
    <3>2. backlog # <<>> /\ cur' = Head(backlog) /\ sock' = sock
      BY <3>1 DEF DoAccept
    <3>3. 1 \in 1..Len(backlog) /\ cur' = backlog[1]
      BY <1>2, <3>2
    <3>4. QED
      BY <3>2, <3>3 DEF LoopServer
  <2>3. CASE p = 0 /\ proc[0].pc # 1 /\ cur' # cur
    BY <1>1, <1>3, <2>3
  <2>4. QED
    BY <1>1, <2>1, <2>2, <2>3
<1>6. ASSUME proc'[0].pc = 9
      PROVE  sock'[<<cur', "S">>] = "shut"
  <2>1. CASE p = 0
    <3>1. proc'[0].pc \in Targets(0)
      BY <1>1, <2>1 DEF Others
    <3>2. proc[0].pc = 8
      <4>1. Op(0) \in Tests => Instr(0).to \in {1, 2, 8}
        BY <1>1, <2>1, EchoServer DEF Tests
      <4>2. QED
        BY <1>3, <1>6, <2>1, <3>1, <4>1 DEF Targets
    <3>3. Len(Code(0)) = 9
      <4>1. proc'[0].pc \in 0..Len(Code(0))
        <5>1. Code(0)' = Code(0) /\ Procs' = Procs
          BY <1>1, Same
        <5>2. QED
          BY <1>1, <1>2, <5>1 DEF TypedState, ProcsOk, ProcOk
      <4>2. PICK m : m = Len(Code(0))
        OBVIOUS
      <4>3. m \in {8, 9} /\ 9 \in 0..m
        BY <1>3, <1>6, <2>1, <4>1, <4>2, Zenon
      <4>4. m = 9
        BY <4>3
      <4>5. QED
        BY <4>2, <4>4
    <3>4. Op(0) = "CloseClient" /\ DoCloseClient(0)
      BY <1>1, <2>1, <3>2, <3>3, EchoServer, OpIs
    <3>5. sock'[Mine(0)] = "shut"
      BY <1>1, <1>2, <2>1, <3>4, CloseStep
    <3>6. QED
      BY <1>1, <2>1, <3>4, <3>5 DEF Mine
  <2>2. CASE p # 0
    <3>1. sock[<<cur, "S">>] = "shut" /\ cur' = cur
      BY <1>1, <1>6, <2>2 DEF LoopServer
    <3>2. Op(p) = "Connect" => proc[p].pc = 1 /\ p \in Clients
      BY <1>1, <2>2, LoopProcesses
    <3>3. Op(p) = "Connect" => p # cur
      BY <3>1, <3>2 DEF Unconnected
    <3>4. QED
      BY <1>1, <1>2, <3>1, <3>3, NoneKept
  <2>3. QED
    BY <2>1, <2>2
<1>7. ASSUME proc'[0].pc = 0, NEW c \in Clients
      PROVE  sock'[<<c, "S">>] # "open"
  <2>1. CASE p = 0
    <3>1. Finish(0)
      BY <1>1, <1>7, <2>1, EndsByFinish
    <3>2. QED
      BY <1>1, <2>1, <3>1, FinishOk
  <2>2. CASE p # 0
    <3>1. Ended(0) /\ sock[<<c, "S">>] # "open"
      BY <1>1, <1>7, <2>2 DEF LoopServer, Ended
    <3>2. QED
      BY <1>1, <1>2, <3>1, NoneKept
  <2>3. QED
    BY <2>1, <2>2
<1>8. QED
  BY <1>2, <1>4, <1>5, <1>6, <1>7 DEF LoopServer

\* What the server holds of client c: received and not sent back yet.
Held(c) ==
    IF c = cur /\ proc[0].pc \in 3..6 THEN SubSeq(proc[0].buf, 1, proc[0].n) ELSE <<>>

\* The server is about to close the connection, and drops what it holds.
Dropped(c) == c = cur /\ (proc[0].pc \in {8, 9} \/ (proc[0].pc = 3 /\ proc[0].n <= 0))

\* While the connection is open all that a client has sent is on its way back, held by
\* the server, or on its way there, in this order.
Echoed(c) ==
    sock[<<c, "S">>] = "open" /\ ~Dropped(c) => sent[c] = Flow(c) \o (Held(c) \o InqS(c))

\* A quiet step about a connection that stays open.
LEMMA QuietOpen ==
    ASSUME TypedState, Coupled, NEW p \in Procs, Step(p), Quiet(p), NEW c \in Clients,
           sock'[<<c, "S">>] = "open"
    PROVE  Flow(c)' = Flow(c) /\ InqS(c)' = InqS(c) /\ sent'[c] = sent[c]
<1>1. /\ got'[c] = got[c] /\ sent'[c] = sent[c]
      /\ InqC(c)' = InqC(c) \/ (InqC(c)' = <<>> /\ sock'[<<c, "C">>] = "shut")
      /\ InqS(c)' = InqS(c) \/ (InqS(c)' = <<>> /\ sock'[<<c, "S">>] = "shut")
  BY QuietAbout
<1>2. UNCHANGED exercise
  BY StepTyped
<1>3. Coupled' /\ Ends' = Ends /\ <<c, "S">> \in Ends
  BY <1>2, Same, Flowing DEF Quiet
<1>4. sock'[<<c, "C">>] # "shut"
  <2>1. Peer(<<c, "S">>) = <<c, "C">>
    BY DEF Peer
  <2>2. QED
    BY <1>3, <2>1 DEF Coupled, Peer
<1>5. InqC(c)' = InqC(c)
  BY <1>1, <1>4
<1>6. QED
  BY <1>1, <1>5 DEF Flow

\* What is held is a text.
LEMMA HeldType ==
    ASSUME TypedState, NEW c \in Clients
    PROVE  Held(c) \in Seq(Chars)
<1>1. CASE c = cur /\ proc[0].pc \in 3..6
  <2>1. 0 \in Procs
    BY ProcessesAre
  <2>2. proc[0].buf \in [1..Cap -> Chars] /\ proc[0].n \in -(CharMax + 1)..Cap
    BY <2>1, LocalsOk DEF ProcOk
  <2>3. Held(c) = SubSeq(proc[0].buf, 1, proc[0].n)
    BY <1>1 DEF Held
  <2>4. CASE proc[0].n \in 0..Cap
    BY <2>2, <2>3, <2>4, PieceOf DEF Sized
  <2>5. CASE proc[0].n \notin 0..Cap
    BY <2>2, <2>3, <2>5
  <2>6. QED
    BY <2>4, <2>5
<1>2. CASE ~(c = cur /\ proc[0].pc \in 3..6)
  BY <1>2 DEF Held
<1>3. QED
  BY <1>1, <1>2

\* The client's steps.
LEMMA EchoedClient ==
    ASSUME TypedState, exercise.name \in Loops, Coupled, LoopServer, NEW c \in Clients,
           Unconnected(c), Echoed(c), NEW p \in Procs, p # 0, Step(p)
    PROVE  Echoed(c)'
<1>1. /\ TypedState' /\ UNCHANGED exercise /\ ~Ended(p) /\ Tcp(Code(p))
      /\ Quiet(p) \/ Sending(p) \/ \E b : Receiving(p, b)
      /\ cur' = cur /\ proc'[0] = proc[0]
  BY LoopSteps
<1>2. (Held(c)' = Held(c)) /\ (Dropped(c)' <=> Dropped(c))
  BY <1>1 DEF Held, Dropped
<1>3. SUFFICES ASSUME sock'[<<c, "S">>] = "open", ~Dropped(c)
               PROVE  sent'[c] = Flow(c)' \o (Held(c)' \o InqS(c)')
  BY <1>2 DEF Echoed
<1>4. /\ sent[c] \in Seq(Chars) /\ Flow(c) \in Seq(Chars) /\ InqS(c) \in Seq(Chars)
      /\ got[c] \in Seq(Chars) /\ InqC(c) \in Seq(Chars)
      /\ <<c, "S">> \in Ends
      /\ got'[c] \in Seq(Chars) /\ InqC(c)' \in Seq(Chars) /\ InqS(c)' \in Seq(Chars)
  BY <1>1, Flowing, FlowingNext
<1>5. Held(c) \in Seq(Chars)
  BY HeldType
<1>6. CASE sock[<<c, "S">>] # "open"
  <2>1. Op(p) = "Connect" /\ p = c
    BY <1>1, <1>3, <1>4, <1>6, NoneKept
  <2>2. proc[c].pc = 1
    BY <1>1, <2>1, LoopProcesses
  <2>3. /\ sock[<<c, "S">>] = "none" /\ sent[c] = <<>> /\ Flow(c) = <<>> /\ InqS(c) = <<>>
    BY <2>2 DEF Unconnected
  <2>4. Quiet(p)
    BY <1>1, <2>1 DEF Sending, Receiving, Sends
  <2>5. Held(c)' = <<>>
    <3>1. ~(c = cur /\ proc[0].pc > 1)
      BY <2>3 DEF LoopServer
    <3>2. ~(c = cur /\ proc[0].pc \in 3..6)
      BY <3>1
    <3>3. QED
      BY <1>2, <3>2 DEF Held
  <2>6. Flow(c)' = <<>> /\ InqS(c)' = <<>> /\ sent'[c] = <<>>
    BY <1>3, <2>3, <2>4, QuietOpen
  <2>7. <<>> \o (<<>> \o <<>>) = <<>>
    OBVIOUS
  <2>8. QED
    BY <2>5, <2>6, <2>7
<1>7. CASE sock[<<c, "S">>] = "open"
  <2>1. sent[c] = Flow(c) \o (Held(c) \o InqS(c))
    BY <1>3, <1>7 DEF Echoed
  <2>2. CASE Quiet(p)
    BY <1>2, <1>3, <2>1, <2>2, QuietOpen
  <2>3. CASE Sending(p)
    <3>1. PICK d : d = Outgoing(p)
      OBVIOUS
    <3>2. d \in Seq(Chars)
      BY <1>1, <2>3, <3>1, OutgoingOk DEF Sized, Sending
    <3>3. /\ Flow(c)' = Flow(c)
          /\ InqS(c)' = IF p = c THEN InqS(c) \o d ELSE InqS(c)
          /\ sent'[c] = IF p = c THEN sent[c] \o d ELSE sent[c]
      BY <1>1, <2>3, <3>1, SendsTo DEF Flow
    <3>4. (Flow(c) \o (Held(c) \o InqS(c))) \o d = Flow(c) \o (Held(c) \o (InqS(c) \o d))
      <4>1. PICK f, h, q : f = Flow(c) /\ h = Held(c) /\ q = InqS(c)
        OBVIOUS
      <4>2. f \in Seq(Chars) /\ h \in Seq(Chars) /\ q \in Seq(Chars)
        BY <1>4, <1>5, <4>1
      <4>3. h \o q \in Seq(Chars) /\ (h \o q) \o d = h \o (q \o d)
        BY <3>2, <4>2, Joined, SMTT(20)
      <4>4. (f \o (h \o q)) \o d = f \o ((h \o q) \o d)
        <5>1. PICK x : x = h \o q
          OBVIOUS
        <5>2. f \in Seq(Chars) /\ x \in Seq(Chars) /\ d \in Seq(Chars)
          BY <3>2, <4>2, <4>3, <5>1
        <5>3. (f \o x) \o d = f \o (x \o d)
          BY <5>2, Joined
        <5>4. QED
          BY <5>1, <5>3
      <4>5. QED
        BY <4>1, <4>3, <4>4
    <3>5. CASE p = c
      BY <1>2, <2>1, <3>3, <3>4, <3>5
    <3>6. CASE p # c
      BY <1>2, <2>1, <3>3, <3>6
    <3>7. QED
      BY <3>5, <3>6
  <2>4. CASE \E b : Receiving(p, b)
    <3>1. PICK b : Receiving(p, b)
      BY <2>4
    <3>2. /\ b \in Seq(Chars) /\ sent'[c] = sent[c] /\ InqS(c)' = InqS(c)
          /\ p = c => got'[c] = got[c] \o b /\ b \o InqC(c)' = InqC(c)
          /\ p # c => got'[c] = got[c] /\ InqC(c)' = InqC(c)
      BY <1>1, <3>1, ReceivesFrom
    <3>3. Flow(c)' = Flow(c)
      <4>1. CASE p = c
        <5>1. (got[c] \o b) \o InqC(c)' = got[c] \o (b \o InqC(c)')
          <6>1. PICK g, x : g = got[c] /\ x = InqC(c)'
            OBVIOUS
          <6>2. g \in Seq(Chars) /\ x \in Seq(Chars)
            BY <1>4, <6>1
          <6>3. (g \o b) \o x = g \o (b \o x)
            BY <3>2, <6>2, Joined
          <6>4. QED
            BY <6>1, <6>3
        <5>2. QED
          BY <3>2, <4>1, <5>1 DEF Flow
      <4>2. CASE p # c
        BY <3>2, <4>2 DEF Flow
      <4>3. QED
        BY <4>1, <4>2
    <3>4. QED
      BY <1>2, <2>1, <3>2, <3>3
  <2>5. QED
    BY <1>1, <2>2, <2>3, <2>4
<1>8. QED
  BY <1>6, <1>7

\* The server receives what comes first.
LEMMA ServerReceives ==
    ASSUME TypedState, NEW p \in Procs, ~Ended(p), NEW b, Receiving(p, b),
           NEW c \in Clients, p = 0, c = cur
    PROVE  /\ b \o InqS(c)' = InqS(c)
           /\ Begins(b, InqS(c))
<1>1. b \o InqS(c)' = InqS(c)
  <2> HIDE ExercisesAssumption, ShortReadsAssumption, ChosenAssumption
  <2> QED
    BY ReceivesFrom
<1>2. Begins(b, InqS(c))
  BY ReceivesFrom
<1>3. QED
  BY <1>1, <1>2

\* What the server receives from its client it holds.
LEMMA EchoReceives ==
    ASSUME TypedState, exercise.name \in Loops, NEW c \in Clients, c = cur,
           Within(c), Step(0), NEW b, Receiving(0, b),
           proc[0].pc = 2, sent[c] = Flow(c) \o InqS(c), ~Dropped(c)'
    PROVE  sent'[c] = Flow(c)' \o (Held(c)' \o InqS(c)')
<1>1. /\ TypedState' /\ UNCHANGED exercise /\ ~Ended(0) /\ 0 \in Procs
      /\ cur' = cur
  BY ProcessesAre, StepTyped DEF Receiving, TypedState, QueueOk
<1>2. /\ b \in Seq(Chars) /\ Len(b) \in 1..Cap /\ sent'[c] = sent[c] /\ got'[c] = got[c]
      /\ InqC(c)' = InqC(c) /\ b \o InqS(c)' = InqS(c) /\ Begins(b, InqS(c))
      /\ c # 0
  <2>1. c # 0
    BY ProcessesAre
  <2>2. PICK p \in Procs : p = 0
    BY <1>1
  <2>3. Receiving(p, b) /\ ~Ended(p) /\ p # c /\ p = 0 /\ c = cur
    BY <1>1, <2>1, <2>2
  <2>4. b \in Seq(Chars) /\ Len(b) \in 1..Cap /\ sent'[c] = sent[c]
    BY <2>3, ReceivesFrom
  <2>5. got'[c] = got[c] /\ InqC(c)' = InqC(c)
    BY <2>3, ReceivesFrom
  <2>6. b \o InqS(c)' = InqS(c) /\ Begins(b, InqS(c))
    BY <2>3, ServerReceives
  <2>7. QED
    BY <2>1, <2>4, <2>5, <2>6
<1>3. /\ proc'[0].pc = 3 /\ proc'[0].buf = Put(proc[0].buf, b)
      /\ proc'[0].n = Retval(IF Op(0) = "Recv" THEN Arg(0) ELSE "int", Len(b))
  BY DEF Receiving
<1>4. proc'[0].n > 0
  <2>1. proc'[0].n \in -(CharMax + 1)..Cap
    <3>1. ProcOk(0, proc[0])'
      BY <1>1, Same DEF TypedState, ProcsOk
    <3>2. QED
      BY <3>1 DEF ProcOk
  <2>2. ~(proc'[0].n <= 0)
    BY <1>1, <1>3 DEF Dropped
  <2>3. QED
    BY <2>1, <2>2
<1>5. proc'[0].n = Len(b)
  <2>1. PICK k : k = Len(b)
    OBVIOUS
  <2>2. k \in 1..15
    <3>1. PICK l, m, q : l = Len(InqS(c)) /\ m = Len(Flow(c)) /\ q = Len(sent[c])
      OBVIOUS
    <3>2. l \in Nat /\ m \in Nat /\ q = m + l
      <4>1. PICK f, x : f = Flow(c) /\ x = InqS(c)
        OBVIOUS
      <4>2. f \in Seq(Chars) /\ x \in Seq(Chars)
        BY <1>1, <4>1, Flowing
      <4>3. Len(f \o x) = Len(f) + Len(x) /\ Len(f) \in Nat /\ Len(x) \in Nat
        BY <4>2, Joined, LenProperties
      <4>4. QED
        BY <3>1, <4>1, <4>3
    <3>3. k <= l
      BY <1>2, <2>1, <3>1 DEF Begins
    <3>4. \E j \in 0..5 : q <= 3 * j
      BY <3>1 DEF Within
    <3>5. k \in 1..Cap
      BY <1>2, <2>1
    <3>6. PICK j \in 0..5 : q <= 3 * j
      BY <3>4
    <3>7. k >= 1 /\ k \in Nat /\ l \in Nat /\ q \in Nat /\ k <= l /\ l <= q /\ q <= 15
      BY <3>2, <3>3, <3>5, <3>6
    <3>8. QED
      BY <3>7
  <2>3. \E kind : proc'[0].n = Retval(kind, k)
    BY <1>3, <2>1
  <2>4. CharMax >= 7 /\ CharMax \in Nat
    BY DEF TypedState, Constant, Room
  <2>5. proc'[0].n = k
    BY <1>4, <2>2, <2>3, <2>4, RetvalIs
  <2>6. QED
    BY <2>1, <2>5
<1>6. Held(c)' = b
  <2>1. Held(c)' = SubSeq(Put(proc[0].buf, b), 1, Len(b))
    BY <1>1, <1>3, <1>5 DEF Held
  <2>2. proc[0].buf \in [1..Cap -> Chars]
    BY <1>1, LocalsOk DEF ProcOk
  <2>3. PICK x, k : x = Put(proc[0].buf, b) /\ k = Len(b)
    OBVIOUS
  <2>4. \A i \in 1..k : x[i] = b[i] /\ b[i] \in Chars
    <3>1. k <= Cap
      BY <1>2, <2>3
    <3>2. \A i \in 1..Cap : x[i] = IF i <= k THEN b[i] ELSE proc[0].buf[i]
      BY <1>2, <2>2, <2>3, PutType
    <3>3. \A i \in 1..k : b[i] \in Chars
      BY <1>2, <2>3, ElementOfSeq
    <3>4. k \in Nat
      BY <1>2, <2>3
    <3>5. QED
      BY <3>1, <3>2, <3>3, <3>4
  <2>5. k \in 0..Cap
    BY <1>2, <2>3
  <2>6. /\ SubSeq(x, 1, k) \in Seq(Chars) /\ Len(SubSeq(x, 1, k)) = k
        /\ \A i \in 1..k : SubSeq(x, 1, k)[i] = x[i]
    BY <2>4, <2>5, PieceOf DEF Sized
  <2>7. SubSeq(x, 1, k) = b
    BY <1>2, <2>3, <2>4, <2>5, <2>6, SeqEqual
  <2>8. QED
    BY <2>1, <2>3, <2>7
<1>7. Flow(c)' = Flow(c)
  BY <1>2 DEF Flow
<1>8. QED
  BY <1>2, <1>6, <1>7

\* The server's steps that leave alone what it holds of client c.
LEMMA EchoedStill ==
    ASSUME TypedState, exercise.name \in Loops, Coupled, NEW c \in Clients,
           Echoed(c), Step(0),
           Quiet(0), ~Dropped(c), Held(c)' = Held(c), sock'[<<c, "S">>] = "open"
    PROVE  sent'[c] = Flow(c)' \o (Held(c)' \o InqS(c)')
<1>1. 0 \in Procs /\ Op(0) # "Connect" /\ Tcp(Code(0))
  BY ProcessesAre, StepTyped, LoopProcesses
<1>2. <<c, "S">> \in Ends
  BY Flowing
<1>3. sock[<<c, "S">>] = "open"
  BY <1>1, <1>2, NoneKept
<1>4. sent[c] = Flow(c) \o (Held(c) \o InqS(c))
  BY <1>3 DEF Echoed
<1>5. Flow(c)' = Flow(c) /\ InqS(c)' = InqS(c) /\ sent'[c] = sent[c]
  BY <1>1, QuietOpen
<1>6. QED
  BY <1>4, <1>5

\* What the terminator does not touch.
LEMMA TerminateHeld ==
    ASSUME TypedState, Step(0), Op(0) = "Terminate", NEW c \in Clients,
           proc[0].pc = 4
    PROVE  Quiet(0) /\ proc'[0].pc = 5 /\ cur' = cur /\ Held(c)' = Held(c)
<1>1. 0 \in Procs /\ ~Ended(0) /\ DoTerminate(0) /\ UNCHANGED exercise
  BY ProcessesAre, OpIs
<1>2. /\ Quiet(0) /\ proc'[0].pc = 5 /\ proc'[0].n = proc[0].n /\ cur' = cur
      /\ proc[0].n \in 0..(Cap - 1) =>
            proc'[0].buf = [proc[0].buf EXCEPT ![proc[0].n + 1] = NUL]
  <2>1. Quiet(0) /\ proc'[0].pc = proc[0].pc + 1 /\ proc'[0].n = proc[0].n /\ cur' = cur
    BY <1>1, TerminateStep
  <2>2. ASSUME proc[0].n \in 0..(Cap - 1)
        PROVE  proc'[0].buf = [proc[0].buf EXCEPT ![proc[0].n + 1] = NUL]
    BY <1>1, <2>2, TerminateStep
  <2>3. QED
    BY <2>1, <2>2
<1>3. proc[0].buf \in [1..Cap -> Chars] /\ proc[0].n \in -(CharMax + 1)..Cap
  BY <1>1, LocalsOk DEF ProcOk
<1>4. PICK m, x, y : m = proc[0].n /\ x = proc[0].buf /\ y = proc'[0].buf
  OBVIOUS
<1>5. SubSeq(y, 1, m) = SubSeq(x, 1, m)
  <2>1. CASE m \in 1..(Cap - 1)
    <3>1. \A i \in 1..m : y[i] = x[i] /\ x[i] \in Chars
      BY <1>2, <1>3, <1>4, <2>1
    <3>2. m \in 0..Cap
      BY <2>1
    <3>3. /\ SubSeq(x, 1, m) \in Seq(Chars) /\ Len(SubSeq(x, 1, m)) = m
          /\ \A i \in 1..m : SubSeq(x, 1, m)[i] = x[i]
      BY <3>1, <3>2, PieceOf DEF Sized
    <3>4. /\ SubSeq(y, 1, m) \in Seq(Chars) /\ Len(SubSeq(y, 1, m)) = m
          /\ \A i \in 1..m : SubSeq(y, 1, m)[i] = y[i]
      BY <3>1, <3>2, PieceOf DEF Sized
    <3>5. QED
      BY <3>1, <3>3, <3>4, SeqEqual
  <2>2. CASE m = Cap
    <3>1. DoTerminate(0) /\ m \notin 0..(Cap - 1)
      BY <1>1, <2>2
    <3>2. GoOn(0, proc[0])
      BY <1>4, <3>1 DEF DoTerminate
    <3>3. proc'[0].buf = proc[0].buf
      BY <1>1, <3>2, LocalsOk, GoOnOk
    <3>4. QED
      BY <1>4, <3>3
  <2>3. CASE m \in -(CharMax + 1)..0
    BY <1>3, <1>4, <2>3
  <2>4. QED
    BY <1>3, <1>4, <2>1, <2>2, <2>3
<1>6. Held(c) = IF c = cur THEN SubSeq(x, 1, m) ELSE <<>>
  BY <1>4 DEF Held
<1>7. Held(c)' = IF c = cur THEN SubSeq(y, 1, m) ELSE <<>>
  BY <1>2, <1>4 DEF Held
<1>8. QED
  BY <1>2, <1>5, <1>6, <1>7

\* What the server sends is what it holds.
LEMMA EchoSends ==
    ASSUME TypedState, exercise.name \in Loops, Step(0), Sending(0), proc[0].pc = 6
    PROVE  Outgoing(0) = Held(cur)
<1>1. Op(0) = "Send" /\ Arg(0) = "received"
  BY StepTyped, ProcessesAre, EchoServer
<1>2. Outgoing(0) = SubSeq(proc[0].buf, 1, proc[0].n)
  BY <1>1 DEF Outgoing
<1>3. QED
  BY <1>2 DEF Held

\* The server has one send().
LEMMA SendingAtSix ==
    ASSUME TypedState, exercise.name \in Loops, Step(0), Sending(0)
    PROVE  proc[0].pc = 6
<1>1. 0 \in Procs /\ ~Ended(0)
  BY StepTyped, ProcessesAre
<1>2. Op(0) \in {"Fixed", "Send"}
  BY DEF Sending, Sends
<1>3. QED
  BY <1>1, <1>2, EchoServer

\* The server sends back what it holds.
LEMMA EchoedSends ==
    ASSUME TypedState, exercise.name \in Loops, NEW c \in Clients, Echoed(c), Step(0),
           Sending(0), sock'[<<c, "S">>] = "open"
    PROVE  sent'[c] = Flow(c)' \o (Held(c)' \o InqS(c)')
<1>1. /\ 0 \in Procs /\ ~Ended(0) /\ proc[0].pc = 6 /\ c # 0 /\ UNCHANGED exercise
      /\ TypedState'
  BY StepTyped, ProcessesAre, SendingAtSix
<1>2. proc'[0].pc = 7 /\ sock' = sock
  BY <1>1 DEF Sending
<1>3. sent[c] = Flow(c) \o (Held(c) \o InqS(c))
  BY <1>1, <1>2 DEF Echoed, Dropped
<1>4. Held(c)' = <<>>
  BY <1>2 DEF Held
<1>5. /\ InqC(c)' = (IF c = cur THEN InqC(c) \o Outgoing(0) ELSE InqC(c))
      /\ InqS(c)' = InqS(c) /\ sent'[c] = sent[c] /\ got'[c] = got[c]
  <2>1. PICK p \in Procs : p = 0
    BY <1>1
  <2>2. Sending(p) /\ ~Ended(p) /\ p # c
    BY <1>1, <2>1
  <2>3. InqC(c)' = IF p = 0 /\ c = cur THEN InqC(c) \o Outgoing(p) ELSE InqC(c)
    BY <2>2, SendsTo
  <2>4. InqS(c)' = InqS(c) /\ sent'[c] = sent[c] /\ got'[c] = got[c]
    BY <2>2, SendsTo
  <2>5. QED
    BY <2>1, <2>3, <2>4
<1>6. PICK g, q, h, s : g = got[c] /\ q = InqC(c) /\ h = Held(c) /\ s = InqS(c)
  OBVIOUS
<1>7. g \in Seq(Chars) /\ q \in Seq(Chars) /\ h \in Seq(Chars) /\ s \in Seq(Chars)
  BY <1>6, Flowing, HeldType
<1>8. <<>> \o s = s
  BY <1>7, Joined
<1>9. CASE c = cur
  <2>1. Outgoing(0) = h
    BY <1>1, <1>6, <1>9, EchoSends
  <2>2. Flow(c)' = g \o (q \o h)
    BY <1>5, <1>6, <1>9, <2>1 DEF Flow
  <2>3. (g \o q) \o h = g \o (q \o h) /\ g \o q \in Seq(Chars)
    BY <1>7, Joined, SMTT(20)
  <2>4. ((g \o q) \o h) \o s = (g \o q) \o (h \o s)
    <3>1. PICK f : f = g \o q
      OBVIOUS
    <3>2. f \in Seq(Chars) /\ h \in Seq(Chars) /\ s \in Seq(Chars)
      BY <1>7, <2>3, <3>1
    <3>3. (f \o h) \o s = f \o (h \o s)
      BY <3>2, Joined
    <3>4. QED
      BY <3>1, <3>3
  <2>5. sent[c] = (g \o q) \o (h \o s)
    BY <1>3, <1>6 DEF Flow
  <2>6. sent'[c] = (g \o (q \o h)) \o s
    BY <1>5, <2>3, <2>4, <2>5
  <2>7. QED
    BY <1>4, <1>5, <1>6, <1>8, <2>2, <2>6
<1>10. CASE c # cur
  <2>1. Held(c) = <<>> /\ Flow(c)' = Flow(c)
    BY <1>5, <1>10 DEF Held, Flow
  <2>2. QED
    BY <1>3, <1>4, <1>5, <2>1
<1>11. QED
  BY <1>9, <1>10

\* The other client's part of the invariant.
LEMMA EchoedElsewhere ==
    ASSUME TypedState, exercise.name \in Loops, Coupled, NEW c \in Clients,
           Echoed(c), Step(0),
           c # cur, cur' = cur, sock'[<<c, "S">>] = "open"
    PROVE  sent'[c] = Flow(c)' \o (Held(c)' \o InqS(c)')
<1>1. /\ 0 \in Procs /\ ~Ended(0) /\ c # 0
      /\ Quiet(0) \/ Sending(0) \/ \E b : Receiving(0, b)
  BY LoopSteps, StepTyped, ProcessesAre
<1>2. Held(c) = <<>> /\ Held(c)' = <<>> /\ ~Dropped(c)
  BY DEF Held, Dropped
<1>3. CASE Quiet(0)
  BY <1>2, <1>3, EchoedStill
<1>4. CASE Sending(0)
  BY <1>4, EchoedSends
<1>5. CASE \E b : Receiving(0, b)
  <2>1. PICK b : Receiving(0, b)
    BY <1>5
  <2>2. sock' = sock
    BY <2>1 DEF Receiving
  <2>3. sent[c] = Flow(c) \o (Held(c) \o InqS(c))
    BY <1>2, <2>2 DEF Echoed
  <2>4. /\ sent'[c] = sent[c] /\ got'[c] = got[c] /\ InqC(c)' = InqC(c)
        /\ InqS(c)' = InqS(c)
    <3>1. PICK p \in Procs : p = 0
      BY <1>1
    <3>2. Receiving(p, b) /\ ~Ended(p) /\ p # c /\ ~(p = 0 /\ c = cur)
      BY <1>1, <2>1, <3>1
    <3>3. QED
      BY <3>2, ReceivesFrom
  <2>5. QED
    BY <1>2, <2>3, <2>4 DEF Flow
<1>6. QED
  BY <1>1, <1>3, <1>4, <1>5

\* The server's steps keep it.
LEMMA EchoedServer ==
    ASSUME TypedState, exercise.name \in Loops, Coupled, LoopServer, NEW c \in Clients,
           Within(c), Echoed(c), Step(0)
    PROVE  Echoed(c)'
<1>1. /\ 0 \in Procs /\ TypedState' /\ Others(0) /\ UNCHANGED exercise /\ ~Ended(0)
      /\ Tcp(Code(0))
      /\ Op(0) # "Accept" => cur' = cur
  BY LoopSteps, ProcessesAre
<1>2. SUFFICES ASSUME sock'[<<c, "S">>] = "open", ~Dropped(c)'
               PROVE  sent'[c] = Flow(c)' \o (Held(c)' \o InqS(c)')
  BY DEF Echoed
<1>3. <<c, "S">> \in Ends /\ Op(0) # "Connect"
  BY <1>1, LoopProcesses, Flowing
<1>4. sock[<<c, "S">>] = "open"
  BY <1>1, <1>2, <1>3, NoneKept
<1>5. CASE proc[0].pc = 1
  <2>1. Op(0) = "Accept" /\ DoAccept(0)
    BY <1>1, <1>5, EchoServer, OpIs
  <2>2. Quiet(0)
    BY <1>1, <2>1, AcceptStep
  <2>3. proc'[0].pc \in {0, 2}
    BY <1>1, <1>5, <2>1 DEF Others, Targets, Tests
  <2>4. Held(c) = <<>> /\ Held(c)' = <<>> /\ ~Dropped(c)
    BY <1>5, <2>3 DEF Held, Dropped
  <2>5. QED
    BY <1>2, <2>2, <2>4, EchoedStill
<1>6. CASE proc[0].pc # 1 /\ c # cur
  <2>1. Op(0) # "Accept"
    BY <1>1, <1>6, EchoServer
  <2>2. QED
    BY <1>1, <1>2, <1>6, <2>1, EchoedElsewhere
<1>7. CASE proc[0].pc # 1 /\ c = cur
  <2>1. cur' = cur
    BY <1>1, <1>7, EchoServer
  <2>2. Mine(0) = <<c, "S">>
    BY <1>7 DEF Mine
  <2>3. CASE proc[0].pc = 2
    <3>1. Op(0) = "Recv" /\ DoRecv(0)
      BY <1>1, <2>3, EchoServer, OpIs
    <3>2. CASE Missing(0)
      <4>1. proc'[0].pc = 3 /\ proc'[0].n <= 0
        BY <2>3, <3>2 DEF Missing
      <4>2. QED
        BY <1>2, <1>7, <2>1, <4>1 DEF Dropped
    <3>3. CASE \E b : Receiving(0, b)
      <4>1. PICK b : Receiving(0, b)
        BY <3>3
      <4>2. ~Dropped(c) /\ Held(c) = <<>>
        BY <2>3 DEF Dropped, Held
      <4>3. sent[c] = Flow(c) \o InqS(c)
        <5>1. sent[c] = Flow(c) \o (<<>> \o InqS(c))
          BY <1>4, <4>2 DEF Echoed
        <5>2. <<>> \o InqS(c) = InqS(c)
          BY Flowing, Joined
        <5>3. QED
          BY <5>1, <5>2
      <4>4. QED
        BY <1>2, <1>7, <2>3, <4>1, <4>3, EchoReceives
    <3>4. QED
      BY <1>1, <3>1, <3>2, <3>3, RecvStep
  <2>4. CASE proc[0].pc = 3
    <3>1. Op(0) = "When" /\ Arg(0) = "closed" /\ Instr(0).to = 8
      BY <1>1, <2>4, EchoServer
    <3>2. Op(0) \in Tests /\ DoTest(0)
      BY <1>1, <3>1, OpIs DEF Tests
    <3>3. /\ Quiet(0) /\ proc'[0].n = proc[0].n /\ proc'[0].buf = proc[0].buf
          /\ proc'[0].pc = IF Holds(0) THEN 8 ELSE 4
      BY <1>1, <2>4, <3>1, <3>2, TestStep
    <3>4. ~Holds(0) /\ proc'[0].pc = 4
      BY <1>2, <1>7, <2>1, <3>3 DEF Dropped
    <3>5. ~(proc[0].n <= 0)
      BY <3>1, <3>4 DEF Holds
    <3>6. ~Dropped(c) /\ Held(c)' = Held(c)
      BY <2>1, <2>4, <3>3, <3>4, <3>5 DEF Dropped, Held
    <3>7. QED
      BY <1>2, <3>3, <3>6, EchoedStill
  <2>5. CASE proc[0].pc = 4
    <3>1. Op(0) = "Terminate"
      BY <1>1, <2>5, EchoServer
    <3>2. Quiet(0) /\ Held(c)' = Held(c) /\ ~Dropped(c)
      BY <2>5, <3>1, TerminateHeld DEF Dropped
    <3>3. QED
      BY <1>2, <3>2, EchoedStill
  <2>6. CASE proc[0].pc = 5
    <3>1. Op(0) = "Says" /\ Instr(0).to = 8
      BY <1>1, <2>6, EchoServer
    <3>2. Op(0) \in Tests /\ DoTest(0)
      BY <1>1, <3>1, OpIs DEF Tests
    <3>3. /\ Quiet(0) /\ proc'[0].n = proc[0].n /\ proc'[0].buf = proc[0].buf
          /\ proc'[0].pc \in {8, 6}
      BY <1>1, <2>6, <3>1, <3>2, TestStep
    <3>4. proc'[0].pc = 6
      BY <1>2, <1>7, <2>1, <3>3 DEF Dropped
    <3>5. ~Dropped(c) /\ Held(c)' = Held(c)
      BY <2>1, <2>6, <3>3, <3>4 DEF Dropped, Held
    <3>6. QED
      BY <1>2, <3>3, <3>5, EchoedStill
  <2>7. CASE proc[0].pc = 6
    <3>1. Op(0) \in Sends /\ DoSend(0)
      BY <1>1, <2>7, EchoServer, OpIs DEF Sends
    <3>2. Sending(0)
      <4>1. sock[Mine(0)] = "open"
        BY <1>4, <2>2
      <4>2. PICK p \in Procs : p = 0
        BY <1>1
      <4>3. ~Ended(p) /\ DoSend(p) /\ UNCHANGED exercise /\ sock[Mine(p)] = "open"
        BY <1>1, <3>1, <4>1, <4>2
      <4>4. Sending(p)
        BY <4>3, SendStep
      <4>5. QED
        BY <4>2, <4>4
    <3>3. QED
      BY <1>2, <3>2, EchoedSends
  <2>8. CASE proc[0].pc = 7
    <3>1. Op(0) = "Goto" /\ Instr(0).to = 2
      BY <1>1, <2>8, EchoServer
    <3>2. Op(0) \in Tests /\ DoTest(0)
      BY <1>1, <3>1, OpIs DEF Tests
    <3>3. Quiet(0) /\ proc'[0].pc \in {2, 8}
      BY <1>1, <2>8, <3>1, <3>2, TestStep
    <3>4. proc'[0].pc = 2
      BY <1>2, <1>7, <2>1, <3>3 DEF Dropped
    <3>5. ~Dropped(c) /\ Held(c)' = Held(c)
      BY <2>1, <2>8, <3>4 DEF Dropped, Held
    <3>6. QED
      BY <1>2, <3>3, <3>5, EchoedStill
  <2>9. CASE proc[0].pc = 8
    <3>1. Op(0) \in {"Return", "CloseClient"}
      BY <1>1, <2>9, EchoServer
    <3>2. CASE Op(0) = "Return"
      <4>1. DoReturn(0)
        BY <1>1, <3>2, OpIs
      <4>2. Finish(0)
        BY <4>1 DEF DoReturn
      <4>3. sock'[<<c, "S">>] # "open"
        BY <1>1, <4>2, FinishOk
      <4>4. QED
        BY <1>2, <4>3
    <3>3. CASE Op(0) = "CloseClient"
      <4>1. DoCloseClient(0)
        BY <1>1, <3>3, OpIs
      <4>2. sock'[Mine(0)] = "shut"
        BY <1>1, <4>1, CloseStep
      <4>3. QED
        BY <1>2, <2>2, <4>2
    <3>4. QED
      BY <3>1, <3>2, <3>3
  <2>10. CASE proc[0].pc = 9
    <3>1. sock[<<c, "S">>] = "shut"
      BY <1>7, <2>10 DEF LoopServer
    <3>2. QED
      BY <1>4, <3>1
  <2>11. proc[0].pc \in {2, 3, 4, 5, 6, 7, 8, 9}
    <3>1. proc[0].pc \in 1..9
      BY <1>1, EchoServer
    <3>2. QED
      BY <1>7, <3>1
  <2>12. QED
    BY <2>3, <2>4, <2>5, <2>6, <2>7, <2>8, <2>9, <2>10, <2>11, Zenon
<1>8. QED
  BY <1>5, <1>6, <1>7

\* What flows to a client begins what the client has sent, also after the connection is
\* closed.
EchoBegins(c) == Begins(Flow(c), sent[c])

\* The invariant of the echo servers.
LoopInv ==
    exercise.name \in Loops =>
        /\ Coupled /\ LoopServer
        /\ \A c \in Clients : Unconnected(c) /\ Within(c) /\ Echoed(c) /\ EchoBegins(c)

\* EchoBegins is inductive.
LEMMA EchoBeginsStep ==
    ASSUME TypedState, exercise.name \in Loops, NEW c \in Clients, Echoed(c), EchoBegins(c),
           NEW p \in Procs, Step(p)
    PROVE  EchoBegins(c)'
<1>1. /\ ~Ended(p) /\ Tcp(Code(p)) /\ UNCHANGED exercise /\ TypedState'
      /\ sent[c] \in Seq(Chars) /\ Flow(c) \in Seq(Chars) /\ InqS(c) \in Seq(Chars)
      /\ Held(c) \in Seq(Chars)
  BY LoopSteps, Flowing, HeldType
<1>2. /\ \/ Begins(Flow(c)', Flow(c))
         \/ p = 0 /\ c = cur /\ Sending(0) /\ Flow(c)' = Flow(c) \o Outgoing(0)
      /\ Begins(sent[c], sent'[c])
      /\ Flow(c)' \in Seq(Chars) /\ sent'[c] \in Seq(Chars)
  BY <1>1, FlowMoves
<1>3. CASE Begins(Flow(c)', Flow(c))
  <2>1. Begins(Flow(c), sent[c])
    BY DEF EchoBegins
  <2>2. PICK f, g, s, t : f = Flow(c) /\ g = Flow(c)' /\ s = sent[c] /\ t = sent'[c]
    OBVIOUS
  <2>3. /\ f \in Seq(Chars) /\ g \in Seq(Chars) /\ s \in Seq(Chars) /\ t \in Seq(Chars)
        /\ Begins(g, f) /\ Begins(f, s) /\ Begins(s, t)
    BY <1>1, <1>2, <1>3, <2>1, <2>2
  <2>4. Begins(g, s)
    BY <2>3, BeginsOrder
  <2>5. Begins(g, t)
    BY <2>3, <2>4, BeginsOrder
  <2>6. QED
    BY <2>2, <2>5 DEF EchoBegins
<1>4. CASE p = 0 /\ c = cur /\ Sending(0) /\ Flow(c)' = Flow(c) \o Outgoing(0)
  <2>1. proc[0].pc = 6 /\ Outgoing(0) = Held(c)
    BY <1>4, SendingAtSix, EchoSends
  <2>2. sock[<<c, "S">>] = "open" /\ ~Dropped(c)
    BY <1>4, <2>1 DEF Sending, Mine, Dropped
  <2>3. sent[c] = Flow(c) \o (Held(c) \o InqS(c))
    BY <2>2 DEF Echoed
  <2>4. PICK f, h, q, t : f = Flow(c) /\ h = Held(c) /\ q = InqS(c) /\ t = sent'[c]
    OBVIOUS
  <2>5. f \in Seq(Chars) /\ h \in Seq(Chars) /\ q \in Seq(Chars) /\ t \in Seq(Chars)
    BY <1>1, <1>2, <2>4
  <2>6. f \o h \in Seq(Chars) /\ (f \o h) \o q = f \o (h \o q)
    BY <2>5, Joined
  <2>7. PICK g : g = f \o h
    OBVIOUS
  <2>8. g \in Seq(Chars) /\ g \o q = sent[c] /\ Flow(c)' = g
    BY <1>4, <2>1, <2>3, <2>4, <2>6, <2>7
  <2>9. Begins(g, g \o q)
    BY <2>5, <2>8, BeginsOrder
  <2>10. PICK s : s = sent[c]
    OBVIOUS
  <2>11. s \in Seq(Chars) /\ Begins(g, s) /\ Begins(s, t)
    BY <1>1, <1>2, <2>4, <2>8, <2>9, <2>10
  <2>12. Begins(g, t)
    BY <2>5, <2>8, <2>11, BeginsOrder
  <2>13. QED
    BY <2>4, <2>8, <2>12 DEF EchoBegins
<1>5. QED
  BY <1>2, <1>3, <1>4

\* LoopInv is kept by every step ...
LEMMA LoopMove ==
    ASSUME TypedState, LoopInv, NEW p \in Procs, Step(p)
    PROVE  LoopInv'
<1>1. UNCHANGED exercise
  BY StepTyped
<1>2. SUFFICES ASSUME exercise.name \in Loops
               PROVE  /\ Coupled' /\ LoopServer'
                      /\ (\A c \in Clients : Unconnected(c) /\ Within(c) /\ Echoed(c)
                                             /\ EchoBegins(c))'
  BY <1>1 DEF LoopInv
<1>3. Coupled /\ LoopServer
  BY <1>2 DEF LoopInv
<1>4. \A c \in Clients : Unconnected(c) /\ Within(c) /\ Echoed(c) /\ EchoBegins(c)
  BY <1>2 DEF LoopInv
<1>5. Coupled'
  <2>1. Quiet(p) \/ sock' = sock
    BY <1>2, LoopSteps DEF Sending, Receiving
  <2>2. CASE Quiet(p)
    BY <1>3, <2>2 DEF Quiet
  <2>3. CASE sock' = sock
    BY <1>1, <1>3, <2>3, Still
  <2>4. QED
    BY <2>1, <2>2, <2>3
<1>6. LoopServer'
  BY <1>2, <1>3, <1>4, LoopServerStep
<1>7. ASSUME NEW c \in Clients
      PROVE  Unconnected(c)' /\ Within(c)' /\ Echoed(c)' /\ EchoBegins(c)'
  <2>1. Unconnected(c) /\ Within(c) /\ Echoed(c) /\ EchoBegins(c)
    BY <1>4
  <2>2. Unconnected(c)'
    BY <1>2, <1>3, <2>1, UnconnectedStep
  <2>3. Within(c)'
    BY <1>2, <2>1, WithinStep
  <2>4. Echoed(c)'
    <3>1. CASE p = 0
      BY <1>2, <1>3, <2>1, <3>1, EchoedServer
    <3>2. CASE p # 0
      BY <1>2, <1>3, <2>1, <3>2, EchoedClient
    <3>3. QED
      BY <3>1, <3>2
  <2>5. EchoBegins(c)'
    BY <1>2, <2>1, EchoBeginsStep
  <2>6. QED
    BY <2>2, <2>3, <2>4, <2>5
<1>8. Clients' = Clients
  BY <1>1, Same
<1>9. QED
  BY <1>5, <1>6, <1>7, <1>8

\* ... and while nothing happens ...
LEMMA LoopStill ==
    ASSUME TypedState, LoopInv, Standing
    PROVE  LoopInv'
<1>1. UNCHANGED <<exercise, sock, inq, backlog, cur, sent, got>>
  BY DEF Standing
<1>2. /\ Clients' = Clients /\ Ends' = Ends /\ \A p : Code(p)' = Code(p)
      /\ proc'[0].pc = proc[0].pc /\ proc'[0].n = proc[0].n /\ proc'[0].buf = proc[0].buf
      /\ \A c : Flow(c)' = Flow(c) /\ InqS(c)' = InqS(c)
  BY StillFlow
<1>3. Coupled => Coupled'
  BY <1>1, Still
<1>4. LoopServer => LoopServer'
  BY <1>1, <1>2 DEF LoopServer
<1>5. ASSUME NEW c \in Clients
      PROVE  /\ Unconnected(c) => Unconnected(c)'
             /\ Within(c) => Within(c)'
             /\ Echoed(c) => Echoed(c)'
             /\ EchoBegins(c) => EchoBegins(c)'
  <2>1. c \in Procs /\ proc'[c].pc = proc[c].pc
    BY ProcessesAre DEF Standing
  <2>2. Flow(c)' = Flow(c) /\ InqS(c)' = InqS(c) /\ Code(c)' = Code(c)
    BY <1>2
  <2>3. Held(c)' = Held(c) /\ (Dropped(c)' <=> Dropped(c))
    BY <1>1, <1>2 DEF Held, Dropped
  <2>4. Unconnected(c) => Unconnected(c)'
    BY <1>1, <2>1, <2>2 DEF Unconnected
  <2>5. Within(c) => Within(c)'
    BY <1>1, <2>1, <2>2 DEF Within
  <2>6. Echoed(c) => Echoed(c)'
    BY <1>1, <2>2, <2>3 DEF Echoed
  <2>7. EchoBegins(c) => EchoBegins(c)'
    BY <1>1, <2>2 DEF EchoBegins
  <2>8. QED
    BY <2>4, <2>5, <2>6, <2>7
<1>6. CASE exercise.name \in Loops
  <2>1. Coupled' /\ LoopServer'
    BY <1>3, <1>4, <1>6 DEF LoopInv
  <2>2. \A c \in Clients : Unconnected(c)' /\ Within(c)' /\ Echoed(c)' /\ EchoBegins(c)'
    BY <1>5, <1>6 DEF LoopInv
  <2>3. QED
    BY <1>2, <2>1, <2>2 DEF LoopInv
<1>7. QED
  BY <1>1, <1>6 DEF LoopInv

\* ... and holds at the start.
LEMMA LoopInit ==
    ASSUME Room, Init
    PROVE  LoopInv
<1>1. /\ TypedState
      /\ \A e \in Ends : sock[e] = "none" /\ inq[e] = <<>>
      /\ \A c \in Clients : sent[c] = <<>> /\ got[c] = <<>>
      /\ \A p \in Procs : proc[p].pc = 1
      /\ backlog = <<>>
  BY InitTyped
<1>2. Coupled
  BY <1>1 DEF Coupled
<1>3. LoopServer
  <2>1. proc[0].pc = 1 /\ Len(backlog) = 0
    BY <1>1, ProcessesAre
  <2>2. QED
    BY <2>1 DEF LoopServer
<1>4. ASSUME NEW c \in Clients
      PROVE  Unconnected(c) /\ Within(c) /\ Echoed(c) /\ EchoBegins(c)
  <2>1. /\ <<c, "S">> \in Ends /\ <<c, "C">> \in Ends /\ c \in Procs
    BY <1>1, Flowing, ProcessesAre
  <2>2. InqS(c) = <<>> /\ InqC(c) = <<>> /\ got[c] = <<>> /\ sent[c] = <<>>
    BY <1>1, <2>1 DEF InqS, InqC
  <2>3. Flow(c) = <<>>
    <3>1. <<>> \o <<>> = <<>>
      OBVIOUS
    <3>2. QED
      BY <2>2, <3>1 DEF Flow
  <2>4. Unconnected(c)
    BY <1>1, <2>1, <2>2, <2>3 DEF Unconnected
  <2>5. Within(c)
    <3>1. /\ 0 \in 0..4 /\ Len(sent[c]) <= 3 * 0 /\ 3 * 0 <= proc[c].pc
      BY <1>1, <2>1, <2>2
    <3>2. QED
      BY <2>2, <3>1 DEF Within
  <2>6. Echoed(c)
    BY <1>1, <2>1 DEF Echoed
  <2>7. EchoBegins(c)
    <3>1. Begins(<<>>, <<>>)
      BY EmptySeq DEF Begins
    <3>2. QED
      BY <2>2, <2>3, <3>1 DEF EchoBegins
  <2>8. QED
    BY <2>4, <2>5, <2>6, <2>7
<1>5. QED
  BY <1>2, <1>3, <1>4 DEF LoopInv

\* What a client of the echo servers has.
LEMMA LoopAnswers ==
    ASSUME TypedState, LoopInv, exercise.name \in Loops, NEW c \in Clients
    PROVE  This.answer = "echo" /\ IsPrefix(got[c], sent[c])
<1>1. Begins(Flow(c), sent[c])
  BY DEF LoopInv, EchoBegins
<1>2. got[c] \in Seq(Chars) /\ InqC(c) \in Seq(Chars) /\ sent[c] \in Seq(Chars)
  BY Flowing
<1>3. Begins(got[c] \o InqC(c), sent[c])
  BY <1>1 DEF Flow
<1>4. IsPrefix(got[c], sent[c])
  BY <1>2, <1>3, BeginsIsPrefix
<1>5. QED
  BY <1>4, LoopCodes

-----------------------------------------------------------------------------
(* The UDP servers.                                                        *)

\* From the k-th instruction on the program sleeps, ends or starts again.
After(code, k) ==
    \A j \in k..Len(code) :
       /\ code[j].op \in {"Sleep", "Goto", "Return"}
       /\ code[j].op = "Goto" => code[j].to = 1

\* The UDP servers: recvfrom(), and sendto() of the capitals.
Uppering(code) ==
    /\ code[1].op = "RecvFrom" /\ code[2].op = "SendTo" /\ code[2].arg = "uppered"
    /\ After(code, 3)

\* Their clients: a line, sendto(), recvfrom().
Asking(code) ==
    /\ code[1].op \in {"Load", "Gets"} /\ code[2].op = "SendTo" /\ code[2].arg = "line"
    /\ code[3].op = "RecvFrom" /\ After(code, 4)

\* The exercises in which they meet.
LEMMA UdpCodes ==
    ASSUME exercise.name \in Udps
    PROVE  This.answer = "upper" /\ Clients = {1} /\ Uppering(Code(0)) /\ Asking(Code(1))
<1>1. CASE exercise.name = "udp"
  <2>1. /\ This.answer = "upper" /\ Clients = {1} /\ Code(0) = UdpServer1.code
        /\ Code(1) = UdpClient1.code
    BY <1>1, Runs_udp
  <2>2. PICK s, c, t : s = Code(0) /\ c = Code(1) /\ t = Text("client", 10)
    OBVIOUS
  <2>3. s = <<RecvFrom, SendTo("uppered"), Sleep(3), Return>>
    BY <2>1, <2>2, UdpServer1Code
  <2>4. c = <<Load(t), SendTo("line"), RecvFrom, Sleep(3), Return>>
    BY <2>1, <2>2, UdpClient1Code, Zenon
  <2>5. Uppering(s)
    BY <2>3, Instrs DEF Uppering, After
  <2>6. Asking(c)
    BY <2>4, Instrs DEF Asking, After
  <2>7. QED
    BY <2>1, <2>2, <2>5, <2>6
<1>2. CASE exercise.name = "udp_lines"
  <2>1. /\ This.answer = "upper" /\ Clients = {1} /\ Code(0) = UdpServer2.code
        /\ Code(1) = UdpClient2.code
    BY <1>2, Runs_udp_lines
  <2>2. PICK s, c : s = Code(0) /\ c = Code(1)
    OBVIOUS
  <2>3. s = <<RecvFrom, SendTo("uppered"), Goto(1)>>
    BY <2>1, <2>2, UdpServer2Code
  <2>4. c = <<Gets, SendTo("line"), RecvFrom, Goto(1)>>
    BY <2>1, <2>2, UdpClient2Code
  <2>5. Uppering(s)
    BY <2>3, Instrs DEF Uppering, After
  <2>6. Asking(c)
    BY <2>4, Instrs DEF Asking, After
  <2>7. QED
    BY <2>1, <2>2, <2>5, <2>6
<1>3. QED
  BY <1>1, <1>2 DEF Udps

\* A step that is no datagram's.
Aside(p) ==
    /\ UNCHANGED <<mail, sent, got>>
    /\ p = 0 => proc[0].pc # 2 /\ proc'[0].pc # 2
    /\ p = 1 => proc[1].pc # 3 /\ proc'[1].pc # 3

\* What a step of them does.
LEMMA UdpSteps ==
    ASSUME TypedState, exercise.name \in Udps, NEW p \in Procs, Step(p)
    PROVE  /\ TypedState' /\ UNCHANGED exercise /\ ~Ended(p) /\ p \in {0, 1} /\ cur = 1
           /\ Procs = {0, 1} /\ \A q \in Procs \ {p} : proc'[q] = proc[q]
           /\ \/ Aside(p)
              \/ /\ proc[p].pc = 2 /\ DoSendTo(p)
                 /\ Arg(p) = IF p = 0 THEN "uppered" ELSE "line"
              \/ proc[p].pc = (IF p = 0 THEN 1 ELSE 3) /\ DoRecvFrom(p)
<1>1. TypedState' /\ Others(p) /\ UNCHANGED exercise /\ ~Ended(p)
  BY StepTyped
<1>2. Clients = {1} /\ Uppering(Code(0)) /\ Asking(Code(1)) /\ cur = 1
  BY UdpCodes DEF TypedState, QueueOk
<1>3. Procs = {0, 1}
  BY <1>2, ProcessesAre
<1>4. PICK k, code : k = proc[p].pc /\ code = Code(p)
  OBVIOUS
<1>5. /\ k \in 1..Len(code) /\ Len(code) \in Nat /\ Op(p) = code[k].op /\ Instr(p) = code[k]
      /\ Arg(p) = code[k].arg
  BY <1>1, <1>4, At
<1>6. proc'[p].pc \in {0, k + 1} \cup (IF Op(p) \in Tests THEN {code[k].to} ELSE {})
  BY <1>1, <1>4, <1>5 DEF Others, Targets
<1>7. ASSUME Op(p) \in {"Load", "Gets", "Sleep", "Goto", "Return"}
      PROVE  UNCHANGED <<mail, sent, got>>
  <2>1. CASE Op(p) \in {"Load", "Gets", "Sleep"}
    <3>1. DoLocal(p)
      BY <2>1, OpIs
    <3>2. QED
      BY <3>1 DEF DoLocal, net, hist
  <2>2. CASE Op(p) = "Goto"
    <3>1. DoTest(p)
      BY <2>2, OpIs DEF Tests
    <3>2. QED
      BY <3>1 DEF DoTest, net, hist
  <2>3. CASE Op(p) = "Return"
    <3>1. DoReturn(p)
      BY <2>3, OpIs
    <3>2. QED
      BY <3>1 DEF DoReturn, Finish, hist
  <2>4. QED
    BY <1>7, <2>1, <2>2, <2>3
<1>8. CASE p = 0
  <2>1. CASE k = 1
    <3>1. DoRecvFrom(p)
      BY <1>2, <1>4, <1>5, <1>8, <2>1, OpIs DEF Uppering
    <3>2. QED
      BY <1>1, <1>2, <1>3, <1>4, <1>8, <2>1, <3>1 DEF Others
  <2>2. CASE k = 2
    <3>1. DoSendTo(p) /\ Arg(p) = "uppered"
      BY <1>2, <1>4, <1>5, <1>8, <2>2, OpIs DEF Uppering
    <3>2. QED
      BY <1>1, <1>2, <1>3, <1>4, <1>8, <2>2, <3>1 DEF Others
  <2>3. CASE k \in 3..Len(code)
    <3>1. Op(p) \in {"Sleep", "Goto", "Return"} /\ (Op(p) = "Goto" => code[k].to = 1)
      BY <1>2, <1>4, <1>5, <1>8, <2>3 DEF Uppering, After
    <3>2. proc'[p].pc # 2
      BY <1>6, <2>3, <3>1 DEF Tests
    <3>3. Aside(p)
      BY <1>4, <1>7, <1>8, <2>3, <3>1, <3>2 DEF Aside
    <3>4. QED
      BY <1>1, <1>2, <1>3, <1>8, <3>3 DEF Others
  <2>4. QED
    BY <1>5, <2>1, <2>2, <2>3
<1>9. CASE p = 1
  <2>1. CASE k = 1
    <3>1. Op(p) \in {"Load", "Gets"}
      BY <1>2, <1>4, <1>5, <1>9, <2>1 DEF Asking
    <3>2. proc'[p].pc # 3
      BY <1>6, <2>1, <3>1 DEF Tests
    <3>3. Aside(p)
      BY <1>4, <1>7, <1>9, <2>1, <3>1, <3>2 DEF Aside
    <3>4. QED
      BY <1>1, <1>2, <1>3, <1>9, <3>3 DEF Others
  <2>2. CASE k = 2
    <3>1. DoSendTo(p) /\ Arg(p) = "line"
      BY <1>2, <1>4, <1>5, <1>9, <2>2, OpIs DEF Asking
    <3>2. QED
      BY <1>1, <1>2, <1>3, <1>4, <1>9, <2>2, <3>1 DEF Others
  <2>3. CASE k = 3
    <3>1. DoRecvFrom(p)
      BY <1>2, <1>4, <1>5, <1>9, <2>3, OpIs DEF Asking
    <3>2. QED
      BY <1>1, <1>2, <1>3, <1>4, <1>9, <2>3, <3>1 DEF Others
  <2>4. CASE k \in 4..Len(code)
    <3>1. Op(p) \in {"Sleep", "Goto", "Return"} /\ (Op(p) = "Goto" => code[k].to = 1)
      BY <1>2, <1>4, <1>5, <1>9, <2>4 DEF Asking, After
    <3>2. proc'[p].pc # 3
      BY <1>6, <2>4, <3>1 DEF Tests
    <3>3. Aside(p)
      BY <1>4, <1>7, <1>9, <2>4, <3>1, <3>2 DEF Aside
    <3>4. QED
      BY <1>1, <1>2, <1>3, <1>9, <3>3 DEF Others
  <2>5. QED
    BY <1>5, <2>1, <2>2, <2>3, <2>4
<1>10. QED
  BY <1>3, <1>8, <1>9

\* Process p's datagram with data d.
Datagram(p, d) == [from |-> p, data |-> d]

\* No datagram has arrived.
NoMail == mail[0] = <<>> /\ mail[1] = <<>>

\* The client is not waiting: it has the capitals of all it has sent.
Between == got[1] = Uppers(sent[1]) /\ NoMail /\ proc[0].pc # 2

\* The client waits for the capitals of d, having those of s: d is lost, on its way,
\* received, or on its way back in capitals, or these are lost.
Asked(s, d) ==
    /\ sent[1] = s \o d /\ got[1] = Uppers(s) /\ d # <<>> /\ d[Len(d)] = NUL
    /\ \/ NoMail /\ proc[0].pc # 2
       \/ mail[0] = <<Datagram(1, d)>> /\ mail[1] = <<>> /\ proc[0].pc # 2
       \/ mail[0] = <<>> /\ mail[1] = <<Datagram(0, Uppers(d))>> /\ proc[0].pc # 2
       \/ /\ NoMail /\ proc[0].pc = 2 /\ proc[0].n = Len(d)
          /\ \A i \in 1..Len(d) : proc[0].buf[i] = d[i]

\* The invariant of the UDP servers.
UdpInv ==
    exercise.name \in Udps =>
        IF proc[1].pc = 3
        THEN \E s \in Seq(Chars), d \in Sized(Cap) : Asked(s, d)
        ELSE Between

\* What a datagram is made of.
LEMMA DatagramIs ==
    ASSUME NEW p, NEW d
    PROVE  /\ Datagram(p, d).from = p /\ Datagram(p, d).data = d
           /\ Head(<<Datagram(p, d)>>) = Datagram(p, d) /\ Tail(<<Datagram(p, d)>>) = <<>>
           /\ <<Datagram(p, d)>> # <<>> /\ Append(<<>>, Datagram(p, d)) = <<Datagram(p, d)>>
BY DEF Datagram

\* The datagram with the capitals ends like the one that was received.
LEMMA PacketIsUppers ==
    ASSUME TypedState, 0 \in Procs, Arg(0) = "uppered", NEW d \in Sized(Cap),
           d # <<>>, d[Len(d)] = NUL, proc[0].n = Len(d),
           \A i \in 1..Len(d) : proc[0].buf[i] = d[i]
    PROVE  Packet(0) = Uppers(d)
<1>1. PICK k, x : k = Len(d) /\ x = proc[0].buf
  OBVIOUS
<1>2. d \in Seq(Chars) /\ k \in Nat /\ k > 0
  BY <1>1, EmptySeq, LenProperties DEF Sized
<1>3. Packet(0) = [i \in 1..k |-> IF i < k THEN Upper(x[i]) ELSE x[i]]
  BY <1>1 DEF Packet
<1>4. \A i \in 1..k : x[i] = d[i] /\ d[k] = NUL
  BY <1>1
<1>5. Upper(NUL) = NUL
  BY DEF Upper
<1>6. \A i \in 1..k : (IF i < k THEN Upper(x[i]) ELSE x[i]) = Upper(d[i])
  BY <1>2, <1>4, <1>5
<1>7. Packet(0) = [i \in 1..k |-> Upper(d[i])]
  BY <1>3, <1>6
<1>8. DOMAIN d = 1..k
  BY <1>1, <1>2
<1>9. QED
  BY <1>7, <1>8 DEF Uppers

\* The client's sendto().
LEMMA UdpClientSends ==
    ASSUME TypedState, exercise.name \in Udps, UdpInv, Step(1), 1 \in Procs,
           proc[1].pc = 2, DoSendTo(1), Arg(1) = "line"
    PROVE  UdpInv'
<1>1. /\ UNCHANGED exercise /\ ~Ended(1) /\ Procs = {0, 1} /\ proc'[0] = proc[0] /\ TypedState'
  BY UdpSteps
<1>2. Between
  BY DEF UdpInv
<1>3. PICK d : d = Packet(1)
  OBVIOUS
<1>4. /\ UNCHANGED got /\ proc'[1].pc = 3
      /\ sent' = [sent EXCEPT ![1] = @ \o d]
      /\ mail' \in {mail, [mail EXCEPT ![0] = Append(@, Datagram(1, d))]}
  BY <1>1, <1>3, SendToStep DEF Datagram
<1>5. /\ d \in Sized(Cap) /\ sent[1] \in Seq(Chars) /\ DOMAIN sent = Clients /\ 1 \in Clients
      /\ DOMAIN mail = Procs
  BY <1>3, PacketOk, Flowing, ProcessesAre DEF TypedState, HistOk, MailOk
<1>6. d # <<>> /\ d[Len(d)] = NUL
  <2>1. d = Append(proc[1].line, NUL)
    BY <1>3 DEF Packet
  <2>2. PICK x : x = proc[1].line
    OBVIOUS
  <2>3. x \in Seq(Chars) /\ NUL \in Chars
    BY <2>2, LocalsOk, CharsType DEF ProcOk, Sized
  <2>4. Len(x) \in Nat /\ Len(Append(x, NUL)) = Len(x) + 1 /\ Append(x, NUL)[Len(x) + 1] = NUL
    BY <2>3, AppendProperties, LenProperties
  <2>5. QED
    BY <2>1, <2>2, <2>4, EmptySeq
<1>7. sent'[1] = sent[1] \o d
  BY <1>4, <1>5
<1>8. mail'[1] = <<>> /\ mail'[0] \in {<<>>, <<Datagram(1, d)>>}
  BY <1>1, <1>2, <1>4, <1>5, DatagramIs DEF Between, NoMail
<1>9. PICK s : s = sent[1]
  OBVIOUS
<1>10. Asked(s, d)'
  <2>1. sent'[1] = s \o d /\ got'[1] = Uppers(s) /\ proc'[0].pc # 2
    BY <1>1, <1>2, <1>4, <1>7, <1>9 DEF Between
  <2>2. QED
    BY <1>6, <1>8, <2>1 DEF Asked, NoMail
<1>11. s \in Seq(Chars)
  BY <1>5, <1>9
<1>12. \E x \in Seq(Chars), y \in Sized(Cap) : Asked(x, y)'
  BY <1>5, <1>10, <1>11
<1>13. QED
  BY <1>4, <1>12 DEF UdpInv

\* The server's recvfrom().
LEMMA UdpServerReceives ==
    ASSUME TypedState, exercise.name \in Udps, UdpInv, Step(0), 0 \in Procs,
           proc[0].pc = 1, DoRecvFrom(0)
    PROVE  UdpInv'
<1>1. /\ UNCHANGED exercise /\ ~Ended(0) /\ Procs = {0, 1} /\ proc'[1] = proc[1] /\ TypedState'
  BY UdpSteps
<1>2. /\ UNCHANGED sent /\ got' = got /\ mail[0] # <<>> /\ mail' = [mail EXCEPT ![0] = Tail(@)]
      /\ proc'[0].pc = 2 /\ proc'[0].n = Len(Head(mail[0]).data)
      /\ proc'[0].buf = Put(proc[0].buf, Head(mail[0]).data)
  BY <1>1, RecvFromStep
<1>3. proc[1].pc = 3
  BY <1>2 DEF UdpInv, Between, NoMail
<1>4. PICK s \in Seq(Chars), d \in Sized(Cap) : Asked(s, d)
  BY <1>3 DEF UdpInv
<1>5. /\ mail[0] = <<Datagram(1, d)>> /\ mail[1] = <<>>
      /\ sent[1] = s \o d /\ got[1] = Uppers(s) /\ d # <<>> /\ d[Len(d)] = NUL
  BY <1>2, <1>4 DEF Asked, NoMail
<1>6. DOMAIN mail = Procs /\ d \in Seq(Chars) /\ Len(d) <= Cap /\ Len(d) \in Nat
  BY LenProperties DEF TypedState, MailOk, Sized
<1>7. mail'[0] = <<>> /\ mail'[1] = <<>>
  BY <1>1, <1>2, <1>5, <1>6, DatagramIs
<1>8. proc'[0].n = Len(d) /\ proc'[0].buf = Put(proc[0].buf, d)
  BY <1>2, <1>5, DatagramIs
<1>9. \A i \in 1..Len(d) : proc'[0].buf[i] = d[i]
  <2>1. proc[0].buf \in [1..Cap -> Chars]
    BY LocalsOk DEF ProcOk
  <2>2. PICK x, k : x = Put(proc[0].buf, d) /\ k = Len(d)
    OBVIOUS
  <2>3. \A i \in 1..Cap : x[i] = IF i <= k THEN d[i] ELSE proc[0].buf[i]
    BY <1>6, <2>1, <2>2, PutType
  <2>4. \A i \in 1..k : x[i] = d[i]
    BY <1>6, <2>2, <2>3
  <2>5. QED
    BY <1>8, <2>2, <2>4
<1>10. Asked(s, d)'
  BY <1>2, <1>5, <1>7, <1>8, <1>9 DEF Asked, NoMail
<1>11. \E x \in Seq(Chars), y \in Sized(Cap) : Asked(x, y)'
  BY <1>10
<1>12. QED
  BY <1>1, <1>3, <1>11 DEF UdpInv

\* The server's sendto().
LEMMA UdpServerSends ==
    ASSUME TypedState, exercise.name \in Udps, UdpInv, Step(0), 0 \in Procs,
           proc[0].pc = 2, DoSendTo(0), Arg(0) = "uppered"
    PROVE  UdpInv'
<1>1. /\ UNCHANGED exercise /\ ~Ended(0) /\ Procs = {0, 1} /\ proc'[1] = proc[1] /\ TypedState'
      /\ cur = 1
  BY UdpSteps
<1>2. PICK y : y = Packet(0)
  OBVIOUS
<1>3. /\ UNCHANGED <<sent, got>> /\ proc'[0].pc = 3
      /\ mail' \in {mail, [mail EXCEPT ![1] = Append(@, Datagram(0, y))]}
  BY <1>1, <1>2, SendToStep DEF Datagram
<1>4. proc[1].pc = 3
  BY DEF UdpInv, Between
<1>5. PICK s \in Seq(Chars), d \in Sized(Cap) : Asked(s, d)
  BY <1>4 DEF UdpInv
<1>6. /\ NoMail /\ proc[0].n = Len(d) /\ \A i \in 1..Len(d) : proc[0].buf[i] = d[i]
      /\ sent[1] = s \o d /\ got[1] = Uppers(s) /\ d # <<>> /\ d[Len(d)] = NUL
  BY <1>5 DEF Asked
<1>7. y = Uppers(d)
  BY <1>2, <1>6, PacketIsUppers
<1>8. DOMAIN mail = Procs
  BY DEF TypedState, MailOk
<1>9. mail'[0] = <<>> /\ mail'[1] \in {<<>>, <<Datagram(0, Uppers(d))>>}
  <2>1. CASE mail' = mail
    BY <1>6, <2>1 DEF NoMail
  <2>2. CASE mail' = [mail EXCEPT ![1] = Append(@, Datagram(0, y))]
    <3>1. mail'[0] = mail[0] /\ mail'[1] = Append(mail[1], Datagram(0, y))
      BY <1>1, <1>8, <2>2
    <3>2. QED
      BY <1>6, <1>7, <3>1, DatagramIs DEF NoMail
  <2>3. QED
    BY <1>3, <2>1, <2>2
<1>10. Asked(s, d)'
  BY <1>3, <1>6, <1>9 DEF Asked, NoMail
<1>11. \E x \in Seq(Chars), z \in Sized(Cap) : Asked(x, z)'
  BY <1>10
<1>12. QED
  BY <1>1, <1>4, <1>11 DEF UdpInv

\* The client's recvfrom().
LEMMA UdpClientReceives ==
    ASSUME TypedState, exercise.name \in Udps, UdpInv, Step(1), 1 \in Procs,
           proc[1].pc = 3, DoRecvFrom(1)
    PROVE  UdpInv'
<1>1. /\ UNCHANGED exercise /\ ~Ended(1) /\ Procs = {0, 1} /\ proc'[0] = proc[0] /\ TypedState'
  BY UdpSteps
<1>2. /\ UNCHANGED sent /\ mail[1] # <<>> /\ mail' = [mail EXCEPT ![1] = Tail(@)]
      /\ got' = [got EXCEPT ![1] = @ \o Head(mail[1]).data]
      /\ proc'[1].pc = 4
  <2>1. UNCHANGED sent /\ mail[1] # <<>> /\ mail' = [mail EXCEPT ![1] = Tail(@)]
    BY <1>1, RecvFromStep
  <2>2. proc'[1].pc = proc[1].pc + 1
    BY <1>1, RecvFromStep
  <2>3. got' = IF 1 = 0 THEN got ELSE [got EXCEPT ![1] = @ \o Head(mail[1]).data]
    BY <1>1, RecvFromStep
  <2>4. QED
    BY <2>1, <2>2, <2>3
<1>3. PICK s \in Seq(Chars), d \in Sized(Cap) : Asked(s, d)
  BY DEF UdpInv
<1>4. /\ mail[0] = <<>> /\ mail[1] = <<Datagram(0, Uppers(d))>> /\ proc[0].pc # 2
      /\ sent[1] = s \o d /\ got[1] = Uppers(s)
  BY <1>2, <1>3 DEF Asked, NoMail
<1>5. DOMAIN mail = Procs /\ DOMAIN got = Clients /\ 1 \in Clients /\ d \in Seq(Chars)
  BY ProcessesAre DEF TypedState, MailOk, HistOk, Sized
<1>6. mail'[0] = <<>> /\ mail'[1] = <<>>
  BY <1>1, <1>2, <1>4, <1>5, DatagramIs
<1>7. got'[1] = Uppers(s) \o Uppers(d)
  <2>1. Head(mail[1]).data = Uppers(d)
    BY <1>4, DatagramIs
  <2>2. got'[1] = got[1] \o Head(mail[1]).data
    BY <1>2, <1>5
  <2>3. QED
    BY <1>4, <2>1, <2>2
<1>8. Uppers(s \o d) = Uppers(s) \o Uppers(d)
  BY <1>5, UppersJoin
<1>9. got'[1] = Uppers(sent'[1])
  <2>1. sent'[1] = s \o d
    BY <1>2, <1>4
  <2>2. QED
    BY <1>7, <1>8, <2>1, Zenon
<1>10. (got[1] = Uppers(sent[1]))'
  BY <1>9 DEF Uppers
<1>11. Between'
  BY <1>1, <1>4, <1>6, <1>10 DEF Between, NoMail
<1>12. QED
  BY <1>2, <1>11 DEF UdpInv

\* All other steps.
LEMMA UdpAside ==
    ASSUME TypedState, exercise.name \in Udps, UdpInv, NEW p \in Procs, Step(p), Aside(p)
    PROVE  UdpInv'
<1>1. /\ UNCHANGED exercise /\ p \in {0, 1} /\ Procs = {0, 1}
      /\ \A q \in Procs \ {p} : proc'[q] = proc[q]
  BY UdpSteps
<1>2. UNCHANGED <<mail, sent, got>> /\ (proc'[1].pc = 3 <=> proc[1].pc = 3)
  BY <1>1 DEF Aside
<1>3. (proc'[0].pc # 2 /\ proc[0].pc # 2) \/ proc'[0] = proc[0]
  BY <1>1 DEF Aside
<1>4. Between => Between'
  BY <1>2, <1>3 DEF Between, NoMail, Uppers
<1>5. ASSUME NEW s, NEW d, Asked(s, d)
      PROVE  Asked(s, d)'
  BY <1>2, <1>3, <1>5 DEF Asked, NoMail
<1>6. CASE proc[1].pc = 3
  <2>1. PICK s \in Seq(Chars), d \in Sized(Cap) : Asked(s, d)
    BY <1>6 DEF UdpInv
  <2>2. Asked(s, d)'
    BY <1>5, <2>1
  <2>3. \E x \in Seq(Chars), z \in Sized(Cap) : Asked(x, z)'
    BY <2>2
  <2>4. QED
    BY <1>2, <1>6, <2>3 DEF UdpInv
<1>7. CASE proc[1].pc # 3
  BY <1>2, <1>4, <1>7 DEF UdpInv
<1>8. QED
  BY <1>6, <1>7

\* UdpInv is kept by every step ...
LEMMA UdpMove ==
    ASSUME TypedState, UdpInv, NEW p \in Procs, Step(p)
    PROVE  UdpInv'
<1>1. UNCHANGED exercise
  BY StepTyped
<1>2. CASE exercise.name \notin Udps
  BY <1>1, <1>2 DEF UdpInv
<1>3. CASE exercise.name \in Udps
  <2>1. /\ p \in {0, 1}
        /\ \/ Aside(p)
           \/ /\ proc[p].pc = 2 /\ DoSendTo(p)
              /\ Arg(p) = IF p = 0 THEN "uppered" ELSE "line"
           \/ proc[p].pc = (IF p = 0 THEN 1 ELSE 3) /\ DoRecvFrom(p)
    BY <1>3, UdpSteps
  <2>2. CASE Aside(p)
    BY <1>3, <2>2, UdpAside
  <2>3. CASE p = 0 /\ ~Aside(p)
    BY <1>3, <2>1, <2>3, UdpServerReceives, UdpServerSends
  <2>4. CASE p = 1 /\ ~Aside(p)
    BY <1>3, <2>1, <2>4, UdpClientReceives, UdpClientSends
  <2>5. QED
    BY <2>1, <2>2, <2>3, <2>4
<1>4. QED
  BY <1>2, <1>3

\* ... and while nothing happens ...
LEMMA UdpStill ==
    ASSUME TypedState, UdpInv, Standing
    PROVE  UdpInv'
<1>1. UNCHANGED <<exercise, mail, sent, got>>
  BY DEF Standing
<1>2. /\ proc'[0].pc = proc[0].pc /\ proc'[0].n = proc[0].n /\ proc'[0].buf = proc[0].buf
      /\ proc'[1].pc = proc[1].pc
  BY StillFlow
<1>3. Between => Between'
  BY <1>1, <1>2 DEF Between, NoMail, Uppers
<1>4. ASSUME NEW s, NEW d, Asked(s, d)
      PROVE  Asked(s, d)'
  BY <1>1, <1>2, <1>4 DEF Asked, NoMail
<1>5. QED
  BY <1>1, <1>2, <1>3, <1>4 DEF UdpInv

\* ... and holds at the start.
LEMMA UdpInit ==
    ASSUME Room, Init
    PROVE  UdpInv
<1>1. /\ TypedState
      /\ \A c \in Clients : sent[c] = <<>> /\ got[c] = <<>>
      /\ \A p \in Procs : mail[p] = <<>> /\ proc[p].pc = 1
  BY InitTyped
<1>2. 0 \in Procs /\ 1 \in Procs /\ 1 \in Clients
  BY <1>1, ProcessesAre
<1>3. Uppers(<<>>) = <<>>
  <2>1. <<>> \in Seq(Chars)
    OBVIOUS
  <2>2. Uppers(<<>>) \in Seq(Chars) /\ Len(Uppers(<<>>)) = Len(<<>>)
    BY <2>1, UppersType
  <2>3. QED
    BY <2>2, EmptySeq
<1>4. Between
  BY <1>1, <1>2, <1>3 DEF Between, NoMail
<1>5. QED
  BY <1>1, <1>2, <1>4 DEF UdpInv

\* What the client of a UDP server has.
LEMMA UdpAnswers ==
    ASSUME TypedState, UdpInv, exercise.name \in Udps
    PROVE  This.answer = "upper" /\ Clients = {1} /\ IsPrefix(got[1], Uppers(sent[1]))
<1>1. This.answer = "upper" /\ Clients = {1}
  BY UdpCodes
<1>2. \E s \in Seq(Chars), d \in Seq(Chars) : sent[1] = s \o d /\ got[1] = Uppers(s)
  <2>1. CASE proc[1].pc = 3
    BY <2>1 DEF UdpInv, Asked, Sized
  <2>2. CASE proc[1].pc # 3
    <3>1. got[1] = Uppers(sent[1]) /\ sent[1] \in Seq(Chars) /\ <<>> \in Seq(Chars)
      BY <1>1, <2>2, Flowing DEF UdpInv, Between
    <3>2. sent[1] = sent[1] \o <<>>
      BY <3>1, Joined
    <3>3. QED
      BY <3>1, <3>2
  <2>3. QED
    BY <2>1, <2>2
<1>3. PICK s \in Seq(Chars), d \in Seq(Chars) : sent[1] = s \o d /\ got[1] = Uppers(s)
  BY <1>2
<1>4. PICK u, v : u = Uppers(s) /\ v = Uppers(d)
  OBVIOUS
<1>5. u \in Seq(Chars) /\ v \in Seq(Chars) /\ <<>> \in Seq(Chars)
  BY <1>4, UppersType
<1>6. Uppers(s \o d) = u \o v
  BY <1>4, UppersJoin
<1>7. Begins(u \o <<>>, u \o v) /\ u \o v \in Seq(Chars)
  <2>1. u \o <<>> = u /\ u \o v \in Seq(Chars)
    BY <1>5, Joined
  <2>2. Begins(u, u \o v)
    BY <1>5, BeginsOrder
  <2>3. QED
    BY <2>1, <2>2
<1>8. IsPrefix(u, u \o v)
  BY <1>5, <1>7, BeginsIsPrefix
<1>9. Uppers(sent[1]) = u \o v /\ got[1] = u
  BY <1>3, <1>4, <1>6, Zenon
<1>10. QED
  BY <1>1, <1>8, <1>9, Zenon

-----------------------------------------------------------------------------
(* All exercises together.                                                 *)

\* The inductive invariant AnswersInOrder rests on.
IInv == TypedState /\ SinglesInv /\ LoopInv /\ UdpInv

\* It holds at the start.
LEMMA InitIInv == ASSUME Room PROVE Init => IInv
BY InitTyped, SinglesInit, LoopInit, UdpInit DEF IInv

\* Every step keeps it.
LEMMA NextIInv ==
    ASSUME IInv, [Next]_vars
    PROVE  IInv'
<1>1. TypedState /\ SinglesInv /\ LoopInv /\ UdpInv
  BY DEF IInv
<1>2. TypedState'
  BY <1>1, NextTyped
<1>3. CASE \E p \in Procs : Step(p)
  <2>1. PICK p \in Procs : Step(p)
    BY <1>3
  <2>2. QED
    BY <1>1, <1>2, <2>1, SinglesMove, LoopMove, UdpMove DEF IInv
<1>4. ASSUME Standing
      PROVE  IInv'
  BY <1>1, <1>2, <1>4, SinglesStill, LoopStill, UdpStill DEF IInv
<1>5. CASE Tick
  <2>1. /\ UNCHANGED <<exercise, net, hist>>
        /\ \A p \in Procs : /\ proc'[p].pc = proc[p].pc /\ proc'[p].n = proc[p].n
                            /\ proc'[p].buf = proc[p].buf
    BY <1>1, <1>5, TickTyped
  <2>2. Standing
    BY <2>1 DEF Standing, net, hist
  <2>3. QED
    BY <1>4, <2>2
<1>6. CASE UNCHANGED vars
  <2>1. Standing
    BY <1>6 DEF Standing, vars, net, hist
  <2>2. QED
    BY <1>4, <2>1
<1>7. QED
  BY <1>3, <1>5, <1>6 DEF Next

\* What a client of a server that sends at most once has.
LEMMA SinglesAnswers ==
    ASSUME TypedState, SinglesInv, exercise.name \in Singles, 0 \notin wild,
           NEW c \in Clients
    PROVE  IsPrefix(got[c], Promise(c))
<1>1. Begins(Flow(c), Promise(c))
  BY DEF SinglesInv, Kept
<1>2. PICK g, x, t : g = got[c] /\ x = InqC(c) /\ t = Promise(c)
  OBVIOUS
<1>3. g \in Seq(Chars) /\ x \in Seq(Chars) /\ t \in Seq(Chars)
  BY <1>2, Flowing, PromiseType
<1>4. Begins(g \o x, t)
  BY <1>1, <1>2 DEF Flow
<1>5. IsPrefix(g, t)
  BY <1>3, <1>4, BeginsIsPrefix
<1>6. QED
  BY <1>2, <1>5

\* What AnswersInOrder calls the answer is what the server has promised.
LEMMA PromiseIsAnswer ==
    ASSUME NEW c, This.answer \notin {"stale", "lines"}
    PROVE  Promise(c) = IF This.answer = "echo" THEN sent[c] ELSE Answer(c)
<1>0. This.answer # "echo" => ~AsksLong
  BY Runs_iterative_long, Runs_one_way_long DEF AsksLong
<1>1. CASE This.answer = "echo"
  BY <1>1 DEF Promise
<1>2. CASE This.answer = "upper"
  BY <1>0, <1>2 DEF Promise, Answer, Uppers
<1>3. CASE This.answer \notin {"echo", "upper"}
  BY <1>0, <1>3 DEF Promise, Answer
<1>4. QED
  BY <1>1, <1>2, <1>3

\* So the answers are right.
LEMMA IInvInOrder == IInv => AnswersInOrder
<1>1. SUFFICES ASSUME IInv, 0 \notin wild, This.answer \notin {"stale", "lines"},
                      NEW c \in Clients
               PROVE  IsPrefix(got[c], IF This.answer = "echo" THEN sent[c] ELSE Answer(c))
  BY DEF AnswersInOrder
<1>2. TypedState /\ SinglesInv /\ LoopInv /\ UdpInv
  BY <1>1 DEF IInv
<1>3. IsPrefix(got[c], Promise(c))
  <2>1. CASE exercise.name \in Singles
    BY <1>1, <1>2, <2>1, SinglesAnswers
  <2>2. CASE exercise.name \in Loops
    <3>1. This.answer = "echo" /\ IsPrefix(got[c], sent[c])
      BY <1>2, <2>2, LoopAnswers
    <3>2. QED
      BY <3>1 DEF Promise
  <2>3. CASE exercise.name \in Udps
    <3>1. This.answer = "upper" /\ Clients = {1} /\ IsPrefix(got[1], Uppers(sent[1]))
      BY <1>2, <2>3, UdpAnswers
    <3>2. Promise(c) = Uppers(sent[c]) /\ c = 1
      BY <1>1, <3>1 DEF Promise
    <3>3. QED
      BY <3>1, <3>2
  <2>4. exercise.name \notin {"two_request", "chat"}
    BY <1>1, Runs_two_request, Runs_chat
  <2>5. exercise.name \in Names
    BY <1>2 DEF TypedState, Constant
  <2>6. QED
    BY <2>1, <2>2, <2>3, <2>4, <2>5 DEF Names, Singles
<1>4. QED
  BY <1>1, <1>3, PromiseIsAnswer

\* However recv() tears requests and answers, whatever clients' steps come in between,
\* and whichever datagrams are lost, a client receives the answers to its own requests, in
\* order and nothing else, as long as its server has not written beside its buffer.  The
\* servers write the answer into the buffer the request came in, and go on with whatever
\* recv() has returned.  (Under Room no beginning of LongerClient's request wraps to a
\* positive count, so that the exception for those is not used.)
THEOREM InOrder == ASSUME Room PROVE ExercisesSpec => []AnswersInOrder
<1>1. Init => IInv
  BY InitIInv
<1>2. IInv /\ [Next]_vars => IInv'
  BY NextIInv
<1>3. QED
  BY <1>1, <1>2, IInvInOrder, PTL DEF ExercisesSpec

-----------------------------------------------------------------------------
(* How long a client with a timeout waits.                                 *)

\* Half seconds since p has taken the time, as time(NULL) would count them.
Elapsed(p) == clock + exercise.phase - 2 * proc[p].start

\* Process p takes the time at some point.
Marks(p) == \E j \in 1..Len(Code(p)) : Code(p)[j].op = "Mark"

\* It sleeps nowhere but between two polls, and not longer than half a second.  It
\* polls and falls asleep before the five seconds are over, so that the half second
\* of the sleep is the last it has: whatever comes on top the scheduler has kept it
\* waiting.
Patient(p) ==
    /\ proc[p].start \in Int /\ proc[p].wake \in Int
    /\ proc[p].pc \in 1..4 => proc[p].start = Never
    /\ ~Ended(p) =>
         /\ proc[p].wake <= clock \/ (proc[p].pc = 9 /\ proc[p].wake = clock + 1)
         /\ proc[p].start # Never =>
              IF proc[p].pc \in 6..8 \/ proc[p].wake > clock
              THEN Elapsed(p) <= 9 + proc[p].late
              ELSE Elapsed(p) <= 10 + proc[p].late

\* All other processes never take the time.
PatienceInv ==
    /\ clock \in Nat /\ exercise.phase \in 0..1
    /\ \A p \in Procs : IF Marks(p) THEN Patient(p) ELSE proc[p].start = Never

\* Only the two clients that wait take the time.
LEMMA MarksWait ==
    ASSUME TypedState, NEW p \in Procs, Marks(p)
    PROVE  Waits(Code(p)) /\ p # 0
<1>1. /\ Serves(Code(0)) /\ \A c \in Clients : Asks(Code(c))
      /\ Clients = Procs \ {0}
  BY AllCodes DEF TypedState, Constant
<1>2. PICK j \in 1..Len(Code(p)) : Code(p)[j].op = "Mark"
  BY DEF Marks
<1>3. p # 0
  BY <1>1, <1>2 DEF Serves
<1>4. QED
  BY <1>1, <1>2, <1>3 DEF Asks

\* A process takes the time with Mark and falls asleep with Sleep, and a step is
\* done at once.
LEMMA TimesMove ==
    ASSUME TypedState, NEW p \in Procs, Step(p)
    PROVE  /\ clock' = clock /\ proc'[p].late = proc[p].late
           /\ proc'[p].start = IF Op(p) = "Mark" THEN Seconds ELSE proc[p].start
           /\ proc'[p].wake = IF Op(p) = "Sleep" THEN clock + Arg(p) ELSE proc[p].wake
<1>1. DOMAIN proc = Procs /\ DOMAIN proc[p] = Fields /\ ~Ended(p) /\ clock' = clock
  BY DEF TypedState, ProcsOk, ProcOk, Step
<1>2. ASSUME NEW r, DOMAIN r = Fields, GoOn(p, r)
      PROVE  proc'[p].late = r.late /\ proc'[p].start = r.start /\ proc'[p].wake = r.wake
  BY <1>1, <1>2 DEF GoOn, Fields
<1>3. ASSUME NEW t, proc' = [proc EXCEPT ![p].pc = t]
      PROVE  /\ proc'[p].late = proc[p].late /\ proc'[p].start = proc[p].start
             /\ proc'[p].wake = proc[p].wake
  BY <1>1, <1>3 DEF Fields
<1>4. ASSUME NEW n, NEW buf, GoOn(p, [proc[p] EXCEPT !.buf = buf, !.n = n])
      PROVE  /\ proc'[p].late = proc[p].late /\ proc'[p].start = proc[p].start
             /\ proc'[p].wake = proc[p].wake
  <2>1. PICK r : r = [proc[p] EXCEPT !.buf = buf, !.n = n]
    OBVIOUS
  <2>2. /\ DOMAIN r = Fields /\ r.late = proc[p].late /\ r.start = proc[p].start
        /\ r.wake = proc[p].wake
    BY <1>1, <2>1 DEF Fields
  <2>3. QED
    BY <1>2, <1>4, <2>1, <2>2
<1>5. ASSUME NEW n, GoOn(p, [proc[p] EXCEPT !.n = n])
      PROVE  /\ proc'[p].late = proc[p].late /\ proc'[p].start = proc[p].start
             /\ proc'[p].wake = proc[p].wake
  <2>1. PICK r : r = [proc[p] EXCEPT !.n = n]
    OBVIOUS
  <2>2. /\ DOMAIN r = Fields /\ r.late = proc[p].late /\ r.start = proc[p].start
        /\ r.wake = proc[p].wake
    BY <1>1, <2>1 DEF Fields
  <2>3. QED
    BY <1>2, <1>5, <2>1, <2>2
<1>6. ASSUME NEW buf, GoOn(p, [proc[p] EXCEPT !.buf = buf])
      PROVE  /\ proc'[p].late = proc[p].late /\ proc'[p].start = proc[p].start
             /\ proc'[p].wake = proc[p].wake
  <2>1. PICK r : r = [proc[p] EXCEPT !.buf = buf]
    OBVIOUS
  <2>2. /\ DOMAIN r = Fields /\ r.late = proc[p].late /\ r.start = proc[p].start
        /\ r.wake = proc[p].wake
    BY <1>1, <2>1 DEF Fields
  <2>3. QED
    BY <1>2, <1>6, <2>1, <2>2
<1>7. GoOn(p, proc[p]) => /\ proc'[p].late = proc[p].late /\ proc'[p].start = proc[p].start
                          /\ proc'[p].wake = proc[p].wake
  BY <1>1, <1>2
<1>8. Finish(p) => /\ proc'[p].late = proc[p].late /\ proc'[p].start = proc[p].start
                   /\ proc'[p].wake = proc[p].wake
  BY <1>3 DEF Finish
<1> DEFINE Keeps == /\ proc'[p].late = proc[p].late /\ proc'[p].start = proc[p].start
                    /\ proc'[p].wake = proc[p].wake
<1>9. CASE DoConnect(p)
  <2>1. Op(p) = "Connect" /\ Keeps
    BY <1>5, <1>9 DEF DoConnect
  <2>2. QED
    BY <1>1, <2>1
<1>10. CASE DoAccept(p) \/ DoCloseClient(p) \/ DoShow(p) \/ DoSendTo(p)
  <2>1. Op(p) \notin {"Mark", "Sleep"} /\ Keeps
    BY <1>7, <1>10 DEF DoAccept, DoCloseClient, DoShow, DoSendTo
  <2>2. QED
    BY <1>1, <2>1
<1>11. CASE DoSend(p)
  <2>1. Op(p) \in {"Fixed", "Send"}
    BY <1>11 DEF DoSend
  <2>2. Keeps
    BY <1>5, <1>8, <1>11 DEF DoSend
  <2>3. QED
    BY <1>1, <2>1, <2>2
<1>12. CASE DoRecv(p)
  <2>1. Op(p) \in {"Recv", "Poll"}
    BY <1>12 DEF DoRecv
  <2>2. \/ \E buf, n : GoOn(p, [proc[p] EXCEPT !.buf = buf, !.n = n])
        \/ \E n : GoOn(p, [proc[p] EXCEPT !.n = n])
    BY <1>12 DEF DoRecv
  <2>3. Keeps
    BY <1>4, <1>5, <2>2
  <2>4. QED
    BY <1>1, <2>1, <2>3
<1>13. CASE DoRecvFrom(p)
  <2>1. Op(p) = "RecvFrom" /\ \E buf, n : GoOn(p, [proc[p] EXCEPT !.buf = buf, !.n = n])
    BY <1>13 DEF DoRecvFrom
  <2>2. QED
    BY <1>1, <1>4, <2>1
<1>14. CASE DoTerminate(p)
  <2>1. Op(p) = "Terminate"
    BY <1>14 DEF DoTerminate
  <2>2. \/ \E buf : GoOn(p, [proc[p] EXCEPT !.buf = buf])
        \/ GoOn(p, proc[p])
    BY <1>14 DEF DoTerminate
  <2>3. QED
    BY <1>1, <1>6, <1>7, <2>1, <2>2
<1>15. CASE DoLocal(p)
  <2>1. CASE Op(p) = "Fresh" /\ GoOn(p, [proc[p] EXCEPT !.buf = exercise.array])
    BY <1>1, <1>6, <2>1
  <2>2. CASE Op(p) = "Load" /\ GoOn(p, [proc[p] EXCEPT !.line = Arg(p)])
    <3>1. PICK r : r = [proc[p] EXCEPT !.line = Arg(p)]
      OBVIOUS
    <3>2. /\ DOMAIN r = Fields /\ r.late = proc[p].late /\ r.start = proc[p].start
          /\ r.wake = proc[p].wake
      BY <1>1, <3>1 DEF Fields
    <3>3. QED
      BY <1>1, <1>2, <2>2, <3>1, <3>2
  <2>3. CASE /\ Op(p) = "Gets"
             /\ GoOn(p, [proc[p] EXCEPT !.line = Head(proc[p].input), !.input = Tail(@)])
    <3>1. PICK r : r = [proc[p] EXCEPT !.line = Head(proc[p].input), !.input = Tail(@)]
      OBVIOUS
    <3>2. /\ DOMAIN r = Fields /\ r.late = proc[p].late /\ r.start = proc[p].start
          /\ r.wake = proc[p].wake
      BY <1>1, <3>1 DEF Fields
    <3>3. QED
      BY <1>1, <1>2, <2>3, <3>1, <3>2
  <2>4. CASE Op(p) = "Sleep" /\ GoOn(p, [proc[p] EXCEPT !.wake = clock + Arg(p)])
    <3>1. PICK r : r = [proc[p] EXCEPT !.wake = clock + Arg(p)]
      OBVIOUS
    <3>2. /\ DOMAIN r = Fields /\ r.late = proc[p].late /\ r.start = proc[p].start
          /\ r.wake = clock + Arg(p)
      BY <1>1, <3>1 DEF Fields
    <3>3. QED
      BY <1>1, <1>2, <2>4, <3>1, <3>2
  <2>5. CASE Op(p) = "Mark" /\ GoOn(p, [proc[p] EXCEPT !.start = Seconds])
    <3>1. PICK r : r = [proc[p] EXCEPT !.start = Seconds]
      OBVIOUS
    <3>2. /\ DOMAIN r = Fields /\ r.late = proc[p].late /\ r.start = Seconds
          /\ r.wake = proc[p].wake
      BY <1>1, <3>1 DEF Fields
    <3>3. QED
      BY <1>1, <1>2, <2>5, <3>1, <3>2
  <2>6. QED
    BY <1>15, <2>1, <2>2, <2>3, <2>4, <2>5 DEF DoLocal
<1>16. CASE DoTest(p)
  <2>1. Op(p) \in Tests /\ \E t : proc' = [proc EXCEPT ![p].pc = t]
    BY <1>16 DEF DoTest, Tests
  <2>2. QED
    BY <1>1, <1>3, <2>1 DEF Tests
<1>17. CASE DoReturn(p)
  <2>1. Op(p) = "Return" /\ Finish(p)
    BY <1>17 DEF DoReturn
  <2>2. QED
    BY <1>1, <1>8, <2>1
<1>18. QED
  BY <1>9, <1>10, <1>11, <1>12, <1>13, <1>14, <1>15, <1>16, <1>17 DEF Step

\* While less than five whole seconds are counted, at most nine halves have passed.
LEMMA InFiveSeconds ==
    ASSUME NEW t \in Nat, NEW ph \in 0..1, NEW s \in Int, (t + ph) \div 2 - s < 5
    PROVE  t + ph - 2 * s <= 9
<1>1. PICK n \in Nat : n = t + ph
  OBVIOUS
<1>2. n - 2 * s <= 9
  BY <1>1
<1>3. QED
  BY <1>1, <1>2

\* The first test of the loop leads on only before the five seconds are over.
LEMMA NotExpired ==
    ASSUME TypedState, PatienceInv, NEW p \in Procs, Waits(Code(p)), Step(p),
           proc[p].pc = 5, proc'[p].pc = 6, proc[p].start \in Int
    PROVE  Elapsed(p) <= 9
<1>1. ~Ended(p)
  BY DEF Step
<1>2. Op(p) = "When" /\ Arg(p) = "expired" /\ Instr(p).to = 12
  BY <1>1, At DEF Waits, When
<1>3. DoTest(p) /\ Others(p) /\ UNCHANGED exercise
  BY <1>2, OpIs, StepTyped DEF Tests
<1>4. ~Holds(p)
  BY <1>1, <1>2, <1>3, TestStep
<1>5. Holds(p) <=> Seconds - proc[p].start >= TIMEOUT_SEC
  BY <1>2 DEF Holds
<1>6. (clock + exercise.phase) \div 2 - proc[p].start < 5
  BY <1>4, <1>5 DEF Seconds, TIMEOUT_SEC, PatienceInv
<1>7. clock \in Nat /\ exercise.phase \in 0..1
  BY DEF PatienceInv
<1>8. QED
  BY <1>6, <1>7, InFiveSeconds, Zenon DEF Elapsed

\* A step of a client that waits.
LEMMA PatientStep ==
    ASSUME TypedState, PatienceInv, NEW p \in Procs, Marks(p), Patient(p), Step(p)
    PROVE  Patient(p)'
<1>1. /\ TypedState' /\ Others(p) /\ UNCHANGED exercise /\ ~Ended(p) /\ clock' = clock
      /\ Waits(Code(p)) /\ proc[p].wake <= clock
  BY StepTyped, TimesMove, MarksWait DEF Step, Awake
<1>2. PICK pc, pc1, start, start1, wake, wake1, late :
        /\ pc = proc[p].pc /\ pc1 = proc'[p].pc /\ start = proc[p].start /\ start1 = proc'[p].start
        /\ wake = proc[p].wake /\ wake1 = proc'[p].wake /\ late = proc[p].late
  OBVIOUS
<1>3. /\ pc \in 1..Len(Code(p)) /\ Len(Code(p)) \in Nat
      /\ Op(p) = Code(p)[pc].op /\ Instr(p) = Code(p)[pc] /\ Arg(p) = Code(p)[pc].arg
      /\ InstrOk(Code(p)[pc], Len(Code(p)))
  BY <1>1, <1>2, At
<1>4. late \in Nat /\ proc'[p].late = late
  <2>1. ProcOk(p, proc[p])
    BY LocalsOk
  <2>2. QED
    BY <1>2, <2>1, TimesMove DEF ProcOk
<1>5. PICK sec, ph : sec = Seconds /\ ph = exercise.phase
  OBVIOUS
<1>6. /\ clock \in Nat /\ ph \in 0..1 /\ start \in Int /\ wake \in Int /\ wake <= clock
      /\ sec = (clock + ph) \div 2 /\ Never = -1 /\ Never \in Int
  BY <1>1, <1>2, <1>5 DEF PatienceInv, Patient, Seconds, Never
<1>7. sec \in Int /\ clock + ph - 2 * sec \in 0..1
  BY <1>6
<1>8. /\ start1 = IF Op(p) = "Mark" THEN sec ELSE start
      /\ wake1 = IF Op(p) = "Sleep" THEN clock + Arg(p) ELSE wake
  BY <1>2, <1>5, TimesMove
<1>9. pc1 \in {0, pc + 1} \/ (Op(p) \in Tests /\ pc1 = Instr(p).to)
  BY <1>1, <1>2 DEF Others, Targets
<1>10. /\ pc = 1 => Op(p) = "Connect"
       /\ pc = 2 => Op(p) = "When" /\ Instr(p).to > 11
       /\ pc = 3 => Op(p) = "Fixed"
       /\ pc = 4 => Op(p) = "Mark"
       /\ pc = 5 => Op(p) = "When" /\ Instr(p).to = 12
       /\ pc = 6 => Op(p) = "Poll"
       /\ pc = 7 => Op(p) = "When" /\ Instr(p).to = 10
       /\ pc = 8 => Op(p) = "Sleep" /\ Arg(p) = 1
       /\ pc = 9 => Op(p) = "Goto" /\ Instr(p).to = 5
       /\ pc > 9 => /\ Op(p) \in {"When", "Terminate", "Show", "Return"}
                    /\ Op(p) = "When" => Instr(p).to > 11
  BY <1>1, <1>3, SMTT(20) DEF Waits, When, Goto
<1>11. Op(p) \in Tests => Instr(p).to \in 1..Len(Code(p))
  BY <1>3 DEF InstrOk
<1>12. PICK len, to : len \in Nat /\ len = Len(Code(p)) /\ to = Instr(p).to
  BY <1>3
<1>13. /\ pc \in 1..len
       /\ pc1 = 0 \/ pc1 = pc + 1 \/ (to \in 1..len /\ pc1 = to)
       /\ pc \in {1, 3, 4, 6, 8} => pc1 \in {0, pc + 1}
       /\ pc = 2 => pc1 \in {0, 3} \/ pc1 > 11
       /\ pc = 5 => pc1 \in {0, 6, 12}
       /\ pc = 7 => pc1 \in {0, 8, 10}
       /\ pc = 9 => pc1 \in {0, 5, 10}
       /\ pc > 9 => pc1 = 0 \/ pc1 > 10
  BY <1>3, <1>9, <1>10, <1>11, <1>12 DEF Tests
<1>14. /\ start1 = IF pc = 4 THEN sec ELSE start
       /\ wake1 = IF pc = 8 THEN clock + 1 ELSE wake
  BY <1>3, <1>8, <1>10
<1>15. /\ pc \in 1..4 => start = Never
       /\ start # Never => IF pc \in 6..8 THEN clock + ph - 2 * start <= 9 + late
                           ELSE clock + ph - 2 * start <= 10 + late
       /\ pc = 5 /\ pc1 = 6 => clock + ph - 2 * start <= 9
  BY <1>1, <1>2, <1>4, <1>5, <1>6, NotExpired DEF Patient, Elapsed
<1>16. start1 \in Int /\ wake1 \in Int
  BY <1>6, <1>7, <1>14
<1>17. pc1 \in 1..4 => start1 = Never
  BY <1>13, <1>14, <1>15
<1>18. pc1 # 0 => wake1 <= clock \/ (pc1 = 9 /\ wake1 = clock + 1)
  BY <1>6, <1>13, <1>14
<1>19. ASSUME pc1 # 0, start1 # Never
       PROVE  IF pc1 \in 6..8 \/ wake1 > clock THEN clock + ph - 2 * start1 <= 9 + late
              ELSE clock + ph - 2 * start1 <= 10 + late
  <2>1. CASE pc = 4
    BY <1>4, <1>6, <1>7, <1>13, <1>14, <1>19, <2>1
  <2>2. CASE pc # 4
    BY <1>4, <1>6, <1>13, <1>14, <1>15, <1>19, <2>2
  <2>3. QED
    BY <2>1, <2>2
<1>20. Ended(p)' <=> pc1 = 0
  BY <1>2 DEF Ended
<1>21. Elapsed(p)' = clock + ph - 2 * start1
  BY <1>1, <1>2, <1>5 DEF Elapsed
<1>22. QED
  BY <1>1, <1>2, <1>4, <1>16, <1>17, <1>18, <1>19, <1>20, <1>21 DEF Patient

\* Half a second, in which a waiting client sleeps or is late.
LEMMA PatientTick ==
    ASSUME TypedState, PatienceInv, NEW p \in Procs, Marks(p), Patient(p), Tick
    PROVE  Patient(p)'
<1>1. /\ proc'[p].pc = proc[p].pc /\ proc'[p].start = proc[p].start
      /\ proc'[p].wake = proc[p].wake
      /\ proc'[p].late = IF Idle(p) THEN proc[p].late ELSE proc[p].late + 1
      /\ clock' = clock + 1 /\ UNCHANGED exercise
  <2>1. DOMAIN proc[p] = Fields
    BY LocalsOk
  <2>2. PICK r : r = proc[p]
    OBVIOUS
  <2>3. proc'[p] = [r EXCEPT !.late = IF Idle(p) THEN @ ELSE @ + 1]
    BY <2>2 DEF Tick
  <2>4. QED
    BY <2>1, <2>2, <2>3 DEF Tick, Fields
<1>2. Waits(Code(p))
  BY MarksWait
<1>3. ~Ended(p) => /\ Op(p) = Code(p)[proc[p].pc].op /\ proc[p].pc \in 1..Len(Code(p))
                   /\ Len(Code(p)) \in Nat
  BY At
<1>4. ~Ended(p) => Op(p) \notin {"Accept", "Recv", "Again", "RecvFrom", "Gets"}
  <2>1. SUFFICES ASSUME ~Ended(p) PROVE Op(p) \notin {"Accept", "Recv", "Again", "RecvFrom", "Gets"}
    OBVIOUS
  <2>2. PICK pc, len \in Nat : pc = proc[p].pc /\ pc \in 1..len /\ len = Len(Code(p))
    BY <1>3, <2>1
  <2>3. pc \in {1, 2, 3, 4, 5, 6, 7, 8, 9} \/ pc \in 10..len
    BY <2>2, SMTT(20)
  <2>4. Op(p) = Code(p)[pc].op
    BY <1>3, <2>1, <2>2
  <2>5. CASE pc \in 10..len
    BY <1>2, <2>2, <2>4, <2>5 DEF Waits
  <2>6. CASE pc \in {1, 2, 3, 4, 5, 6, 7, 8, 9}
    <3>1. /\ Code(p)[1].op = "Connect" /\ Code(p)[2].op = "When" /\ Code(p)[3].op = "Fixed"
          /\ Code(p)[4].op = "Mark" /\ Code(p)[5].op = "When" /\ Code(p)[6].op = "Poll"
          /\ Code(p)[7].op = "When" /\ Code(p)[8].op = "Sleep" /\ Code(p)[9].op = "Goto"
      BY <1>2 DEF Waits, When, Goto
    <3>2. QED
      BY <2>4, <2>6, <3>1
  <2>7. QED
    BY <2>3, <2>5, <2>6
<1>5. ~Ended(p) => (Idle(p) <=> proc[p].wake > clock)
  <2>1. proc[p].wake \in Int /\ clock \in Int
    BY DEF PatienceInv, Patient
  <2>2. QED
    BY <1>4, <2>1 DEF Idle, Awake
<1>6. PICK start, wake, late, late1, ph :
        /\ start = proc[p].start /\ wake = proc[p].wake /\ late = proc[p].late
        /\ late1 = proc'[p].late /\ ph = exercise.phase
  OBVIOUS
<1>7. /\ start \in Int /\ wake \in Int /\ late \in Nat /\ ph \in 0..1 /\ clock \in Nat
  <2>1. ProcOk(p, proc[p])
    BY LocalsOk
  <2>2. QED
    BY <1>6, <2>1 DEF ProcOk, Patient, PatienceInv
<1>8. ~Ended(p) => /\ wake <= clock \/ (proc[p].pc = 9 /\ wake = clock + 1)
                   /\ late1 = IF wake > clock THEN late ELSE late + 1
                   /\ start # Never =>
                        IF proc[p].pc \in 6..8 \/ wake > clock
                        THEN clock + ph - 2 * start <= 9 + late
                        ELSE clock + ph - 2 * start <= 10 + late
  BY <1>1, <1>5, <1>6 DEF Patient, Elapsed
<1>9. ~Ended(p) => /\ wake <= clock + 1
                   /\ start # Never =>
                        IF proc[p].pc \in 6..8
                        THEN clock + 1 + ph - 2 * start <= 9 + late1
                        ELSE clock + 1 + ph - 2 * start <= 10 + late1
  <2>1. PICK pc : pc = proc[p].pc
    OBVIOUS
  <2>2. SUFFICES ASSUME ~Ended(p)
                 PROVE  /\ wake <= clock + 1
                        /\ start # Never =>
                             IF pc \in 6..8
                             THEN clock + 1 + ph - 2 * start <= 9 + late1
                             ELSE clock + 1 + ph - 2 * start <= 10 + late1
    BY <2>1
  <2>3. CASE wake > clock
    <3>1. pc = 9 /\ wake = clock + 1 /\ late1 = late
      BY <1>7, <1>8, <2>1, <2>2, <2>3
    <3>2. start # Never => clock + ph - 2 * start <= 9 + late
      BY <1>8, <2>2, <2>3
    <3>3. QED
      BY <1>7, <3>1, <3>2
  <2>4. CASE ~(wake > clock)
    <3>1. wake <= clock /\ late1 = late + 1
      BY <1>7, <1>8, <2>2, <2>4
    <3>2. start # Never => IF pc \in 6..8 THEN clock + ph - 2 * start <= 9 + late
                           ELSE clock + ph - 2 * start <= 10 + late
      BY <1>8, <2>1, <2>2, <2>4
    <3>3. QED
      BY <1>7, <3>1, <3>2
  <2>5. QED
    BY <2>3, <2>4
<1>10. Ended(p)' <=> Ended(p)
  BY <1>1 DEF Ended
<1>11. Elapsed(p)' = clock + 1 + ph - 2 * start
  BY <1>1, <1>6 DEF Elapsed
<1>12. ~(wake > clock + 1) \/ Ended(p)
  BY <1>7, <1>9
<1>13. QED
  BY <1>1, <1>6, <1>7, <1>9, <1>10, <1>11, <1>12 DEF Patient

\* The patience at the start.
LEMMA PatienceInit ==
    ASSUME Room, Init
    PROVE  PatienceInv
<1>1. /\ TypedState /\ clock = 0 /\ exercise.phase \in 0..1
      /\ \A p \in Procs : proc[p].start = Never /\ proc[p].wake = 0 /\ proc[p].pc = 1
  BY InitTyped
<1>2. ASSUME NEW p \in Procs
      PROVE  Patient(p) /\ proc[p].start = Never
  BY <1>1 DEF Patient, Never, Ended
<1>3. QED
  BY <1>1, <1>2 DEF PatienceInv

\* The processes that do not wait, and those that do not move.
LEMMA PatienceNext ==
    ASSUME TypedState, PatienceInv, [Next]_vars
    PROVE  PatienceInv'
<1>1. CASE \E q \in Procs : Step(q)
  <2>1. PICK q \in Procs : Step(q)
    BY <1>1
  <2>2. Others(q) /\ UNCHANGED exercise /\ clock' = clock /\ ~Ended(q)
    BY <2>1, StepTyped, TimesMove
  <2>3. ASSUME NEW p \in Procs
        PROVE  IF Marks(p) THEN Patient(p)' ELSE proc'[p].start = Never
    <3>1. CASE p = q /\ Marks(p)
      BY <2>1, <3>1, PatientStep DEF PatienceInv
    <3>2. CASE p = q /\ ~Marks(p)
      <4>1. Op(p) # "Mark"
        BY <2>2, <3>2, At DEF Marks
      <4>2. QED
        BY <2>1, <3>2, <4>1, TimesMove DEF PatienceInv
    <3>3. CASE p # q
      <4>1. proc'[p] = proc[p]
        BY <2>2, <3>3 DEF Others
      <4>2. Patient(p) => Patient(p)'
        BY <2>2, <4>1 DEF Patient, Elapsed, Ended
      <4>3. QED
        BY <4>1, <4>2 DEF PatienceInv
    <3>4. QED
      BY <3>1, <3>2, <3>3
  <2>4. \A p : Marks(p)' <=> Marks(p)
    BY <2>2, Same DEF Marks
  <2>5. QED
    BY <2>2, <2>3, <2>4, Same DEF PatienceInv
<1>2. CASE Tick
  <2>1. UNCHANGED exercise /\ clock' = clock + 1
    BY <1>2 DEF Tick
  <2>2. ASSUME NEW p \in Procs
        PROVE  IF Marks(p) THEN Patient(p)' ELSE proc'[p].start = Never
    <3>1. CASE Marks(p)
      BY <1>2, <3>1, PatientTick DEF PatienceInv
    <3>2. CASE ~Marks(p)
      <4>1. proc[p].start = Never
        BY <3>2 DEF PatienceInv
      <4>2. DOMAIN proc[p] = Fields
        BY LocalsOk
      <4>3. PICK r, late : r = proc[p] /\ proc'[p] = [r EXCEPT !.late = late]
        BY <1>2 DEF Tick
      <4>4. proc'[p].start = proc[p].start
        BY <4>2, <4>3 DEF Fields
      <4>5. QED
        BY <3>2, <4>1, <4>4
    <3>3. QED
      BY <3>1, <3>2
  <2>3. \A p : Marks(p)' <=> Marks(p)
    BY <2>1, Same DEF Marks
  <2>4. QED
    BY <2>1, <2>2, <2>3, Same DEF PatienceInv
<1>3. CASE UNCHANGED vars
  <2>1. UNCHANGED <<exercise, proc, clock>>
    BY <1>3 DEF vars
  <2>2. \A p : (Marks(p)' <=> Marks(p)) /\ (Patient(p)' <=> Patient(p))
    BY <2>1, Same DEF Marks, Patient, Elapsed, Ended
  <2>3. QED
    BY <2>1, <2>2, Same DEF PatienceInv
<1>4. QED
  BY <1>1, <1>2, <1>3 DEF Next

\* Ten half seconds and what the scheduler took.
LEMMA InvPatience == TypedState /\ PatienceInv => PatienceBounded
<1>1. SUFFICES ASSUME TypedState, PatienceInv, NEW p \in Procs,
                      proc[p].start # Never, ~Ended(p)
               PROVE  clock + exercise.phase - 2 * proc[p].start <= 2 * TIMEOUT_SEC + Slack
  BY DEF PatienceBounded
<1>2. Patient(p)
  BY <1>1 DEF PatienceInv
<1>3. PICK late, start, ph : late = proc[p].late /\ start = proc[p].start /\ ph = exercise.phase
  OBVIOUS
<1>4. late \in 0..Slack /\ start \in Int /\ ph \in 0..1 /\ clock \in Nat
  <2>1. ProcOk(p, proc[p])
    BY <1>1, LocalsOk
  <2>2. QED
    BY <1>1, <1>2, <1>3, <2>1 DEF ProcOk, Patient, PatienceInv
<1>5. clock + ph - 2 * start <= 10 + late
  <2>1. \/ clock + ph - 2 * start <= 9 + late
        \/ clock + ph - 2 * start <= 10 + late
    BY <1>1, <1>2, <1>3 DEF Patient, Elapsed
  <2>2. QED
    BY <1>4, <2>1
<1>6. clock + ph - 2 * start <= 2 * 5 + Slack
  BY <1>4, <1>5
<1>7. QED
  BY <1>3, <1>6 DEF TIMEOUT_SEC

\* The clients that wait five seconds for an answer are done with it after five seconds
\* and what the scheduler kept them waiting: the loop tests the time before it polls and
\* sleeps, and the last half second of sleep is the one that makes the five full.
THEOREM Patience == ASSUME Room PROVE ExercisesSpec => []PatienceBounded
<1>1. Init => TypedState /\ PatienceInv
  BY InitTyped, PatienceInit
<1>2. TypedState /\ PatienceInv /\ [Next]_vars => TypedState' /\ PatienceInv'
  BY NextTyped, PatienceNext
<1>3. QED
  BY <1>1, <1>2, InvPatience, PTL DEF ExercisesSpec

-----------------------------------------------------------------------------
(* The verdict of level 1.                                                 *)

\* The engine's challenge.
Drawn == Block("rnd", 1)

\* The answer of a transponder with the engine's key ...
Expected == Block("enc", 1)

\* ... and without it.
Foreign == Block("enc", 0)

\* Nothing in s is the first byte of the expected answer.
Free(s) == \A i \in DOMAIN s : s[i] # Expected[1]

\* The programs of level 1.
LEMMA LevelPrograms ==
    ASSUME exercise.name \in Levels
    PROVE  /\ Procs = {0, 1} /\ Clients = {1}
           /\ Code(0) = <<Accept, Recv, Terminate, Fixed(Drawn), Fresh, Recv,
                          Show("verdict"), Return>>
           /\ Code(1) = <<Connect, Fixed(Start), Recv, Terminate,
                          Send(IF exercise.name = "level_1" THEN "encrypted" ELSE "miskeyed"),
                          Return>>
<1>1. CASE exercise.name = "level_1"
  <2>1. /\ Procs = 0..1 /\ Clients = 1..1 /\ Code(0) = EngineL1.code
        /\ Code(1) = TransponderL1("encrypted").code
    BY <1>1, Runs_level_1
  <2>2. QED
    BY <1>1, <2>1 DEF EngineL1, TransponderL1, Drawn
<1>2. CASE exercise.name = "level_1_foreign"
  <2>1. /\ Procs = 0..1 /\ Clients = 1..1 /\ Code(0) = EngineL1.code
        /\ Code(1) = TransponderL1("miskeyed").code
    BY <1>2, Runs_level_1_foreign
  <2>2. QED
    BY <1>2, <2>1 DEF EngineL1, TransponderL1, Drawn
<1>3. QED
  BY <1>1, <1>2 DEF Levels

\* The transponder calls where the engine listens.
LEMMA LevelPorts ==
    ASSUME exercise.name = "level_1"
    PROVE  This.programs[1].port = This.programs[2].port
<1>1. This = Exercise(EngineL1, <<TransponderL1("encrypted")>>, "challenge")
  BY DEF This, Exercises
<1>2. <<EngineL1>> \o <<TransponderL1("encrypted")>> = <<EngineL1, TransponderL1("encrypted")>>
  BY JoinPair
<1>3. This.programs = <<EngineL1, TransponderL1("encrypted")>>
  BY <1>1, <1>2 DEF Exercise
<1>4. QED
  BY <1>3 DEF EngineL1, TransponderL1

\* Both use TCP alone.
LEMMA LevelTcp ==
    ASSUME exercise.name \in Levels
    PROVE  Tcp(Code(0)) /\ Tcp(Code(1))
<1>1. CASE exercise.name = "level_1"
  BY <1>1, Runs_level_1, EngineL1Code, TransponderL1Code DEF Whats
<1>2. CASE exercise.name = "level_1_foreign"
  BY <1>2, Runs_level_1_foreign, EngineL1Code, TransponderL1Code DEF Whats
<1>3. QED
  BY <1>1, <1>2 DEF Levels

\* What both sides use of the connection.
LEMMA LevelEnds ==
    ASSUME TypedState, exercise.name \in Levels
    PROVE  /\ 0 \in Procs /\ 1 \in Procs /\ cur = 1
           /\ Mine(0) = <<1, "S">> /\ Mine(1) = <<1, "C">>
           /\ Peer(<<1, "S">>) = <<1, "C">> /\ Peer(<<1, "C">>) = <<1, "S">>
           /\ Ends = {<<1, "S">>, <<1, "C">>} /\ <<1, "S">> # <<1, "C">>
           /\ DOMAIN inq = Ends /\ DOMAIN sock = Ends
           /\ InqS(1) \in Seq(Chars) /\ InqC(1) \in Seq(Chars)
           /\ InqS(1) = inq[<<1, "S">>] /\ InqC(1) = inq[<<1, "C">>]
<1>1. Procs = {0, 1} /\ Clients = {1}
  BY LevelPrograms
<1>2. cur = 1
  BY <1>1 DEF TypedState, QueueOk
<1>3. Ends = {<<1, "S">>, <<1, "C">>}
  BY <1>1 DEF Ends
<1>4. QED
  BY <1>1, <1>2, <1>3 DEF Mine, Peer, TypedState, SocketsOk, InqS, InqC

\* The steps of the engine ...
LEMMA EngineSteps ==
    ASSUME TypedState, exercise.name \in Levels, Step(0), 0 \in Procs
    PROVE  /\ ~Ended(0) /\ proc[0].pc \in 1..8
           /\ proc[0].pc = 1 => DoAccept(0)
           /\ proc[0].pc \in {2, 6} => DoRecv(0) /\ Op(0) = "Recv" /\ Arg(0) = "int"
           /\ proc[0].pc = 3 => DoTerminate(0)
           /\ proc[0].pc = 4 => DoSend(0) /\ Outgoing(0) = Drawn
           /\ proc[0].pc = 5 => DoLocal(0) /\ Op(0) = "Fresh"
           /\ proc[0].pc = 7 => DoShow(0) /\ Arg(0) = "verdict"
           /\ proc[0].pc = 8 => DoReturn(0)
           /\ Op(0) = "Show" => proc[0].pc = 7
<1>1. PICK s, k : s = Code(0) /\ k = proc[0].pc
  OBVIOUS
<1>2. s = <<Accept, Recv, Terminate, Fixed(Drawn), Fresh, Recv, Show("verdict"), Return>>
  BY <1>1, LevelPrograms
<1>3. k \in 1..Len(s) /\ Len(s) = 8 /\ Op(0) = s[k].op /\ Arg(0) = s[k].arg /\ ~Ended(0)
  BY <1>1, <1>2, At, OpIs
<1>4. /\ k = 1 => Op(0) = "Accept"
      /\ k \in {2, 6} => Op(0) = "Recv" /\ Arg(0) = "int"
      /\ k = 3 => Op(0) = "Terminate"
      /\ k = 4 => Op(0) = "Fixed" /\ Arg(0) = Drawn
      /\ k = 5 => Op(0) = "Fresh"
      /\ k = 7 => Op(0) = "Show"
      /\ k = 8 => Op(0) = "Return"
  BY <1>2, <1>3, Instrs
<1>5. k = 7 => Arg(0) = "verdict"
  BY <1>2, <1>3 DEF Show, Do
<1>6. k = 4 => Outgoing(0) = Drawn
  BY <1>4, Zenon DEF Outgoing
<1>7. QED
  BY <1>1, <1>3, <1>4, <1>5, <1>6, OpIs DEF Sends

\* ... and of the transponder.
LEMMA TransponderSteps ==
    ASSUME TypedState, exercise.name \in Levels, Step(1), 1 \in Procs
    PROVE  /\ ~Ended(1) /\ proc[1].pc \in 1..6
           /\ proc[1].pc = 1 => DoConnect(1)
           /\ proc[1].pc = 2 => DoSend(1) /\ Outgoing(1) = Start
           /\ proc[1].pc = 3 => DoRecv(1) /\ Op(1) = "Recv" /\ Arg(1) = "int"
           /\ proc[1].pc = 4 => DoTerminate(1)
           /\ proc[1].pc = 5 =>
                /\ DoSend(1)
                /\ exercise.name # "level_1" => Outgoing(1) = Foreign
                /\ exercise.name = "level_1" /\ FirstBlock(proc[1].buf) = Drawn
                     => Outgoing(1) = Expected
           /\ proc[1].pc = 6 => DoReturn(1)
           /\ Op(1) \in Sends => proc[1].pc \in {2, 5}
           /\ Op(1) # "Show"
<1>1. PICK s, k, a : /\ s = Code(1) /\ k = proc[1].pc
                     /\ a = IF exercise.name = "level_1" THEN "encrypted" ELSE "miskeyed"
  OBVIOUS
<1>2. s = <<Connect, Fixed(Start), Recv, Terminate, Send(a), Return>>
  BY <1>1, LevelPrograms
<1>3. k \in 1..Len(s) /\ Len(s) = 6 /\ Op(1) = s[k].op /\ Arg(1) = s[k].arg /\ ~Ended(1)
  BY <1>1, <1>2, At, OpIs
<1>4. /\ k = 1 => Op(1) = "Connect"
      /\ k = 2 => Op(1) = "Fixed" /\ Arg(1) = Start
      /\ k = 3 => Op(1) = "Recv" /\ Arg(1) = "int"
      /\ k = 4 => Op(1) = "Terminate"
      /\ k = 5 => Op(1) = "Send" /\ Arg(1) = a
      /\ k = 6 => Op(1) = "Return"
  BY <1>2, <1>3, Instrs
<1>5. k = 2 => Outgoing(1) = Start
  BY <1>4, Zenon DEF Outgoing
<1>6. k = 5 /\ exercise.name # "level_1" => Outgoing(1) = Foreign
  BY <1>1, <1>4 DEF Outgoing, Foreign
<1>7. k = 5 /\ exercise.name = "level_1" /\ FirstBlock(proc[1].buf) = Drawn
      => Outgoing(1) = Expected
  BY <1>1, <1>4 DEF Outgoing, Expected, Drawn
<1>8. QED
  BY <1>1, <1>3, <1>4, <1>5, <1>6, <1>7, OpIs DEF Sends

\* What a step shows, and that a torn read stays one.
LEMMA ShownStep ==
    ASSUME NEW p, Step(p)
    PROVE  /\ shown' \in {shown, shown \cup {<<p, "SIGPIPE">>}} \/ DoShow(p)
           /\ shown \subseteq shown'
           /\ ~torn' => ~torn
<1>1. CASE DoSend(p)
  BY <1>1 DEF DoSend
<1>2. CASE DoRecv(p)
  <2>1. shown' = shown
    BY <1>2 DEF DoRecv
  <2>2. ~torn' => ~torn
    BY <1>2, Zenon DEF DoRecv
  <2>3. QED
    BY <2>1, <2>2
<1>3. CASE DoSendTo(p)
  <2>1. shown' = shown
    BY <1>3 DEF DoSendTo
  <2>2. ~torn' => ~torn
    BY <1>3, Zenon DEF DoSendTo
  <2>3. QED
    BY <2>1, <2>2
<1>4. CASE DoShow(p)
  BY <1>4 DEF DoShow
<1>5. CASE DoReturn(p)
  BY <1>5 DEF DoReturn, hist
<1>6. CASE DoConnect(p)
  BY <1>6 DEF DoConnect, hist
<1>7. CASE DoAccept(p)
  BY <1>7 DEF DoAccept, hist
<1>8. CASE DoRecvFrom(p)
  BY <1>8 DEF DoRecvFrom
<1>9. CASE DoTerminate(p)
  BY <1>9 DEF DoTerminate
<1>10. CASE DoLocal(p)
  BY <1>10 DEF DoLocal, hist
<1>11. CASE DoTest(p)
  BY <1>11 DEF DoTest, hist
<1>12. CASE DoCloseClient(p)
  BY <1>12 DEF DoCloseClient, hist
<1>13. QED
  BY <1>1, <1>2, <1>3, <1>4, <1>5, <1>6, <1>7, <1>8, <1>9, <1>10, <1>11, <1>12 DEF Step

\* The first sixteen bytes of a buffer.
LEMMA FirstIs ==
    ASSUME Cap >= 16, NEW x \in [1..Cap -> Chars]
    PROVE  /\ SubSeq(x, 1, 16) \in Seq(Chars) /\ Len(SubSeq(x, 1, 16)) = 16
           /\ \A i \in 1..16 : SubSeq(x, 1, 16)[i] = x[i]
<1>1. 16 \in 0..Cap /\ \A i \in 1..16 : x[i] \in Chars
  OBVIOUS
<1>2. SubSeq(x, 1, 16) \in Sized(Cap) /\ Len(SubSeq(x, 1, 16)) = 16
  BY <1>1, PieceOf
<1>3. \A i \in 1..16 : SubSeq(x, 1, 16)[i] = x[i]
  BY <1>1, PieceOf
<1>4. QED
  BY <1>2, <1>3 DEF Sized

\* All of a block is in the beginning of the buffer it is received in.
LEMMA FirstPut ==
    ASSUME Cap >= 16, NEW buf \in [1..Cap -> Chars], NEW b \in Seq(Chars), Len(b) = 16
    PROVE  FirstBlock(Put(buf, b)) = b
<1>1. PICK x : x = Put(buf, b)
  OBVIOUS
<1>2. x \in [1..Cap -> Chars] /\ \A i \in 1..16 : x[i] = b[i]
  <2>1. /\ Put(buf, b) \in [1..Cap -> Chars]
        /\ \A i \in 1..Cap : Put(buf, b)[i] = IF i <= Len(b) THEN b[i] ELSE buf[i]
    BY PutType
  <2>2. \A i \in 1..16 : i \in 1..Cap /\ i <= Len(b)
    OBVIOUS
  <2>3. QED
    BY <1>1, <2>1, <2>2
<1>3. /\ SubSeq(x, 1, 16) \in Seq(Chars) /\ Len(SubSeq(x, 1, 16)) = 16
      /\ \A i \in 1..16 : SubSeq(x, 1, 16)[i] = x[i]
  BY <1>2, FirstIs
<1>4. SubSeq(x, 1, 16) = b
  BY <1>2, <1>3, SeqEqual
<1>5. QED
  BY <1>1, <1>4 DEF FirstBlock

\* The beginning of a buffer depends on its first sixteen bytes.
LEMMA FirstSame ==
    ASSUME Cap >= 16, NEW x \in [1..Cap -> Chars], NEW y \in [1..Cap -> Chars],
           \A i \in 1..16 : x[i] = y[i]
    PROVE  FirstBlock(x) = FirstBlock(y) /\ FirstBlock(x)[1] = x[1]
<1>2. /\ SubSeq(x, 1, 16) \in Seq(Chars) /\ Len(SubSeq(x, 1, 16)) = 16
      /\ \A i \in 1..16 : SubSeq(x, 1, 16)[i] = x[i]
  BY FirstIs
<1>3. /\ SubSeq(y, 1, 16) \in Seq(Chars) /\ Len(SubSeq(y, 1, 16)) = 16
      /\ \A i \in 1..16 : SubSeq(y, 1, 16)[i] = y[i]
  BY FirstIs
<1>4. SubSeq(x, 1, 16) = SubSeq(y, 1, 16)
  BY <1>2, <1>3, SeqEqual
<1>5. QED
  BY <1>2, <1>4 DEF FirstBlock

\* recv() that tears nothing takes all there is.
LEMMA RecvWhole ==
    ASSUME TypedState, NEW p \in Procs, DoRecv(p), ~torn', Op(p) = "Recv", Arg(p) = "int",
           sock[Mine(p)] = "open" \/ inq[Mine(p)] # <<>>,
           Len(inq[Mine(p)]) <= Cap, ~Ended(p), UNCHANGED exercise
    PROVE  /\ inq[Mine(p)] # <<>> /\ inq' = [inq EXCEPT ![Mine(p)] = <<>>]
           /\ UNCHANGED <<sock, shown>>
           /\ proc'[p].pc = proc[p].pc + 1 /\ proc'[p].n = Len(inq[Mine(p)])
           /\ proc'[p].buf = Put(proc[p].buf, inq[Mine(p)])
<1>1. PICK e, q : e = Mine(p) /\ q = inq[e]
  OBVIOUS
<1>2. e \in Ends /\ q \in Seq(Chars) /\ Len(q) \in Nat /\ Len(q) <= Cap
  BY <1>1, ProcessesAre DEF TypedState, SocketsOk
<1>3. PICK b \in Chunks(q, Cap) :
        /\ b # <<>> /\ inq' = [inq EXCEPT ![e] = Rest(inq[e], b)]
        /\ GoOn(p, [proc[p] EXCEPT !.buf = Put(@, b), !.n = Retval("int", Len(b))])
        /\ torn' = (torn \/ Len(b) < Min({Cap, Len(q)}))
        /\ UNCHANGED <<sock, shown>>
  BY <1>1 DEF DoRecv
<1>4. /\ b \in Seq(Chars) /\ Len(b) \in 0..Len(q) /\ Len(b) <= Cap
      /\ \A i \in 1..Len(b) : b[i] = q[i]
      /\ Rest(q, b) \in Seq(Chars) /\ Len(Rest(q, b)) = Len(q) - Len(b)
  BY <1>2, <1>3, ReadsPrefix
<1>5. Min({Cap, Len(q)}) = Len(q)
  <2>1. PICK m : m = Len(q)
    OBVIOUS
  <2>2. m \in Nat /\ m <= Cap
    BY <1>2, <2>1
  <2>3. Min({Cap, m}) \in {Cap, m} /\ \A i \in {Cap, m} : Min({Cap, m}) <= i
    <3>1. m \in {Cap, m} /\ \A i \in {Cap, m} : m <= i
      BY <2>2
    <3>2. QED
      BY <3>1, Zenon DEF Min
  <2>4. QED
    BY <2>1, <2>2, <2>3
<1>6. Len(b) = Len(q)
  <2>1. ~(Len(b) < Min({Cap, Len(q)}))
    BY <1>3
  <2>2. QED
    BY <1>2, <1>4, <1>5, <2>1
<1>7. b = q /\ Rest(q, b) = <<>>
  <2>1. b = q
    BY <1>2, <1>4, <1>6, SeqEqual
  <2>2. QED
    BY <1>2, <1>4, <1>6, <2>1, EmptySeq
<1>8. PICK r : r = [proc[p] EXCEPT !.buf = Put(@, b), !.n = Retval("int", Len(b))]
  OBVIOUS
<1>9. /\ r.n = Len(b) /\ r.buf = Put(proc[p].buf, b) /\ r.pc = proc[p].pc
      /\ DOMAIN r = Fields /\ r.line = proc[p].line /\ r.input = proc[p].input
      /\ r.late = proc[p].late
  <2>1. Len(b) \in Nat /\ CharMax \in Nat
    BY <1>4, ExercisesAssumption
  <2>2. Retval("int", Len(b)) = Len(b)
    BY <2>1, RetvalIs
  <2>3. QED
    BY <1>8, <2>2, LocalsOk DEF Fields
<1>10. ProcOk(p, r)
  <2>1. ProcOk(p, proc[p]) /\ Len(b) \in -(CharMax + 1)..Cap
    BY <1>4, LocalsOk, NumbersOk DEF TypedState, Constant
  <2>2. Put(proc[p].buf, b) \in [1..Cap -> Chars]
    BY <1>4, <2>1, PutType DEF ProcOk
  <2>3. QED
    BY <1>9, <2>1, <2>2 DEF ProcOk
<1>11. GoOn(p, r)
  BY <1>3, <1>8
<1>12. /\ proc'[p].pc = proc[p].pc + 1 /\ proc'[p].n = r.n /\ proc'[p].buf = r.buf
  BY <1>9, <1>10, <1>11, GoOnOk
<1>13. QED
  BY <1>1, <1>3, <1>7, <1>9, <1>12

\* Both sides are connected.
Linked == sock[<<1, "S">>] = "open" /\ sock[<<1, "C">>] = "open"

\* What is on the way to the engine, and to the transponder.
Ways(s, c) == InqS(1) = s /\ InqC(1) = c

\* How far the two programs of level 1 are when every recv() takes all there is:
\* the transponder has not called, has called, has asked, has the challenge, has
\* answered.
Stage ==
    LET s == proc[0].pc
        c == proc[1].pc
    IN  \/ c = 1 /\ s = 1 /\ backlog = <<>> /\ Ways(<<>>, <<>>)
        \/ c = 2 /\ s \in {1, 2} /\ Linked /\ Ways(<<>>, <<>>)
        \/ c = 3 /\ s \in {1, 2} /\ Linked /\ Ways(Start, <<>>)
        \/ c = 3 /\ s \in {3, 4} /\ Linked /\ Ways(<<>>, <<>>)
        \/ c = 3 /\ s \in {5, 6} /\ Linked /\ Ways(<<>>, Drawn)
        \/ /\ c \in {4, 5} /\ s \in {5, 6} /\ Linked /\ Ways(<<>>, <<>>)
           /\ proc[1].n = 16 /\ FirstBlock(proc[1].buf) = Drawn
        \/ c \in {0, 6} /\ s \in {5, 6} /\ InqS(1) = Expected
        \/ c \in {0, 6} /\ s = 7 /\ FirstBlock(proc[0].buf) = Expected
        \/ c \in {0, 6} /\ s \in {0, 8} /\ <<0, "valid">> \in shown

\* No byte of the expected answer is on the way or in the engine's buffer.
Keyless == Free(InqS(1)) /\ Free(exercise.array) /\ Free(proc[0].buf)

\* The inductive invariant VerdictIsRight rests on.
VerdictInv ==
    /\ <<0, "valid">> \in shown => exercise.name = "level_1"
    /\ exercise.name = "level_1_foreign" => Keyless
    /\ exercise.name = "level_1" /\ ~torn => Stage

\* What is empty has no length.
LEMMA Lengths ==
    ASSUME NEW s \in Seq(Chars)
    PROVE  /\ s = <<>> => Len(s) = 0
           /\ Len(s) \in Nat \ {0} => s # <<>>
           /\ <<>> \o s = s
OBVIOUS

\* None of the other texts has a byte of the expected answer.
LEMMA KeysAre ==
    /\ Expected \in Seq(Chars) /\ Len(Expected) = 16 /\ Expected # <<>>
    /\ Drawn \in Seq(Chars) /\ Len(Drawn) = 16 /\ Drawn # <<>>
    /\ Start \in Seq(Chars) /\ Len(Start) = 5
    /\ Foreign \in Seq(Chars) /\ Free(Foreign) /\ Free(Start) /\ Free(<<>>)
    /\ NUL # Expected[1] /\ Junk # Expected[1]
<1>1. /\ Expected \in Seq(Chars) /\ Len(Expected) = 16
      /\ Drawn \in Seq(Chars) /\ Len(Drawn) = 16
      /\ Foreign \in Seq(Chars)
  BY BlockType DEF Expected, Drawn, Foreign, Ids
<1>2. Expected[1] = <<"enc", 1, 1>>
  BY DEF Expected, Block
<1>3. Free(Foreign)
  BY <1>2 DEF Free, Foreign, Block
<1>4. Free(Start)
  BY <1>2 DEF Free, Start, Text
<1>5. Free(<<>>)
  BY DEF Free
<1>6. NUL # Expected[1] /\ Junk # Expected[1]
  BY <1>2 DEF NUL, Junk
<1>7. QED
  <2>1. Start \in Seq(Chars) /\ Len(Start) = 5
    BY TextsType
  <2>2. Expected # <<>> /\ Drawn # <<>>
    <3>1. Expected \in Seq(Chars) /\ Len(Expected) \in Nat \ {0}
      BY <1>1
    <3>2. Drawn \in Seq(Chars) /\ Len(Drawn) \in Nat \ {0}
      BY <1>1
    <3>3. Expected # <<>>
      BY <3>1, Lengths
    <3>4. Drawn # <<>>
      BY <3>2, Lengths
    <3>5. QED
      BY <3>3, <3>4
  <2>3. QED
    BY <1>1, <1>3, <1>4, <1>5, <1>6, <2>1, <2>2

\* VerdictInv holds at the start ...
LEMMA VerdictInit ==
    ASSUME Room, Init
    PROVE  VerdictInv
<1>1. /\ TypedState /\ shown = {} /\ backlog = <<>>
      /\ \A e \in Ends : inq[e] = <<>>
      /\ \A p \in Procs : proc[p].pc = 1 /\ proc[p].buf = exercise.array
      /\ \A i \in 1..Cap : exercise.array[i] \in {NUL, Junk}
  BY InitTyped
<1>2. ASSUME exercise.name \in Levels
      PROVE  Keyless /\ Stage
  <2>1. 0 \in Procs /\ 1 \in Procs /\ InqS(1) = <<>> /\ InqC(1) = <<>>
    BY <1>1, <1>2, LevelEnds
  <2>2. DOMAIN exercise.array = 1..Cap
    BY <1>1 DEF TypedState, Constant
  <2>3. Free(exercise.array)
    BY <1>1, <2>2, KeysAre DEF Free
  <2>4. Keyless
    BY <1>1, <2>1, <2>3, KeysAre DEF Keyless
  <2>5. Stage
    BY <1>1, <2>1 DEF Stage, Ways
  <2>6. QED
    BY <2>4, <2>5
<1>3. QED
  BY <1>1, <1>2 DEF VerdictInv, Levels

\* It is joined, received and terminated without becoming the answer.
LEMMA FreeJoin ==
    ASSUME NEW s \in Seq(Chars), Free(s), NEW t \in Seq(Chars), Free(t)
    PROVE  Free(s \o t)
<1>1. \A i \in 1..Len(s) : s[i] # Expected[1]
  BY DEF Free
<1>2. \A i \in 1..Len(t) : t[i] # Expected[1]
  BY DEF Free
<1>3. /\ s \o t \in Seq(Chars) /\ Len(s \o t) = Len(s) + Len(t)
      /\ \A i \in 1..Len(s) + Len(t) :
           (s \o t)[i] = IF i <= Len(s) THEN s[i] ELSE t[i - Len(s)]
  OBVIOUS
<1>4. \A i \in 1..Len(s \o t) : (s \o t)[i] # Expected[1]
  BY <1>1, <1>2, <1>3
<1>5. QED
  BY <1>3, <1>4 DEF Free

\* What is received of it and what is left.
LEMMA FreeReads ==
    ASSUME NEW buf \in [1..Cap -> Chars], Free(buf), NEW s \in Seq(Chars), Free(s),
           NEW b \in Chunks(s, Cap)
    PROVE  Free(Put(buf, b)) /\ Free(Rest(s, b))
<1>1. /\ b \in Seq(Chars) /\ Len(b) \in 0..Len(s)
      /\ \A i \in 1..Len(b) : b[i] = s[i]
      /\ Rest(s, b) \in Seq(Chars) /\ Len(Rest(s, b)) = Len(s) - Len(b)
      /\ b \o Rest(s, b) = s
  BY ReadsPrefix
<1>2. \A i \in 1..Len(s) : s[i] # Expected[1]
  BY DEF Free
<1>3. Free(Put(buf, b))
  <2>1. \A i \in 1..Len(b) : b[i] # Expected[1]
    BY <1>1, <1>2
  <2>2. \A i \in 1..Cap : buf[i] # Expected[1]
    BY DEF Free
  <2>3. /\ Put(buf, b) \in [1..Cap -> Chars]
        /\ \A i \in 1..Cap : Put(buf, b)[i] = IF i <= Len(b) THEN b[i] ELSE buf[i]
    BY <1>1, PutType
  <2>4. QED
    BY <1>1, <2>1, <2>2, <2>3 DEF Free
<1>4. Free(Rest(s, b))
  <2>1. PICK r : r = Rest(s, b)
    OBVIOUS
  <2>2. r \in Seq(Chars) /\ Len(r) = Len(s) - Len(b) /\ b \o r = s
    BY <1>1, <2>1
  <2>3. \A i \in 1..Len(r) : r[i] = (b \o r)[i + Len(b)] /\ i + Len(b) \in 1..Len(s)
    BY <1>1, <2>2
  <2>4. \A i \in 1..Len(r) : r[i] # Expected[1]
    BY <1>2, <2>2, <2>3
  <2>5. QED
    BY <2>1, <2>2, <2>4 DEF Free
<1>5. QED
  BY <1>3, <1>4

\* A buffer without a byte of the answer is not taken for it.
LEMMA FreeBuffer ==
    ASSUME NEW buf \in [1..Cap -> Chars], Free(buf)
    PROVE  /\ \A k \in 1..Cap : Free([buf EXCEPT ![k] = NUL])
           /\ Cap >= 16 => FirstBlock(buf) # Expected
<1>1. \A k \in 1..Cap : Free([buf EXCEPT ![k] = NUL])
  BY KeysAre DEF Free
<1>2. Cap >= 16 => FirstBlock(buf)[1] = buf[1] /\ 1 \in 1..Cap
  BY FirstSame
<1>3. \A i \in 1..Cap : buf[i] # Expected[1]
  BY DEF Free
<1>4. QED
  BY <1>1, <1>2, <1>3

\* Only receiving, terminating and a new array change the buffer.
LEMMA BufferKept ==
    ASSUME TypedState, NEW p \in Procs,
           (\E k : GoOn(p, [proc[p] EXCEPT !.n = k])) \/ GoOn(p, proc[p]) \/ Finish(p)
    PROVE  /\ proc'[p].buf = proc[p].buf
           /\ proc'[p].pc = proc[p].pc + 1 \/ Finish(p)
<1>1. /\ DOMAIN proc = Procs /\ DOMAIN proc[p] = Fields /\ "buf" \in Fields /\ "buf" # "pc"
      /\ "pc" \in Fields /\ "n" # "pc"
  BY LocalsOk DEF TypedState, ProcsOk, Fields
<1>2. CASE \E k : GoOn(p, [proc[p] EXCEPT !.n = k])
  <2>1. PICK k : GoOn(p, [proc[p] EXCEPT !.n = k])
    BY <1>2
  <2>2. QED
    BY <1>1, <2>1 DEF GoOn
<1>3. CASE GoOn(p, proc[p])
  BY <1>1, <1>3 DEF GoOn
<1>4. CASE Finish(p)
  BY <1>1, <1>4 DEF Finish
<1>5. QED
  BY <1>2, <1>3, <1>4

\* What a step of the engine or of the transponder leaves alone.
LEMMA VerdictSame ==
    ASSUME TypedState, exercise.name \in Levels, NEW p \in Procs, Step(p)
    PROVE  /\ TypedState' /\ UNCHANGED exercise /\ ~Ended(p)
           /\ \A q \in Procs \ {p} : proc'[q] = proc[q]
           /\ 0 \in Procs /\ 1 \in Procs /\ Procs = {0, 1} /\ cur = 1
           /\ InqS(1)' = inq'[<<1, "S">>] /\ InqC(1)' = inq'[<<1, "C">>]
BY StepTyped, LevelEnds, LevelPrograms DEF Others, InqS, InqC

\* Who has no key sends nothing of the expected answer.
LEMMA KeylessStep ==
    ASSUME TypedState, exercise.name = "level_1_foreign", Keyless, NEW p \in Procs, Step(p)
    PROVE  Keyless' /\ (<<0, "valid">> \in shown' => <<0, "valid">> \in shown)
<1>1. /\ TypedState' /\ UNCHANGED exercise /\ ~Ended(p)
      /\ \A q \in Procs \ {p} : proc'[q] = proc[q]
      /\ 0 \in Procs /\ 1 \in Procs /\ Procs = {0, 1} /\ cur = 1
      /\ InqS(1)' = inq'[<<1, "S">>]
      /\ exercise.name \in Levels /\ exercise.name # "level_1"
  BY VerdictSame DEF Levels
<1>2. /\ Mine(0) = <<1, "S">> /\ Mine(1) = <<1, "C">>
      /\ <<1, "S">> \in Ends /\ <<1, "C">> \in Ends /\ <<1, "S">> # <<1, "C">>
      /\ InqS(1) = inq[<<1, "S">>] /\ InqS(1) \in Seq(Chars) /\ DOMAIN inq = Ends
      /\ 1 \in Clients
  BY <1>1, LevelEnds, ProcessesAre
<1>3. Quiet(p) \/ Sending(p) \/ \E b : Receiving(p, b)
  <2>1. Tcp(Code(p))
    BY <1>1, LevelTcp
  <2>2. QED
    BY <2>1, StepTyped
<1>4. Free(InqS(1))'
  <2>1. CASE Quiet(p)
    <3>1. InqS(1)' = InqS(1) \/ InqS(1)' = <<>>
      BY <1>1, <1>2, <2>1 DEF Quiet
    <3>2. QED
      BY <3>1, KeysAre DEF Keyless, Free
  <2>2. CASE Sending(p)
    <3>1. InqS(1)' = IF p = 1 THEN InqS(1) \o Outgoing(p) ELSE InqS(1)
      BY <1>1, <1>2, <2>2, SendsTo
    <3>2. p = 1 => Outgoing(1) \in {Start, Foreign}
      <4>1. p = 1 => Op(1) \in Sends
        BY <2>2 DEF Sending
      <4>2. p = 1 => proc[1].pc \in {2, 5}
        BY <1>1, <4>1, TransponderSteps
      <4>3. QED
        BY <1>1, <4>2, TransponderSteps
    <3>3. Free(Start) /\ Free(Foreign) /\ Start \in Seq(Chars) /\ Foreign \in Seq(Chars)
      BY KeysAre
    <3>4. Free(InqS(1))
      BY DEF Keyless
    <3>5. CASE p = 1
      <4>1. Free(InqS(1) \o Outgoing(1))
        <5>1. PICK t : t = Outgoing(1)
          OBVIOUS
        <5>2. t \in Seq(Chars) /\ Free(t)
          BY <3>2, <3>3, <3>5, <5>1
        <5>3. Free(InqS(1) \o t)
          BY <1>2, <3>4, <5>2, FreeJoin
        <5>4. QED
          BY <5>1, <5>3
      <4>2. InqS(1)' = InqS(1) \o Outgoing(1)
        BY <3>1, <3>5
      <4>3. QED
        BY <1>1, <4>1, <4>2, KeysAre DEF Free
    <3>6. CASE p # 1
      BY <3>1, <3>4, <3>6 DEF Free
    <3>7. QED
      BY <3>5, <3>6
  <2>3. ASSUME NEW b, Receiving(p, b)
        PROVE  Free(InqS(1))'
    <3>1. b \in Chunks(inq[Mine(p)], Cap) /\ inq' = [inq EXCEPT ![Mine(p)] = Rest(@, b)]
      BY <2>3 DEF Receiving
    <3>2. CASE p = 0
      <4>1. b \in Chunks(InqS(1), Cap) /\ InqS(1)' = Rest(InqS(1), b)
        BY <1>1, <1>2, <3>1, <3>2
      <4>2. Free(Rest(InqS(1), b))
        <5>1. proc[0].buf \in [1..Cap -> Chars]
          BY <1>1, LocalsOk DEF ProcOk
        <5>2. QED
          BY <1>2, <4>1, <5>1, FreeReads DEF Keyless
      <4>3. QED
        BY <4>1, <4>2 DEF Free
    <3>3. CASE p # 0
      <4>1. InqS(1)' = InqS(1)
        BY <1>1, <1>2, <3>1, <3>3
      <4>2. QED
        BY <4>1 DEF Keyless, Free
    <3>4. QED
      BY <3>2, <3>3
  <2>4. QED
    BY <1>3, <2>1, <2>2, <2>3
<1>5. Free(proc'[0].buf)
  <2>1. Free(proc[0].buf) /\ Free(InqS(1)) /\ proc[0].buf \in [1..Cap -> Chars] /\ ProcOk(0, proc[0])
    BY <1>1, LocalsOk DEF Keyless, ProcOk
  <2>2. CASE p = 1
    BY <1>1, <2>1, <2>2
  <2>3. CASE p = 0
    <3> USE <2>3
    <3>1. /\ proc[0].pc \in 1..8
          /\ proc[0].pc = 1 => DoAccept(0)
          /\ proc[0].pc \in {2, 6} => DoRecv(0) /\ Op(0) = "Recv" /\ Arg(0) = "int"
          /\ proc[0].pc = 3 => DoTerminate(0)
          /\ proc[0].pc = 4 => DoSend(0)
          /\ proc[0].pc = 5 => DoLocal(0) /\ Op(0) = "Fresh"
          /\ proc[0].pc = 7 => DoShow(0)
          /\ proc[0].pc = 8 => DoReturn(0)
      BY <1>1, EngineSteps
    <3>2. CASE proc[0].pc \in {1, 7}
      <4>1. GoOn(0, proc[0]) /\ Op(0) \in {"Accept", "Show"}
        BY <3>1, <3>2 DEF DoAccept, DoShow
      <4>2. proc'[0].buf = proc[0].buf
        BY <1>1, <4>1, BufferKept
      <4>3. QED
        BY <2>1, <4>2
    <3>3. CASE proc[0].pc \in {2, 6}
      <4>1. Missing(0) \/ \E b : Receiving(0, b)
        BY <1>1, <3>1, <3>3, RecvStep
      <4>2. CASE Missing(0)
        BY <2>1, <4>2 DEF Missing
      <4>3. ASSUME NEW b, Receiving(0, b)
            PROVE  Free(proc'[0].buf)
        <5>1. b \in Chunks(InqS(1), Cap) /\ proc'[0].buf = Put(proc[0].buf, b)
          BY <1>2, <4>3 DEF Receiving
        <5>2. QED
          BY <1>2, <2>1, <5>1, FreeReads
      <4>4. QED
        BY <4>1, <4>2, <4>3
    <3>4. CASE proc[0].pc = 3
      <4>1. proc'[0].buf = proc[0].buf
            \/ \E k \in 1..Cap : proc'[0].buf = [proc[0].buf EXCEPT ![k] = NUL]
        <5>1. DoTerminate(0)
          BY <3>1, <3>4
        <5>2. CASE proc[0].n \in 0..(Cap - 1)
          <6>1. proc'[0].buf = [proc[0].buf EXCEPT ![proc[0].n + 1] = NUL]
            BY <1>1, <5>1, <5>2, TerminateStep
          <6>2. proc[0].n + 1 \in 1..Cap
            BY <5>2
          <6>3. QED
            BY <6>1, <6>2, Zenon
        <5>3. CASE proc[0].n \notin 0..(Cap - 1)
          <6>1. GoOn(0, proc[0])
            BY <5>1, <5>3 DEF DoTerminate
          <6>2. QED
            BY <1>1, <6>1, BufferKept
        <5>4. QED
          BY <5>2, <5>3
      <4>2. QED
        BY <2>1, <4>1, FreeBuffer
    <3>5. CASE proc[0].pc = 4
      <4>1. (\E k : GoOn(0, [proc[0] EXCEPT !.n = k])) \/ Finish(0)
        BY <3>1, <3>5, Zenon DEF DoSend
      <4>2. QED
        BY <1>1, <2>1, <4>1, BufferKept
    <3>6. CASE proc[0].pc = 5
      <4>1. GoOn(0, [proc[0] EXCEPT !.buf = exercise.array])
        BY <3>1, <3>6 DEF DoLocal
      <4>2. DOMAIN proc = Procs /\ DOMAIN proc[0] = Fields /\ "buf" \in Fields /\ "buf" # "pc"
        BY <1>1, LocalsOk DEF TypedState, ProcsOk, Fields
      <4>3. proc'[0].buf = exercise.array
        BY <1>1, <4>1, <4>2 DEF GoOn
      <4>4. QED
        BY <4>3 DEF Keyless
    <3>7. CASE proc[0].pc = 8
      <4>1. Finish(0)
        BY <3>1, <3>7 DEF DoReturn
      <4>2. QED
        BY <1>1, <2>1, <4>1, BufferKept
    <3>8. QED
      BY <3>1, <3>2, <3>3, <3>4, <3>5, <3>6, <3>7
  <2>4. QED
    BY <1>1, <2>2, <2>3
<1>6. <<0, "valid">> \in shown' => <<0, "valid">> \in shown
  <2>1. CASE DoShow(p)
    <3>1. p = 0 /\ Arg(0) = "verdict"
      <4>1. Op(p) = "Show"
        BY <2>1 DEF DoShow
      <4>2. p # 1
        BY <1>1, <4>1, TransponderSteps
      <4>3. p = 0
        BY <1>1, <4>2
      <4>4. QED
        BY <1>1, <4>1, <4>3, EngineSteps
    <3>2. FirstBlock(proc[0].buf) # Expected
      <4>1. proc[0].buf \in [1..Cap -> Chars] /\ Cap >= 16
        BY <1>1, LocalsOk DEF ProcOk, TypedState, Constant, Room
      <4>2. QED
        BY <4>1, FreeBuffer DEF Keyless
    <3>3. QED
      BY <2>1, <3>1, <3>2, Zenon DEF DoShow, Expected
  <2>2. CASE shown' \in {shown, shown \cup {<<p, "SIGPIPE">>}}
    BY <2>2
  <2>3. QED
    BY <2>1, <2>2, ShownStep
<1>7. QED
  BY <1>1, <1>4, <1>5, <1>6 DEF Keyless, Free

\* With whole recv()s, the engine goes through the stages ...
LEMMA EngineStage ==
    ASSUME TypedState, exercise.name = "level_1", Stage, Step(0), ~torn'
    PROVE  Stage'
<1> DEFINE s == proc[0].pc
           c == proc[1].pc
<1>1. /\ TypedState' /\ UNCHANGED exercise /\ ~Ended(0) /\ proc'[1] = proc[1]
      /\ 0 \in Procs /\ 1 \in Procs /\ cur = 1
      /\ InqS(1)' = inq'[<<1, "S">>] /\ InqC(1)' = inq'[<<1, "C">>]
      /\ exercise.name \in Levels
  BY VerdictSame, LevelEnds DEF Levels
<1>2. /\ Mine(0) = <<1, "S">> /\ Mine(1) = <<1, "C">>
      /\ <<1, "S">> \in Ends /\ <<1, "C">> \in Ends /\ <<1, "S">> # <<1, "C">>
      /\ InqS(1) = inq[<<1, "S">>] /\ InqC(1) = inq[<<1, "C">>]
      /\ DOMAIN inq = Ends /\ 1 \in Clients
      /\ InqC(1) \in Seq(Chars) /\ InqS(1) \in Seq(Chars)
  BY <1>1, LevelEnds, ProcessesAre
<1>3. /\ s \in 1..8
      /\ s = 1 => DoAccept(0)
      /\ s \in {2, 6} => DoRecv(0) /\ Op(0) = "Recv" /\ Arg(0) = "int"
      /\ s = 3 => DoTerminate(0)
      /\ s = 4 => DoSend(0) /\ Outgoing(0) = Drawn
      /\ s = 5 => DoLocal(0) /\ Op(0) = "Fresh"
      /\ s = 7 => DoShow(0) /\ Arg(0) = "verdict"
      /\ s = 8 => DoReturn(0)
  BY <1>1, EngineSteps
<1>4. ~torn /\ shown \subseteq shown'
  BY ShownStep
<1>5. CASE s = 1
  <2>1. backlog # <<>> /\ UNCHANGED <<sock, inq>> /\ GoOn(0, proc[0])
    BY <1>3, <1>5 DEF DoAccept
  <2>2. proc'[0].pc = 2
    <3>1. proc'[0].pc = proc[0].pc + 1
      BY <1>1, <2>1, <1>3, <1>5, GoOnOk, LocalsOk DEF DoAccept
    <3>2. QED
      BY <1>5, <3>1
  <2>3. Linked' = Linked /\ InqS(1)' = InqS(1) /\ InqC(1)' = InqC(1)
    BY <1>1, <1>2, <2>1 DEF Linked
  <2>4. QED
    BY <1>1, <1>5, <2>1, <2>2, <2>3 DEF Stage, Ways
<1>6. CASE s = 2
  <2>1. Linked /\ InqC(1) = <<>> /\ (InqS(1) = <<>> \/ (c = 3 /\ InqS(1) = Start))
    BY <1>6 DEF Stage, Ways
  <2>2. Len(InqS(1)) <= Cap
    <3>0. Cap >= 16
      BY DEF TypedState, Constant, Room
    <3>1. Len(Start) = 5
      BY KeysAre
    <3>2. InqS(1) = <<>> => Len(InqS(1)) = 0
      BY <1>2, Lengths
    <3>3. Len(InqS(1)) \in {0, 5}
      BY <2>1, <3>1, <3>2, Zenon
    <3>4. \A k \in {0, 5} : k <= Cap
      BY <3>0
    <3>5. QED
      BY <3>3, <3>4, Zenon
  <2>3. /\ InqS(1) # <<>> /\ inq' = [inq EXCEPT ![<<1, "S">>] = <<>>]
        /\ UNCHANGED sock /\ proc'[0].pc = proc[0].pc + 1
    BY <1>1, <1>2, <1>3, <1>6, <2>1, <2>2, RecvWhole DEF Linked
  <2>4. c = 3 /\ proc'[0].pc = 3 /\ InqS(1)' = <<>> /\ InqC(1)' = <<>> /\ Linked'
    BY <1>1, <1>2, <1>6, <2>1, <2>3 DEF Linked
  <2>5. QED
    BY <1>1, <2>4 DEF Stage, Ways
<1>7. CASE s = 3
  <2>1. UNCHANGED <<sock, inq>> /\ proc'[0].pc = proc[0].pc + 1
    BY <1>1, <1>3, <1>7, TerminateStep
  <2>2. Linked' = Linked /\ InqS(1)' = InqS(1) /\ InqC(1)' = InqC(1) /\ proc'[0].pc = 4
    BY <1>1, <1>2, <1>7, <2>1 DEF Linked
  <2>3. QED
    BY <1>1, <1>7, <2>2 DEF Stage, Ways
<1>8. CASE s = 4
  <2>1. c = 3 /\ Linked /\ InqS(1) = <<>> /\ InqC(1) = <<>>
    BY <1>8 DEF Stage, Ways
  <2>2. Sending(0)
    BY <1>1, <1>2, <1>3, <1>8, <2>1, SendStep DEF Linked
  <2>3. InqC(1)' = InqC(1) \o Outgoing(0) /\ InqS(1)' = InqS(1)
    BY <1>1, <1>2, <2>2, SendsTo, ProcessesAre
  <2>4. InqC(1)' = Drawn
    <3>1. Outgoing(0) = Drawn /\ <<>> \o Drawn = Drawn
      BY <1>3, <1>8, KeysAre, Lengths
    <3>2. QED
      BY <2>1, <2>3, <3>1, Zenon
  <2>5. Linked' /\ proc'[0].pc = 5
    BY <1>8, <2>1, <2>2 DEF Sending, Linked
  <2>6. QED
    BY <1>1, <2>1, <2>3, <2>4, <2>5 DEF Stage, Ways
<1>9. CASE s = 5
  <2>1. GoOn(0, [proc[0] EXCEPT !.buf = exercise.array]) /\ UNCHANGED <<sock, inq>>
    BY <1>3, <1>9 DEF DoLocal, net
  <2>2. proc'[0].pc = 6
    <3>1. DOMAIN proc = Procs /\ DOMAIN proc[0] = Fields /\ "pc" \in Fields /\ "buf" # "pc"
      BY <1>1, LocalsOk DEF TypedState, ProcsOk, Fields
    <3>2. QED
      BY <1>1, <1>9, <2>1, <3>1 DEF GoOn
  <2>3. Linked' = Linked /\ InqS(1)' = InqS(1) /\ InqC(1)' = InqC(1)
    BY <1>1, <1>2, <2>1 DEF Linked
  <2>4. QED
    BY <1>1, <1>9, <2>2, <2>3 DEF Stage, Ways
<1>10. CASE s = 6
  <2>1. (Linked /\ InqS(1) = <<>>) \/ (c \in {0, 6} /\ InqS(1) = Expected)
    BY <1>10 DEF Stage, Ways
  <2>2. Len(InqS(1)) <= Cap /\ proc[0].buf \in [1..Cap -> Chars]
    <3>0. Cap >= 16
      BY DEF TypedState, Constant, Room
    <3>1. Len(Expected) = 16
      BY KeysAre
    <3>2. InqS(1) = <<>> => Len(InqS(1)) = 0
      BY <1>2, Lengths
    <3>3. proc[0].buf \in [1..Cap -> Chars]
      BY <1>1, LocalsOk DEF ProcOk
    <3>4. Len(InqS(1)) \in {0, 16}
      BY <2>1, <3>1, <3>2, Zenon
    <3>5. \A k \in {0, 16} : k <= Cap
      BY <3>0
    <3>6. QED
      BY <3>3, <3>4, <3>5, Zenon
  <2>3. sock[Mine(0)] = "open" \/ inq[Mine(0)] # <<>>
    BY <1>2, <2>1, KeysAre DEF Linked
  <2>4. InqS(1) # <<>> /\ proc'[0].pc = 7 /\ proc'[0].buf = Put(proc[0].buf, InqS(1))
    <3>1. Len(inq[Mine(0)]) <= Cap
      BY <1>2, <2>2
    <3>2. /\ inq[Mine(0)] # <<>> /\ proc'[0].pc = proc[0].pc + 1
          /\ proc'[0].buf = Put(proc[0].buf, inq[Mine(0)])
      BY <1>1, <1>3, <1>10, <2>3, <3>1, RecvWhole
    <3>3. inq[Mine(0)] = InqS(1)
      BY <1>2
    <3>4. proc'[0].pc = 7
      BY <1>10, <3>2
    <3>5. QED
      BY <3>2, <3>3, <3>4, Zenon
  <2>5. c \in {0, 6} /\ InqS(1) = Expected
    BY <2>1, <2>4
  <2>6. FirstBlock(proc'[0].buf) = Expected
    <3>1. Cap >= 16
      BY DEF TypedState, Constant, Room
    <3>2. QED
      BY <2>2, <2>4, <2>5, <3>1, KeysAre, FirstPut
  <2>7. QED
    BY <1>1, <2>4, <2>5, <2>6 DEF Stage
<1>11. CASE s = 7
  <2>1. c \in {0, 6} /\ FirstBlock(proc[0].buf) = Expected
    BY <1>11 DEF Stage
  <2>2. <<0, "valid">> \in shown'
    BY <1>3, <1>11, <2>1, Zenon DEF DoShow, Expected
  <2>3. proc'[0].pc = 8
    <3>1. proc'[0].pc = proc[0].pc + 1
      BY <1>1, <1>3, <1>11, GoOnOk, LocalsOk DEF DoShow
    <3>2. QED
      BY <1>11, <3>1
  <2>4. QED
    BY <1>1, <2>1, <2>2, <2>3 DEF Stage
<1>12. CASE s = 8
  <2>1. c \in {0, 6} /\ <<0, "valid">> \in shown
    BY <1>12 DEF Stage
  <2>2. proc'[0].pc = 0
    BY <1>1, <1>3, <1>12, ReturnStep
  <2>3. QED
    BY <1>1, <1>4, <2>1, <2>2 DEF Stage
<1>13. QED
  BY <1>3, <1>5, <1>6, <1>7, <1>8, <1>9, <1>10, <1>11, <1>12

\* ... and so does the transponder.
LEMMA TransponderStage ==
    ASSUME TypedState, exercise.name = "level_1", Stage, Step(1), ~torn'
    PROVE  Stage'
<1> DEFINE s == proc[0].pc
           c == proc[1].pc
<1>1. /\ TypedState' /\ UNCHANGED exercise /\ ~Ended(1) /\ proc'[0] = proc[0]
      /\ 0 \in Procs /\ 1 \in Procs /\ cur = 1
      /\ InqS(1)' = inq'[<<1, "S">>] /\ InqC(1)' = inq'[<<1, "C">>]
      /\ exercise.name \in Levels
  BY VerdictSame, LevelEnds DEF Levels
<1>2. /\ Mine(0) = <<1, "S">> /\ Mine(1) = <<1, "C">>
      /\ <<1, "S">> \in Ends /\ <<1, "C">> \in Ends /\ <<1, "S">> # <<1, "C">>
      /\ InqS(1) = inq[<<1, "S">>] /\ InqC(1) = inq[<<1, "C">>]
      /\ DOMAIN inq = Ends /\ DOMAIN sock = Ends /\ 1 \in Clients
      /\ InqC(1) \in Seq(Chars) /\ InqS(1) \in Seq(Chars)
  BY <1>1, LevelEnds, ProcessesAre
<1>3. /\ c \in 1..6
      /\ c = 1 => DoConnect(1)
      /\ c = 2 => DoSend(1) /\ Outgoing(1) = Start
      /\ c = 3 => DoRecv(1) /\ Op(1) = "Recv" /\ Arg(1) = "int"
      /\ c = 4 => DoTerminate(1)
      /\ c = 5 => DoSend(1)
      /\ c = 5 /\ FirstBlock(proc[1].buf) = Drawn => Outgoing(1) = Expected
      /\ c = 6 => DoReturn(1)
  BY <1>1, TransponderSteps
<1>4. ~torn /\ shown \subseteq shown'
  BY ShownStep
<1>5. CASE c = 1
  <2>1. s = 1 /\ InqS(1) = <<>> /\ InqC(1) = <<>>
    BY <1>5 DEF Stage, Ways
  <2>2. ~Ended(0) /\ This.programs[1].port = This.programs[1 + 1].port
    BY <2>1, LevelPorts DEF Ended
  <2>3. /\ GoOn(1, [proc[1] EXCEPT !.n = 0]) /\ UNCHANGED inq
        /\ sock' = [sock EXCEPT ![<<1, "S">>] = "open", ![<<1, "C">>] = "open"]
    BY <1>3, <1>5, <2>2, Zenon DEF DoConnect
  <2>4. proc'[1].pc = 2
    <3>1. DOMAIN proc = Procs /\ DOMAIN proc[1] = Fields /\ "pc" \in Fields /\ "n" # "pc"
      BY <1>1, LocalsOk DEF TypedState, ProcsOk, Fields
    <3>2. QED
      BY <1>1, <1>5, <2>3, <3>1 DEF GoOn
  <2>5. Linked'
    BY <1>2, <2>3 DEF Linked
  <2>6. QED
    BY <1>1, <1>2, <2>1, <2>3, <2>4, <2>5 DEF Stage, Ways
<1>6. CASE c = 2
  <2>1. s \in {1, 2} /\ Linked /\ InqS(1) = <<>> /\ InqC(1) = <<>>
    BY <1>6 DEF Stage, Ways
  <2>2. Sending(1)
    BY <1>1, <1>2, <1>3, <1>6, <2>1, SendStep DEF Linked
  <2>3. InqS(1)' = InqS(1) \o Outgoing(1) /\ InqC(1)' = InqC(1)
    BY <1>1, <1>2, <2>2, SendsTo, ProcessesAre
  <2>4. InqS(1)' = Start
    <3>1. Outgoing(1) = Start /\ <<>> \o Start = Start
      BY <1>3, <1>6, KeysAre, Lengths
    <3>2. QED
      BY <2>1, <2>3, <3>1, Zenon
  <2>5. Linked' /\ proc'[1].pc = 3
    BY <1>6, <2>1, <2>2 DEF Sending, Linked
  <2>6. QED
    BY <1>1, <2>1, <2>3, <2>4, <2>5 DEF Stage, Ways
<1>7. CASE c = 3
  <2>1. Linked /\ (InqC(1) = <<>> \/ (s \in {5, 6} /\ InqS(1) = <<>> /\ InqC(1) = Drawn))
    BY <1>7 DEF Stage, Ways
  <2>2. Len(InqC(1)) <= Cap /\ proc[1].buf \in [1..Cap -> Chars] /\ Cap >= 16
    <3>0. Cap >= 16
      BY DEF TypedState, Constant, Room
    <3>1. Len(Drawn) = 16
      BY KeysAre
    <3>2. InqC(1) = <<>> => Len(InqC(1)) = 0
      BY <1>2, Lengths
    <3>3. proc[1].buf \in [1..Cap -> Chars]
      BY <1>1, LocalsOk DEF ProcOk
    <3>4. Len(InqC(1)) \in {0, 16}
      BY <2>1, <3>1, <3>2, Zenon
    <3>5. \A k \in {0, 16} : k <= Cap
      BY <3>0
    <3>6. QED
      BY <3>0, <3>3, <3>4, <3>5, Zenon
  <2>3. /\ InqC(1) # <<>> /\ inq' = [inq EXCEPT ![<<1, "C">>] = <<>>]
        /\ UNCHANGED sock /\ proc'[1].pc = 4 /\ proc'[1].n = Len(InqC(1))
        /\ proc'[1].buf = Put(proc[1].buf, InqC(1))
    <3>1. Len(inq[Mine(1)]) <= Cap /\ sock[Mine(1)] = "open"
      BY <1>2, <2>1, <2>2 DEF Linked
    <3>2. /\ inq[Mine(1)] # <<>> /\ inq' = [inq EXCEPT ![Mine(1)] = <<>>] /\ UNCHANGED sock
          /\ proc'[1].pc = proc[1].pc + 1 /\ proc'[1].n = Len(inq[Mine(1)])
          /\ proc'[1].buf = Put(proc[1].buf, inq[Mine(1)])
      BY <1>1, <1>3, <1>7, <3>1, RecvWhole
    <3>3. inq[Mine(1)] = InqC(1) /\ Mine(1) = <<1, "C">>
      BY <1>2
    <3>4. proc'[1].pc = 4
      BY <1>7, <3>2
    <3>5. QED
      BY <3>2, <3>3, <3>4, Zenon
  <2>4. s \in {5, 6} /\ InqS(1) = <<>> /\ InqC(1) = Drawn
    BY <2>1, <2>3
  <2>5. InqS(1)' = <<>> /\ InqC(1)' = <<>> /\ Linked'
    BY <1>1, <1>2, <2>1, <2>3, <2>4 DEF Linked
  <2>6. proc'[1].n = 16 /\ FirstBlock(proc'[1].buf) = Drawn
    BY <2>2, <2>3, <2>4, KeysAre, FirstPut
  <2>7. QED
    BY <1>1, <2>3, <2>4, <2>5, <2>6 DEF Stage, Ways
<1>8. CASE c = 4
  <2>1. /\ s \in {5, 6} /\ Linked /\ InqS(1) = <<>> /\ InqC(1) = <<>>
        /\ proc[1].n = 16 /\ FirstBlock(proc[1].buf) = Drawn
    BY <1>8 DEF Stage, Ways
  <2>2. DoTerminate(1) /\ UNCHANGED <<sock, inq>>
    BY <1>1, <1>3, <1>8, TerminateStep
  <2>3. proc'[1].pc = 5 /\ proc'[1].n = 16
    <3>1. proc'[1].pc = proc[1].pc + 1 /\ proc'[1].n = proc[1].n
      BY <1>1, <2>2, TerminateStep
    <3>2. QED
      BY <1>8, <2>1, <3>1
  <2>4. FirstBlock(proc'[1].buf) = Drawn
    <3>1. proc[1].buf \in [1..Cap -> Chars] /\ Cap >= 16
      BY <1>1, LocalsOk DEF ProcOk, TypedState, Constant, Room
    <3>2. CASE 16 \in 0..(Cap - 1)
      <4>1. proc'[1].buf = [proc[1].buf EXCEPT ![17] = NUL]
        BY <1>1, <2>1, <2>2, <3>2, TerminateStep
      <4>2. proc'[1].buf \in [1..Cap -> Chars]
        BY <3>1, <4>1, CharsType
      <4>3. \A i \in 1..16 : proc'[1].buf[i] = proc[1].buf[i]
        BY <3>1, <4>1
      <4>4. QED
        BY <2>1, <3>1, <4>2, <4>3, FirstSame
    <3>3. CASE 16 \notin 0..(Cap - 1)
      <4>1. GoOn(1, proc[1])
        BY <2>1, <2>2, <3>3 DEF DoTerminate
      <4>2. QED
        BY <1>1, <2>1, <4>1, BufferKept
    <3>4. QED
      BY <3>2, <3>3
  <2>5. InqS(1)' = <<>> /\ InqC(1)' = <<>> /\ Linked'
    BY <1>1, <1>2, <2>1, <2>2 DEF Linked
  <2>6. QED
    BY <1>1, <2>1, <2>3, <2>4, <2>5 DEF Stage, Ways
<1>9. CASE c = 5
  <2>1. s \in {5, 6} /\ Linked /\ InqS(1) = <<>> /\ FirstBlock(proc[1].buf) = Drawn
    BY <1>9 DEF Stage, Ways
  <2>2. Sending(1)
    BY <1>1, <1>2, <1>3, <1>9, <2>1, SendStep DEF Linked
  <2>3. InqS(1)' = InqS(1) \o Outgoing(1)
    BY <1>1, <1>2, <2>2, SendsTo
  <2>4. InqS(1)' = Expected
    <3>1. Outgoing(1) = Expected /\ <<>> \o Expected = Expected
      BY <1>3, <1>9, <2>1, KeysAre, Lengths
    <3>2. QED
      BY <2>1, <2>3, <3>1, Zenon
  <2>5. proc'[1].pc = 6
    BY <1>9, <2>2 DEF Sending
  <2>6. QED
    BY <1>1, <2>1, <2>4, <2>5 DEF Stage
<1>10. CASE c = 6
  <2>1. Finish(1) /\ proc'[1].pc = 0
    BY <1>1, <1>3, <1>10, ReturnStep DEF DoReturn
  <2>2. InqS(1)' = InqS(1)
    BY <1>1, <1>2, <2>1 DEF Finish, Shut
  <2>3. QED
    BY <1>1, <1>4, <1>10, <2>1, <2>2 DEF Stage
<1>11. QED
  BY <1>3, <1>5, <1>6, <1>7, <1>8, <1>9, <1>10

\* ... is kept by every step of the programs ...
LEMMA VerdictStep ==
    ASSUME TypedState, VerdictInv, NEW p \in Procs, Step(p)
    PROVE  VerdictInv'
<1>1. CASE exercise.name \notin Levels
  <2>1. UNCHANGED exercise
    BY StepTyped
  <2>2. DoShow(p) => p # 0
    <3>1. Mute(Code(0))
      BY <1>1, AllCodes DEF TypedState, Constant
    <3>2. ~Ended(p) /\ (DoShow(p) => Op(p) = "Show")
      BY StepTyped DEF DoShow
    <3>3. QED
      BY <3>1, <3>2, At DEF Mute
  <2>3. DoShow(p) => \E m : shown' = shown \cup {<<p, m>>}
    BY Zenon DEF DoShow
  <2>4. <<0, "valid">> \in shown' => <<0, "valid">> \in shown
    BY <2>2, <2>3, ShownStep
  <2>5. exercise.name \notin {"level_1", "level_1_foreign"}
    BY <1>1 DEF Levels
  <2>6. QED
    BY <2>1, <2>4, <2>5 DEF VerdictInv
<1>2. CASE exercise.name = "level_1_foreign"
  <2>1. UNCHANGED exercise
    BY StepTyped
  <2>2. Keyless' /\ (<<0, "valid">> \in shown' => <<0, "valid">> \in shown)
    BY <1>2, KeylessStep DEF VerdictInv
  <2>3. QED
    BY <1>2, <2>1, <2>2 DEF VerdictInv
<1>3. CASE exercise.name = "level_1"
  <2>1. UNCHANGED exercise /\ p \in {0, 1}
    BY <1>3, StepTyped, LevelPrograms DEF Levels
  <2>2. ~torn' => Stage'
    BY <1>3, <2>1, ShownStep, EngineStage, TransponderStage DEF VerdictInv
  <2>3. QED
    BY <1>3, <2>1, <2>2 DEF VerdictInv
<1>4. QED
  BY <1>1, <1>2, <1>3 DEF Levels

\* Time changes nothing that the verdict depends on.
LEMMA VerdictStill ==
    ASSUME TypedState, VerdictInv, UNCHANGED <<exercise, net, hist>>,
           \A p \in Procs : /\ proc'[p].pc = proc[p].pc /\ proc'[p].n = proc[p].n
                            /\ proc'[p].buf = proc[p].buf
    PROVE  VerdictInv'
<1>1. UNCHANGED <<sock, inq, backlog, shown, torn>>
  BY DEF net, hist
<1>2. ASSUME exercise.name \in Levels
      PROVE  (Keyless => Keyless') /\ (Stage => Stage')
  <2>1. 0 \in Procs /\ 1 \in Procs
    BY <1>2, LevelEnds
  <2>2. /\ proc'[0].pc = proc[0].pc /\ proc'[0].buf = proc[0].buf
        /\ proc'[1].pc = proc[1].pc /\ proc'[1].buf = proc[1].buf /\ proc'[1].n = proc[1].n
    BY <2>1
  <2>3. InqS(1)' = InqS(1) /\ InqC(1)' = InqC(1) /\ Linked' = Linked
    BY <1>1 DEF InqS, InqC, Linked
  <2>4. Keyless => Keyless'
    BY <2>2, <2>3 DEF Keyless, Free
  <2>5. Stage => Stage'
    BY <1>1, <2>2, <2>3 DEF Stage, Ways
  <2>6. QED
    BY <2>4, <2>5
<1>3. QED
  BY <1>1, <1>2 DEF VerdictInv, Levels

\* ... and so by every step.
LEMMA VerdictNext ==
    ASSUME TypedState, VerdictInv, [Next]_vars
    PROVE  VerdictInv'
<1>1. CASE Tick
  BY <1>1, TickTyped, VerdictStill
<1>2. CASE \E p \in Procs : Step(p)
  BY <1>2, VerdictStep
<1>3. CASE UNCHANGED vars
  BY <1>3, VerdictStill DEF vars
<1>4. QED
  BY <1>1, <1>2, <1>3 DEF Next

\* What the stages say of an engine that has ended.
LEMMA InvVerdict == TypedState /\ VerdictInv => VerdictIsRight
<1> SUFFICES ASSUME TypedState, VerdictInv PROVE VerdictIsRight
  OBVIOUS
<1>1. ASSUME exercise.name = "level_1", Ended(0), ~torn
      PROVE  <<0, "valid">> \in shown
  <2>1. Stage /\ proc[0].pc = 0
    BY <1>1 DEF VerdictInv, Ended
  <2>2. QED
    BY <2>1 DEF Stage
<1>2. QED
  BY <1>1 DEF VerdictInv, VerdictIsRight

\* The engine of level 1 accepts no transponder without its key, however recv() tears the
\* messages: it compares the answer with its own encryption, of which such a transponder
\* has no byte to send.  When every recv() takes all that is there, it has accepted the
\* transponder with the key by the time it ends: the two take turns, each message is the only
\* one on its way, and the challenge fills the sixteen bytes the answer is computed from.
THEOREM Verdicts == ASSUME Room PROVE ExercisesSpec => []VerdictIsRight
<1>1. Init => TypedState /\ VerdictInv
  BY InitTyped, VerdictInit
<1>2. TypedState /\ VerdictInv /\ [Next]_vars => TypedState' /\ VerdictInv'
  BY NextTyped, VerdictNext
<1>3. QED
  BY <1>1, <1>2, InvVerdict, PTL DEF ExercisesSpec

=============================================================================
