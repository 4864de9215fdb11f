----------------------------- MODULE Calculators -----------------------------
(***************************************************************************)
(* The calculators of Network-Frames/moksha/sockets and                    *)
(* Network-Frames/ikshwak: a client sends one request "op a b", the server *)
(* answers with the result, both end.  The same exchange is written with   *)
(* packets (binary, robust, raw struct) and with texts (opcode,            *)
(* structured, plain, sscanf); what differs is how a request is formed,    *)
(* checked, taken apart and answered, and that is what is modelled.        *)
(*                                                                         *)
(* On the way a byte of a packet may be altered, and recv() may return     *)
(* only the first part of the request: every server takes one recv() for   *)
(* the whole of it.                                                        *)
(*                                                                         *)
(* Bytes are bytes; an int has IntBytes of them (4 in the code).  A text   *)
(* is a sequence of tokens [key, num], as strtok() splits it.  Arithmetic  *)
(* wraps, as the code's build does it.  What uninitialised memory holds is *)
(* one of JunkBytes, or JunkInts when read as an int.                      *)
(***************************************************************************)
EXTENDS Integers, Sequences, SequencesExt, Bitwise

CONSTANTS Chosen,      \* the pairs of programs looked at
          IntBytes,    \* sizeof(int)
          Ops,         \* opcodes asked for
          Operands,    \* operands asked for
          Identities,  \* <<magic, version>> a robust client may carry
          AlteredTo,   \* what an altered byte may become
          JunkBytes, JunkInts

Modulus == 256^IntBytes
MinInt  == -(Modulus \div 2)
MaxInt  == (Modulus \div 2) - 1

ASSUME CalculatorAssumption ==
  /\ IntBytes \in {1, 2}             \* TLC's own integers have four bytes
  /\ Operands \subseteq MinInt..MaxInt /\ JunkInts \subseteq MinInt..MaxInt
  /\ Ops \subseteq 0..255 /\ AlteredTo \subseteq 0..255 /\ JunkBytes \subseteq 0..255

VARIABLES pair,    \* the programs that run
          ask,     \* [op, a, b, id]: what the user of the client wants
          wire,    \* the request as the server will receive it
          fault,   \* what happened to it: none, altered, torn
          server,  \* listening, answered, refused, killed
          reply,   \* what the server sent
          client,  \* start, waiting, done
          shown    \* what the client printed as the result

vars == <<pair, ask, wire, fault, server, reply, client, shown>>

-----------------------------------------------------------------------------
(* Integers and bytes. *)

ADD == 1
SUB == 2
MUL == 3
DIV == 4

Wrap(n) == ((n - MinInt) % Modulus) + MinInt

NetBytes == [n \in MinInt..MaxInt |->
  [i \in 1..IntBytes |-> ((n % Modulus) \div 256^(IntBytes - i)) % 256]]

\* htonl(): the bytes in memory are those of the big-endian number.
Net(n) == NetBytes[n]

\* The number as the host keeps it (little-endian).
Little(n) == Reverse(Net(n))

ValueOf[bytes \in Seq(0..255)] == Wrap(FoldLeft(LAMBDA n, b : 256 * n + b, 0, bytes))

\* Mutant of FromNet: ntohl() left out.
FromHost(bytes) == ValueOf[Reverse(bytes)]

\* ntohl() of the bytes of a field.
FromNet(bytes) == ValueOf[bytes]

\* XOR of all bytes, one half byte and the other (functions, and a table of half
\* bytes, so that TLC works out an argument once).
HalfXor == [x, y \in 0..15 |-> x ^^ y]

XorSum[bytes \in Seq(0..255)] ==
  16 * FoldLeft(LAMBDA c, b : HalfXor[c, b \div 16], 0, bytes)
     + FoldLeft(LAMBDA c, b : HalfXor[c, b % 16], 0, bytes)

\* Mutant of calculate_checksum: the loop ends one byte early.
ShortChecksum(bytes) == XorSum[Front(bytes)]

\* The checksum; the CRC of the robust protocol is this same sum.
calculate_checksum(bytes) == XorSum[bytes]

\* Division in C rounds towards zero.
Quotient(a, b) ==
  LET Abs(n) == IF n < 0 THEN -n ELSE n
      q == Abs(a) \div Abs(b)
  IN  IF (a < 0) = (b < 0) THEN q ELSE -q

\* The switch of the packet servers; an unknown opcode gives 0.
Compute(op, a, b) ==
  CASE op = ADD -> Wrap(a + b)
    [] op = SUB -> Wrap(a - b)
    [] op = MUL -> Wrap(a * b)
    [] op = DIV /\ b # 0 -> Wrap(Quotient(a, b))
    [] OTHER -> 0

\* MinInt / -1 is no int: the CPU raises an exception, SIGFPE.
Traps(op, a, b) == op = DIV /\ a = MinInt /\ b = -1

-----------------------------------------------------------------------------
(* What a server may do with a request, as a set of outcomes. *)

Answer(text) == [does |-> "answered", reply |-> text]
\* Mutant of Refuse: back to recv() without close().
RefuseAndStay == [does |-> "listening", reply |-> <<>>]

Refuse == [does |-> "refused", reply |-> <<>>]     \* closes without a word
Killed == [does |-> "killed", reply |-> <<>>]

\* Field number n (from 0) of the ints that follow the first `skip` bytes.
Field(bytes, skip, n) == SubSeq(bytes, skip + n * IntBytes + 1, skip + (n + 1) * IntBytes)

-----------------------------------------------------------------------------
(* Binary packets: opcode, two operands, checksum. *)

BinaryClient(op, a, b) ==
  LET frame == <<op>> \o Net(a) \o Net(b)
  IN  Append(frame, calculate_checksum(frame))

BinaryServer(req) ==
  LET op == req[1]
      a  == FromNet(Field(req, 1, 0))
      b  == FromNet(Field(req, 1, 1))
  IN  IF Last(req) # calculate_checksum(Front(req)) THEN {Refuse}
      ELSE IF Traps(op, a, b) THEN {Killed}
      ELSE {Answer(<<op>> \o Net(a) \o Net(b) \o Net(Compute(op, a, b)))}

\* ikshwak's pair of the same name does the same with the same packet.
BinaryClientIkshwak(op, a, b) == BinaryClient(op, a, b)
BinaryServerIkshwak(req)      == BinaryServer(req)

-----------------------------------------------------------------------------
(* The robust protocol: magic, version, opcode, operands, crc. *)

PROTOCOL_MAGIC   == 43981   \* 0xABCD
PROTOCOL_VERSION == 1

Net16(n) == <<n \div 256, n % 256>>

\* The client of this protocol has the id <<PROTOCOL_MAGIC, PROTOCOL_VERSION>>.
RobustClient(op, a, b, id) ==
  LET frame == Net16(id[1]) \o <<id[2], op>> \o Net(a) \o Net(b)
  IN  frame \o Net16(calculate_checksum(frame \o <<0, 0>>))

\* Line 101 refuses a packet only when magic and version are both wrong.
OfOtherProtocol(magic, version) ==
  magic # PROTOCOL_MAGIC /\ version # PROTOCOL_VERSION

RobustServer(req) ==
  LET size  == Len(req)
      frame == SubSeq(req, 1, size - 2)
      crc   == 256 * req[size - 1] + req[size]
      op    == req[4]
      a     == FromNet(Field(req, 4, 0))
      b     == FromNet(Field(req, 4, 1))
      head  == Net16(PROTOCOL_MAGIC) \o <<PROTOCOL_VERSION, op>> \o Net(a) \o Net(b)
      res   == Net(Compute(op, a, b))
  IN  IF crc # calculate_checksum(frame \o <<0, 0>>) THEN {Refuse}
      ELSE IF OfOtherProtocol(256 * req[1] + req[2], req[3]) THEN {Refuse}
      ELSE IF Traps(op, a, b) THEN {Killed}
      ELSE {Answer(head \o Net16(calculate_checksum(head \o <<0, 0>> \o res)) \o res)}

-----------------------------------------------------------------------------
(* The raw struct of 03_client.c and 04_server.c, in the host's byte order; *)
(* of the 16 bytes of cmd the first stands for all.  The server never       *)
(* looks at cmd: it adds.                                                   *)

RawClient(op, a, b) == <<op>> \o Little(a) \o Little(b)

RawServer(req) ==
  LET a == FromNet(Reverse(Field(req, 1, 0)))
      b == FromNet(Reverse(Field(req, 1, 1)))
  IN  {Answer(<<[key |-> "result=", num |-> Wrap(a + b)]>>)}

-----------------------------------------------------------------------------
(* Texts.  The operation is a number after "OP=" or a word. *)

Token(key, num) == [key |-> key, num |-> num]
Missing == Token("NULL", 0)        \* strtok() returned NULL
Junk    == Token("junk", 0)        \* what an array not written to holds

Nth(text, n) == IF n <= Len(text) THEN text[n] ELSE Missing

\* atoi(token + 2) or atoi(token) of NULL: SIGSEGV.
OperandsMissing(text) == Nth(text, 2) = Missing \/ Nth(text, 3) = Missing

\* sendBuffer is sent as it is, up to the first zero byte.
UnsetReply == {Answer(<<Junk>>), Answer(<<>>)}

OpcodeClient(op, a, b) == <<Token("OP=", op), Token("A=", a), Token("B=", b)>>

\* op_table: the opcodes it lists.
op_table == {ADD, SUB, MUL}

\* For an opcode the table lacks the pointer operation was never set: strcmp()
\* on it crashes, or no name is equal and result was never set.
OpcodeAnswers(op, a, b) ==
  LET Reply(r) == Answer(<<Token("OP=", op), Token("A=", a), Token("B=", b), Token("RES=", r)>>)
  IN  IF op \in op_table THEN {Reply(Compute(op, a, b))}
      ELSE {Killed} \cup {Reply(r) : r \in JunkInts}

OpcodeServer(text) ==
  IF text[1].key # "OP="             \* op, a and b stay unset
  THEN UNION {OpcodeAnswers(op, a, b) : op \in JunkInts, a \in JunkInts, b \in JunkInts}
  ELSE IF OperandsMissing(text) THEN {Killed}
  ELSE OpcodeAnswers(text[1].num, text[2].num, text[3].num)

OpcodeClientIkshwak(op, a, b) == OpcodeClient(op, a, b)
OpcodeServerIkshwak(text)     == OpcodeServer(text)

\* The word of an operation; a server of words knows ADD only.
Word(prefix, op, suffix) == Token(prefix \o (IF op = ADD THEN "ADD" ELSE "other") \o suffix, 0)

StructuredClient(op, a, b) == <<Word("OP=", op, ""), Token("A=", a), Token("B=", b)>>

StructuredServer(text) ==
  IF text[1].key # "OP=ADD" THEN UnsetReply
  ELSE IF OperandsMissing(text) THEN {Killed}
  ELSE LET a == text[2].num
           b == text[3].num
       IN  {Answer(<<Token("OP=ADD", 0), Token("A=", a), Token("B=", b),
                     Token("RES=", Wrap(a + b))>>)}

StructuredClientIkshwak(op, a, b) == StructuredClient(op, a, b)
StructuredServerIkshwak(text)     == StructuredServer(text)   \* its NULL test never holds

PlainClient(op, a, b) == <<Word("", op, ""), Token("", a), Token("", b)>>

PlainServer(text) ==
  IF text[1].key # "ADD" THEN UnsetReply
  ELSE IF OperandsMissing(text) THEN {Killed}
  ELSE {Answer(<<Token("result = ", Wrap(text[2].num + text[3].num))>>)}

PlainClientIkshwak(op, a, b) == PlainClient(op, a, b)
PlainServerIkshwak(text)     == PlainServer(text)

\* 01_client.c and 02_server.c print and scan a buffer that no zero byte ends:
\* a digit that lies behind the number becomes part of it.
Stray(n) == {n, 10 * n + (IF n < 0 THEN -7 ELSE 7)} \cap (MinInt..MaxInt)

ScanfClient(op, a, b) == PlainClient(op, a, b)

\* What sscanf() does not find leaves a or b unset.
ScanfServer(text) ==
  LET Found(n, upTo) == IF \A i \in 1..upTo : Nth(text, i) # Missing THEN {text[n].num} ELSE JunkInts
      as == IF text[1].key = "ADD" THEN Found(2, 2) ELSE JunkInts
      bs == IF text[1].key = "ADD" THEN UNION {Stray(b) : b \in Found(3, 3)} ELSE JunkInts
  IN  {Answer(<<Token("result=", Wrap(a + b))>>) : a \in as, b \in bs}

-----------------------------------------------------------------------------
(* The pairs. *)

Packets == {"binary", "binary_i", "robust"}     \* with a checksum
Bytes   == Packets \cup {"raw"}
Texts   == {"opcode", "opcode_i", "structured", "structured_i", "plain", "plain_i", "scanf"}

ASSUME ChosenAssumption == Chosen \subseteq Bytes \cup Texts

Request(p, q) ==
  CASE p = "binary"       -> BinaryClient(q.op, q.a, q.b)
    [] p = "binary_i"     -> BinaryClientIkshwak(q.op, q.a, q.b)
    [] p = "robust"       -> RobustClient(q.op, q.a, q.b, q.id)
    [] p = "raw"          -> RawClient(q.op, q.a, q.b)
    [] p = "opcode"       -> OpcodeClient(q.op, q.a, q.b)
    [] p = "opcode_i"     -> OpcodeClientIkshwak(q.op, q.a, q.b)
    [] p = "structured"   -> StructuredClient(q.op, q.a, q.b)
    [] p = "structured_i" -> StructuredClientIkshwak(q.op, q.a, q.b)
    [] p = "plain"        -> PlainClient(q.op, q.a, q.b)
    [] p = "plain_i"      -> PlainClientIkshwak(q.op, q.a, q.b)
    [] p = "scanf"        -> ScanfClient(q.op, q.a, q.b)

Outcomes(p, req) ==
  CASE p = "binary"       -> BinaryServer(req)
    [] p = "binary_i"     -> BinaryServerIkshwak(req)
    [] p = "robust"       -> RobustServer(req)
    [] p = "raw"          -> RawServer(req)
    [] p = "opcode"       -> OpcodeServer(req)
    [] p = "opcode_i"     -> OpcodeServerIkshwak(req)
    [] p = "structured"   -> StructuredServer(req)
    [] p = "structured_i" -> StructuredServerIkshwak(req)
    [] p = "plain"        -> PlainServer(req)
    [] p = "plain_i"      -> PlainServerIkshwak(req)
    [] p = "scanf"        -> ScanfServer(req)

\* What the client prints as the result: the last four bytes of the reply, or
\* the number at the end of the text.  Where nothing came it prints the packet
\* it never set, or an empty line.
Result(n) == [kind |-> "result", num |-> n]
Unset     == [kind |-> "unset", num |-> 0]
Empty     == [kind |-> "empty", num |-> 0]

Printed(p, res) ==
  IF res = <<>> THEN {IF p \in Packets \cup {"scanf"} THEN Unset ELSE Empty}
  ELSE IF p \in Packets
       THEN {Result(FromNet(SubSeq(res, Len(res) - IntBytes + 1, Len(res))))}
  ELSE IF Last(res) = Junk THEN {Unset}
  ELSE IF p = "scanf" THEN {Result(n) : n \in Stray(Last(res).num)}
  ELSE {Result(Last(res).num)}

\* recv() returns the first part of a request: of a packet some bytes, the rest
\* of the struct is junk; of a text some tokens, the last one cut in a number,
\* after its key or (the first one) before.
TornBytes(req) == {[i \in 1..Len(req) |-> IF i <= n THEN req[i] ELSE j] :
                     n \in 1..(Len(req) - 1), j \in JunkBytes}

CutNumbers(token) ==
  {Quotient(token.num, 10^k) : k \in {i \in 1..(2 * IntBytes) : Quotient(token.num, 10^i) # 0}}
    \cup (IF token.num < 0 \/ token.key # "" THEN {0} ELSE {})

TornText(text) ==
  LET Cut(n) == {SubSeq(text, 1, n - 1) \o <<Token(text[n].key, v)>> : v \in CutNumbers(text[n])}
  IN  {SubSeq(text, 1, n) : n \in {1, 2}} \cup Cut(2) \cup Cut(3) \cup {<<Junk>>}

-----------------------------------------------------------------------------
Init ==
  /\ pair \in Chosen
  /\ ask \in [op : Ops, a : Operands, b : Operands, id : Identities]
  /\ pair # "robust" => ask.id = <<PROTOCOL_MAGIC, PROTOCOL_VERSION>>
  /\ wire = <<>> /\ fault = "none"
  /\ server = "listening" /\ reply = <<>>
  /\ client = "start" /\ shown = Empty

\* connect() and send() of the client.
ClientSends ==
  /\ client = "start"
  /\ client' = "waiting"
  /\ wire' = Request(pair, ask)
  /\ UNCHANGED <<pair, ask, fault, server, reply, shown>>

OnItsWay == client = "waiting" /\ server = "listening" /\ fault = "none"

AlterByte ==
  /\ OnItsWay /\ pair \in Packets
  /\ \E i \in 1..Len(wire), v \in AlteredTo :
       v # wire[i] /\ wire' = [wire EXCEPT ![i] = v]
  /\ fault' = "altered"
  /\ UNCHANGED <<pair, ask, server, reply, client, shown>>

Tear ==
  /\ OnItsWay
  /\ wire' \in IF pair \in Bytes THEN TornBytes(wire) ELSE TornText(wire)
  /\ fault' = "torn"
  /\ UNCHANGED <<pair, ask, server, reply, client, shown>>

\* accept(), recv(), the work, send() and both close(): nobody else takes part.
ServerServes ==
  /\ client = "waiting" /\ server = "listening"
  /\ \E o \in Outcomes(pair, wire) : server' = o.does /\ reply' = o.reply
  /\ UNCHANGED <<pair, ask, wire, fault, client, shown>>

\* The recv() of the client returns the reply, or 0 when the server closed.
ClientShows ==
  /\ client = "waiting" /\ server # "listening"
  /\ client' = "done"
  /\ shown' \in Printed(pair, reply)
  /\ UNCHANGED <<pair, ask, wire, fault, server, reply>>

Next == ClientSends \/ AlterByte \/ Tear \/ ServerServes \/ ClientShows

Spec == Init /\ [][Next]_vars
             /\ WF_vars(ClientSends) /\ WF_vars(ServerServes) /\ WF_vars(ClientShows)

-----------------------------------------------------------------------------
(* Properties. *)

\* r is the result of a op b in ints of this width: for a division, what leaves
\* a remainder smaller than the divisor with the sign of the dividend.
IsResult(op, a, b, r) ==
  LET Congruent(n) == (r - n) % Modulus = 0
      rest == a - b * r
  IN  CASE op = ADD -> Congruent(a + b)
        [] op = SUB -> Congruent(a - b)
        [] op = MUL -> Congruent(a * b)
        [] op = DIV /\ b # 0 -> rest * rest < b * b /\ rest * a >= 0
        [] OTHER -> r = 0

\* The requests for which a server has an answer that memory not written to does
\* not change: all for packets, three opcodes for the table (DocumentedOpcodesServed
\* tells of the fourth), ADD for words.  MinInt / -1 has no result.
Defined(p, q) ==
  CASE p \in Packets -> ~Traps(q.op, q.a, q.b)
    [] p \in {"opcode", "opcode_i"} -> q.op \in {ADD, SUB, MUL}
    [] p = "scanf" -> FALSE
    [] OTHER -> q.op = ADD

Foreign(q) == q.id[1] # PROTOCOL_MAGIC /\ q.id[2] # PROTOCOL_VERSION

\* A request that arrives as it was sent kills no server: it is answered with the
\* result of its own operation on its own operands, byte order and sign included,
\* and that is what the client prints.  The pair of sscanf() is left out: it prints
\* what lies behind its buffers.
ResultIsRight ==
  (client = "done" /\ fault = "none" /\ Defined(pair, ask) /\ ~Foreign(ask))
    => /\ server = "answered"
       /\ shown.kind = "result"
       /\ IsResult(ask.op, ask.a, ask.b, shown.num)

\* The checksum does its work: a packet of which one byte was changed, or one of
\* another magic and another version, is never computed, whatever byte it was.
AlteredRefused ==
  (pair \in Packets /\ (fault = "altered" \/ (fault = "none" /\ Foreign(ask))))
    => server \in {"listening", "refused"}

\* Network-Frames/README.md lists four opcodes for the texts with opcodes, DIV among
\* them: a request with one of them is answered with its result.
DocumentedOpcodesServed ==
  (pair \in {"opcode", "opcode_i"} /\ client = "done" /\ fault = "none" /\ ask.b # 0
      /\ ask.op \in {ADD, SUB, MUL, DIV})
    => /\ server = "answered"
       /\ shown.kind = "result"
       /\ IsResult(ask.op, ask.a, ask.b, shown.num)

\* Whatever happens to the request both programs end: no refusal and no crash
\* leaves the client in recv().
BothEnd == <>(client = "done" /\ server # "listening")

=============================================================================
