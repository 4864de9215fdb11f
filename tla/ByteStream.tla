----------------------------- MODULE ByteStream -----------------------------
(***************************************************************************)
(* The TCP connection between an engine ECU and a transponder ECU, as the  *)
(* programs use it: each direction is a queue of bytes, send() appends all *)
(* the bytes of a message, and recv() takes a prefix that need not be a    *)
(* message.                                                                *)
(*                                                                         *)
(* A byte is a triple that says where it comes from:                       *)
(*   <<"cmd", 0, i>>   byte i of the command "start"                       *)
(*   <<"ctr", c, 0>>   a challenge_counter byte of value c                 *)
(*   <<"rnd", n, i>>   byte i of the random number drawn n-th              *)
(*   <<"enc", n, i>>   byte i of the AES encryption of random number n     *)
(*   <<"txt", v, i>>   byte i of a verdict text                            *)
(* AES is idealised: two ciphertexts are equal exactly when the random     *)
(* numbers are, so n names the ciphertext too.  Random number 0 is one no  *)
(* engine drew: <<"enc", 0, i>> is what a program without the key sends.   *)
(***************************************************************************)
EXTENDS Naturals, Sequences

CONSTANT ShortReads  \* lengths at which a recv() may stop before the queue's end

ASSUME ShortReadsAssumption == ShortReads \subseteq Nat \ {0}

\* What one recv(fd, buf, size) may return of the queue s: all that fits, or a
\* shorter prefix when the network split the bytes there.
Chunks(s, size) ==
    LET full == IF Len(s) < size THEN Len(s) ELSE size
    IN  {SubSeq(s, 1, k) : k \in {full} \cup {r \in ShortReads : r < full}}

\* The queue that is left once the prefix b has been received.
Rest(s, b) == SubSeq(s, Len(b) + 1, Len(s))

\* The five bytes of "start".
Start == [i \in 1..5 |-> <<"cmd", 0, i>>]

\* ASCII codes of the bytes of "start", seen when they are read as a counter.
StartCodes == <<115, 116, 97, 114, 116>>

\* A 16-byte block of random or encrypted data.
Block(kind, n) == [i \in 1..16 |-> <<kind, n, i>>]

\* A 17-byte frame: the counter byte, then a block.
Frame(kind, c, n) ==
    [i \in 1..17 |-> IF i = 1 THEN <<"ctr", c, 0>> ELSE <<kind, n, i - 1>>]

\* The value of byte b, read as a uint8_t, may be c: counters and command bytes
\* have the value they have, a byte of a random or encrypted block has any.
MayBe(b, c) ==
    CASE b[1] = "ctr" -> b[2] = c
      [] b[1] = "cmd" -> StartCodes[b[3]] = c
      [] OTHER        -> TRUE

\* The same byte may have another value than c.
MayDiffer(b, c) ==
    \/ b[1] \notin {"ctr", "cmd"}
    \/ ~MayBe(b, c)

-----------------------------------------------------------------------------
\* What the proofs and the type invariants say of a queue.
Bytes == {"cmd", "ctr", "rnd", "enc", "txt"} \X Nat \X Nat

\* Every encrypted byte of s comes from a random number of A, or from none that
\* an engine drew.
Genuine(s, A) ==
    \A i \in 1..Len(s) : s[i][1] = "enc" /\ s[i][2] # 0 => s[i][2] \in A

=============================================================================
