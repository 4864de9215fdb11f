-------------------------- MODULE ByteStream_proofs --------------------------
(***************************************************************************)
(* What the operators of ByteStream return: facts about queues of bytes    *)
(* that the proofs about the programs cite.                                *)
(***************************************************************************)
EXTENDS ByteStream, SequenceTheorems, TLAPS

\* A command is five bytes, none of them encrypted.
LEMMA StartType ==
    /\ Start \in Seq(Bytes) /\ Len(Start) = 5
    /\ \A i \in 1..5 : Start[i] = <<"cmd", 0, i>>
BY DEF Start, Bytes

\* A frame is seventeen bytes, the first its counter.
LEMMA FrameType ==
    ASSUME NEW kind \in {"rnd", "enc"}, NEW c \in Nat, NEW n \in Nat
    PROVE  /\ Frame(kind, c, n) \in Seq(Bytes)
           /\ Len(Frame(kind, c, n)) = 17
           /\ \A i \in 1..17 : Frame(kind, c, n)[i] =
                  IF i = 1 THEN <<"ctr", c, 0>> ELSE <<kind, n, i - 1>>
<1>1. \A i \in 1..17 :
         (IF i = 1 THEN <<"ctr", c, 0>> ELSE <<kind, n, i - 1>>) \in Bytes
  BY DEF Bytes
<1>2. Frame(kind, c, n) \in [1..17 -> Bytes]
  BY <1>1 DEF Frame
<1>3. QED
  BY <1>2 DEF Frame

LEMMA FrameIsSeq ==
    ASSUME NEW kind \in {"rnd", "enc"}, NEW c \in Nat, NEW n \in Nat
    PROVE  Frame(kind, c, n) \in Seq(Bytes) /\ Len(Frame(kind, c, n)) = 17
<1>1. /\ Frame(kind, c, n) \in Seq(Bytes)
      /\ Len(Frame(kind, c, n)) = 17
      /\ \A i \in 1..17 : Frame(kind, c, n)[i] =
             IF i = 1 THEN <<"ctr", c, 0>> ELSE <<kind, n, i - 1>>
  BY FrameType, Zenon
<1>2. QED
  BY <1>1, Zenon

\* A block is sixteen bytes.
LEMMA BlockType ==
    ASSUME NEW kind \in {"rnd", "enc"}, NEW n \in Nat
    PROVE  /\ Block(kind, n) \in Seq(Bytes) /\ Len(Block(kind, n)) = 16
           /\ \A i \in 1..16 : Block(kind, n)[i] = <<kind, n, i>>
<1>1. \A i \in 1..16 : <<kind, n, i>> \in Bytes
  BY DEF Bytes
<1>2. Block(kind, n) \in [1..16 -> Bytes]
  BY <1>1 DEF Block
<1>3. QED
  BY <1>2 DEF Block

\* What recv() returns is a prefix of the queue.
LEMMA ChunkIsPrefix ==
    ASSUME NEW s \in Seq(Bytes), NEW size \in Nat, NEW b \in Chunks(s, size)
    PROVE  /\ b \in Seq(Bytes)
           /\ Len(b) \in 0..Len(s) /\ Len(b) <= size
           /\ \A i \in 1..Len(b) : b[i] = s[i]
<1> DEFINE full == IF Len(s) < size THEN Len(s) ELSE size
<1>1. full \in 0..Len(s) /\ full <= size
  OBVIOUS
<1>2. PICK k \in {full} \cup {r \in ShortReads : r < full} : b = SubSeq(s, 1, k)
  BY DEF Chunks
<1>3. k \in Nat /\ k <= full
  <2>1. CASE k = full
    BY <2>1, <1>1
  <2>2. CASE k \in ShortReads /\ k < full
    BY <2>2, <1>1, ShortReadsAssumption
  <2>3. QED
    BY <1>2, <2>1, <2>2
<1> HIDE DEF full
<1>4. k \in 0..Len(s) /\ k <= size
  BY <1>1, <1>3
<1>5. \A i \in 1..k : s[i] \in Bytes
  BY <1>4
<1>6. /\ b \in Seq(Bytes) /\ Len(b) = k
      /\ \A i \in 1..k : b[i] = s[i]
  <2>1. /\ SubSeq(s, 1, k) \in Seq(Bytes)
        /\ Len(SubSeq(s, 1, k)) = IF 1 <= k THEN k - 1 + 1 ELSE 0
        /\ \A i \in 1..(k - 1 + 1) : SubSeq(s, 1, k)[i] = s[1 + i - 1]
    BY <1>4, <1>5, SubSeqProperties
  <2>2. QED
    BY <1>2, <1>4, <2>1
<1>7. QED
  BY <1>4, <1>6

\* What recv() leaves is a suffix of the queue.
LEMMA RestIsSuffix ==
    ASSUME NEW s \in Seq(Bytes), NEW size \in Nat, NEW b \in Chunks(s, size)
    PROVE  /\ Rest(s, b) \in Seq(Bytes)
           /\ \A i \in 1..Len(Rest(s, b)) : \E j \in 1..Len(s) : Rest(s, b)[i] = s[j]
<1> DEFINE k == Len(b)
           n == Len(s)
           t == SubSeq(s, k + 1, n)
<1>1. k \in 0..n
  BY ChunkIsPrefix
<1>2. n \in Nat /\ \A i \in (k + 1)..n : s[i] \in Bytes
  BY <1>1
<1>3. /\ t \in Seq(Bytes)
      /\ Len(t) = IF k + 1 <= n THEN n - (k + 1) + 1 ELSE 0
      /\ \A i \in 1..(n - (k + 1) + 1) : t[i] = s[k + 1 + i - 1]
  BY <1>1, <1>2, SubSeqProperties
<1>4. Rest(s, b) = t
  BY DEF Rest
<1> HIDE DEF k, n, t
<1>5. \A i \in 1..Len(t) : i \in 1..(n - (k + 1) + 1) /\ k + 1 + i - 1 \in 1..n
  BY <1>1, <1>2, <1>3
<1>6. \A i \in 1..Len(t) : \E j \in 1..n : t[i] = s[j]
  BY <1>3, <1>5
<1>7. QED
  BY <1>3, <1>4, <1>6 DEF n

\* Reading keeps a queue genuine.
LEMMA GenuineRest ==
    ASSUME NEW s \in Seq(Bytes), NEW size \in Nat, NEW b \in Chunks(s, size),
           NEW A, Genuine(s, A)
    PROVE  Genuine(Rest(s, b), A)
BY RestIsSuffix DEF Genuine

\* So does appending genuine bytes.
LEMMA GenuineAppend ==
    ASSUME NEW s \in Seq(Bytes), NEW t \in Seq(Bytes), NEW A,
           Genuine(s, A), Genuine(t, A)
    PROVE  /\ s \o t \in Seq(Bytes)
           /\ Genuine(s \o t, A)
BY DEF Genuine

\* A frame is genuine if its block is random, foreign or made from a member of A.
LEMMA FrameGenuine ==
    ASSUME NEW kind \in {"rnd", "enc"}, NEW c \in Nat, NEW n \in Nat, NEW A,
           kind = "enc" /\ n # 0 => n \in A
    PROVE  Genuine(Frame(kind, c, n), A)
<1>1. SUFFICES ASSUME NEW i \in 1..17,
                      Frame(kind, c, n)[i][1] = "enc", Frame(kind, c, n)[i][2] # 0
               PROVE  Frame(kind, c, n)[i][2] \in A
  BY FrameType DEF Genuine
<1>2. Frame(kind, c, n)[i] = IF i = 1 THEN <<"ctr", c, 0>> ELSE <<kind, n, i - 1>>
  BY FrameType
<1>3. QED
  BY <1>1, <1>2

\* A response whose block matches the expected one has been made from the
\* random number it was expected for.
LEMMA MatchIsGenuine ==
    ASSUME NEW s \in Seq(Bytes), NEW b \in Chunks(s, 17), NEW A, Genuine(s, A),
           NEW n \in Nat \ {0}, Len(b) = 17, SubSeq(b, 2, 17) = Block("enc", n)
    PROVE  n \in A
<1>1. /\ b \in Seq(Bytes) /\ 17 \in 0..Len(s)
      /\ b[2] = s[2]
  <2>1. 17 \in Nat
    OBVIOUS
  <2>2. /\ b \in Seq(Bytes) /\ Len(b) \in 0..Len(s)
        /\ \A i \in 1..Len(b) : b[i] = s[i]
    BY <2>1, ChunkIsPrefix, ZenonT(30)
  <2>3. QED
    BY <2>2
<1>2. SubSeq(b, 2, 17)[1] = b[2]
  BY <1>1
<1>3. Block("enc", n)[1] = <<"enc", n, 1>>
  BY DEF Block
<1>4. s[2] = <<"enc", n, 1>>
  BY <1>1, <1>2, <1>3
<1>5. 2 \in 1..Len(s) /\ s[2][1] = "enc" /\ s[2][2] = n
  BY <1>1, <1>4
<1>6. QED
  BY <1>5 DEF Genuine

\* What lies behind the first k bytes.
LEMMA Behind ==
    ASSUME NEW s \in Seq(Bytes), NEW k \in 0..Len(s)
    PROVE  /\ Len(SubSeq(s, k + 1, Len(s))) = Len(s) - k
           /\ \A i \in 1..(Len(s) - k) : SubSeq(s, k + 1, Len(s))[i] = s[k + i]
<1> DEFINE n == Len(s)
           t == SubSeq(s, k + 1, n)
<1>1. n \in Nat /\ k \in 0..n /\ \A i \in (k + 1)..n : s[i] \in Bytes
  OBVIOUS
<1>2. /\ t \in Seq(Bytes)
      /\ Len(t) = IF k + 1 <= n THEN n - (k + 1) + 1 ELSE 0
      /\ \A i \in 1..(n - (k + 1) + 1) : t[i] = s[k + 1 + i - 1]
  BY <1>1, SubSeqProperties
<1> HIDE DEF t, n
<1>3. Len(t) = n - k
  BY <1>1, <1>2
<1>4. \A i \in 1..(n - k) : t[i] = s[k + i]
  <2>1. \A i \in 1..(n - k) : i \in 1..(n - (k + 1) + 1) /\ k + 1 + i - 1 = k + i
    BY <1>1
  <2>2. QED
    BY <1>2, <2>1
<1>5. QED
  BY <1>3, <1>4 DEF t, n

\* When the network splits the bytes nowhere before that, recv() returns all that
\* fits, and what it leaves is what lies behind.
LEMMA ChunkIsWhole ==
    ASSUME NEW s \in Seq(Bytes), NEW size \in Nat, NEW b \in Chunks(s, size)
    PROVE  LET full == IF Len(s) < size THEN Len(s) ELSE size
           IN  (\A r \in ShortReads : r >= full)
                  => /\ Len(b) = full
                     /\ Len(Rest(s, b)) = Len(s) - full
                     /\ \A i \in 1..full : b[i] = s[i]
                     /\ \A i \in 1..(Len(s) - full) : Rest(s, b)[i] = s[full + i]
<1> DEFINE full == IF Len(s) < size THEN Len(s) ELSE size
<1> SUFFICES ASSUME \A r \in ShortReads : r >= full
             PROVE  /\ Len(b) = full
                    /\ Len(Rest(s, b)) = Len(s) - full
                    /\ \A i \in 1..full : b[i] = s[i]
                    /\ \A i \in 1..(Len(s) - full) : Rest(s, b)[i] = s[full + i]
  OBVIOUS
<1>1. full \in 0..Len(s)
  OBVIOUS
<1>2. b = SubSeq(s, 1, full)
  <2>1. PICK k \in {full} \cup {r \in ShortReads : r < full} : b = SubSeq(s, 1, k)
    BY DEF Chunks
  <2>2. k = full
    <3>1. full \in Nat /\ \A r \in ShortReads : r \in Nat /\ r >= full
      BY <1>1, ShortReadsAssumption
    <3> HIDE DEF full
    <3>2. ~\E r \in ShortReads : r < full
      BY <3>1
    <3>3. QED
      BY <2>1, <3>2
  <2>3. QED
    BY <2>1, <2>2
<1>3. Len(b) = full /\ \A i \in 1..full : b[i] = s[i]
  BY <1>1, <1>2
<1> HIDE DEF full
<1>4. QED
  BY <1>1, <1>3, Behind DEF Rest

\* A queue that fits is read whole.
LEMMA ReadsAll ==
    ASSUME NEW s \in Seq(Bytes), NEW size \in Nat, NEW b \in Chunks(s, size),
           Len(s) < size, \A r \in ShortReads : r >= Len(s)
    PROVE  Len(b) = Len(s) /\ Rest(s, b) = <<>>
<1>1. Len(b) = Len(s) /\ Len(Rest(s, b)) = Len(s) - Len(s)
  BY ChunkIsWhole
<1>2. Rest(s, b) \in Seq(Bytes)
  BY RestIsSuffix
<1>3. QED
  BY <1>1, <1>2

\* Of a longer one, as much as fits.
LEMMA ReadsFull ==
    ASSUME NEW s \in Seq(Bytes), NEW size \in Nat, NEW b \in Chunks(s, size),
           Len(s) >= size, \A r \in ShortReads : r >= size
    PROVE  /\ Len(b) = size
           /\ Len(Rest(s, b)) = Len(s) - size
           /\ \A i \in 1..size : b[i] = s[i]
           /\ \A i \in 1..(Len(s) - size) : Rest(s, b)[i] = s[size + i]
<1> DEFINE full == IF Len(s) < size THEN Len(s) ELSE size
<1>1. full = size
  OBVIOUS
<1>2. /\ Len(b) = full
      /\ Len(Rest(s, b)) = Len(s) - full
      /\ \A i \in 1..full : b[i] = s[i]
      /\ \A i \in 1..(Len(s) - full) : Rest(s, b)[i] = s[full + i]
  <2>1. \A r \in ShortReads : r >= full
    BY <1>1
  <2>2. QED
    BY <2>1, ChunkIsWhole
<1> HIDE DEF full
<1>3. QED
  BY <1>1, <1>2

\* Three messages queue up in either order of appending.
LEMMA AppendTwo ==
    ASSUME NEW s \in Seq(Bytes), NEW t \in Seq(Bytes), NEW u \in Seq(Bytes)
    PROVE  (s \o t) \o u = s \o (t \o u)
BY ConcatAssociative, SMTT(30)

\* The two parts of a frame, and how they make one.
LEMMA FrameParts ==
    ASSUME NEW kind \in {"rnd", "enc"}, NEW m \in Nat, NEW n \in Nat
    PROVE  /\ SubSeq(Frame(kind, m, n), 1, 1) = << <<"ctr", m, 0>> >>
           /\ SubSeq(Frame(kind, m, n), 2, 17) = Block(kind, n)
           /\ << <<"ctr", m, 0>> >> \o Block(kind, n) = Frame(kind, m, n)
<1> DEFINE s == Frame(kind, m, n)
           c == <<"ctr", m, 0>>
           e == Block(kind, n)
           h == SubSeq(s, 1, 1)
           t == SubSeq(s, 2, 17)
           one == <<c>>
<1>1. /\ s \in Seq(Bytes) /\ Len(s) = 17 /\ s[1] = c
      /\ \A i \in 1..16 : s[i + 1] = <<kind, n, i>>
  <2>1. /\ s \in Seq(Bytes) /\ Len(s) = 17
        /\ \A i \in 1..17 : s[i] = IF i = 1 THEN c ELSE <<kind, n, i - 1>>
    <3>1. s \in Seq(Bytes) /\ Len(s) = 17
      BY FrameType, ZenonT(30)
    <3>2. \A i \in 1..17 : s[i] = IF i = 1 THEN c ELSE <<kind, n, i - 1>>
      BY DEF Frame
    <3>3. QED
      BY <3>1, <3>2
  <2> HIDE DEF s, c
  <2>2. s[1] = c
    BY <2>1
  <2>3. ASSUME NEW i \in 1..16 PROVE s[i + 1] = <<kind, n, i>>
    <3>1. i + 1 \in 1..17 /\ i + 1 # 1 /\ (i + 1) - 1 = i
      OBVIOUS
    <3>2. QED
      BY <2>1, <3>1
  <2>4. QED
    BY <2>1, <2>2, <2>3
<1>2. /\ e \in Seq(Bytes) /\ Len(e) = 16
      /\ \A i \in 1..16 : e[i] = <<kind, n, i>>
  BY BlockType
<1>3. c \in Bytes /\ one \in Seq(Bytes) /\ Len(one) = 1 /\ one[1] = c
  <2>1. c \in Bytes
    BY DEF Bytes
  <2> HIDE DEF c
  <2>2. QED
    BY <2>1
<1> HIDE DEF s, c, e
<1>4. \A i \in 1..17 : s[i] \in Bytes
  <2>1. s \in Seq(Bytes) /\ Len(s) = 17
    BY <1>1
  <2>2. \A i \in 1..Len(s) : s[i] \in Bytes
    BY <2>1, ElementOfSeq
  <2>3. QED
    BY <2>1, <2>2
<1>5. h \in Seq(Bytes) /\ Len(h) = 1 /\ h[1] = c
  <2>1. /\ h \in Seq(Bytes) /\ Len(h) = IF 1 <= 1 THEN 1 - 1 + 1 ELSE 0
        /\ \A i \in 1..(1 - 1 + 1) : h[i] = s[1 + i - 1]
    BY <1>4, SubSeqProperties
  <2>2. QED
    BY <1>1, <2>1
<1>6. t \in Seq(Bytes) /\ Len(t) = 16 /\ \A i \in 1..16 : t[i] = s[i + 1]
  <2>1. /\ t \in Seq(Bytes) /\ Len(t) = IF 2 <= 17 THEN 17 - 2 + 1 ELSE 0
        /\ \A i \in 1..(17 - 2 + 1) : t[i] = s[2 + i - 1]
    BY <1>4, SubSeqProperties
  <2> HIDE DEF t
  <2>2. ASSUME NEW i \in 1..16 PROVE t[i] = s[i + 1]
    <3>1. i \in 1..(17 - 2 + 1) /\ 2 + i - 1 = i + 1
      OBVIOUS
    <3>2. QED
      BY <2>1, <3>1
  <2>3. QED
    BY <2>1, <2>2
<1> HIDE DEF h, t, one
<1>7. h = one
  <2>1. \A i \in 1..Len(h) : h[i] = one[i]
    BY <1>3, <1>5
  <2>2. QED
    BY <1>3, <1>5, <2>1, SeqEqual
<1>8. t = e
  <2>1. \A i \in 1..Len(t) : t[i] = e[i]
    BY <1>1, <1>2, <1>6
  <2>2. QED
    BY <1>2, <1>6, <2>1, SeqEqual
<1>9. one \o e = s
  <2> DEFINE g == one \o e
  <2>1. /\ g \in Seq(Bytes) /\ Len(g) = Len(one) + Len(e)
        /\ \A i \in 1..(Len(one) + Len(e)) :
              g[i] = IF i <= Len(one) THEN one[i] ELSE e[i - Len(one)]
    BY <1>2, <1>3, ConcatProperties
  <2> HIDE DEF g
  <2>2. ASSUME NEW i \in 1..17 PROVE g[i] = s[i]
    <3>1. CASE i = 1
      BY <1>1, <1>2, <1>3, <2>1, <3>1
    <3>2. CASE i # 1
      <4> DEFINE k == i - 1
      <4>1. k \in 1..16 /\ k + 1 = i
        BY <3>2
      <4>2. g[i] = e[i - Len(one)]
        <5>1. i \in 1..(Len(one) + Len(e)) /\ ~(i <= Len(one))
          BY <1>2, <1>3, <3>2
        <5>2. QED
          BY <2>1, <5>1
      <4>3. i - Len(one) = k
        BY <1>3
      <4> HIDE DEF k
      <4>4. QED
        BY <1>1, <1>2, <4>1, <4>2, <4>3
    <3>3. QED
      BY <3>1, <3>2
  <2>3. Len(g) = 17 /\ Len(s) = 17 /\ s \in Seq(Bytes)
    BY <1>1, <1>2, <1>3, <2>1
  <2>4. \A i \in 1..Len(g) : g[i] = s[i]
    BY <2>2, <2>3
  <2>5. g = s
    BY <2>1, <2>3, <2>4, SeqEqual
  <2>6. QED
    BY <2>5 DEF g
<1>10. QED
  BY <1>7, <1>8, <1>9 DEF h, t, one, s, e, c

-----------------------------------------------------------------------------
\* Wherever in s the first byte of a block of that kind has a byte before it, that
\* byte is a counter, and H holds the counter with the block's random number.
Pairs(s, kind, H) ==
    \A k \in 2..Len(s) :
        s[k][1] = kind /\ s[k][3] = 1 /\ s[k][2] # 0
            => s[k - 1][1] = "ctr" /\ <<s[k - 1][2], s[k][2]>> \in H

LEMMA PairsMore ==
    ASSUME NEW s, NEW kind, NEW H, NEW G, H \subseteq G, Pairs(s, kind, H)
    PROVE  Pairs(s, kind, G)
BY DEF Pairs

\* What recv() leaves is shorter by what it returns, and lies behind it.
LEMMA RestLies ==
    ASSUME NEW s \in Seq(Bytes), NEW size \in Nat, NEW b \in Chunks(s, size)
    PROVE  /\ Len(b) \in 0..Len(s) /\ Len(Rest(s, b)) = Len(s) - Len(b)
           /\ \A i \in 1..(Len(s) - Len(b)) : Rest(s, b)[i] = s[Len(b) + i]
BY ChunkIsPrefix, Behind DEF Rest

\* Reading keeps the pairs, since a byte keeps the one before it or is the first.
LEMMA PairsRead ==
    ASSUME NEW s \in Seq(Bytes), NEW size \in Nat, NEW b \in Chunks(s, size),
           NEW kind, NEW H, Pairs(s, kind, H)
    PROVE  Pairs(Rest(s, b), kind, H)
<1> DEFINE q == Rest(s, b)
           m == Len(b)
           n == Len(s)
<1>1. /\ n \in Nat /\ m \in 0..n /\ Len(q) = n - m
      /\ \A i \in 1..(n - m) : q[i] = s[m + i]
  BY RestLies
<1>2. \A k \in 2..n :
         s[k][1] = kind /\ s[k][3] = 1 /\ s[k][2] # 0
            => s[k - 1][1] = "ctr" /\ <<s[k - 1][2], s[k][2]>> \in H
  BY DEF Pairs
<1> HIDE DEF q, m, n
<1>3. ASSUME NEW k \in 2..Len(q), q[k][1] = kind, q[k][3] = 1, q[k][2] # 0
      PROVE  q[k - 1][1] = "ctr" /\ <<q[k - 1][2], q[k][2]>> \in H
  <2> DEFINE i == m + k
             j == m + (k - 1)
             p == k - 1
  <2>1. k \in 1..(n - m) /\ p \in 1..(n - m) /\ i \in 2..n /\ i - 1 = j
    BY <1>1
  <2>2. q[k] = s[i] /\ q[p] = s[j]
    BY <1>1, <2>1
  <2> HIDE DEF i, j
  <2>3. s[j][1] = "ctr" /\ <<s[j][2], s[i][2]>> \in H
    BY <1>2, <1>3, <2>1, <2>2
  <2>4. QED
    BY <2>2, <2>3
<1>4. QED
  BY <1>3 DEF Pairs, q

\* Appending keeps them, unless what is appended begins with a block.
LEMMA PairsAppend ==
    ASSUME NEW s \in Seq(Bytes), NEW t \in Seq(Bytes), NEW kind, NEW H,
           Pairs(s, kind, H), Pairs(t, kind, H), t # <<>> => t[1][1] # kind
    PROVE  Pairs(s \o t, kind, H)
<1> DEFINE q == s \o t
           m == Len(s)
           n == Len(t)
<1>1. /\ m \in Nat /\ n \in Nat /\ Len(q) = m + n
      /\ \A i \in 1..(m + n) : q[i] = IF i <= m THEN s[i] ELSE t[i - m]
  BY ConcatProperties
<1>2. \A k \in 2..m :
         s[k][1] = kind /\ s[k][3] = 1 /\ s[k][2] # 0
            => s[k - 1][1] = "ctr" /\ <<s[k - 1][2], s[k][2]>> \in H
  BY DEF Pairs
<1>3. \A k \in 2..n :
         t[k][1] = kind /\ t[k][3] = 1 /\ t[k][2] # 0
            => t[k - 1][1] = "ctr" /\ <<t[k - 1][2], t[k][2]>> \in H
  BY DEF Pairs
<1>4. n # 0 => t[1][1] # kind
  OBVIOUS
<1> HIDE DEF q, m, n
<1>5. ASSUME NEW k \in 2..Len(q), q[k][1] = kind, q[k][3] = 1, q[k][2] # 0
      PROVE  q[k - 1][1] = "ctr" /\ <<q[k - 1][2], q[k][2]>> \in H
  <2> DEFINE p == k - 1
             i == k - m
             j == p - m
  <2>0. k \in 1..(m + n) /\ p \in 1..(m + n) /\ k \in Int /\ p = k - 1
    BY <1>1
  <2>1. CASE k <= m
    <3>1. q[k] = s[k] /\ q[p] = s[p] /\ k \in 2..m
      BY <1>1, <2>0, <2>1
    <3>2. QED
      BY <1>2, <1>5, <3>1
  <2>2. CASE k > m + 1
    <3>1. q[k] = t[i] /\ q[p] = t[j] /\ i \in 2..n /\ j = i - 1
      BY <1>1, <2>0, <2>2
    <3> HIDE DEF i, j
    <3>2. t[j][1] = "ctr" /\ <<t[j][2], t[i][2]>> \in H
      BY <1>3, <1>5, <3>1
    <3>3. QED
      BY <3>1, <3>2
  <2>3. k # m + 1
    <3>1. ASSUME k = m + 1 PROVE FALSE
      <4>1. k \in 1..(m + n) /\ ~(k <= m) /\ k - m = 1 /\ n # 0
        BY <1>1, <2>0, <3>1
      <4>2. q[k] = t[1]
        BY <1>1, <4>1
      <4>3. QED
        BY <1>4, <1>5, <4>1, <4>2
    <3>2. QED
      BY <3>1
  <2>4. QED
    BY <1>1, <2>0, <2>1, <2>2, <2>3
<1>6. QED
  BY <1>5 DEF Pairs, q

\* A frame is such a pair; a foreign frame and a command are none.
LEMMA PairsFrame ==
    ASSUME NEW kind \in {"rnd", "enc"}, NEW c \in Nat, NEW n \in Nat, NEW H,
           n # 0 => <<c, n>> \in H
    PROVE  Pairs(Frame(kind, c, n), kind, H) /\ Frame(kind, c, n)[1][1] # kind
<1> DEFINE s == Frame(kind, c, n)
<1>1. Len(s) = 17 /\ \A i \in 1..17 : s[i] = IF i = 1 THEN <<"ctr", c, 0>> ELSE <<kind, n, i - 1>>
  BY DEF Frame
<1> HIDE DEF s
<1>2. s[1] = <<"ctr", c, 0>>
  BY <1>1
<1>3. s[1][1] = "ctr" /\ s[1][2] = c
  BY <1>2
<1>4. ASSUME NEW k \in 2..Len(s), s[k][1] = kind, s[k][3] = 1, s[k][2] # 0
      PROVE  s[k - 1][1] = "ctr" /\ <<s[k - 1][2], s[k][2]>> \in H
  <2>1. k \in 1..17 /\ k # 1
    BY <1>1
  <2>2. s[k] = <<kind, n, k - 1>>
    BY <1>1, <2>1
  <2>3. s[k][2] = n /\ s[k][3] = k - 1
    BY <2>2
  <2>4. k - 1 = 1
    BY <1>4, <2>3
  <2>5. s[k - 1] = s[1] /\ n # 0
    BY <1>4, <2>3, <2>4
  <2>6. QED
    BY <1>3, <2>3, <2>5
<1>5. QED
  BY <1>3, <1>4 DEF Pairs, s

LEMMA PairsStart ==
    ASSUME NEW kind \in {"rnd", "enc"}, NEW H
    PROVE  Pairs(Start, kind, H) /\ Start[1][1] # kind
<1>1. Len(Start) = 5 /\ \A i \in 1..5 : Start[i] = <<"cmd", 0, i>>
  BY StartType
<1>2. \A i \in 1..5 : Start[i][1] = "cmd"
  BY <1>1
<1>3. QED
  BY <1>1, <1>2 DEF Pairs
=============================================================================
