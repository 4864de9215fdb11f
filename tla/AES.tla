-------------------------------- MODULE AES --------------------------------
(***************************************************************************)
(* src/Network-Frames/moksha/main/aes_128.c, the encryption of the engines *)
(* and transponders, as a machine that takes one round at a time.  A byte  *)
(* is a number of 0..255, a block a sequence of sixteen.  The other        *)
(* modules take AES for ideal: this one checks, on the blocks given, what  *)
(* they rely on, that what is encrypted can be told from the result.       *)
(***************************************************************************)
EXTENDS Naturals, Sequences, SequencesExt, Bitwise

CONSTANTS secret_key,  \* the key of the engine and of its transponder
          Plaintexts   \* the blocks encrypted

Byte == 0..255

ASSUME BlocksAssumption ==
    \A b \in Plaintexts \cup {secret_key} : Len(b) = 16 /\ \A i \in 1..16 : b[i] \in Byte

VARIABLES pt, state, r

vars == <<pt, state, r>>

Nr == 10

-----------------------------------------------------------------------------
\* The bytes of s_box in their order.
s_box == <<
  99, 124, 119, 123, 242, 107, 111, 197, 48, 1, 103, 43, 254, 215, 171, 118,
  202, 130, 201, 125, 250, 89, 71, 240, 173, 212, 162, 175, 156, 164, 114, 192,
  183, 253, 147, 38, 54, 63, 247, 204, 52, 165, 229, 241, 113, 216, 49, 21,
  4, 199, 35, 195, 24, 150, 5, 154, 7, 18, 128, 226, 235, 39, 178, 117,
  9, 131, 44, 26, 27, 110, 90, 160, 82, 59, 214, 179, 41, 227, 47, 132,
  83, 209, 0, 237, 32, 252, 177, 91, 106, 203, 190, 57, 74, 76, 88, 207,
  208, 239, 170, 251, 67, 77, 51, 133, 69, 249, 2, 127, 80, 60, 159, 168,
  81, 163, 64, 143, 146, 157, 56, 245, 188, 182, 218, 33, 16, 255, 243, 210,
  205, 12, 19, 236, 95, 151, 68, 23, 196, 167, 126, 61, 100, 93, 25, 115,
  96, 129, 79, 220, 34, 42, 144, 136, 70, 238, 184, 20, 222, 94, 11, 219,
  224, 50, 58, 10, 73, 6, 36, 92, 194, 211, 172, 98, 145, 149, 228, 121,
  231, 200, 55, 109, 141, 213, 78, 169, 108, 86, 244, 234, 101, 122, 174, 8,
  186, 120, 37, 46, 28, 166, 180, 198, 232, 221, 116, 31, 75, 189, 139, 138,
  112, 62, 181, 102, 72, 3, 246, 14, 97, 53, 87, 185, 134, 193, 29, 158,
  225, 248, 152, 17, 105, 217, 142, 148, 155, 30, 135, 233, 206, 85, 40, 223,
  140, 161, 137, 13, 191, 230, 66, 104, 65, 153, 45, 15, 176, 84, 187, 22 >>

\* The exclusive or of the bytes of a sequence.
XorAll(bytes) == FoldLeft(LAMBDA x, y : x ^^ y, 0, bytes)

\* Mutant of SubByte: the index is off by one at the end of the table.
SubByteClamped(x) == IF x = 255 THEN s_box[255] ELSE s_box[x + 1]

SubByte(x) == s_box[x + 1]

\* sub_bytes.
sub_bytes(s) == [i \in 1..16 |-> SubByte(s[i])]

\* Mutant of shift_rows: the rows are shifted to the right.
ShiftRight(s) == [i \in 1..16 |-> s[(((i - 1) + 12 * ((i - 1) % 4)) % 16) + 1]]

\* shift_rows: row i % 4 of the column-major block moves left by i % 4.
shift_rows(s) == [i \in 1..16 |-> s[(((i - 1) + 4 * ((i - 1) % 4)) % 16) + 1]]

\* Mutant of Double: no reduction by the field's polynomial.
DoublePlain(a) == (2 * a) % 256

\* One turn of gmult's loop for a: shift left, reduce.
Double(a) == IF a >= 128 THEN ((2 * a) % 256) ^^ 27 ELSE 2 * a

\* gmult: eight turns of the loop.
gmult(x, y) ==
    LET Turn(g, i) == [p |-> IF g.b % 2 = 1 THEN g.p ^^ g.a ELSE g.p,
                       a |-> Double(g.a), b |-> g.b \div 2]
    IN  FoldLeft(Turn, [p |-> 0, a |-> x, b |-> y], [i \in 1..8 |-> i]).p

\* mix_columns: byte i of column c.
mix_columns(s) ==
    [k \in 1..16 |->
        LET At(d) == s[4 * ((k - 1) \div 4) + (((k - 1) + d) % 4) + 1]
        IN  XorAll(<<gmult(2, At(0)), gmult(3, At(1)), At(2), At(3)>>)]

add_round_key(s, k) == [i \in 1..16 |-> s[i] ^^ k[i]]

Rcon == <<1, 2, 4, 8, 16, 32, 64, 128, 27, 54>>

\* Mutant of NextRoundKey: the last word is substituted but not rotated.
NoRotation(k, c) ==
    LET first == [j \in 1..4 |-> SubByte(k[12 + j]) ^^ (IF j = 1 THEN c ELSE 0)]
        Word(done, w) == done \o [j \in 1..4 |->
            k[4 * w + j] ^^ (IF w = 0 THEN first[j] ELSE done[4 * w - 4 + j])]
    IN  FoldLeft(Word, <<>>, <<0, 1, 2, 3>>)

\* Four turns of key_expansion's loop: the sixteen bytes after k.
NextRoundKey(k, c) ==
    LET first == [j \in 1..4 |-> SubByte(k[13 + (j % 4)]) ^^ (IF j = 1 THEN c ELSE 0)]
        Word(done, w) == done \o [j \in 1..4 |->
            k[4 * w + j] ^^ (IF w = 0 THEN first[j] ELSE done[4 * w - 4 + j])]
    IN  FoldLeft(Word, <<>>, <<0, 1, 2, 3>>)

\* key_expansion: rk + 16 * n is RoundKeys[n + 1].
RoundKeys ==
    FoldLeft(LAMBDA ks, c : Append(ks, NextRoundKey(Last(ks), c)), <<secret_key>>, Rcon)

\* aes128_encrypt up to its loop.
Init ==
    /\ pt \in Plaintexts
    /\ state = add_round_key(pt, RoundKeys[1])
    /\ r = 0

Round ==
    /\ r < Nr - 1 /\ r' = r + 1
    /\ state' = add_round_key(mix_columns(shift_rows(sub_bytes(state))), RoundKeys[r + 2])
    /\ UNCHANGED pt

\* The last round has no mix_columns; state is the ciphertext.
LastRound ==
    /\ r = Nr - 1 /\ r' = Nr
    /\ state' = add_round_key(shift_rows(sub_bytes(state)), RoundKeys[Nr + 1])
    /\ UNCHANGED pt

Next == Round \/ LastRound

Spec == Init /\ [][Next]_vars

-----------------------------------------------------------------------------
\* The references.  The product of two polynomials over GF(2), modulo
\* x^8 + x^4 + x^3 + x + 1.
Product(a, b) ==
    LET raw == FoldLeft(LAMBDA p, i : IF (b \div 2^i) % 2 = 1 THEN p ^^ (a * 2^i) ELSE p,
                        0, <<0, 1, 2, 3, 4, 5, 6, 7>>)
    IN  FoldLeft(LAMBDA p, d : IF p >= 2^d THEN p ^^ (283 * 2^(d - 8)) ELSE p,
                 raw, <<14, 13, 12, 11, 10, 9, 8>>)

\* Rotation of a byte to the left.
Rotate(x, n) == ((x * 2^n) % 256) + (x \div 2^(8 - n))

\* The inverse of the affine transformation that ends the construction of the s-box.
InverseAffine(y) == XorAll(<<Rotate(y, 1), Rotate(y, 3), Rotate(y, 6), 5>>)

InverseSub == [y \in Byte |-> CHOOSE x \in Byte : s_box[x + 1] = y]

\* Times 14, 11, 13 and 9.
Multiple == [m \in {9, 11, 13, 14} |-> [x \in Byte |-> Product(m, x)]]

InverseMix(s) ==
    [k \in 1..16 |->
        LET At(d) == s[4 * ((k - 1) \div 4) + (((k - 1) + d) % 4) + 1]
        IN  XorAll(<<Multiple[14][At(0)], Multiple[11][At(1)], Multiple[13][At(2)], Multiple[9][At(3)]>>)]

\* Rows back to the right, and each byte back through the s-box.
InverseShiftSub(s) ==
    [i \in 1..16 |-> InverseSub[s[(((i - 1) + 12 * ((i - 1) % 4)) % 16) + 1]]]

\* The block of which round n has made s.
Undone(s, n) ==
    LET keyed == [i \in 1..16 |-> s[i] ^^ RoundKeys[n + 1][i]]
    IN  InverseShiftSub(IF n = Nr THEN keyed ELSE InverseMix(keyed))

-----------------------------------------------------------------------------
\* Every substitution is the multiplicative inverse followed by the affine
\* transformation (aes_128.c:6).
SubstitutionIsInverse ==
    r = 0 => \A x \in Byte :
        LET y == InverseAffine(SubByte(x)) IN IF x = 0 THEN y = 0 ELSE Product(x, y) = 1

\* gmult is the product of the field for the bytes that mix_columns multiplies,
\* also where shifting them overflows (aes_128.c:32-33).
GmultIsProduct ==
    r < Nr => \A i \in 1..16 : \A m \in {2, 3} :
        gmult(m, SubByte(state[i])) = Product(m, SubByte(state[i]))

\* What a round started from can be computed back from its result, so that no two
\* random numbers have the same encryption: what the engines take a match to mean
\* (aes_128.c:115-124).
RoundsInvertible == [][Undone(state', r') = state]_vars

\* The vector of FIPS-197, appendix B, whose key is the one in the sources
\* (05_engine_post.c:21).
Fips197 ==
    r = Nr /\ pt = <<50, 67, 246, 168, 136, 90, 48, 141, 49, 49, 152, 162, 224, 55, 7, 52>>
    => state = <<57, 37, 132, 29, 2, 220, 9, 251, 220, 17, 133, 151, 25, 106, 11, 50>>

=============================================================================
