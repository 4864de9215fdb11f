-------------------------- MODULE StringLib_proofs --------------------------
(* Proofs that the string functions do what they are for, on arrays of any  *)
(* size, for strings of any length and any sequence of calls.               *)
EXTENDS StringLib, TLAPS

\* What kind of value each variable has; that i and j are indices of dest follows
\* from what the loops preserve.
Kinds ==
  /\ mem \in [Cells -> Char \cup {NUL, Behind}]
  /\ pc \in {"idle", "find", "copy", "compare"}
  /\ call \in Calls
  /\ i \in Nat /\ j \in Nat /\ ret \in Int
  /\ value \in [set : BOOLEAN, str : Seq(Char)]

\* Where the result of the call begins to be written.
Base == IF call.op \in Cats THEN Len(value.str) ELSE 0

\* Between calls, and while a loop only reads, dest holds value.
ValueHeld == pc # "copy" /\ value.set => Holds(mem, value.str)

FindInv == pc = "find" =>
  /\ value.set /\ call.op \in Cats
  /\ Len(After(call, value.str)) < Size
  /\ i <= Len(value.str) /\ j = 0

\* The second loop has written the first j characters.
CopyInv == pc = "copy" =>
  /\ call.op \in Copies \cup Cats
  /\ Len(After(call, value.str)) < Size
  /\ j <= Len(Taken(call)) /\ i = Base + j
  /\ \A k \in 1..Base : mem[k - 1] = value.str[k]
  /\ \A k \in 1..j : mem[Base + k - 1] = call.t[k]

\* The first i characters are there and equal.
CompareInv == pc = "compare" =>
  /\ value.set /\ call.op \in Cmps
  /\ i <= Len(value.str) /\ i <= Len(call.t)
  /\ call.op \in Counted => i <= call.n
  /\ \A k \in 1..i : value.str[k] = call.t[k]

\* What the code returns for any two strings: whether they are the same as far as
\* both go, or up to the count.
ResultInv ==
  pc = "idle" /\ call.op \in Cmps =>
    LET s == value.str
        t == call.t
        n == IF call.op = "astrncmp" THEN call.n
             ELSE IF Len(s) < Len(t) THEN Len(s) ELSE Len(t)
    IN  ret = (IF SamePrefix(s, t, n) THEN 0 ELSE -1)

IInv ==
  /\ Kinds
  /\ mem[Size] = Behind
  /\ ValueHeld
  /\ FindInv
  /\ CopyInv
  /\ CompareInv
  /\ ResultInv

USE StringAssumption

LEMMA TakenIsPrefix ==
  ASSUME NEW c, c.t \in Seq(Char), c.n \in Nat
  PROVE  /\ Taken(c) \in Seq(Char)
         /\ Len(Taken(c)) = IF c.op \in Counted /\ c.n < Len(c.t) THEN c.n ELSE Len(c.t)
         /\ \A k \in 1..Len(Taken(c)) : Taken(c)[k] = c.t[k]
<1>1. CASE c.op \in Counted /\ c.n < Len(c.t)
  BY <1>1 DEF Taken
<1>2. CASE ~(c.op \in Counted /\ c.n < Len(c.t))
  BY <1>2 DEF Taken
<1>3. QED
  BY <1>1, <1>2

\* The word of a call is a string, and its count a number.
LEMMA CallType ==
  ASSUME NEW c \in Calls
  PROVE  c.t \in Seq(Char) /\ c.n \in Nat /\ Len(c.t) \in Nat
<1>1. <<>> \in Seq(Char) /\ Words \subseteq Seq(Char) /\ Counts \subseteq Nat
  OBVIOUS
<1>2. c.t \in Words \cup {<<>>} /\ c.n \in Counts \cup {0}
  BY DEF Calls
<1>3. c.t \in Seq(Char)
  BY <1>1, <1>2
<1>4. c.n \in Counts => c.n \in Nat
  BY <1>1, Zenon
<1>5. c.n = 0 => c.n \in Nat
  OBVIOUS
<1>6. c.n \in Nat
  BY <1>2, <1>4, <1>5, Zenon
<1>7. QED
  BY <1>3, <1>6

\* In the second loop, there is more exactly while j has not reached the end of
\* what is to be taken.
LEMMA MoreMeansLess ==
  ASSUME Kinds, j <= Len(Taken(call))
  PROVE  More <=> j < Len(Taken(call))
<1>1. call.t \in Seq(Char) /\ call.n \in Nat /\ Len(call.t) \in Nat /\ j \in Nat
  BY CallType DEF Kinds
<1>2. j < Len(call.t) => At(call.t, j) \in Char
  BY <1>1 DEF At
<1>3. ~(j < Len(call.t)) => At(call.t, j) = NUL
  BY <1>1 DEF At
<1>4. Len(Taken(call)) = IF call.op \in Counted /\ call.n < Len(call.t) THEN call.n ELSE Len(call.t)
  BY <1>1, TakenIsPrefix
<1>5. QED
  BY <1>1, <1>2, <1>3, <1>4 DEF More

LEMMA TypeInit == Init => Kinds
<1> SUFFICES ASSUME Init PROVE Kinds
  OBVIOUS
<1>1. /\ pc = "idle" /\ call = [op |-> "none", t |-> <<>>, n |-> 0]
      /\ i = 0 /\ j = 0 /\ ret = 0
  BY DEF Init
<1>2. /\ mem \in [Cells -> Char \cup {NUL, Behind}]
      /\ value \in [set : BOOLEAN, str : Seq(Char)]
  <2>1. CASE /\ \E ch \in Char : mem = [k \in Cells |-> IF k = Size THEN Behind ELSE ch]
             /\ value = [set |-> FALSE, str |-> <<>>]
    BY <2>1
  <2>2. ASSUME NEW w \in Words,
               mem = [k \in Cells |-> IF k = Size THEN Behind
                                      ELSE IF k < Len(w) THEN w[k + 1] ELSE NUL],
               value = [set |-> TRUE, str |-> w]
        PROVE  /\ mem \in [Cells -> Char \cup {NUL, Behind}]
               /\ value \in [set : BOOLEAN, str : Seq(Char)]
    <3>1. w \in Seq(Char)
      OBVIOUS
    <3>2. \A k \in Cells : k < Len(w) => w[k + 1] \in Char
      BY <3>1 DEF Cells
    <3>3. QED
      BY <2>2, <3>1, <3>2
  <2>3. QED
    BY <2>1, <2>2 DEF Init
<1>3. QED
  BY <1>1, <1>2 DEF Kinds, Calls, Ops

LEMMA InvInit == Init => IInv
<1> SUFFICES ASSUME Init PROVE IInv
  OBVIOUS
<1>1. Kinds
  BY TypeInit
<1>2. pc = "idle" /\ call.op = "none"
  BY DEF Init
<1>3. mem[Size] = Behind
  BY DEF Init, Cells
<1>4. value.set => Holds(mem, value.str)
  <2>1. ASSUME NEW w \in Words, Len(w) < Size,
               mem = [k \in Cells |-> IF k = Size THEN Behind
                                      ELSE IF k < Len(w) THEN w[k + 1] ELSE NUL]
        PROVE  Holds(mem, w)
    <3>1. w \in Seq(Char) /\ Len(w) \in Nat
      OBVIOUS
    <3>2. \A k \in 1..Len(w) : k - 1 \in Cells /\ k - 1 < Len(w) /\ k - 1 # Size /\ (k - 1) + 1 = k
      BY <2>1, <3>1 DEF Cells
    <3>3. Len(w) \in Cells /\ Len(w) # Size
      BY <2>1, <3>1 DEF Cells
    <3>4. QED
      BY <2>1, <3>1, <3>2, <3>3 DEF Holds
  <2>2. QED
    BY <2>1 DEF Init
<1>5. QED
  BY <1>1, <1>2, <1>3, <1>4 DEF IInv, ValueHeld, FindInv, CopyInv, CompareInv, ResultInv, Cmps

\* What the calls that write leave: where the characters of the result are from.
LEMMA AfterIsMade ==
  ASSUME Kinds, call.op \in Copies \cup Cats
  PROVE  /\ After(call, value.str) \in Seq(Char)
         /\ Base \in Nat /\ Len(Taken(call)) \in Nat
         /\ Len(After(call, value.str)) = Base + Len(Taken(call))
         /\ \A k \in 1..Base : After(call, value.str)[k] = value.str[k]
         /\ \A k \in 1..Len(Taken(call)) : After(call, value.str)[Base + k] = call.t[k]
<1>1. value.str \in Seq(Char) /\ Len(value.str) \in Nat
  BY DEF Kinds
<1>2. call.t \in Seq(Char) /\ call.n \in Nat /\ Len(call.t) \in Nat
  BY CallType DEF Kinds
<1>3. /\ Taken(call) \in Seq(Char)
      /\ \A k \in 1..Len(Taken(call)) : Taken(call)[k] = call.t[k]
  BY <1>2, TakenIsPrefix
<1>4. CASE call.op \in Cats
  <2>1. Base = Len(value.str) /\ After(call, value.str) = value.str \o Taken(call)
    BY <1>4 DEF Base, After
  <2>2. QED
    BY <1>1, <1>3, <2>1
<1>5. CASE call.op \notin Cats
  <2>1. Base = 0 /\ After(call, value.str) = Taken(call)
    BY <1>5 DEF Base, After
  <2>2. QED
    BY <1>3, <2>1
<1>6. QED
  BY <1>4, <1>5

LEMMA TypeStep == IInv /\ [Next]_vars => Kinds'
<1> SUFFICES ASSUME IInv, [Next]_vars PROVE Kinds'
  OBVIOUS
<1>0. Kinds
  BY DEF IInv
<1>1. CASE Begin
  <2>1. call' \in Calls
    BY <1>1 DEF Begin, Calls, Ops
  <2>2. pc' \in {"idle", "find", "copy", "compare"} /\ i' = 0 /\ j' = 0
        /\ UNCHANGED <<mem, ret, value>>
    BY <1>1 DEF Begin
  <2>3. QED
    BY <1>0, <2>1, <2>2 DEF Kinds
<1>2. CASE FindEnd
  BY <1>0, <1>2 DEF FindEnd, Kinds
<1>3. CASE CopyChar
  <2>1. At(call.t, j) \in Char \cup {NUL}
    BY <1>0, CallType DEF At, Kinds
  <2>2. mem' \in [Cells -> Char \cup {NUL, Behind}]
    BY <1>0, <1>3, <2>1 DEF CopyChar, Kinds
  <2>3. QED
    BY <1>0, <1>3, <2>2 DEF CopyChar, Kinds
<1>4. CASE Terminate
  <2>1. mem' \in [Cells -> Char \cup {NUL, Behind}]
    BY <1>0, <1>4 DEF Terminate, Kinds
  <2>2. call.op \in Copies \cup Cats
    BY <1>4 DEF IInv, CopyInv, Terminate
  <2>3. value' \in [set : BOOLEAN, str : Seq(Char)]
    BY <1>0, <1>4, <2>2, AfterIsMade DEF Terminate
  <2>4. QED
    BY <1>0, <1>4, <2>1, <2>3 DEF Terminate, Kinds
<1>5. CASE CompareChar
  BY <1>0, <1>5 DEF CompareChar, Kinds
<1>6. CASE CompareEnd
  BY <1>0, <1>6 DEF CompareEnd, AtEnd, Kinds
<1>7. CASE UNCHANGED vars
  BY <1>0, <1>7 DEF vars, Kinds
<1>8. QED
  BY <1>1, <1>2, <1>3, <1>4, <1>5, <1>6, <1>7 DEF Next

LEMMA BeginStep == IInv /\ Begin => IInv'
<1> SUFFICES ASSUME IInv, Begin PROVE IInv'
  OBVIOUS
<1>1. Kinds /\ Kinds'
  BY TypeStep DEF IInv, Next
<1>2. /\ pc = "idle" /\ i' = 0 /\ j' = 0 /\ UNCHANGED <<mem, ret, value>>
      /\ call'.op \in Ops
      /\ call'.op \in Copies \/ value.set
      /\ call'.op \in Copies \cup Cats => Len(After(call', value.str)) < Size
  BY DEF Begin, MayCall, Ops
<1>3. /\ pc' = "find" <=> call'.op \in Cats
      /\ pc' = "compare" <=> call'.op \in Cmps
      /\ pc' = "copy" <=> call'.op \in Copies
      /\ pc' # "idle"
  BY <1>2 DEF Begin, Ops, Copies, Cats, Cmps
<1>4. call'.t \in Seq(Char) /\ call'.n \in Nat /\ Len(call'.t) \in Nat
  BY <1>1, CallType DEF Kinds
<1>5. value.str \in Seq(Char) /\ Len(value.str) \in Nat
  BY <1>1 DEF Kinds
<1>6. mem'[Size] = Behind
  BY <1>2 DEF IInv
<1>7. ValueHeld'
  BY <1>2 DEF IInv, ValueHeld
<1>8. FindInv'
  BY <1>2, <1>3, <1>5 DEF FindInv, Cats, Copies
<1>9. CopyInv'
  <2> SUFFICES ASSUME pc' = "copy" PROVE CopyInv'
    BY DEF CopyInv
  <2>1. Base' = 0
    BY <1>3 DEF Base, Copies, Cats
  <2>2. Len(Taken(call')) \in Nat
    BY <1>4, TakenIsPrefix
  <2>3. QED
    BY <1>2, <1>3, <2>1, <2>2 DEF CopyInv
<1>10. CompareInv'
  BY <1>2, <1>3, <1>4, <1>5 DEF CompareInv, Cmps, Copies
<1>11. ResultInv'
  BY <1>3 DEF ResultInv
<1>12. QED
  BY <1>1, <1>6, <1>7, <1>8, <1>9, <1>10, <1>11 DEF IInv

LEMMA FindEndStep == IInv /\ FindEnd => IInv'
<1> SUFFICES ASSUME IInv, FindEnd PROVE IInv'
  OBVIOUS
<1>1. Kinds /\ Kinds'
  BY TypeStep DEF IInv, Next
<1>2. /\ pc = "find" /\ UNCHANGED <<mem, call, j, ret, value>>
      /\ value.set /\ call.op \in Cats
      /\ Len(After(call, value.str)) < Size
      /\ i <= Len(value.str) /\ j = 0
      /\ Holds(mem, value.str) /\ mem[Size] = Behind
  BY DEF FindEnd, IInv, FindInv, ValueHeld
<1>3. value.str \in Seq(Char) /\ Len(value.str) \in Nat /\ i \in Nat
  BY <1>1 DEF Kinds
<1>4. (After(call, value.str))' = After(call, value.str) /\ Base' = Len(value.str)
  BY <1>2 DEF After, Taken, Base
<1>5. mem[i] = NUL <=> i = Len(value.str)
  <2>1. mem[Len(value.str)] = NUL
    BY <1>2 DEF Holds
  <2>2. ASSUME i < Len(value.str) PROVE mem[i] # NUL
    <3>1. i + 1 \in 1..Len(value.str)
      BY <1>3, <2>2
    <3>2. mem[(i + 1) - 1] = value.str[i + 1] /\ value.str[i + 1] \in Char
      BY <1>2, <1>3, <3>1 DEF Holds
    <3>3. QED
      BY <1>3, <3>2
  <2>3. QED
    BY <1>2, <1>3, <2>1, <2>2
<1>6. CASE mem[i] # NUL
  <2>1. pc' = "find" /\ i' = i + 1 /\ i' <= Len(value.str)
    BY <1>2, <1>3, <1>5, <1>6 DEF FindEnd
  <2>2. FindInv'
    BY <1>2, <1>4, <2>1 DEF FindInv
  <2>3. ValueHeld' /\ CopyInv' /\ CompareInv' /\ ResultInv'
    BY <1>2, <2>1 DEF ValueHeld, CopyInv, CompareInv, ResultInv
  <2>4. QED
    BY <1>1, <1>2, <2>2, <2>3 DEF IInv
<1>7. CASE mem[i] = NUL
  <2>1. pc' = "copy" /\ i' = Len(value.str)
    BY <1>5, <1>7 DEF FindEnd
  <2>2. Len(Taken(call)) \in Nat /\ (Taken(call))' = Taken(call)
    BY <1>1, <1>2, AfterIsMade DEF Taken
  <2>3. \A k \in 1..Len(value.str) : mem[k - 1] = value.str[k]
    BY <1>2 DEF Holds
  <2>4. CopyInv'
    BY <1>2, <1>3, <1>4, <2>1, <2>2, <2>3 DEF CopyInv
  <2>5. ValueHeld' /\ FindInv' /\ CompareInv' /\ ResultInv'
    BY <1>2, <2>1 DEF ValueHeld, FindInv, CompareInv, ResultInv
  <2>6. QED
    BY <1>1, <1>2, <2>4, <2>5 DEF IInv
<1>8. QED
  BY <1>6, <1>7

LEMMA CopyCharStep == IInv /\ CopyChar => IInv'
<1> SUFFICES ASSUME IInv, CopyChar PROVE IInv'
  OBVIOUS
<1>1. Kinds /\ Kinds'
  BY TypeStep DEF IInv, Next
<1>2. /\ pc = "copy" /\ More
      /\ mem' = [mem EXCEPT ![i] = At(call.t, j)]
      /\ i' = i + 1 /\ j' = j + 1
      /\ UNCHANGED <<pc, call, ret, value>>
  BY DEF CopyChar
<1>3. /\ call.op \in Copies \cup Cats
      /\ Len(After(call, value.str)) < Size
      /\ j <= Len(Taken(call)) /\ i = Base + j
      /\ \A k \in 1..Base : mem[k - 1] = value.str[k]
      /\ \A k \in 1..j : mem[Base + k - 1] = call.t[k]
      /\ mem[Size] = Behind
  BY <1>2 DEF IInv, CopyInv
<1>4. /\ Base \in Nat /\ Len(Taken(call)) \in Nat /\ j \in Nat /\ Size \in Nat
      /\ Len(After(call, value.str)) = Base + Len(Taken(call))
  BY <1>1, <1>3, AfterIsMade DEF Kinds
<1>5. j < Len(Taken(call)) /\ i < Size
  BY <1>1, <1>2, <1>3, <1>4, MoreMeansLess
<1>6. At(call.t, j) = call.t[j + 1]
  <2>1. call.t \in Seq(Char) /\ call.n \in Nat /\ Len(call.t) \in Nat
    BY <1>1, CallType DEF Kinds
  <2>2. Len(Taken(call)) <= Len(call.t)
    BY <2>1, TakenIsPrefix
  <2>3. QED
    BY <1>4, <1>5, <2>1, <2>2 DEF At
<1>7. mem \in [Cells -> Char \cup {NUL, Behind}] /\ i \in Cells
  BY <1>1, <1>3, <1>4, <1>5 DEF Kinds, Cells
<1>8. \A k \in Cells : k # i => mem'[k] = mem[k]
  BY <1>2, <1>7
<1>9. mem'[i] = call.t[j + 1]
  BY <1>2, <1>6, <1>7
<1>10. mem'[Size] = Behind
  BY <1>3, <1>4, <1>5, <1>8 DEF Cells
<1>11. Base' = Base /\ (After(call, value.str))' = After(call, value.str) /\ (Taken(call))' = Taken(call)
  BY <1>2 DEF Base, After, Taken
<1>12. \A k \in 1..Base : mem'[k - 1] = value.str[k]
  <2> SUFFICES ASSUME NEW k \in 1..Base PROVE mem'[k - 1] = value.str[k]
    OBVIOUS
  <2>1. k - 1 \in Cells /\ k - 1 # i
    BY <1>3, <1>4, <1>5 DEF Cells
  <2>2. QED
    BY <1>3, <1>8, <2>1
<1>13. \A k \in 1..(j + 1) : mem'[Base + k - 1] = call.t[k]
  <2> SUFFICES ASSUME NEW k \in 1..(j + 1) PROVE mem'[Base + k - 1] = call.t[k]
    OBVIOUS
  <2>1. CASE k = j + 1
    <3>1. Base + k - 1 = i
      BY <1>3, <1>4, <2>1
    <3>2. QED
      BY <1>9, <2>1, <3>1
  <2>2. CASE k # j + 1
    <3>1. k \in 1..j /\ Base + k - 1 \in Cells /\ Base + k - 1 # i
      BY <1>3, <1>4, <1>5, <2>2 DEF Cells
    <3>2. QED
      BY <1>3, <1>8, <3>1
  <2>3. QED
    BY <2>1, <2>2
<1>14. CopyInv'
  <2>1. j + 1 <= Len(Taken(call)) /\ i + 1 = Base + (j + 1)
    BY <1>3, <1>4, <1>5
  <2>2. QED
    BY <1>2, <1>3, <1>11, <1>12, <1>13, <2>1 DEF CopyInv
<1>15. ValueHeld' /\ FindInv' /\ CompareInv' /\ ResultInv'
  BY <1>2 DEF ValueHeld, FindInv, CompareInv, ResultInv
<1>16. QED
  BY <1>1, <1>10, <1>14, <1>15 DEF IInv

LEMMA TerminateStep == IInv /\ Terminate => IInv'
<1> SUFFICES ASSUME IInv, Terminate PROVE IInv'
  OBVIOUS
<1>1. Kinds /\ Kinds'
  BY TypeStep DEF IInv, Next
<1>2. /\ pc = "copy" /\ ~More
      /\ mem' = [mem EXCEPT ![i] = NUL]
      /\ pc' = "idle"
      /\ value'.set /\ value'.str = After(call, value.str)
      /\ UNCHANGED <<call, i, j, ret>>
  BY DEF Terminate
<1>3. /\ call.op \in Copies \cup Cats
      /\ Len(After(call, value.str)) < Size
      /\ j <= Len(Taken(call)) /\ i = Base + j
      /\ \A k \in 1..Base : mem[k - 1] = value.str[k]
      /\ \A k \in 1..j : mem[Base + k - 1] = call.t[k]
      /\ mem[Size] = Behind
  BY <1>2 DEF IInv, CopyInv
<1>4. /\ Base \in Nat /\ Len(Taken(call)) \in Nat /\ j \in Nat /\ Size \in Nat
      /\ Len(After(call, value.str)) = Base + Len(Taken(call))
      /\ \A k \in 1..Base : After(call, value.str)[k] = value.str[k]
      /\ \A k \in 1..Len(Taken(call)) : After(call, value.str)[Base + k] = call.t[k]
  BY <1>1, <1>3, AfterIsMade DEF Kinds
<1>5. j = Len(Taken(call)) /\ i = Len(After(call, value.str))
  BY <1>1, <1>2, <1>3, <1>4, MoreMeansLess
<1>6. mem \in [Cells -> Char \cup {NUL, Behind}] /\ i \in Cells /\ i # Size /\ Size \in Cells
  BY <1>1, <1>3, <1>4, <1>5 DEF Kinds, Cells
<1>7. mem'[i] = NUL /\ \A k \in Cells : k # i => mem'[k] = mem[k]
  BY <1>2, <1>6
<1>8. mem'[Size] = Behind
  BY <1>3, <1>6, <1>7
<1>9. \A k \in 1..Len(After(call, value.str)) : mem'[k - 1] = After(call, value.str)[k]
  <2> SUFFICES ASSUME NEW k \in 1..Len(After(call, value.str))
               PROVE  mem'[k - 1] = After(call, value.str)[k]
    OBVIOUS
  <2>1. k - 1 \in Cells /\ k - 1 # i
    BY <1>3, <1>4, <1>5 DEF Cells
  <2>2. CASE k <= Base
    <3>1. k \in 1..Base
      BY <1>4, <2>2
    <3>2. QED
      BY <1>3, <1>4, <1>7, <2>1, <3>1
  <2>3. CASE ~(k <= Base)
    <3>1. k - Base \in 1..j /\ Base + (k - Base) = k /\ Base + (k - Base) - 1 = k - 1
      BY <1>4, <1>5, <2>3
    <3>2. mem[k - 1] = call.t[k - Base]
      BY <1>3, <3>1
    <3>3. After(call, value.str)[k] = call.t[k - Base]
      BY <1>4, <1>5, <3>1
    <3>4. QED
      BY <1>7, <2>1, <3>2, <3>3
  <2>4. QED
    BY <2>2, <2>3
<1>10. Holds(mem', value'.str)
  BY <1>2, <1>3, <1>5, <1>7, <1>9 DEF Holds
<1>11. ValueHeld'
  BY <1>10 DEF ValueHeld, Holds
<1>12. FindInv' /\ CopyInv' /\ CompareInv'
  BY <1>2 DEF FindInv, CopyInv, CompareInv
<1>13. ResultInv'
  BY <1>2, <1>3 DEF ResultInv, Copies, Cats, Cmps
<1>14. QED
  BY <1>1, <1>8, <1>11, <1>12, <1>13 DEF IInv

\* What the two loops of comparison see: the characters of the strings, and NUL
\* behind the last.
LEMMA CharactersSeen ==
  ASSUME IInv, pc = "compare"
  PROVE  /\ value.str \in Seq(Char) /\ Len(value.str) \in Nat
         /\ call.t \in Seq(Char) /\ Len(call.t) \in Nat
         /\ call.n \in Nat /\ i \in Nat
         /\ mem[i] = NUL <=> i = Len(value.str)
         /\ i < Len(value.str) => mem[i] = value.str[i + 1]
         /\ At(call.t, i) = NUL <=> i = Len(call.t)
         /\ i < Len(call.t) => At(call.t, i) = call.t[i + 1]
<1>1. Kinds
  BY DEF IInv
<1>2. /\ value.str \in Seq(Char) /\ Len(value.str) \in Nat
      /\ call.t \in Seq(Char) /\ Len(call.t) \in Nat
      /\ call.n \in Nat /\ i \in Nat
  BY <1>1, CallType DEF Kinds
<1>3. i <= Len(value.str) /\ i <= Len(call.t) /\ Holds(mem, value.str)
  BY DEF IInv, CompareInv, ValueHeld
<1>4. mem[Len(value.str)] = NUL
  BY <1>3 DEF Holds
<1>5. i < Len(value.str) => mem[i] = value.str[i + 1] /\ mem[i] \in Char
  <2> SUFFICES ASSUME i < Len(value.str) PROVE mem[i] = value.str[i + 1] /\ mem[i] \in Char
    OBVIOUS
  <2>1. i + 1 \in 1..Len(value.str) /\ (i + 1) - 1 = i
    BY <1>2
  <2>2. QED
    BY <1>2, <1>3, <2>1 DEF Holds
<1>6. i < Len(call.t) => At(call.t, i) = call.t[i + 1] /\ At(call.t, i) \in Char
  BY <1>2 DEF At
<1>7. i = Len(call.t) => At(call.t, i) = NUL
  BY <1>2 DEF At
<1>8. QED
  BY <1>2, <1>3, <1>4, <1>5, <1>6, <1>7

LEMMA CompareCharStep == IInv /\ CompareChar => IInv'
<1> SUFFICES ASSUME IInv, CompareChar PROVE IInv'
  OBVIOUS
<1>1. Kinds /\ Kinds'
  BY TypeStep DEF IInv, Next
<1>2. pc = "compare" /\ Comparing /\ UNCHANGED <<mem, call, j, value>>
  BY DEF CompareChar
<1>3. /\ value.str \in Seq(Char) /\ Len(value.str) \in Nat
      /\ call.t \in Seq(Char) /\ Len(call.t) \in Nat
      /\ call.n \in Nat /\ i \in Nat
      /\ mem[i] = NUL <=> i = Len(value.str)
      /\ i < Len(value.str) => mem[i] = value.str[i + 1]
      /\ At(call.t, i) = NUL <=> i = Len(call.t)
      /\ i < Len(call.t) => At(call.t, i) = call.t[i + 1]
  BY <1>2, CharactersSeen
<1>4. /\ value.set /\ call.op \in Cmps
      /\ i <= Len(value.str) /\ i <= Len(call.t)
      /\ \A k \in 1..i : value.str[k] = call.t[k]
      /\ Holds(mem, value.str) /\ mem[Size] = Behind
  BY <1>2 DEF IInv, CompareInv, ValueHeld
<1>5. /\ i < Len(value.str) /\ i < Len(call.t)
      /\ call.op \in Counted => i < call.n
      /\ mem[i] = value.str[i + 1] /\ At(call.t, i) = call.t[i + 1]
  BY <1>2, <1>3, <1>4 DEF Comparing
<1>6. CASE mem[i] # At(call.t, i)
  <2>1. ret' = -1 /\ pc' = "idle"
    BY <1>6 DEF CompareChar
  <2>2. value.str[i + 1] # call.t[i + 1]
    BY <1>5, <1>6
  <2>3. ASSUME NEW n \in Nat, i < n PROVE ~SamePrefix(value.str, call.t, n)
    <3>1. i + 1 \in 1..n
      BY <1>3, <2>3
    <3>2. QED
      BY <2>2, <3>1 DEF SamePrefix
  <2>4. ResultInv'
    BY <1>2, <1>3, <1>5, <2>1, <2>3 DEF ResultInv, Counted
  <2>5. ValueHeld' /\ FindInv' /\ CopyInv' /\ CompareInv'
    BY <1>2, <1>4, <2>1 DEF ValueHeld, FindInv, CopyInv, CompareInv
  <2>6. QED
    BY <1>1, <1>2, <1>4, <2>4, <2>5 DEF IInv
<1>7. CASE mem[i] = At(call.t, i)
  <2>1. pc' = "compare" /\ i' = i + 1
    BY <1>2, <1>7 DEF CompareChar
  <2>2. \A k \in 1..(i + 1) : value.str[k] = call.t[k]
    <3>1. value.str[i + 1] = call.t[i + 1]
      BY <1>5, <1>7
    <3>2. \A k \in 1..(i + 1) : k \in 1..i \/ k = i + 1
      BY <1>3
    <3>3. QED
      BY <1>4, <3>1, <3>2
  <2>3. i + 1 <= Len(value.str) /\ i + 1 <= Len(call.t) /\ (call.op \in Counted => i + 1 <= call.n)
    BY <1>3, <1>5
  <2>4. CompareInv'
    BY <1>2, <1>4, <2>1, <2>2, <2>3 DEF CompareInv
  <2>5. ValueHeld' /\ FindInv' /\ CopyInv' /\ ResultInv'
    BY <1>2, <1>4, <2>1 DEF ValueHeld, FindInv, CopyInv, ResultInv
  <2>6. QED
    BY <1>1, <1>2, <1>4, <2>4, <2>5 DEF IInv
<1>8. QED
  BY <1>6, <1>7

LEMMA CompareEndStep == IInv /\ CompareEnd => IInv'
<1> SUFFICES ASSUME IInv, CompareEnd PROVE IInv'
  OBVIOUS
<1>1. Kinds /\ Kinds'
  BY TypeStep DEF IInv, Next
<1>2. /\ pc = "compare" /\ ~Comparing /\ ret' = AtEnd /\ pc' = "idle"
      /\ UNCHANGED <<mem, call, i, j, value>>
  BY DEF CompareEnd
<1>3. /\ value.str \in Seq(Char) /\ Len(value.str) \in Nat
      /\ call.t \in Seq(Char) /\ Len(call.t) \in Nat
      /\ call.n \in Nat /\ i \in Nat
      /\ mem[i] = NUL <=> i = Len(value.str)
      /\ At(call.t, i) = NUL <=> i = Len(call.t)
  BY <1>2, CharactersSeen
<1>4. /\ value.set /\ call.op \in Cmps
      /\ i <= Len(value.str) /\ i <= Len(call.t)
      /\ call.op \in Counted => i <= call.n
      /\ \A k \in 1..i : value.str[k] = call.t[k]
      /\ Holds(mem, value.str) /\ mem[Size] = Behind
  BY <1>2 DEF IInv, CompareInv, ValueHeld
<1>5. \/ call.op \in Counted /\ i = call.n
      \/ i = Len(value.str)
      \/ i = Len(call.t)
  BY <1>2, <1>3, <1>4 DEF Comparing
<1>6. SamePrefix(value.str, call.t, i)
  BY <1>3, <1>4 DEF SamePrefix
<1>7. CASE call.op = "astrncmp"
  <2>1. ASSUME i < call.n PROVE ResultInv'
    <3>1. i + 1 \in 1..call.n /\ ~(i + 1 <= Len(value.str) /\ i + 1 <= Len(call.t))
      BY <1>3, <1>4, <1>5, <2>1
    <3>2. ~SamePrefix(value.str, call.t, call.n)
      BY <3>1 DEF SamePrefix
    <3>3. ret' = -1
      BY <1>2, <1>7, <2>1 DEF AtEnd
    <3>4. QED
      BY <1>2, <1>7, <3>2, <3>3 DEF ResultInv
  <2>2. ASSUME ~(i < call.n) PROVE ResultInv'
    <3>1. i = call.n
      BY <1>3, <1>4, <1>7, <2>2 DEF Counted
    <3>2. ret' = 0
      BY <1>2, <2>2 DEF AtEnd
    <3>3. QED
      BY <1>2, <1>6, <1>7, <3>1, <3>2 DEF ResultInv
  <2>3. ResultInv'
    BY <2>1, <2>2
  <2>4. QED
    BY <2>3, <1>1, <1>2, <1>4 DEF IInv, ValueHeld, FindInv, CopyInv, CompareInv
<1>8. CASE call.op # "astrncmp"
  <2>1. call.op = "astrcmp" /\ call.op \notin Counted
    BY <1>4, <1>8 DEF Cmps, Counted
  <2>2. i = IF Len(value.str) < Len(call.t) THEN Len(value.str) ELSE Len(call.t)
    BY <1>3, <1>4, <1>5, <2>1
  <2>3. ret' = 0
    BY <1>2, <2>1 DEF AtEnd
  <2>4. ResultInv'
    BY <1>2, <1>6, <2>1, <2>2, <2>3 DEF ResultInv
  <2>5. QED
    BY <2>4, <1>1, <1>2, <1>4 DEF IInv, ValueHeld, FindInv, CopyInv, CompareInv
<1>9. QED
  BY <1>7, <1>8

LEMMA InvStep == IInv /\ [Next]_vars => IInv'
<1> SUFFICES ASSUME IInv, [Next]_vars PROVE IInv'
  OBVIOUS
<1>1. CASE UNCHANGED vars
  BY <1>1 DEF vars, IInv, Kinds, ValueHeld, Holds, FindInv, CopyInv, CompareInv,
              ResultInv, Base, After, Taken
<1>2. QED
  BY <1>1, BeginStep, FindEndStep, CopyCharStep, TerminateStep, CompareCharStep,
     CompareEndStep DEF Next

\* The indices are inside dest, in the loops and when they have ended.
IndexInv == i \in 0..(Size - 1) /\ j \in 0..(Size - 1)

\* In each loop the index of the string, or of what is written, is inside dest.
LoopIndex ==
  pc # "idle" => i \in 0..(Size - 1) /\ (pc # "compare" => j \in 0..(Size - 1))

LEMMA LoopsInside == IInv => LoopIndex
<1> SUFFICES ASSUME IInv, pc # "idle"
             PROVE  i \in 0..(Size - 1) /\ (pc # "compare" => j \in 0..(Size - 1))
  BY DEF LoopIndex
<1>1. /\ pc \in {"find", "copy", "compare"} /\ i \in Nat /\ j \in Nat /\ Size \in Nat \ {0}
      /\ Len(value.str) \in Nat
  BY DEF IInv, Kinds
<1>2. CASE pc = "find"
  <2>1. i <= Len(value.str) /\ Len(value.str) < Size /\ j = 0
    BY <1>2 DEF IInv, FindInv, ValueHeld, Holds
  <2>2. QED
    BY <1>1, <2>1
<1>3. CASE pc = "copy"
  <2>1. /\ call.op \in Copies \cup Cats /\ Len(After(call, value.str)) < Size
        /\ j <= Len(Taken(call)) /\ i = Base + j
    BY <1>3 DEF IInv, CopyInv
  <2>2. /\ Base \in Nat /\ Len(Taken(call)) \in Nat
        /\ Len(After(call, value.str)) = Base + Len(Taken(call))
    BY <2>1, AfterIsMade DEF IInv
  <2>3. QED
    BY <1>1, <2>1, <2>2
<1>4. CASE pc = "compare"
  <2>1. i <= Len(value.str) /\ Len(value.str) < Size
    BY <1>4 DEF IInv, CompareInv, ValueHeld, Holds
  <2>2. QED
    BY <1>1, <1>4, <2>1
<1>5. QED
  BY <1>1, <1>2, <1>3, <1>4

LEMMA IndexStep == IndexInv /\ LoopIndex' /\ [Next]_vars => IndexInv'
<1> SUFFICES ASSUME IndexInv, LoopIndex', [Next]_vars PROVE IndexInv'
  OBVIOUS
<1>1. /\ pc' # "idle" => i' \in 0..(Size - 1)
      /\ pc' # "idle" /\ pc' # "compare" => j' \in 0..(Size - 1)
  BY DEF LoopIndex
<1>2. CASE pc' # "idle" /\ pc' # "compare"
  BY <1>1, <1>2 DEF IndexInv
<1>3. CASE pc' = "compare"
  <2>1. i' \in 0..(Size - 1)
    BY <1>1, <1>3
  <2>2. j' = 0 \/ j' = j
    BY <1>3 DEF Next, Begin, FindEnd, CopyChar, Terminate, CompareChar, CompareEnd, vars
  <2>3. QED
    BY <2>1, <2>2 DEF IndexInv
<1>4. CASE pc' = "idle"
  BY <1>4 DEF IndexInv, Next, Begin, FindEnd, CopyChar, Terminate, CompareChar,
     CompareEnd, vars
<1>5. QED
  BY <1>2, <1>3, <1>4

\* Every variable has its type: no loop's index leaves dest.
THEOREM TypeCorrect == Spec => []TypeOK
<1>1. Init => IndexInv
  BY DEF Init, IndexInv
<1>2. IInv /\ IndexInv => TypeOK
  BY DEF IInv, Kinds, IndexInv, TypeOK
<1>3. QED
  BY InvInit, InvStep, LoopsInside, IndexStep, <1>1, <1>2, PTL DEF Spec

\* astrcpy, astrncpy, astrcat and astrncat leave the string they should, with its
\* '\0' inside dest, and write nothing behind dest, for arrays of any size and
\* any sequence of calls whose results fit.
THEOREM StringsAlwaysRight == Spec => []StringsRight
<1>1. IInv => StringsRight
  BY DEF IInv, ValueHeld, StringsRight
<1>2. QED
  BY InvInit, InvStep, <1>1, PTL DEF Spec

\* astrncmp returns 0 exactly when the first n characters are there and the same;
\* astrcmp returns 0 for equal strings and -1 for two that differ in a character both
\* have, for strings of any length.
THEOREM ComparesAlwaysRight == Spec => []ComparesRight
<1>1. ASSUME Kinds, ResultInv PROVE ComparesRight
  <2> SUFFICES ASSUME pc = "idle", call.op \in Cmps
               PROVE  /\ call.op = "astrncmp" =>
                            ret = (IF SamePrefix(value.str, call.t, call.n) THEN 0 ELSE -1)
                      /\ call.op = "astrcmp" =>
                            /\ value.str = call.t => ret = 0
                            /\ Differ(value.str, call.t) => ret = -1
    BY DEF ComparesRight
  <2>1. CASE call.op = "astrncmp"
    BY <1>1, <2>1 DEF ResultInv
  <2>2. CASE call.op = "astrcmp"
    <3> DEFINE n == IF Len(value.str) < Len(call.t) THEN Len(value.str) ELSE Len(call.t)
    <3>1. value.str \in Seq(Char) /\ call.t \in Seq(Char)
      BY <1>1, CallType DEF Kinds
    <3>2. ret = (IF SamePrefix(value.str, call.t, n) THEN 0 ELSE -1)
      BY <1>1, <2>2 DEF ResultInv
    <3>3. value.str = call.t => SamePrefix(value.str, call.t, n)
      BY <3>1 DEF SamePrefix
    <3>4. Differ(value.str, call.t) => ~SamePrefix(value.str, call.t, n)
      <4>1. \A k \in 1..Len(value.str) : k <= Len(call.t) => k \in 1..n
        BY <3>1
      <4>2. QED
        BY <4>1 DEF SamePrefix, Differ
    <3>5. QED
      BY <2>2, <3>2, <3>3, <3>4
  <2>3. QED
    BY <2>1, <2>2
<1>2. IInv => ComparesRight
  BY <1>1 DEF IInv
<1>3. QED
  BY InvInit, InvStep, <1>2, PTL DEF Spec
=============================================================================
