------------------------------ MODULE StringLib ------------------------------
(***************************************************************************)
(* The string functions of ikshwak/C_assignments/strings, called one after *)
(* the other on an array dest, as astr_test.c calls them.  The loops run a *)
(* character at a time over memory: cells 0..Size-1 are dest, cell Size is *)
(* what lies behind it.  `value` is the string the calls so far should     *)
(* have left in dest; no code reads it.                                    *)
(*                                                                         *)
(* The second argument t is a string constant, never a part of dest.       *)
(***************************************************************************)
EXTENDS Integers, Sequences

CONSTANTS Char, NUL,   \* characters, and '\0' that is none of them
          Behind,      \* what the cell behind dest holds, neither of these
          Size,        \* sizeof(dest)
          Words,       \* the constants the functions are called with
          Counts       \* their third argument

ASSUME StringAssumption ==
  /\ NUL \notin Char /\ Behind \notin Char \cup {NUL}
  /\ Size \in Nat \ {0}
  /\ Words \subseteq Seq(Char)
  /\ Counts \subseteq Nat

VARIABLES mem,    \* the cells
          pc,     \* idle, or the loop that runs: find, copy, compare
          call,   \* the call that runs or has returned: [op, t, n]
          i, j,   \* its variables
          ret,    \* what a comparison returned
          value   \* the string dest should hold; [set |-> FALSE] before the first

vars == <<mem, pc, call, i, j, ret, value>>

Cells == 0..Size

Counted == {"astrncpy", "astrncat", "astrncmp"}
Copies  == {"astrcpy", "astrncpy"}
Cats    == {"astrcat", "astrncat"}
Cmps    == {"astrcmp", "astrncmp"}

-----------------------------------------------------------------------------
(* What the functions are for. *)

\* Of t the characters that count: all, or the first n.
Taken(c) == IF c.op \in Counted /\ c.n < Len(c.t) THEN SubSeq(c.t, 1, c.n) ELSE c.t

\* The string in dest after the call.
After(c, str) == IF c.op \in Cats THEN str \o Taken(c) ELSE Taken(c)

\* Memory m holds the string str in dest: its characters, then '\0'.
Holds(m, str) ==
  /\ Len(str) < Size
  /\ \A k \in 1..Len(str) : m[k - 1] = str[k]
  /\ m[Len(str)] = NUL

\* The caller sees to it that dest is a string where it must be one, and has
\* room for the result.
MayCall(c) ==
  /\ c.op \in Copies \/ value.set
  /\ c.op \in Copies \cup Cats => Len(After(c, value.str)) < Size

-----------------------------------------------------------------------------
Init ==
  /\ \/ /\ \E ch \in Char :                                 \* char dest[20];
             mem = [k \in Cells |-> IF k = Size THEN Behind ELSE ch]
        /\ value = [set |-> FALSE, str |-> <<>>]
     \/ \E w \in Words :                                    \* char dest[30] = "hello";
          /\ Len(w) < Size
          /\ mem = [k \in Cells |-> IF k = Size THEN Behind
                                      ELSE IF k < Len(w) THEN w[k + 1] ELSE NUL]
          /\ value = [set |-> TRUE, str |-> w]
  /\ pc = "idle" /\ call = [op |-> "none", t |-> <<>>, n |-> 0]
  /\ i = 0 /\ j = 0 /\ ret = 0

Begin ==
  /\ pc = "idle"
  /\ call' \in [op : Copies \cup Cats \cup Cmps, t : Words, n : Counts]
  /\ MayCall(call')
  /\ pc' = IF call'.op \in Cats THEN "find" ELSE IF call'.op \in Cmps THEN "compare" ELSE "copy"
  /\ i' = 0 /\ j' = 0
  /\ UNCHANGED <<mem, ret, value>>

\* t[k] in C.
At(t, k) == IF k < Len(t) THEN t[k + 1] ELSE NUL

\* while (s[i] != '\0') i++;
FindEnd ==
  /\ pc = "find"
  /\ IF mem[i] # NUL THEN i' = i + 1 /\ pc' = pc ELSE i' = i /\ pc' = "copy"
  /\ UNCHANGED <<mem, call, j, ret, value>>

\* Mutant of More: one character too many, j <= n.
OneMore == (call.op \in Counted => j <= call.n) /\ At(call.t, j) # NUL

\* Mutant of More: the loop goes on to n, past the end of t.
MoreToCount == IF call.op \in Counted THEN j < call.n ELSE At(call.t, j) # NUL

\* The condition of the second loop.
More == (call.op \in Counted => j < call.n) /\ At(call.t, j) # NUL

\* s[i] = t[j]; i++; j++;  (astrcpy and astrncpy have one index for both)
CopyChar ==
  /\ pc = "copy" /\ More
  /\ mem' = [mem EXCEPT ![i] = At(call.t, j)]
  /\ i' = i + 1 /\ j' = j + 1
  /\ UNCHANGED <<pc, call, ret, value>>

\* s[i] = '\0'; return s;
Terminate ==
  /\ pc = "copy" /\ ~More
  /\ mem' = [mem EXCEPT ![i] = NUL]
  /\ pc' = "idle"
  /\ value' = [set |-> TRUE, str |-> After(call, value.str)]
  /\ UNCHANGED <<call, i, j, ret>>

\* The loop of astrcmp and astrncmp goes on while both have a character.
Comparing ==
  /\ call.op \in Counted => i < call.n
  /\ mem[i] # NUL /\ At(call.t, i) # NUL

CompareChar ==
  /\ pc = "compare" /\ Comparing
  /\ IF mem[i] # At(call.t, i) THEN ret' = -1 /\ pc' = "idle" /\ i' = i
                               ELSE ret' = ret /\ pc' = pc /\ i' = i + 1
  /\ UNCHANGED <<mem, call, j, value>>

\* Mutant of AtEnd: the test after the loop of astrncmp left out.
AlwaysEqual == 0

\* What is returned behind the loop.
AtEnd == IF call.op = "astrncmp" /\ i < call.n THEN -1 ELSE 0

CompareEnd ==
  /\ pc = "compare" /\ ~Comparing
  /\ ret' = AtEnd
  /\ pc' = "idle"
  /\ UNCHANGED <<mem, call, i, j, value>>

Next == Begin \/ FindEnd \/ CopyChar \/ Terminate \/ CompareChar \/ CompareEnd

Spec == Init /\ [][Next]_vars

-----------------------------------------------------------------------------
(* Properties. *)

Ops == Copies \cup Cats \cup Cmps

Calls == [op : Ops \cup {"none"}, t : Words \cup {<<>>}, n : Counts \cup {0}]

\* Every variable has its type; no loop's index leaves dest, however long the strings
\* that earlier calls have left there.
TypeOK ==
  /\ mem \in [Cells -> Char \cup {NUL, Behind}]
  /\ pc \in {"idle", "find", "copy", "compare"}
  /\ call \in Calls
  /\ i \in 0..(Size - 1) /\ j \in 0..(Size - 1) /\ ret \in Int
  /\ value \in [set : BOOLEAN, str : Seq(Char)]

\* After any sequence of calls dest holds the string those calls should have
\* made, ended by '\0' inside dest, though what earlier, longer strings left
\* behind it is still there; a comparison changes none of it, and no call ever
\* writes behind dest.
StringsRight ==
  /\ pc = "idle" /\ value.set => Holds(mem, value.str)
  /\ mem[Size] = Behind

\* The first n characters are there in both and the same.
SamePrefix(s, t, n) == \A k \in 1..n : k <= Len(s) /\ k <= Len(t) /\ s[k] = t[k]

\* Two strings differ in a character both have.
Differ(s, t) == \E k \in 1..Len(s) : k <= Len(t) /\ s[k] # t[k]

\* astrncmp has returned 0 exactly when the first n characters are there and the same
\* (astr_test.c:26-28); astrcmp has returned 0 for equal strings (astr_test.c:16) and
\* something else for strings that differ in a character both have (astr_test.c:17).
\* Of a string that begins the other PrefixDiffers speaks.
ComparesRight ==
  pc = "idle" /\ call.op \in Cmps =>
    LET s == value.str
        t == call.t
    IN  /\ call.op = "astrncmp" => ret = (IF SamePrefix(s, t, call.n) THEN 0 ELSE -1)
        /\ call.op = "astrcmp" => /\ s = t => ret = 0
                                  /\ Differ(s, t) => ret = -1

\* astr_test.c:18 wants "abc" and "abcd" to differ.  The code's loop ends with the
\* shorter of the two and astrcmp returns 0.
PrefixDiffers ==
  pc = "idle" /\ call.op = "astrcmp" /\ ret = 0 => Len(value.str) = Len(call.t)
=============================================================================
