--------------------------- MODULE Calculators_MC ---------------------------
(* The instance of Calculators for TLC: two of the four bytes of an int,    *)
(* operands at both ends of its range, around zero, and one of two bytes.   *)
EXTENDS Calculators

TestOperands == {MinInt, -1, 0, 300, MaxInt}

\* The robust client's own, one with another version, one with another magic,
\* and one of another protocol altogether.
TestIdentities == {<<43981, 1>>, <<43981, 2>>, <<17, 1>>, <<17, 2>>}
=============================================================================
