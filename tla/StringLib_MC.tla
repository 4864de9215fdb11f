---------------------------- MODULE StringLib_MC ----------------------------
(* The instance of StringLib for TLC: every word of up to two characters    *)
(* out of two.                                                              *)
EXTENDS StringLib

TestWords == UNION {[1..n -> Char] : n \in 0..2}
=============================================================================
