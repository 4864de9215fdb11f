------------------------------- MODULE AES_MC -------------------------------
(***************************************************************************)
(* AES with the key of the sources and some blocks: the one of FIPS-197,   *)
(* all zeros and ones, and blocks of one bit.                              *)
(***************************************************************************)
EXTENDS AES

\* secret_key of 05_engine_post.c.
Key == <<43, 126, 21, 22, 40, 174, 210, 166, 171, 247, 21, 136, 9, 207, 79, 60>>

OneBit(i, n) == [j \in 1..16 |-> IF j = i THEN 2^n ELSE 0]

Blocks ==
    {<<50, 67, 246, 168, 136, 90, 48, 141, 49, 49, 152, 162, 224, 55, 7, 52>>,
     [i \in 1..16 |-> 0], [i \in 1..16 |-> 255], [i \in 1..16 |-> 16 * i - 1]}
    \cup {OneBit(i, n) : i \in {1, 6, 16}, n \in {0, 7}}
=============================================================================
