---------------------------- MODULE Exercises_MC ----------------------------
(***************************************************************************)
(* What the users type in the checked instance of Exercises.               *)
(***************************************************************************)
EXTENDS Exercises

UserScripts ==
    LET hi == Text("hi", 2)
    IN  {<<hi>>, <<Bye>>, <<Exit>>, <<hi, Bye>>, <<hi, Exit>>}

=============================================================================
