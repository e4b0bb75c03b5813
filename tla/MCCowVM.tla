------------------------------- MODULE MCCowVM -------------------------------
(* Small instances of CowVM for TLC. *)
EXTENDS CowVMInv, TLC

CONSTANTS p1, p2, p3

TextStack == (0 :> {"U"}) @@ (1 :> {"W", "U"})
OnePage == 0 :> {"W", "U"}

Symmetry == Permutations(Pages) \cup Permutations(Procs \ {InitProc}) \cup Permutations(Values)
=============================================================================
