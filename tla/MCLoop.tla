------------------------------- MODULE MCLoop -------------------------------
(* Instances of Loop for model checking.                                  *)
EXTENDS Loop, TLC

Symmetry == Permutations(Workers)
=============================================================================
