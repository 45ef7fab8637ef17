------------------------------- MODULE MCHub -------------------------------
(* Instances of Hub for model checking.                                   *)
EXTENDS Hub, TLC

Symmetry == Permutations(Threads)
=============================================================================
