------------------------------ MODULE MCSlots ------------------------------
(* Instances of Slots for model checking.                                 *)
EXTENDS Slots, TLC

Symmetry == Permutations(Workers)
=============================================================================
