------------------------------- MODULE MCFat --------------------------------
(* Fat on three clusters and two names. *)
EXTENDS Fat, TLC

NameSymmetry == Permutations(FatName)
=============================================================================
