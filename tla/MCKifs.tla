------------------------------- MODULE MCKifs -------------------------------
(* Instances of Kifs for TLC. *)
EXTENDS Kifs

CONSTANTS nameA, nameB

\* mkfs makes an empty volume or one with a directory of either name.
MCBaseDirs == {<<>>, <<nameA>>, <<nameB>>}

NameSymmetry == Permutations(Name)
=============================================================================
