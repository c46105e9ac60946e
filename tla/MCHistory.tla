------------------------------ MODULE MCHistory ------------------------------
(* The history for TLC. *)
EXTENDS History, TLC

Symmetry == Permutations(Call) \cup Permutations(Key)
=============================================================================
