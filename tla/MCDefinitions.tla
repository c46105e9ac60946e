--------------------------- MODULE MCDefinitions ---------------------------
(* Instances of Definitions for TLC. *)
EXTENDS Definitions, TLC

CONSTANTS p, i1, i2, c1, c2

\* Requests and instances are interchangeable.
Symmetry == Permutations(Call) \cup Permutations(Inst)
=============================================================================
