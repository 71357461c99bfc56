--------------------------- MODULE MCDeleteQueue ---------------------------
(***************************************************************************)
(* DeleteQueue for TLC: symmetric DWPTs.                                   *)
(***************************************************************************)
EXTENDS DeleteQueue, TLC

Symmetry == Permutations(Slices)

=============================================================================
