--------------------------- MODULE MCTokenRotation ---------------------------
(* Instances of TokenRotation for TLC. *)
EXTENDS TokenRotation, TLC

\* Requests cannot be told apart.
RequestSymmetry == Permutations(Requests)
=============================================================================
