----------------------------- MODULE MCLocalPty -----------------------------
(* Instances of LocalPty for TLC. *)
EXTENDS LocalPty

\* PTYs cannot be told apart.
PtySymmetry == Permutations(Ptys)
=============================================================================
