---------------------------- MODULE MCViewerRelay ----------------------------
(* Instances of ViewerRelay for TLC. *)
EXTENDS ViewerRelay, TLC

\* Viewers cannot be told apart, nor producers.
ViewerSymmetry == Permutations(Viewers) \cup Permutations(Producers)
=============================================================================
