--------------------------- MODULE MCBrowserViewer ---------------------------
(* Instances of BrowserViewer for TLC. *)
EXTENDS BrowserViewer, TLC

\* Sessions cannot be told apart.
SessionSymmetry == Permutations(Sessions)
=============================================================================
