--------------------------- MODULE MCSessionStore ---------------------------
(* Instances of SessionStore for TLC. *)
EXTENDS SessionStore

\* Slots and session ids cannot be told apart.
StoreSymmetry == Permutations(Slots) \cup Permutations(Ids)
=============================================================================
