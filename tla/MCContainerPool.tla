--------------------------- MODULE MCContainerPool ---------------------------
(* Instances of ContainerPool for TLC. *)
EXTENDS ContainerPool, TLC

\* Nodes, sessions and deleters cannot be told apart.
PoolSymmetry == Permutations(Nodes) \cup Permutations(Sessions) \cup Permutations(Deleters)
=============================================================================
