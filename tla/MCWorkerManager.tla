--------------------------- MODULE MCWorkerManager ---------------------------
(* Instances of WorkerManager for TLC. *)
EXTENDS WorkerManager, TLC

\* Objects of one class cannot be told apart.
ObjectSymmetry == Permutations(Managers) \cup Permutations(Sockets) \cup Permutations(Ptys)
=============================================================================
