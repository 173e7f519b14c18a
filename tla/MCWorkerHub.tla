----------------------------- MODULE MCWorkerHub -----------------------------
(* Instances of WorkerHub for TLC: which connection belongs to which worker. *)
EXTENDS WorkerHub, TLC

CONSTANTS w1, w2   \* the workers; a run of one worker gives both the same value

\* One connection of w2, if it is there; all others are w1's.
SecondWorkerConns == {c \in Conns : w1 # w2 /\ c = CHOOSE d \in Conns : TRUE}
MCConnWorker == [c \in Conns |-> IF c \in SecondWorkerConns THEN w2 ELSE w1]

\* w1 has the smaller id.
MCWorkerRank == [w \in Workers |-> IF w = w1 THEN 0 ELSE 1]

\* With a single worker its connections are interchangeable.
ConnSymmetry == Permutations(Conns)

\* Where symmetry cannot be used, with temporal properties, they are made in an order.
MadeInOrder ==
  LET first == CHOOSE c \in Conns : TRUE
  IN  pc[first] = "idle" => \A c \in Conns : pc[c] = "idle"

\* The server crashes or w2 is removed, not both in one behaviour.
OneUpset == crashes + removals <= 1 /\ pc[w1] = "idle"

\* With two, those of w1 are.
FirstWorkerSymmetry == Permutations(Conns \ SecondWorkerConns)
=============================================================================
