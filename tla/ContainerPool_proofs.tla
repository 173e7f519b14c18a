------------------------ MODULE ContainerPool_proofs ------------------------
(***************************************************************************)
(* Proofs about ContainerPool, for any number of nodes, sessions and       *)
(* concurrent requests, whatever fails: the type invariant, and that       *)
(* creations that follow one another never fill a node beyond capacity.    *)
(*                                                                         *)
(* The argument: while no two creations overlap, the one under way has     *)
(* kept the room it found (Room), since DELETEs only make room.  While no  *)
(* two requests meet on a session, its row, container and host are what    *)
(* the one request left them at (Phase, Handles), and each step that       *)
(* changes a counter moves one session into or out of what it counts.      *)
(***************************************************************************)
EXTENDS ContainerPool, FiniteSetTheorems, TLAPS

\* The labels between the choice of a node and its counting.
Placed == {"create", "start", "inspect", "save", "count"}

\* Who works where, and on what.
AtWork ==
  /\ \A s \in Sessions : pc[s] \notin Deleting /\ (pc[s] \in Placed => node[s] \in Nodes)
  /\ \A d \in Deleters :
       /\ pc[d] \in Deleting \cup {"idle"}
       /\ pc[d] \in Deleting => target[d] \in Sessions
       /\ pc[d] \in {"stop", "decrement"} => seenHost[d] \in Nodes

\* While no two creations overlap, there is one at a time, and room on the node it picked.
Room ==
  ~overlapped =>
    /\ \A s, t \in Sessions : pc[s] \in Creating /\ pc[t] \in Creating => s = t
    /\ \A n \in Nodes : active[n] <= Capacity
    /\ \A s \in Sessions : pc[s] \in Placed => active[node[s]] < Capacity

IInv == TypeOK /\ AtWork /\ Room

LEMMA InitIInv == Init => IInv
<1> SUFFICES ASSUME Init PROVE IInv OBVIOUS
<1> USE DEF Init, Creating, Deleting, Placed
<1>1. TypeOK
  <2>1. /\ row \in [Sessions -> {"absent", "creating", "running", "error"}]
        /\ container \in [Sessions -> {"none", "created", "running"}]
        /\ pc \in [Sessions \cup Deleters -> Creating \cup Deleting \cup {"idle", "done"}]
    OBVIOUS
  <2>2. /\ active \in [Nodes -> Nat] /\ host \in [Sessions -> Nodes \cup {None}]
        /\ node \in [Sessions -> Nodes \cup {None}]
        /\ target \in [Deleters -> Sessions \cup {None}]
        /\ seenHost \in [Deleters -> Nodes \cup {None}]
    OBVIOUS
  <2>3. overlapped \in BOOLEAN /\ crossed \in BOOLEAN /\ trouble \in Troubles BY DEF Troubles
  <2> HIDE DEF Init, Creating, Deleting, Placed
  <2> QED BY <2>1, <2>2, <2>3 DEF TypeOK
<1>2. AtWork BY DEF AtWork
<1>3. Room BY PoolAssumption DEF Room
<1> QED BY <1>1, <1>2, <1>3 DEF IInv

\* CreateSession: no step but the last of a creation touches a counter.
LEMMA CreateKeeps == ASSUME IInv, NEW s \in Sessions, Create(s) PROVE IInv'
<1> USE DEF IInv, Goto, Creating, Deleting, Troubles, rowVars, delVars, history, CallFails,
            BooksFail, Works
<1>1. CASE InsertRow(s)
  <2>1. TypeOK' BY <1>1 DEF InsertRow, TypeOK
  <2>2. AtWork' BY <1>1, PoolAssumption DEF InsertRow, TypeOK, AtWork, Placed
  <2>3. Room' BY <1>1 DEF InsertRow, TypeOK, Room, Placed
  <2> QED BY <2>1, <2>2, <2>3
<1>2. CASE SelectWorker(s)
  <2>1. TypeOK' BY <1>2 DEF SelectWorker, TypeOK, Selectable, Roomy
  <2>2. AtWork' BY <1>2, PoolAssumption DEF SelectWorker, TypeOK, AtWork, Placed, Selectable, Roomy
  <2>3. Room' BY <1>2 DEF SelectWorker, TypeOK, Room, Placed, Selectable, Roomy
  <2> QED BY <2>1, <2>2, <2>3
<1>3. CASE ContainerCreate(s) \/ ContainerStart(s) \/ ContainerInspect(s)
  <2> USE <1>3 DEF ContainerCreate, ContainerStart, ContainerInspect, Fails
  <2>1. TypeOK' BY DEF TypeOK
  <2>2. AtWork' BY PoolAssumption DEF TypeOK, AtWork, Placed
  <2>3. Room' BY DEF TypeOK, Room, Placed
  <2> QED BY <2>1, <2>2, <2>3
<1>4. CASE SaveRunning(s) \/ SaveError(s)
  <2> USE <1>4 DEF SaveRunning, SaveError
  <2>1. TypeOK' BY DEF TypeOK
  <2>2. AtWork' BY PoolAssumption DEF TypeOK, AtWork, Placed
  <2>3. Room' BY DEF TypeOK, Room, Placed
  <2> QED BY <2>1, <2>2, <2>3
<1>5. CASE IncrementContainers(s)
  <2> USE <1>5 DEF IncrementContainers
  <2>1. TypeOK' BY DEF TypeOK
  <2>2. AtWork' BY PoolAssumption DEF TypeOK, AtWork, Placed
  \* The node it counts had room, and nobody else is about to count one.
  <2>3. Room'
    <3> SUFFICES ASSUME ~overlapped PROVE Room' BY DEF Room
    <3>1. node[s] \in Nodes /\ active[node[s]] < Capacity BY DEF AtWork, Room, Placed
    <3>2. \A n \in Nodes : active'[n] <= Capacity
      BY <3>1, PoolAssumption DEF Room, TypeOK
    <3>3. \A t \in Sessions : pc'[t] \notin Creating
      BY DEF Room, TypeOK
    <3> QED BY <3>2, <3>3 DEF Room, Placed
  <2> QED BY <2>1, <2>2, <2>3
<1> QED BY <1>1, <1>2, <1>3, <1>4, <1>5 DEF Create

\* DestroySession only makes room.
LEMMA DestroyKeeps == ASSUME IInv, NEW d \in Deleters, Destroy(d) PROVE IInv'
<1> USE DEF IInv, Goto, Creating, Deleting, Troubles, rowVars, delVars, history, CallFails,
            BooksFail, Works
<1>1. CASE ReadRow(d) \/ StopContainer(d) \/ DeleteRow(d)
  <2> USE <1>1 DEF ReadRow, StopContainer, DeleteRow
  <2>1. TypeOK'
    <3>1. CASE ReadRow(d) BY <3>1 DEF TypeOK
    <3>2. CASE StopContainer(d) BY <3>2 DEF TypeOK
    <3>3. CASE DeleteRow(d) BY <3>3 DEF TypeOK
    <3> QED BY <3>1, <3>2, <3>3
  <2>2. AtWork' BY PoolAssumption DEF TypeOK, AtWork, Placed
  <2>3. Room' BY PoolAssumption DEF TypeOK, Room, Placed
  <2> QED BY <2>1, <2>2, <2>3
<1>2. CASE DecrementContainers(d)
  <2> USE <1>2 DEF DecrementContainers
  <2>1. TypeOK' BY DEF TypeOK, AtWork
  <2>2. AtWork' BY PoolAssumption DEF TypeOK, AtWork, Placed
  <2>3. \A n \in Nodes : active'[n] <= active[n] BY DEF TypeOK, AtWork
  <2>4. \A s \in Sessions : pc'[s] = pc[s] BY PoolAssumption DEF TypeOK
  <2>5. Room' BY <2>3, <2>4, <2>1, PoolAssumption DEF TypeOK, Room, Placed, AtWork
  <2> QED BY <2>1, <2>2, <2>5
<1> QED BY <1>1, <1>2 DEF Destroy

LEMMA StepKeeps == IInv /\ [Next]_vars => IInv'
<1> SUFFICES ASSUME IInv, [Next]_vars PROVE IInv' OBVIOUS
<1>1. CASE UNCHANGED vars
  BY <1>1 DEF vars, rowVars, delVars, history, IInv, TypeOK, AtWork, Room, Creating, Deleting,
     Placed, Troubles
<1> QED BY <1>1, CreateKeeps, DestroyKeeps DEF Next

\* Whatever requests do, and whatever fails on the way, the invariant holds.
THEOREM Invariance == Spec => []IInv
BY InitIInv, StepKeeps, PTL DEF Spec

\* Every variable has its type: no counter falls below zero (container/worker.go:62-65).
THEOREM TypeCorrect == Spec => []TypeOK
BY Invariance, PTL DEF IInv

\* Creations that do not overlap keep every node's counter within its capacity, whatever
\* DELETEs run beside them (container/worker.go:45-65, manager.go:55-85).
THEOREM WithinCapacityHolds == Spec => []WithinCapacity
<1>1. IInv => WithinCapacity BY DEF IInv, Room, WithinCapacity
<1> QED BY <1>1, Invariance, PTL

-----------------------------------------------------------------------------
(* Sessions that one request at a time works on.                           *)

On(d, s) == pc[d] # "idle" /\ target[d] = s

\* Where CreateSession has got to with a session.
Phase(s) ==
  /\ pc[s] # "done" /\ pc[s] # "count" => row[s] # "running" /\ host[s] = None
  /\ pc[s] = "idle" => row[s] = "absent"
  /\ pc[s] \in {"idle", "select", "create"} => container[s] = "none"
  /\ pc[s] \in {"inspect", "save", "count"} => container[s] = "running"
  /\ pc[s] = "saveError" /\ trouble = "none" => container[s] = "none"
  /\ pc[s] = "count" => row[s] = "running"
  /\ pc[s] \in {"count", "done"} =>
       IF row[s] = "running" THEN host[s] = node[s] /\ host[s] \in Nodes ELSE host[s] = None
  /\ pc[s] = "done" /\ (\A d \in Deleters : ~On(d, s)) =>
       /\ row[s] = "running" => container[s] = "running"
       /\ trouble = "none" /\ container[s] # "none" => row[s] = "running"

\* Where DestroySession has.
Handles(d, s) ==
  /\ pc[s] = "done"
  /\ pc[d] \in {"stop", "decrement"} => row[s] = "running" /\ host[s] = seenHost[d]
  /\ pc[d] \in {"decrement", "delete"} /\ trouble = "none" => container[s] = "none"

OneRequest ==
  /\ \A s \in Sessions : Phase(s)
  /\ \A d, e \in Deleters, s \in Sessions : On(d, s) /\ On(e, s) => d = e
  /\ \A d \in Deleters, s \in Sessions : On(d, s) => Handles(d, s)

Quiet == ~crossed /\ trouble # "books"

BooksInv == TypeOK /\ AtWork /\ (Quiet => OneRequest) /\ CountMatchesRows

LEMMA InitBooks == Init => BooksInv
<1> SUFFICES ASSUME Init PROVE BooksInv OBVIOUS
<1>1. TypeOK /\ AtWork BY InitIInv DEF IInv
<1>2. OneRequest BY PoolAssumption DEF Init, OneRequest, Phase, Handles, On
<1>3. CountMatchesRows
  <2>1. \A n \in Nodes : Counted(n) = {} BY PoolAssumption DEF Init, Counted
  <2> QED BY <2>1, FS_EmptySet DEF Init, CountMatchesRows
<1> QED BY <1>1, <1>2, <1>3 DEF BooksInv

\* The sessions a step does not concern.
LEMMA Others ==
  ASSUME OneRequest, NEW s \in Sessions,
         \A t \in Sessions \ {s} : /\ pc'[t] = pc[t] /\ row'[t] = row[t] /\ host'[t] = host[t]
                                   /\ container'[t] = container[t] /\ node'[t] = node[t],
         \A d \in Deleters, t \in Sessions \ {s} :
           /\ On(d, t)' <=> On(d, t)
           /\ On(d, t) => pc'[d] = pc[d] /\ seenHost'[d] = seenHost[d],
         trouble' = "none" => trouble = "none",
         Phase(s)',
         \A d, e \in Deleters : On(d, s)' /\ On(e, s)' => d = e,
         \A d \in Deleters : On(d, s)' => Handles(d, s)'
  PROVE  OneRequest'
<1>1. ASSUME NEW t \in Sessions \ {s} PROVE Phase(t)'
  BY DEF OneRequest, Phase
<1>2. ASSUME NEW t \in Sessions \ {s}, NEW d \in Deleters, On(d, t)' PROVE Handles(d, t)'
  <2>1. Handles(d, t) /\ On(d, t) BY <1>2 DEF OneRequest
  <2> QED BY <2>1 DEF Handles
<1>3. ASSUME NEW t \in Sessions \ {s}, NEW d \in Deleters, NEW e \in Deleters,
             On(d, t)', On(e, t)'
      PROVE  d = e
  BY <1>3 DEF OneRequest
<1> QED BY <1>1, <1>2, <1>3 DEF OneRequest

\* A creation works on a session nobody else does.
LEMMA CreateOne ==
  ASSUME TypeOK, AtWork, OneRequest, NEW s \in Sessions, Create(s), Quiet'
  PROVE  OneRequest'
<1> USE DEF Goto, rowVars, delVars, history, CallFails, BooksFail, Works, Creating
<1>1. /\ \A t \in Sessions \ {s} : /\ pc'[t] = pc[t] /\ row'[t] = row[t] /\ host'[t] = host[t]
                                   /\ container'[t] = container[t] /\ node'[t] = node[t]
      /\ \A d \in Deleters : pc'[d] = pc[d]
      /\ UNCHANGED delVars
      /\ trouble' = "none" => trouble = "none"
  <2> USE PoolAssumption DEF TypeOK
  <2>1. CASE InsertRow(s) BY <2>1 DEF InsertRow
  <2>2. CASE SelectWorker(s) BY <2>2 DEF SelectWorker
  <2>3. CASE ContainerCreate(s) BY <2>3 DEF ContainerCreate, Fails
  <2>4. CASE ContainerStart(s) BY <2>4 DEF ContainerStart, Fails
  <2>5. CASE ContainerInspect(s) BY <2>5 DEF ContainerInspect, Fails
  <2>6. CASE SaveRunning(s) BY <2>6 DEF SaveRunning
  <2>7. CASE SaveError(s) BY <2>7 DEF SaveError
  <2>8. CASE IncrementContainers(s) BY <2>8 DEF IncrementContainers
  <2> QED BY <2>1, <2>2, <2>3, <2>4, <2>5, <2>6, <2>7, <2>8 DEF Create
<1>2. \A d \in Deleters : ~On(d, s)
  <2>1. pc[s] # "done"
    BY DEF Create, InsertRow, SelectWorker, ContainerCreate, ContainerStart, ContainerInspect,
           SaveRunning, SaveError, IncrementContainers
  <2> QED BY <2>1 DEF OneRequest, Handles
<1>3. \A d \in Deleters, t \in Sessions : On(d, t)' <=> On(d, t) BY <1>1 DEF On
<1>4. Phase(s)'
  <2> USE DEF TypeOK
  <2>p. Phase(s) BY DEF OneRequest
  <2>n. pc[s] \in Placed => node[s] \in Nodes BY DEF AtWork
  <2>1. CASE InsertRow(s) BY <1>2, <1>3, <2>p, <2>1 DEF InsertRow, Phase
  <2>2. CASE SelectWorker(s) BY <1>2, <1>3, <2>p, <2>2 DEF SelectWorker, Phase
  <2>3. CASE ContainerCreate(s) BY <1>2, <1>3, <2>p, <2>3 DEF ContainerCreate, Fails, Phase
  <2>4. CASE ContainerStart(s) BY <1>2, <1>3, <2>p, <2>4 DEF ContainerStart, Fails, Phase
  <2>5. CASE ContainerInspect(s) BY <1>2, <1>3, <2>p, <2>5 DEF ContainerInspect, Fails, Phase
  <2>6. CASE SaveRunning(s) BY <1>2, <1>3, <2>p, <2>n, <2>6 DEF SaveRunning, Phase, Placed
  <2>7. CASE SaveError(s) BY <1>2, <1>3, <2>p, <2>7 DEF SaveError, Phase
  <2>8. CASE IncrementContainers(s) BY <1>2, <1>3, <2>p, <2>8 DEF IncrementContainers, Phase, Quiet
  <2> QED BY <2>1, <2>2, <2>3, <2>4, <2>5, <2>6, <2>7, <2>8 DEF Create
<1>5. \A d \in Deleters, t \in Sessions \ {s} :
        On(d, t) => pc'[d] = pc[d] /\ seenHost'[d] = seenHost[d]
  BY <1>1
<1>6. \A d \in Deleters : ~On(d, s)' BY <1>2, <1>3
<1> QED BY <1>1, <1>3, <1>4, <1>5, <1>6, Others

\* A deletion works on a session whose creation is over.
LEMMA DestroyOne ==
  ASSUME TypeOK, AtWork, Quiet, OneRequest, NEW d \in Deleters, Destroy(d), Quiet'
  PROVE  OneRequest'
<1> USE DEF Goto, rowVars, delVars, history, CallFails, BooksFail, Works
<1>1. CASE ReadRow(d)
  <2>1. PICK s \in Sessions : /\ row[s] # "absent" /\ crossed' = (crossed \/ Busy(s))
                              /\ target' = [target EXCEPT ![d] = s]
                              /\ seenHost' = [seenHost EXCEPT ![d] = host[s]]
                              /\ pc' = [pc EXCEPT ![d] = IF host[s] = None THEN "delete" ELSE "stop"]
    BY <1>1 DEF ReadRow
  <2>2. ~Busy(s) /\ pc[d] = "idle" /\ UNCHANGED <<row, host, container, node, trouble>>
    BY <1>1, <2>1 DEF ReadRow, Quiet
  <2>3. \A t \in Sessions : pc'[t] = pc[t] BY <2>1, PoolAssumption DEF TypeOK
  <2>4. \A e \in Deleters \ {d} : /\ pc'[e] = pc[e] /\ target'[e] = target[e]
                                  /\ seenHost'[e] = seenHost[e]
    BY <2>1 DEF TypeOK
  <2>5. /\ target'[d] = s /\ seenHost'[d] = host[s]
        /\ pc'[d] = IF host[s] = None THEN "delete" ELSE "stop"
    BY <2>1 DEF TypeOK
  <2>6. \A e \in Deleters : ~On(e, s) BY <2>2 DEF Busy, On
  <2>7. Phase(s) BY DEF OneRequest
  <2>8. pc[s] = "done"
    <3>1. pc[s] \notin Creating BY <2>2 DEF Busy
    <3>2. pc[s] \in Creating \cup {"idle", "done"} BY DEF TypeOK, AtWork
    <3> QED BY <2>1, <2>7, <3>1, <3>2 DEF Phase
  <2>9. Handles(d, s)'
    BY <2>2, <2>3, <2>5, <2>6, <2>7, <2>8, PoolAssumption DEF Handles, Phase
  <2>10. \A e \in Deleters : On(e, s)' => e = d
    BY <2>4, <2>6 DEF On
  <2>11. On(d, s)' BY <2>5 DEF On
  <2>12. Phase(s)' BY <2>2, <2>3, <2>7, <2>8, <2>11 DEF Phase
  <2>13. \A e \in Deleters, t \in Sessions \ {s} : On(e, t)' <=> On(e, t)
    BY <2>2, <2>4, <2>5 DEF On
  <2>14. \A e \in Deleters, t \in Sessions \ {s} :
           On(e, t) => pc'[e] = pc[e] /\ seenHost'[e] = seenHost[e]
    BY <2>2, <2>4 DEF On
  <2> QED BY <2>2, <2>3, <2>9, <2>10, <2>12, <2>13, <2>14, Others
<1>2. CASE StopContainer(d) \/ DecrementContainers(d) \/ DeleteRow(d)
  <2>0. pc[d] \in Deleting BY <1>2 DEF StopContainer, DecrementContainers, DeleteRow, Deleting
  <2> PICK s \in Sessions : s = target[d] BY <2>0 DEF AtWork
  <2>1. On(d, s) /\ Handles(d, s) /\ Phase(s) /\ pc[s] = "done"
    <3>1. On(d, s) BY <2>0 DEF On, Deleting
    <3> QED BY <3>1 DEF OneRequest, Handles
  <2>2. /\ \A t \in Sessions : pc'[t] = pc[t] /\ node'[t] = node[t]
        /\ \A e \in Deleters \ {d} : /\ pc'[e] = pc[e] /\ target'[e] = target[e]
                                     /\ seenHost'[e] = seenHost[e]
        /\ \A t \in Sessions \ {s} : /\ row'[t] = row[t] /\ host'[t] = host[t]
                                     /\ container'[t] = container[t]
        /\ trouble' = "none" => trouble = "none"
    <3> USE PoolAssumption DEF TypeOK
    <3>1. CASE StopContainer(d) BY <3>1 DEF StopContainer
    <3>2. CASE DecrementContainers(d) BY <3>2 DEF DecrementContainers
    <3>3. CASE DeleteRow(d) BY <3>3 DEF DeleteRow
    <3> QED BY <1>2, <3>1, <3>2, <3>3
  <2>3. \A e \in Deleters \ {d} : ~On(e, s) /\ ~On(e, s)'
    BY <2>1, <2>2 DEF OneRequest, On
  <2>4. \A e \in Deleters, t \in Sessions \ {s} : On(e, t)' <=> On(e, t)
    <3>1. \A t \in Sessions \ {s} : ~On(d, t) BY DEF On
    <3>2. \A t \in Sessions \ {s} : ~On(d, t)'
      BY <1>2 DEF StopContainer, DecrementContainers, DeleteRow, On, TypeOK
    <3> QED BY <2>2, <3>1, <3>2 DEF On
  <2>5. \A e \in Deleters, t \in Sessions \ {s} :
          On(e, t) => pc'[e] = pc[e] /\ seenHost'[e] = seenHost[e]
    BY <2>2 DEF On
  <2>6. (On(d, s)' => Handles(d, s)') /\ Phase(s)'
    <3> USE <2>1, <2>2, <2>3 DEF TypeOK
    <3>1. CASE StopContainer(d)
      <4>1. /\ pc'[d] = "decrement" /\ UNCHANGED <<row, host, target, seenHost>>
            /\ container'[s] = "none" \/ trouble' # "none"
        BY <3>1 DEF StopContainer, Quiet
      <4>2. On(d, s)' BY <4>1 DEF On
      <4>3. Handles(d, s)' BY <3>1, <4>1 DEF Handles, StopContainer
      <4>4. Phase(s)' BY <4>1, <4>2 DEF Phase
      <4> QED BY <4>3, <4>4
    <3>2. CASE DecrementContainers(d)
      <4>1. /\ pc'[d] = "delete" /\ pc[d] = "decrement"
            /\ UNCHANGED <<row, host, container, target, seenHost>>
        BY <3>2 DEF DecrementContainers
      <4>2. On(d, s)' BY <4>1 DEF On
      <4>3. Handles(d, s)' BY <4>1 DEF Handles
      <4>4. Phase(s)' BY <4>1, <4>2 DEF Phase
      <4> QED BY <4>3, <4>4
    <3>3. CASE DeleteRow(d)
      <4>1. /\ pc'[d] = "idle" /\ pc[d] = "delete" /\ UNCHANGED container
            /\ row'[s] = "absent" /\ host'[s] = None
        BY <3>3 DEF DeleteRow, Quiet
      <4>2. ~On(d, s)' BY <4>1 DEF On
      <4>3. Phase(s)' BY <4>1 DEF Phase, Handles
      <4> QED BY <4>2, <4>3
    <3> QED BY <1>2, <3>1, <3>2, <3>3
  <2>7. \A e, f \in Deleters : On(e, s)' /\ On(f, s)' => e = f BY <2>3
  <2>8. \A e \in Deleters : On(e, s)' => Handles(e, s)'
    <3> SUFFICES ASSUME NEW e \in Deleters, On(e, s)' PROVE Handles(e, s)' OBVIOUS
    <3>1. e = d BY <2>3
    <3> QED BY <2>6, <3>1
  <2> QED BY <2>2, <2>4, <2>5, <2>6, <2>7, <2>8, Others
<1> QED BY <1>1, <1>2 DEF Destroy

-----------------------------------------------------------------------------
(* The counters.                                                           *)

LEMMA CountedFinite == \A n : IsFiniteSet(Counted(n)) /\ Cardinality(Counted(n)) \in Nat
BY PoolAssumption, FS_Subset, FS_CardinalityType DEF Counted

\* What counts for a node while no two requests meet.
LEMMA CountedOnce ==
  ASSUME OneRequest, NEW s \in Sessions, pc[s] # "done"
  PROVE  \A d \in Deleters : ~(target[d] = s /\ pc[d] = "delete")
BY DEF OneRequest, Handles, On

LEMMA CreateCounts ==
  ASSUME TypeOK, AtWork, Quiet, OneRequest, CountMatchesRows, NEW s \in Sessions, Create(s), Quiet'
  PROVE  CountMatchesRows'
<1> USE DEF Goto, rowVars, delVars, history, CallFails, BooksFail, Works
<1>1. \A n \in Nodes : active[n] = Cardinality(Counted(n)) BY DEF CountMatchesRows, Quiet
<1>2. Phase(s) BY DEF OneRequest
<1>3. CASE IncrementContainers(s)
  <2>1. /\ active' = [active EXCEPT ![node[s]] = @ + 1] /\ pc[s] = "count"
        /\ pc' = [pc EXCEPT ![s] = "done"] /\ UNCHANGED <<host, target>>
    BY <1>3 DEF IncrementContainers, Quiet
  <2>2. host[s] = node[s] /\ node[s] \in Nodes BY <1>2, <2>1 DEF Phase
  <2>3. \A d \in Deleters : pc'[d] = pc[d] /\ ~(target[d] = s /\ pc[d] = "delete")
    BY <2>1, CountedOnce, PoolAssumption DEF TypeOK
  <2>4. \A t \in Sessions : pc'[t] = IF t = s THEN "done" ELSE pc[t] BY <2>1 DEF TypeOK
  <2>5. ASSUME NEW n \in Nodes
        PROVE  Counted(n)' = IF n = node[s] THEN Counted(n) \cup {s} ELSE Counted(n)
    BY <2>1, <2>2, <2>3, <2>4 DEF Counted
  <2>6. \A n : s \notin Counted(n) BY <2>1 DEF Counted
  <2>7. ASSUME NEW n \in Nodes PROVE active'[n] = Cardinality(Counted(n)')
    <3>1. CASE n = node[s]
      <4>1. Cardinality(Counted(n) \cup {s}) = Cardinality(Counted(n)) + 1
        BY <2>6, CountedFinite, FS_AddElement
      <4> QED BY <1>1, <2>1, <2>5, <3>1, <4>1 DEF TypeOK
    <3>2. CASE n # node[s] BY <1>1, <2>1, <2>5, <3>2 DEF TypeOK
    <3> QED BY <3>1, <3>2
  <2> QED BY <2>7 DEF CountMatchesRows
<1>4. CASE ~IncrementContainers(s)
  <2>1. /\ active' = active /\ target' = target
        /\ \A d \in Deleters : pc'[d] = pc[d]
        /\ \A t \in Sessions \ {s} : pc'[t] = pc[t] /\ host'[t] = host[t]
        /\ pc[s] # "count"
        /\ \/ host'[s] = host[s] /\ pc'[s] # "count"
           \/ host[s] = None /\ (host'[s] = None \/ pc'[s] = "count")
    <3> USE <1>2, PoolAssumption DEF TypeOK
    <3>1. CASE InsertRow(s) BY <3>1 DEF InsertRow
    <3>2. CASE SelectWorker(s) BY <3>2 DEF SelectWorker
    <3>3. CASE ContainerCreate(s) BY <3>3 DEF ContainerCreate, Fails
    <3>4. CASE ContainerStart(s) BY <3>4 DEF ContainerStart, Fails
    <3>5. CASE ContainerInspect(s) BY <3>5 DEF ContainerInspect, Fails
    <3>6. CASE SaveRunning(s) BY <3>6 DEF SaveRunning, Phase
    <3>7. CASE SaveError(s) BY <3>7 DEF SaveError, Phase
    <3> QED BY <1>4, <3>1, <3>2, <3>3, <3>4, <3>5, <3>6, <3>7 DEF Create
  <2>2. ASSUME NEW n \in Nodes PROVE Counted(n)' = Counted(n)
    BY <2>1, PoolAssumption DEF Counted
  <2> QED BY <1>1, <2>1, <2>2 DEF CountMatchesRows
<1> QED BY <1>3, <1>4

LEMMA DestroyCounts ==
  ASSUME TypeOK, AtWork, Quiet, OneRequest, CountMatchesRows, NEW d \in Deleters, Destroy(d), Quiet'
  PROVE  CountMatchesRows'
<1> USE DEF Goto, rowVars, delVars, history, CallFails, BooksFail, Works
<1>1. \A n \in Nodes : active[n] = Cardinality(Counted(n)) BY DEF CountMatchesRows, Quiet
<1>2. CASE ReadRow(d)
  <2>1. PICK s \in Sessions : /\ target' = [target EXCEPT ![d] = s] /\ pc[d] = "idle"
                              /\ pc' = [pc EXCEPT ![d] = IF host[s] = None THEN "delete" ELSE "stop"]
                              /\ UNCHANGED <<active, host>>
    BY <1>2 DEF ReadRow
  <2>2. \A t \in Sessions : pc'[t] = pc[t] BY <2>1, PoolAssumption DEF TypeOK
  <2>3. \A e \in Deleters \ {d} : pc'[e] = pc[e] /\ target'[e] = target[e] BY <2>1 DEF TypeOK
  <2>4. target'[d] = s /\ pc'[d] = IF host[s] = None THEN "delete" ELSE "stop"
    BY <2>1 DEF TypeOK
  <2>5. ASSUME NEW n \in Nodes PROVE Counted(n)' = Counted(n)
    BY <2>1, <2>2, <2>3, <2>4, PoolAssumption DEF Counted
  <2> QED BY <1>1, <2>1, <2>5 DEF CountMatchesRows
<1>3. CASE StopContainer(d)
  <2>1. pc' = [pc EXCEPT ![d] = "decrement"] /\ pc[d] = "stop" /\ UNCHANGED <<active, host, target>>
    BY <1>3 DEF StopContainer, Quiet
  <2>2. \A t \in Sessions : pc'[t] = pc[t] BY <2>1, PoolAssumption DEF TypeOK
  <2>3. \A e \in Deleters : pc'[e] = "delete" <=> pc[e] = "delete" BY <2>1 DEF TypeOK
  <2>4. \A n : Counted(n)' = Counted(n) BY <2>1, <2>2, <2>3 DEF Counted
  <2> QED BY <1>1, <2>1, <2>4 DEF CountMatchesRows
<1>4. CASE DecrementContainers(d)
  <2> PICK s \in Sessions : s = target[d] BY <1>4 DEF DecrementContainers, AtWork, Deleting
  <2>1. /\ active' = [active EXCEPT ![seenHost[d]] = IF @ > 0 THEN @ - 1 ELSE 0]
        /\ pc[d] = "decrement" /\ pc' = [pc EXCEPT ![d] = "delete"] /\ UNCHANGED <<host, target>>
    BY <1>4 DEF DecrementContainers, Quiet
  <2>2. On(d, s) BY <2>1 DEF On
  <2>3. /\ pc[s] = "done" /\ host[s] = seenHost[d] /\ seenHost[d] \in Nodes
        /\ \A e \in Deleters \ {d} : ~(target[e] = s /\ pc[e] = "delete")
    BY <2>1, <2>2 DEF OneRequest, Handles, On, AtWork
  <2>4. \A t \in Sessions : pc'[t] = pc[t] BY <2>1, PoolAssumption DEF TypeOK
  <2>5. \A e \in Deleters : pc'[e] = IF e = d THEN "delete" ELSE pc[e] BY <2>1 DEF TypeOK
  <2>6. s \in Counted(seenHost[d])
    <3>1. ~\E e \in Deleters : target[e] = s /\ pc[e] = "delete" BY <2>1, <2>3
    <3> QED BY <2>3, <3>1 DEF Counted
  <2>7. ASSUME NEW n \in Nodes
        PROVE  Counted(n)' = IF n = seenHost[d] THEN Counted(n) \ {s} ELSE Counted(n)
    BY <2>1, <2>3, <2>4, <2>5 DEF Counted
  <2>8. ASSUME NEW n \in Nodes PROVE active'[n] = Cardinality(Counted(n)')
    <3>1. CASE n = seenHost[d]
      <4>1. Cardinality(Counted(n) \ {s}) = Cardinality(Counted(n)) - 1
        BY <2>6, <3>1, CountedFinite, FS_RemoveElement
      <4>2. Cardinality(Counted(n) \ {s}) \in Nat
        <5>1. IsFiniteSet(Counted(n) \ {s}) BY CountedFinite, FS_RemoveElement
        <5> QED BY <5>1, FS_CardinalityType
      <4>3. active[n] \in Nat /\ active[n] > 0 BY <1>1, <4>1, <4>2 DEF TypeOK
      <4> QED BY <1>1, <2>1, <2>7, <3>1, <4>1, <4>3 DEF TypeOK
    <3>2. CASE n # seenHost[d] BY <1>1, <2>1, <2>7, <3>2 DEF TypeOK
    <3> QED BY <3>1, <3>2
  <2> QED BY <2>8 DEF CountMatchesRows
<1>5. CASE DeleteRow(d)
  <2> PICK s \in Sessions : s = target[d] BY <1>5 DEF DeleteRow, AtWork, Deleting
  <2>1. /\ pc[d] = "delete" /\ pc' = [pc EXCEPT ![d] = "idle"] /\ active' = active
        /\ host' = [host EXCEPT ![s] = None] /\ target' = [target EXCEPT ![d] = None]
    BY <1>5 DEF DeleteRow, Quiet
  <2>2. \A t \in Sessions : pc'[t] = pc[t] BY <2>1, PoolAssumption DEF TypeOK
  <2>3. \A e \in Deleters \ {d} : pc'[e] = pc[e] /\ target'[e] = target[e] BY <2>1 DEF TypeOK
  <2>4. pc'[d] = "idle" /\ \A t \in Sessions : host'[t] = IF t = s THEN None ELSE host[t]
    BY <2>1 DEF TypeOK
  <2>5. ASSUME NEW n \in Nodes PROVE Counted(n)' = Counted(n)
    BY <2>1, <2>2, <2>3, <2>4, PoolAssumption DEF Counted
  <2> QED BY <1>1, <2>1, <2>5 DEF CountMatchesRows
<1> QED BY <1>2, <1>3, <1>4, <1>5 DEF Destroy

LEMMA StepBooks == BooksInv /\ IInv /\ IInv' /\ [Next]_vars => BooksInv'
<1> SUFFICES ASSUME BooksInv, IInv', [Next]_vars PROVE BooksInv' OBVIOUS
<1>1. TypeOK' /\ AtWork' BY DEF IInv
<1>2. CASE UNCHANGED vars
  BY <1>1, <1>2 DEF vars, rowVars, delVars, history, BooksInv, Quiet, OneRequest, Phase, Handles,
                    On, CountMatchesRows, Counted
<1>3. CASE Next
  <2>1. CASE ~Quiet' BY <1>1, <2>1 DEF BooksInv, CountMatchesRows, Quiet
  <2>2. CASE Quiet'
    <3>1. Quiet
      <4> USE <2>2 DEF Quiet, Goto, history, CallFails, BooksFail, Works
      <4>1. ASSUME NEW s \in Sessions, Create(s) PROVE Quiet
        BY <4>1 DEF Create, InsertRow, SelectWorker, ContainerCreate, ContainerStart,
           ContainerInspect, SaveRunning, SaveError, IncrementContainers, Fails
      <4>2. ASSUME NEW d \in Deleters, Destroy(d) PROVE Quiet
        <5>1. CASE ReadRow(d) BY <5>1 DEF ReadRow
        <5>2. CASE StopContainer(d) BY <5>2 DEF StopContainer
        <5>3. CASE DecrementContainers(d) BY <5>3 DEF DecrementContainers
        <5>4. CASE DeleteRow(d) BY <5>4 DEF DeleteRow
        <5> QED BY <4>2, <5>1, <5>2, <5>3, <5>4 DEF Destroy
      <4> QED BY <1>3, <4>1, <4>2 DEF Next
    <3>2. OneRequest' /\ CountMatchesRows'
      BY <1>3, <2>2, <3>1, CreateOne, DestroyOne, CreateCounts, DestroyCounts DEF Next, BooksInv
    <3> QED BY <1>1, <3>2 DEF BooksInv
  <2> QED BY <2>1, <2>2
<1> QED BY <1>2, <1>3

\* While requests do not meet on a session, rows, containers and counters are in step.
THEOREM BooksInvariance == Spec => []BooksInv
<1>1. BooksInv /\ IInv /\ IInv' /\ [Next]_vars => BooksInv' BY StepBooks
<1> QED BY <1>1, InitBooks, Invariance, PTL DEF Spec

\* The counter of a node is the number of sessions on it, whatever Docker calls fail
\* (manager.go:55-85, 138-147).
THEOREM CountMatchesRowsHolds == Spec => []CountMatchesRows
<1>1. BooksInv => CountMatchesRows BY DEF BooksInv
<1> QED BY <1>1, BooksInvariance, PTL

\* A session that is listed as running has its container (manager.go:55-85).
THEOREM RunningHasContainerHolds == Spec => []RunningHasContainer
<1>1. ASSUME BooksInv PROVE RunningHasContainer
  <2> SUFFICES ASSUME Quiet, NEW s \in Sessions, row[s] = "running", ~Busy(s)
               PROVE  container[s] = "running" /\ host[s] = node[s]
    BY DEF RunningHasContainer, Quiet
  <2>1. Phase(s) /\ \A d \in Deleters : ~On(d, s)
    BY <1>1 DEF BooksInv, OneRequest, Busy, On
  <2>2. pc[s] \in Creating \cup {"idle", "done"} BY <1>1 DEF BooksInv, TypeOK, AtWork
  <2> QED BY <2>1, <2>2 DEF Phase, Busy
<1> QED BY <1>1, BooksInvariance, PTL

\* While nothing fails, a container belongs to a running session or to a request on its way
\* (manager.go:58-85, 136-151).
THEOREM NoLeakHolds == Spec => []NoLeak
<1>1. ASSUME BooksInv PROVE NoLeak
  <2> SUFFICES ASSUME Quiet, trouble = "none", NEW s \in Sessions, container[s] # "none", ~Busy(s)
               PROVE  row[s] = "running"
    BY DEF NoLeak, Quiet
  <2>1. Phase(s) /\ \A d \in Deleters : ~On(d, s)
    BY <1>1 DEF BooksInv, OneRequest, Busy, On
  <2>2. pc[s] \in Creating \cup {"idle", "done"} BY <1>1 DEF BooksInv, TypeOK, AtWork
  <2> QED BY <2>1, <2>2 DEF Phase, Busy
<1> QED BY <1>1, BooksInvariance, PTL
=============================================================================
