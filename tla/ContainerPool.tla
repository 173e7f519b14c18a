---------------------------- MODULE ContainerPool ----------------------------
(***************************************************************************)
(* Container sessions: CreateSession and DestroySession of                 *)
(* server/internal/session/manager.go over the worker nodes of             *)
(* server/internal/container/worker.go and the Docker calls of docker.go.  *)
(*                                                                         *)
(* A step is one database statement or one Docker call, which other        *)
(* requests run between.  A creator is the request that creates one        *)
(* session, a deleter a DELETE request.  A host is one node (FindByHost).  *)
(***************************************************************************)
EXTENDS Naturals, FiniteSets

CONSTANTS
  Nodes, Sessions,  \* a session id is created once
  Deleters,
  None,
  Capacity          \* capacity of every node; all are active

ASSUME PoolAssumption ==
  /\ IsFiniteSet(Sessions) /\ None \notin Nodes /\ Sessions \cap Deleters = {}
  /\ Capacity \in Nat

VARIABLES
  active,           \* active_containers of a node's row
  row, host,        \* status of a session's row, or "absent", and its worker_host, or None
  container,        \* the container named after the session, on the node picked for it
  node,             \* the node a creator picked
  target, seenHost, \* the session a deleter works on, and the host in the row it read
  pc,
  overlapped,       \* history: two creations were under way at once
  crossed,          \* history: a DELETE met a session another request worked on
  trouble           \* history: the gravest failure so far, an element of Troubles

rowVars == <<row, host>>
delVars == <<target, seenHost>>
history == <<overlapped, crossed, trouble>>
vars == <<active, rowVars, container, node, delVars, pc, history>>

Creating == {"select", "create", "start", "inspect", "save", "saveError", "count"}
Deleting == {"stop", "decrement", "delete"}

\* Nothing failed; a Docker call or the update of a session's row did; a statement on a
\* node's row or the deletion of a session's did.
Troubles == {"none", "calls", "books"}

Init ==
  /\ active = [n \in Nodes |-> 0]
  /\ row = [s \in Sessions |-> "absent"] /\ host = [s \in Sessions |-> None]
  /\ container = [s \in Sessions |-> "none"]
  /\ node = [s \in Sessions |-> None]
  /\ target = [d \in Deleters |-> None] /\ seenHost = [d \in Deleters |-> None]
  /\ pc = [p \in Sessions \cup Deleters |-> "idle"]
  /\ overlapped = FALSE /\ crossed = FALSE /\ trouble = "none"

Goto(p, label) == pc' = [pc EXCEPT ![p] = label]
CallFails == trouble' = IF trouble = "books" THEN trouble ELSE "calls"
BooksFail == trouble' = "books"
Works == UNCHANGED trouble

-----------------------------------------------------------------------------
(* CreateSession.                                                          *)

InsertRow(s) ==
  /\ pc[s] = "idle"
  /\ row' = [row EXCEPT ![s] = "creating"]
  /\ Goto(s, "select")
  /\ overlapped' = (overlapped \/ \E t \in Sessions : pc[t] \in Creating)
  /\ UNCHANGED <<active, host, container, node, delVars, crossed, trouble>>

\* Mutant: the capacity itself still counts as room.
RoomyFull == {n \in Nodes : active[n] <= Capacity}

Roomy == {n \in Nodes : active[n] < Capacity}

\* SelectWorker: of the nodes with room, one with the fewest containers.
Selectable == {n \in Roomy : \A m \in Roomy : active[n] <= active[m]}

SelectWorker(s) ==
  /\ pc[s] = "select"
  /\ IF Selectable = {} THEN Goto(s, "saveError") /\ UNCHANGED node
     ELSE /\ \E n \in Selectable : node' = [node EXCEPT ![s] = n]
          /\ Goto(s, "create")
  /\ UNCHANGED <<active, rowVars, container, delVars, history>>

Fails(s) == Goto(s, "saveError") /\ CallFails

ContainerCreate(s) ==
  /\ pc[s] = "create"
  /\ \/ container' = [container EXCEPT ![s] = "created"] /\ Goto(s, "start") /\ Works
     \/ Fails(s) /\ UNCHANGED container
  /\ UNCHANGED <<active, rowVars, node, delVars, overlapped, crossed>>

\* Mutant: a container that does not start is taken for a running one.
ContainerStartIgnored(s) ==
  /\ pc[s] = "start"
  /\ \/ container' = [container EXCEPT ![s] = "running"] /\ Works
     \/ CallFails /\ UNCHANGED container
  /\ Goto(s, "inspect")
  /\ UNCHANGED <<active, rowVars, node, delVars, overlapped, crossed>>

ContainerStart(s) ==
  /\ pc[s] = "start"
  /\ \/ container' = [container EXCEPT ![s] = "running"] /\ Goto(s, "inspect") /\ Works
     \/ Fails(s) /\ UNCHANGED container
  /\ UNCHANGED <<active, rowVars, node, delVars, overlapped, crossed>>

\* ContainerInspect, and the mapped port in its answer: only now is the id handed back.
ContainerInspect(s) ==
  /\ pc[s] = "inspect"
  /\ (Goto(s, "save") /\ Works) \/ Fails(s)
  /\ UNCHANGED <<active, rowVars, container, node, delVars, overlapped, crossed>>

\* Save writes the row as this request knows it, and inserts it if it was deleted.
SaveRunning(s) ==
  /\ pc[s] = "save"
  /\ \/ /\ row' = [row EXCEPT ![s] = "running"] /\ host' = [host EXCEPT ![s] = node[s]]
        /\ Goto(s, "count") /\ Works
     \/ Goto(s, "done") /\ CallFails /\ UNCHANGED rowVars
  /\ UNCHANGED <<active, container, node, delVars, overlapped, crossed>>

\* Mutant: the node is counted although no container came up.
SaveErrorCounts(s) ==
  /\ pc[s] = "saveError"
  /\ row' = [row EXCEPT ![s] = "error"] /\ host' = [host EXCEPT ![s] = None]
  /\ Goto(s, "count")
  /\ UNCHANGED <<active, container, node, delVars, history>>

\* An error of this Save is ignored.
SaveError(s) ==
  /\ pc[s] = "saveError"
  /\ \/ row' = [row EXCEPT ![s] = "error"] /\ host' = [host EXCEPT ![s] = None] /\ Works
     \/ CallFails /\ UNCHANGED rowVars
  /\ Goto(s, "done")
  /\ UNCHANGED <<active, container, node, delVars, overlapped, crossed>>

\* Its failure is only logged.
IncrementContainers(s) ==
  /\ pc[s] = "count"
  /\ \/ active' = [active EXCEPT ![node[s]] = @ + 1] /\ Works
     \/ BooksFail /\ UNCHANGED active
  /\ Goto(s, "done")
  /\ UNCHANGED <<rowVars, container, node, delVars, overlapped, crossed>>

Create(s) ==
  \/ InsertRow(s) \/ SelectWorker(s) \/ ContainerCreate(s) \/ ContainerStart(s)
  \/ ContainerInspect(s) \/ SaveRunning(s) \/ SaveError(s) \/ IncrementContainers(s)

-----------------------------------------------------------------------------
(* DestroySession, with the row the handler read for it.                   *)

Busy(s) == pc[s] \in Creating \/ \E d \in Deleters : pc[d] # "idle" /\ target[d] = s

\* Mutant: the row is deleted without looking at the host it names.
ReadRowNoHost(d) ==
  /\ pc[d] = "idle"
  /\ \E s \in Sessions :
       /\ row[s] # "absent" /\ crossed' = (crossed \/ Busy(s))
       /\ target' = [target EXCEPT ![d] = s]
       /\ Goto(d, "delete")
  /\ UNCHANGED <<active, rowVars, container, node, seenHost, overlapped, trouble>>

ReadRow(d) ==
  /\ pc[d] = "idle"
  /\ \E s \in Sessions :
       /\ row[s] # "absent" /\ crossed' = (crossed \/ Busy(s))
       /\ target' = [target EXCEPT ![d] = s]
       /\ seenHost' = [seenHost EXCEPT ![d] = host[s]]
       /\ Goto(d, IF host[s] = None THEN "delete" ELSE "stop")
  /\ UNCHANGED <<active, rowVars, container, node, overlapped, trouble>>

\* FindByHost, whose failure skips the node, then StopContainer, whose failure is logged.
StopContainer(d) ==
  /\ pc[d] = "stop"
  /\ \/ /\ container' = [container EXCEPT ![target[d]] = "none"]
        /\ Goto(d, "decrement") /\ Works
     \/ Goto(d, "decrement") /\ CallFails /\ UNCHANGED container
     \/ Goto(d, "delete") /\ BooksFail /\ UNCHANGED container
  /\ UNCHANGED <<active, rowVars, node, delVars, overlapped, crossed>>

\* Never below zero: the WHERE of the statement.  Its failure is only logged.
DecrementContainers(d) ==
  /\ pc[d] = "decrement"
  /\ \/ active' = [active EXCEPT ![seenHost[d]] = IF @ > 0 THEN @ - 1 ELSE 0] /\ Works
     \/ BooksFail /\ UNCHANGED active
  /\ Goto(d, "delete")
  /\ UNCHANGED <<rowVars, container, node, delVars, overlapped, crossed>>

DeleteRow(d) ==
  /\ pc[d] = "delete"
  /\ \/ /\ row' = [row EXCEPT ![target[d]] = "absent"]
        /\ host' = [host EXCEPT ![target[d]] = None] /\ Works
     \/ BooksFail /\ UNCHANGED rowVars
  /\ target' = [target EXCEPT ![d] = None] /\ seenHost' = [seenHost EXCEPT ![d] = None]
  /\ Goto(d, "idle")
  /\ UNCHANGED <<active, container, node, overlapped, crossed>>

Destroy(d) == ReadRow(d) \/ StopContainer(d) \/ DecrementContainers(d) \/ DeleteRow(d)

Next == (\E s \in Sessions : Create(s)) \/ (\E d \in Deleters : Destroy(d))

Spec == Init /\ [][Next]_vars

-----------------------------------------------------------------------------
(* Properties.                                                             *)

TypeOK ==
  /\ active \in [Nodes -> Nat]
  /\ row \in [Sessions -> {"absent", "creating", "running", "error"}]
  /\ host \in [Sessions -> Nodes \cup {None}]
  /\ container \in [Sessions -> {"none", "created", "running"}]
  /\ node \in [Sessions -> Nodes \cup {None}]
  /\ target \in [Deleters -> Sessions \cup {None}] /\ seenHost \in [Deleters -> Nodes \cup {None}]
  /\ pc \in [Sessions \cup Deleters -> Creating \cup Deleting \cup {"idle", "done"}]
  /\ overlapped \in BOOLEAN /\ crossed \in BOOLEAN /\ trouble \in Troubles

\* A node's counter owes to the sessions on it: those whose row names it, but for the
\* request that has still to count it, and the one that has counted it off already.
Counted(n) ==
  {s \in Sessions : /\ host[s] = n /\ pc[s] # "count"
                    /\ ~\E d \in Deleters : target[d] = s /\ pc[d] = "delete"}

\* Until two requests meet on a session or a statement on the nodes fails, the counter
\* that SelectWorker goes by is the number of sessions on the node, whatever Docker calls
\* or row updates fail on the way (manager.go:55-85, 138-147).
CountMatchesRows ==
  ~crossed /\ trouble # "books" => \A n \in Nodes : active[n] = Cardinality(Counted(n))

\* ... and a session that is listed as running has its container, until it is deleted.
RunningHasContainer ==
  ~crossed /\ trouble # "books" =>
    \A s \in Sessions :
      row[s] = "running" /\ ~Busy(s) => container[s] = "running" /\ host[s] = node[s]

\* While nothing fails and no two requests meet on a session, no container is left behind
\* by a request that is over.
NoLeak ==
  ~crossed /\ trouble = "none" =>
    \A s \in Sessions : container[s] # "none" /\ ~Busy(s) => row[s] = "running"

\* Creations that follow one another never fill a node beyond its capacity, whatever
\* fails, and DELETEs in between change nothing about that.
WithinCapacity ==
  ~overlapped => \A n \in Nodes : active[n] <= Capacity

-----------------------------------------------------------------------------
(* What the repository says and the code does not keep.                    *)

\* container/worker.go:45 "picks the least-loaded active worker with available
\* capacity": no node gets more containers than its capacity.
CapacityKept ==
  \A n \in Nodes :
    Cardinality({s \in Sessions : node[s] = n /\ container[s] = "running"}) <= Capacity
=============================================================================
