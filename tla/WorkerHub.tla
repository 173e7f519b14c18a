------------------------------ MODULE WorkerHub ------------------------------
(***************************************************************************)
(* The worker hub of the moltty server, with the database rows it keeps,   *)
(* the WebSocket links to the workers and the worker agents at their other *)
(* end.  Sources: server/internal/worker/hub.go and handler.go (the hub    *)
(* and the goroutines that call it), session/manager.go and handler.go     *)
(* (create, rename, delete), client/src/main/worker-manager.ts (agent).    *)
(*                                                                         *)
(* A process is a goroutine of the server:                                 *)
(*   a connection c  -- the read loop of one worker WebSocket (WSHandler), *)
(*   a worker w      -- the request DELETE /workers/w,                     *)
(*   a session s     -- the request POST /sessions that creates s.         *)
(* A step is what a goroutine does between two points where another one    *)
(* can run: one critical section of h.mu, one SQL statement, one write to  *)
(* a WebSocket.  UnregisterWorker keeps h.mu across several steps, the      *)
(* ping loop its read lock across its writes, a fan-out the relay's mutex. *)
(* Any statement may fail, and a peer may stop reading so that no write to *)
(* it returns.  What the viewers see is in ViewerRelay, the agent's         *)
(* reconnection in WorkerManager.                                          *)
(***************************************************************************)
EXTENDS Naturals, Sequences, FiniteSets

CONSTANTS
  Workers,       \* ids of the registered machines
  Sessions,      \* ids of worker sessions; an id is created at most once
  Conns,         \* worker WebSocket connections; each is used at most once
  ConnWorker,    \* the workerId each connection announces in its URL
  None, NoRelay, \* "nil", and "no entry in h.sessions"
  Pinger,        \* the goroutine of StartPingLoop, as a holder of h.mu
  AllowOverlap,  \* may a worker reconnect before its old handler has ended?
  WorkerRank,    \* the order of the workers' ids, the key SelectWorker falls back on
  PingLoop,      \* does the ping loop run?  (A run about other things leaves it out.)
  MayStall,      \* may a peer stop reading?  (It counts as a fault.)
  MayDelete,     \* may sessions be deleted?
  MaxCrashes, MaxRenames, MaxRemovals, MaxFaults,  \* bounds on how often these happen
  MaxInput, MaxOutput    \* bounds on the messages in flight that input, output may fill

ASSUME SetsAssumption ==
  /\ ConnWorker \in [Conns -> Workers]
  /\ Workers \cap Conns = {} /\ Workers \cap Sessions = {} /\ Conns \cap Sessions = {}
  /\ None \notin Workers \cup Conns \cup Sessions
  /\ Pinger \notin Workers \cup Conns \cup Sessions \cup {None}
  /\ NoRelay \notin Workers \cup {None}

ASSUME BoundsAssumption ==
  /\ AllowOverlap \in BOOLEAN /\ PingLoop \in BOOLEAN /\ MayStall \in BOOLEAN
  /\ MayDelete \in BOOLEAN
  /\ MaxCrashes \in Nat /\ MaxRenames \in Nat /\ MaxRemovals \in Nat /\ MaxFaults \in Nat
  /\ MaxInput \in Nat /\ MaxOutput \in Nat /\ WorkerRank \in [Workers -> Nat]

VARIABLES
  workers,       \* h.workers: the registered connection of a worker, or None
  sessionIDs,    \* WorkerConn.SessionIDs of each connection
  relay,         \* SessionRelay.WorkerID of h.sessions[s], or NoRelay
  hmu,           \* who holds h.mu between two steps: a process, or Pinger (for reading)
  status, owner, \* sessions table: status and worker_id
  workerRow,     \* workers table: status
  pc, cur, want, \* where a goroutine is, its session, the conn it looked up
  todo, marks,   \* sessions left to resume / to mark offline
  link,          \* state of a connection: "none", "up" or "down"
  toServer, toWorker,   \* messages in flight on a connection
  sock,          \* WorkerManager.ws: the agent's current connection
  ptys, mapped,  \* live PTYs per worker and session; WorkerManager.sessions
  destroy,       \* DELETE /sessions/s between the kill and the row's deletion
  rename,        \* PATCH /sessions/s: the status in the row it has read
  sent,          \* history: sessions whose spawn was written to a connection
  staleRename,   \* history: sessions whose status a rename has reverted
  crashes, renames, removals,   \* how often each bounded event has happened
  faults, faulted,  \* history: failures, and the sessions and workers they concerned
  hung           \* whose writes never return: a worker's connection, or a session one of
                 \* whose viewers has stopped reading

hubVars   == <<workers, sessionIDs, relay, hmu>>
dbVars    == <<status, owner, workerRow>>
procVars  == <<pc, cur, want, todo, marks>>
netVars   == <<link, toServer, toWorker, sock>>
agentVars == <<ptys, mapped>>
apiVars   == <<destroy, rename, staleRename>>
faultVars == <<faults, faulted>>
bounds    == <<crashes, renames, removals, faultVars, hung>>
locals    == <<cur, want, todo, marks>>
outside   == <<netVars, agentVars, apiVars, sent, bounds>>
vars == <<hubVars, dbVars, procVars, netVars, agentVars, apiVars, sent, bounds>>

Procs == Conns \cup Workers \cup Sessions

\* The worker whose connection the process registers, unregisters or spawns on.
WorkerFor(p) == IF p \in Conns THEN ConnWorker[p]
                ELSE IF p \in Workers THEN p ELSE owner[p]

Statuses == {"absent", "creating", "running", "stopped", "offline"}
PCs == {"idle", "register", "row", "find", "resuming", "lookup", "relay", "send",
        "reading", "startedRead", "startedWrite", "exitedRead", "exitedWrite",
        "createRelay", "output", "fanout", "unregister", "marking", "markWrite",
        "markRelay", "workerRow", "workerRowWrite", "deleteRow", "done"}
ToServerMsgs == [type : {"started", "exited", "output"}, sess : Sessions]
ToWorkerMsgs == [type : {"spawn", "input", "kill"}, sess : Sessions]

-----------------------------------------------------------------------------
Init ==
  /\ workers = [w \in Workers |-> None]
  /\ sessionIDs = [c \in Conns |-> {}]
  /\ relay = [s \in Sessions |-> NoRelay]
  /\ hmu = None
  /\ status = [s \in Sessions |-> "absent"]
  /\ owner = [s \in Sessions |-> None]
  /\ workerRow = [w \in Workers |-> "absent"]
  /\ pc = [p \in Procs |-> "idle"]
  /\ cur = [p \in Procs |-> None]
  /\ want = [p \in Procs |-> None]
  /\ todo = [c \in Conns |-> {}]
  /\ marks = [p \in Procs |-> {}]
  /\ link = [c \in Conns |-> "none"]
  /\ toServer = [c \in Conns |-> <<>>]
  /\ toWorker = [c \in Conns |-> <<>>]
  /\ sock = [w \in Workers |-> None]
  /\ ptys = [w \in Workers |-> [s \in Sessions |-> 0]]
  /\ mapped = [w \in Workers |-> {}]
  /\ destroy = [s \in Sessions |-> FALSE]
  /\ rename = [s \in Sessions |-> None]
  /\ sent = [c \in Conns |-> {}]
  /\ staleRename = {}
  /\ crashes = 0 /\ renames = 0 /\ removals = 0
  /\ faults = 0 /\ faulted = {} /\ hung = None

Goto(p, label) == pc' = [pc EXCEPT ![p] = label]

\* A write to a WebSocket whose link is down fails and is only logged.
WriteToWorker(c, type, s) ==
  toWorker' = IF link[c] = "up"
              THEN [toWorker EXCEPT ![c] = Append(@, [type |-> type, sess |-> s])]
              ELSE toWorker

\* It returns unless the peer at the other end has stopped reading (no write deadline
\* is ever set); then nobody else gets the connection's WriteMu either.
WriteReturns(c) == ~(hung = c /\ link[c] = "up")

\* h.mu can be had for reading beside the ping loop.  (A writer that waits keeps new
\* readers out; here they may still have come before it.)
Readable == hmu \in {None, Pinger}

\* A statement fails, the agent throws or a peer stops reading: the things it concerned are noted.
Fault(things) ==
  /\ faults < MaxFaults
  /\ faults' = faults + 1
  /\ faulted' = faulted \cup things

\* A goroutine whose statement failed has written nothing and goes on at the label.
GoesOn(p, label, things) ==
  /\ Fault(things)
  /\ Goto(p, label)
  /\ UNCHANGED <<hubVars, dbVars, netVars, agentVars, apiVars, sent, crashes, renames,
                 removals, hung>>

-----------------------------------------------------------------------------
(* The WebSocket between agent and server.                                 *)

\* The agent dials; the server upgrades and starts the handler.
Connect(c) ==
  LET w == ConnWorker[c] IN
  /\ pc[c] = "idle" /\ sock[w] = None
  /\ AllowOverlap \/ \A d \in Conns : ConnWorker[d] = w => pc[d] \in {"idle", "done"}
  /\ sock' = [sock EXCEPT ![w] = c]
  /\ link' = [link EXCEPT ![c] = "up"]
  /\ Goto(c, "register")
  /\ UNCHANGED <<hubVars, dbVars, locals, toServer, toWorker, agentVars, apiVars,
                 sent, bounds>>

\* The network loses the connection; either end learns of it later.
Drop(c) ==
  /\ link[c] = "up"
  /\ link' = [link EXCEPT ![c] = "down"]
  /\ UNCHANGED <<hubVars, dbVars, procVars, toServer, toWorker, sock, agentVars,
                 apiVars, sent, bounds>>

\* ws.on('close') at the agent: messages it has not read yet are lost.
AgentClosed(w) ==
  LET c == sock[w] IN
  /\ c # None /\ link[c] = "down"
  /\ sock' = [sock EXCEPT ![w] = None]
  /\ toWorker' = [toWorker EXCEPT ![c] = <<>>]
  /\ UNCHANGED <<hubVars, dbVars, procVars, link, toServer, agentVars, apiVars, sent,
                 bounds>>

-----------------------------------------------------------------------------
(* RegisterWorker, run by the connection's handler before its read loop.   *)

RegisterConn(c) ==
  /\ pc[c] = "register" /\ hmu = None
  /\ workers' = [workers EXCEPT ![ConnWorker[c]] = c]
  /\ Goto(c, "row")
  /\ UNCHANGED <<sessionIDs, relay, hmu, dbVars, locals, outside>>

\* Mutant: a row that exists already is not updated.
RegisterRowCreateOnly(c) ==
  /\ pc[c] = "row"
  /\ workerRow' = IF workerRow[ConnWorker[c]] = "absent"
                  THEN [workerRow EXCEPT ![ConnWorker[c]] = "online"] ELSE workerRow
  /\ Goto(c, "find")
  /\ UNCHANGED <<hubVars, status, owner, locals, outside>>

\* Update or create the workers row, whichever FindByID calls for.
RegisterRow(c) ==
  /\ pc[c] = "row"
  /\ workerRow' = [workerRow EXCEPT ![ConnWorker[c]] = "online"]
  /\ Goto(c, "find")
  /\ UNCHANGED <<hubVars, status, owner, locals, outside>>

\* Mutant: the query asks for stopped sessions.
ResumableStopped(w) == {s \in Sessions : owner[s] = w /\ status[s] = "stopped"}

Resumable(w) == {s \in Sessions : owner[s] = w /\ status[s] = "offline"}

RegisterRowFails(c) ==
  /\ pc[c] = "row"
  /\ GoesOn(c, "find", {ConnWorker[c]})
  /\ UNCHANGED locals

FindResumable(c) ==
  /\ pc[c] = "find"
  /\ todo' = [todo EXCEPT ![c] = Resumable(ConnWorker[c])]
  /\ Goto(c, "resuming")
  /\ UNCHANGED <<hubVars, dbVars, cur, want, marks, outside>>

\* RegisterWorker logs the error and returns: nothing is resumed.
FindResumableFails(c) ==
  /\ pc[c] = "find"
  /\ GoesOn(c, "reading", Resumable(ConnWorker[c]))
  /\ UNCHANGED locals

ResumeNext(c) ==
  /\ pc[c] = "resuming"
  /\ \E s \in todo[c] :
       /\ todo' = [todo EXCEPT ![c] = @ \ {s}]
       /\ cur' = [cur EXCEPT ![c] = s]
  /\ Goto(c, "lookup")
  /\ UNCHANGED <<hubVars, dbVars, want, marks, outside>>

ResumeDone(c) ==
  /\ pc[c] = "resuming" /\ todo[c] = {}
  /\ Goto(c, "reading")
  /\ UNCHANGED <<hubVars, dbVars, locals, outside>>

-----------------------------------------------------------------------------
(* SpawnSession, called by a handler that resumes and by CreateSession.    *)

AfterSpawn(p) == IF p \in Conns THEN "resuming" ELSE "done"

\* Mutant: when the worker is not connected any other connection is used.
SpawnLookupAny(p) ==
  /\ pc[p] = "lookup" /\ Readable
  /\ \E w \in Workers :
       /\ workers[WorkerFor(p)] # None => w = WorkerFor(p)
       /\ want' = [want EXCEPT ![p] = workers[w]]
       /\ Goto(p, IF workers[w] = None THEN AfterSpawn(p) ELSE "relay")
  /\ UNCHANGED <<hubVars, dbVars, cur, todo, marks, outside>>

SpawnLookup(p) ==
  /\ pc[p] = "lookup" /\ Readable
  /\ want' = [want EXCEPT ![p] = workers[WorkerFor(p)]]
  /\ Goto(p, IF workers[WorkerFor(p)] = None THEN AfterSpawn(p) ELSE "relay")
  /\ UNCHANGED <<hubVars, dbVars, cur, todo, marks, outside>>

SpawnRelay(p) ==
  /\ pc[p] = "relay" /\ hmu = None
  /\ relay' = [relay EXCEPT ![cur[p]] = WorkerFor(p)]
  /\ Goto(p, "send")
  /\ UNCHANGED <<workers, sessionIDs, hmu, dbVars, locals, outside>>

SpawnSend(p) ==
  /\ pc[p] = "send" /\ WriteReturns(want[p])
  /\ WriteToWorker(want[p], "spawn", cur[p])
  /\ sent' = [sent EXCEPT ![want[p]] = @ \cup {cur[p]}]
  /\ Goto(p, AfterSpawn(p))
  /\ UNCHANGED <<hubVars, dbVars, locals, link, toServer, sock, agentVars, apiVars,
                 bounds>>

-----------------------------------------------------------------------------
(* HandleWorkerMessage: session-started and session-exited first update    *)
(* the connection that is registered for the worker NOW, then the row.     *)

Registered(c) == workers[ConnWorker[c]]

Receive(c, type) ==
  /\ pc[c] = "reading" /\ toServer[c] # <<>> /\ Head(toServer[c]).type = type
  /\ toServer' = [toServer EXCEPT ![c] = Tail(@)]
  /\ cur' = [cur EXCEPT ![c] = Head(toServer[c]).sess]

\* Mutant: the list is updated as for session-exited.
ReceiveStartedNotListed(c) ==
  /\ hmu = None
  /\ Receive(c, "started")
  /\ sessionIDs' = IF Registered(c) = None THEN sessionIDs
                   ELSE [sessionIDs EXCEPT ![Registered(c)] = @ \ {cur'[c]}]
  /\ Goto(c, "startedRead")
  /\ UNCHANGED <<workers, relay, hmu, dbVars, want, todo, marks, link, toWorker, sock,
                 agentVars, apiVars, sent, bounds>>

ReceiveStarted(c) ==
  /\ hmu = None
  /\ Receive(c, "started")
  /\ sessionIDs' = IF Registered(c) = None THEN sessionIDs
                   ELSE [sessionIDs EXCEPT ![Registered(c)] = @ \cup {cur'[c]}]
  /\ Goto(c, "startedRead")
  /\ UNCHANGED <<workers, relay, hmu, dbVars, want, todo, marks, link, toWorker, sock,
                 agentVars, apiVars, sent, bounds>>

ReceiveExited(c) ==
  /\ hmu = None
  /\ Receive(c, "exited")
  /\ sessionIDs' = IF Registered(c) = None THEN sessionIDs
                   ELSE [sessionIDs EXCEPT ![Registered(c)] = @ \ {cur'[c]}]
  /\ Goto(c, "exitedRead")
  /\ UNCHANGED <<workers, relay, hmu, dbVars, want, todo, marks, link, toWorker, sock,
                 agentVars, apiVars, sent, bounds>>

RowRead(c) ==
  /\ pc[c] \in {"startedRead", "exitedRead"}
  /\ Goto(c, IF status[cur[c]] = "absent" THEN "reading"
             ELSE IF pc[c] = "startedRead" THEN "startedWrite" ELSE "exitedWrite")
  /\ UNCHANGED <<hubVars, dbVars, locals, outside>>

\* gorm's Save inserts the row again when it has been deleted meanwhile.
RowWrite(c) ==
  /\ pc[c] \in {"startedWrite", "exitedWrite"}
  /\ status' = [status EXCEPT ![cur[c]] =
                  IF pc[c] = "startedWrite" THEN "running" ELSE "stopped"]
  /\ Goto(c, "reading")
  /\ UNCHANGED <<hubVars, owner, workerRow, locals, outside>>

\* Without the row, or when a statement fails, the message has no further effect.
SessionRowFails(c) ==
  /\ pc[c] \in {"startedRead", "startedWrite", "exitedRead", "exitedWrite"}
  /\ GoesOn(c, "reading", {cur[c]})
  /\ UNCHANGED locals

ReceiveOutput(c) ==
  /\ Readable
  /\ Receive(c, "output")
  /\ Goto(c, IF relay[cur'[c]] = NoRelay THEN "createRelay" ELSE "output")
  /\ UNCHANGED <<hubVars, dbVars, want, todo, marks, link, toWorker, sock, agentVars,
                 apiVars, sent, bounds>>

\* The check was under RLock; the entry is replaced whatever is there by now.
CreateRelay(c) ==
  /\ pc[c] = "createRelay" /\ hmu = None
  /\ relay' = [relay EXCEPT ![cur[c]] = ConnWorker[c]]
  /\ Goto(c, "output")
  /\ UNCHANGED <<workers, sessionIDs, hmu, dbVars, locals, outside>>

\* relay.mu of the session's relay is held: a fan-out keeps it until its last write has
\* returned.  (A relay that was replaced meanwhile counts as the one that replaced it.)
FanningOut(s) == \E c \in Conns : pc[c] = "fanout" /\ cur[c] = s

FanOut(c) ==
  /\ pc[c] = "output" /\ ~FanningOut(cur[c])
  /\ Goto(c, "fanout")
  /\ UNCHANGED <<hubVars, dbVars, locals, outside>>

FannedOut(c) ==
  /\ pc[c] = "fanout" /\ hung # cur[c]
  /\ Goto(c, "reading")
  /\ UNCHANGED <<hubVars, dbVars, locals, outside>>

ReadError(c) ==
  /\ pc[c] = "reading" /\ link[c] = "down"
  /\ toServer' = [toServer EXCEPT ![c] = <<>>]
  /\ Goto(c, "unregister")
  /\ UNCHANGED <<hubVars, dbVars, locals, link, toWorker, sock, agentVars, apiVars,
                 sent, bounds>>

-----------------------------------------------------------------------------
(* UnregisterWorker: the deferred call of a handler, or DELETE /workers/w. *)

AfterUnregister(p) == IF p \in Conns THEN "done" ELSE "deleteRow"

RemoveWorker(w) ==
  /\ pc[w] = "idle" /\ workerRow[w] # "absent" /\ removals < MaxRemovals
  /\ removals' = removals + 1
  /\ Goto(w, "unregister")
  /\ UNCHANGED <<hubVars, dbVars, locals, netVars, agentVars, apiVars, sent, crashes,
                 renames, faultVars, hung>>

NotRegistered(p) ==
  /\ pc[p] = "unregister" /\ hmu = None /\ workers[WorkerFor(p)] = None
  /\ Goto(p, AfterUnregister(p))
  /\ UNCHANGED <<hubVars, dbVars, locals, outside>>

\* Mutant: h.mu is released before the sessions are marked.
UnregisterLockShort(p) ==
  LET w == WorkerFor(p) IN
  /\ pc[p] = "unregister" /\ hmu = None /\ workers[w] # None
  /\ workers' = [workers EXCEPT ![w] = None]
  /\ marks' = [marks EXCEPT ![p] = {s \in sessionIDs[workers[w]] : relay[s] # NoRelay}]
  /\ Goto(p, "marking")
  /\ UNCHANGED <<sessionIDs, relay, hmu, dbVars, cur, want, todo, outside>>

UnregisterLock(p) ==
  LET w == WorkerFor(p) IN
  /\ pc[p] = "unregister" /\ hmu = None /\ workers[w] # None
  /\ hmu' = p
  /\ workers' = [workers EXCEPT ![w] = None]
  /\ marks' = [marks EXCEPT ![p] = {s \in sessionIDs[workers[w]] : relay[s] # NoRelay}]
  /\ Goto(p, "marking")
  /\ UNCHANGED <<sessionIDs, relay, dbVars, cur, want, todo, outside>>

\* FindByID: when there is no row only the relay has to forget its worker.
MarkRead(p) ==
  /\ pc[p] = "marking"
  /\ \E s \in marks[p] :
       /\ cur' = [cur EXCEPT ![p] = s]
       /\ marks' = [marks EXCEPT ![p] = @ \ {s}]
       /\ Goto(p, IF status[s] = "absent" THEN "markRelay" ELSE "markWrite")
  /\ UNCHANGED <<hubVars, dbVars, want, todo, outside>>

MarkReadFails(p) ==
  /\ pc[p] = "marking"
  /\ \E s \in marks[p] :
       /\ cur' = [cur EXCEPT ![p] = s]
       /\ marks' = [marks EXCEPT ![p] = @ \ {s}]
       /\ GoesOn(p, "markRelay", {s})
  /\ UNCHANGED <<want, todo>>

MarkWrite(p) ==
  /\ pc[p] = "markWrite"
  /\ status' = [status EXCEPT ![cur[p]] = "offline"]
  /\ Goto(p, "markRelay")
  /\ UNCHANGED <<hubVars, owner, workerRow, locals, outside>>

MarkWriteFails(p) ==
  /\ pc[p] = "markWrite"
  /\ GoesOn(p, "markRelay", {cur[p]})
  /\ UNCHANGED locals

\* relay.mu is taken with h.mu held, so a fan-out of the session is waited for.
MarkRelay(p) ==
  /\ pc[p] = "markRelay" /\ ~FanningOut(cur[p])
  /\ relay' = [relay EXCEPT ![cur[p]] = None]
  /\ Goto(p, "marking")
  /\ UNCHANGED <<workers, sessionIDs, hmu, dbVars, locals, outside>>

\* Mutant: the loop is left without unlocking h.mu.
UnregisterNoUnlock(p) ==
  /\ pc[p] = "marking" /\ marks[p] = {}
  /\ Goto(p, "workerRow")
  /\ UNCHANGED <<hubVars, dbVars, locals, outside>>

UnregisterUnlock(p) ==
  /\ pc[p] = "marking" /\ marks[p] = {}
  /\ hmu' = None
  /\ Goto(p, "workerRow")
  /\ UNCHANGED <<workers, sessionIDs, relay, dbVars, locals, outside>>

WorkerRowRead(p) ==
  /\ pc[p] = "workerRow"
  /\ Goto(p, IF workerRow[WorkerFor(p)] = "absent" THEN AfterUnregister(p)
             ELSE "workerRowWrite")
  /\ UNCHANGED <<hubVars, dbVars, locals, outside>>

WorkerRowWrite(p) ==
  /\ pc[p] = "workerRowWrite"
  /\ workerRow' = [workerRow EXCEPT ![WorkerFor(p)] = "offline"]
  /\ Goto(p, AfterUnregister(p))
  /\ UNCHANGED <<hubVars, status, owner, locals, outside>>

\* One of the statements on the workers row fails, the deletion included.
WorkerRowFails(p) ==
  /\ pc[p] \in {"workerRow", "workerRowWrite"} \/ (p \in Workers /\ pc[p] = "deleteRow")
  /\ GoesOn(p, IF pc[p] = "deleteRow" THEN "idle" ELSE AfterUnregister(p), {WorkerFor(p)})
  /\ UNCHANGED locals

DeleteWorkerRow(w) ==
  /\ pc[w] = "deleteRow"
  /\ workerRow' = [workerRow EXCEPT ![w] = "absent"]
  /\ Goto(w, "idle")
  /\ UNCHANGED <<hubVars, status, owner, locals, outside>>

-----------------------------------------------------------------------------
(* Requests of the user: create, rename, delete, type, open a terminal.    *)

\* SelectWorker and Create: a worker whose ROW is online.  Nothing ever writes
\* active_sessions, so of the order asked for only the id, First's own, is left.
CreateSession(s) ==
  /\ pc[s] = "idle" /\ owner[s] = None
  /\ \E w \in Workers :
       /\ workerRow[w] = "online"
       /\ \A v \in Workers : workerRow[v] = "online" => WorkerRank[w] <= WorkerRank[v]
       /\ owner' = [owner EXCEPT ![s] = w]
  /\ status' = [status EXCEPT ![s] = "creating"]
  /\ cur' = [cur EXCEPT ![s] = s]
  /\ Goto(s, "lookup")
  /\ UNCHANGED <<hubVars, workerRow, want, todo, marks, outside>>

RenameRead(s) ==
  /\ rename[s] = None /\ status[s] # "absent" /\ renames < MaxRenames
  /\ rename' = [rename EXCEPT ![s] = status[s]]
  /\ renames' = renames + 1
  /\ UNCHANGED <<hubVars, dbVars, procVars, netVars, agentVars, destroy, staleRename,
                 sent, crashes, removals, faultVars, hung>>

\* Save writes every column of the row it read, the status included.
RenameWrite(s) ==
  /\ rename[s] # None
  /\ status' = [status EXCEPT ![s] = rename[s]]
  /\ staleRename' = IF status[s] = rename[s] THEN staleRename ELSE staleRename \cup {s}
  /\ rename' = [rename EXCEPT ![s] = None]
  /\ UNCHANGED <<hubVars, owner, workerRow, procVars, netVars, agentVars, destroy,
                 sent, bounds>>

\* The connection a message for the session is written to, None if it is dropped.
Route(s) == IF relay[s] \in Workers THEN workers[relay[s]] ELSE None

\* SendInput and SendResize, for a key press or a resize of a viewer.
SendInput(s) ==
  /\ Readable /\ Route(s) # None /\ Len(toWorker[Route(s)]) < MaxInput
  /\ WriteReturns(Route(s))
  /\ WriteToWorker(Route(s), "input", s)
  /\ UNCHANGED <<hubVars, dbVars, procVars, link, toServer, sock, agentVars, apiVars,
                 sent, bounds>>

DestroyKill(s) ==
  /\ MayDelete /\ status[s] # "absent" /\ ~destroy[s] /\ Readable
  /\ Route(s) # None => WriteReturns(Route(s))
  /\ IF Route(s) = None THEN UNCHANGED toWorker ELSE WriteToWorker(Route(s), "kill", s)
  /\ destroy' = [destroy EXCEPT ![s] = TRUE]
  /\ UNCHANGED <<hubVars, dbVars, procVars, link, toServer, sock, agentVars, rename,
                 staleRename, sent, bounds>>

DestroyDelete(s) ==
  /\ destroy[s]
  /\ status' = [status EXCEPT ![s] = "absent"]
  /\ destroy' = [destroy EXCEPT ![s] = FALSE]
  /\ UNCHANGED <<hubVars, owner, workerRow, procVars, netVars, agentVars, rename,
                 staleRename, sent, bounds>>

\* RegisterViewer creates a relay that knows no worker.
RegisterViewer(s) ==
  /\ hmu = None /\ relay[s] = NoRelay /\ status[s] # "absent"
  /\ relay' = [relay EXCEPT ![s] = None]
  /\ UNCHANGED <<workers, sessionIDs, hmu, dbVars, procVars, outside>>

-----------------------------------------------------------------------------
(* StartPingLoop holds h.mu for reading while it writes to every worker.   *)

\* A goroutine that waits to lock h.mu keeps the ping loop out.
WaitsToLock(p) ==
  \/ pc[p] \in {"register", "relay", "createRelay", "unregister"}
  \/ /\ p \in Conns /\ pc[p] = "reading" /\ toServer[p] # <<>>
     /\ Head(toServer[p]).type \in {"started", "exited"}

PingBegin ==
  /\ PingLoop /\ hmu = None /\ \E w \in Workers : workers[w] # None
  /\ \A p \in Procs : ~WaitsToLock(p)
  /\ hmu' = Pinger
  /\ UNCHANGED <<workers, sessionIDs, relay, dbVars, procVars, outside>>

PingWritesReturn == \A w \in Workers : workers[w] # None => WriteReturns(workers[w])

PingEnd ==
  /\ hmu = Pinger /\ PingWritesReturn
  /\ hmu' = None
  /\ UNCHANGED <<workers, sessionIDs, relay, dbVars, procVars, outside>>

\* A peer stops reading while its connection stays open, when a write to it is about
\* to be made: to the worker's connection x, or to a viewer of the session x.
StopsReading(x) ==
  /\ MayStall /\ hung = None /\ Fault({})
  /\ \/ /\ x \in Conns /\ link[x] = "up"
        /\ \/ \E p \in Conns \cup Sessions : pc[p] = "send" /\ want[p] = x
           \/ hmu = Pinger /\ workers[ConnWorker[x]] = x
     \/ x \in Sessions /\ FanningOut(x)
  /\ hung' = x
  /\ UNCHANGED <<hubVars, dbVars, procVars, netVars, agentVars, apiVars, sent, crashes,
                 renames, removals>>

-----------------------------------------------------------------------------
(* The agent (WorkerManager.handleServerMessage and the PTY callbacks).    *)

\* sendMessage: written only to an open socket, dropped otherwise.
SendToServer(w, type, s) ==
  toServer' = IF sock[w] # None /\ link[sock[w]] = "up"
              THEN [toServer EXCEPT ![sock[w]] = Append(@, [type |-> type, sess |-> s])]
              ELSE toServer

AgentReceive(w, type) ==
  /\ sock[w] # None /\ sock[w] # hung /\ toWorker[sock[w]] # <<>>
  /\ Head(toWorker[sock[w]]).type = type
  /\ toWorker' = [toWorker EXCEPT ![sock[w]] = Tail(@)]

\* spawnSession: a new PTY takes over the map entry of an old one that still runs.
AgentSpawn(w) ==
  /\ AgentReceive(w, "spawn")
  /\ LET s == Head(toWorker[sock[w]]).sess IN
       /\ ptys' = [ptys EXCEPT ![w][s] = @ + 1]
       /\ mapped' = [mapped EXCEPT ![w] = @ \cup {s}]
       /\ SendToServer(w, "started", s)
  /\ UNCHANGED <<hubVars, dbVars, procVars, link, sock, apiVars, sent, bounds>>

AgentSpawnFails(w) ==
  /\ AgentReceive(w, "spawn")
  /\ SendToServer(w, "exited", Head(toWorker[sock[w]]).sess)
  /\ UNCHANGED <<hubVars, dbVars, procVars, link, sock, agentVars, apiVars, sent,
                 bounds>>

\* The directory of the session cannot be made: mkdirSync throws, the handler of the
\* message catches it, and the server hears of neither a start nor an exit.
AgentSpawnThrows(w) ==
  /\ AgentReceive(w, "spawn")
  /\ Fault({Head(toWorker[sock[w]]).sess})
  /\ UNCHANGED <<hubVars, dbVars, procVars, link, toServer, sock, agentVars, apiVars,
                 sent, crashes, renames, removals, hung>>

\* handleKill: the entry goes at once, the process dies and reports later.
AgentKill(w) ==
  /\ AgentReceive(w, "kill")
  /\ mapped' = [mapped EXCEPT ![w] = @ \ {Head(toWorker[sock[w]]).sess}]
  /\ UNCHANGED <<hubVars, dbVars, procVars, link, toServer, sock, ptys, apiVars, sent,
                 bounds>>

\* handleInput and handleResize touch nothing but the PTY.
AgentInput(w) ==
  /\ AgentReceive(w, "input")
  /\ UNCHANGED <<hubVars, dbVars, procVars, link, toServer, sock, agentVars, apiVars,
                 sent, bounds>>

PtyOutput(w, s) ==
  /\ ptys[w][s] > 0 /\ sock[w] # None /\ Len(toServer[sock[w]]) < MaxOutput
  /\ SendToServer(w, "output", s)
  /\ UNCHANGED <<hubVars, dbVars, procVars, link, toWorker, sock, agentVars, apiVars,
                 sent, bounds>>

\* onExit deletes the map entry of the session, whichever PTY it belongs to.
PtyExit(w, s) ==
  /\ ptys[w][s] > 0
  /\ ptys' = [ptys EXCEPT ![w][s] = @ - 1]
  /\ mapped' = [mapped EXCEPT ![w] = @ \ {s}]
  /\ SendToServer(w, "exited", s)
  /\ UNCHANGED <<hubVars, dbVars, procVars, link, toWorker, sock, apiVars, sent,
                 bounds>>

\* The app quits, or initWorker replaces its manager: nothing started before is
\* heard of again, and the socket is closed.
AgentRestart(w) ==
  /\ sock[w] # None
  /\ link' = [link EXCEPT ![sock[w]] = "down"]
  /\ toWorker' = [toWorker EXCEPT ![sock[w]] = <<>>]
  /\ sock' = [sock EXCEPT ![w] = None]
  /\ ptys' = [ptys EXCEPT ![w] = [s \in Sessions |-> 0]]
  /\ mapped' = [mapped EXCEPT ![w] = {}]
  /\ UNCHANGED <<hubVars, dbVars, procVars, toServer, apiVars, sent, bounds>>

-----------------------------------------------------------------------------
\* The server process dies and starts again: only the database survives.
ServerCrash ==
  /\ crashes < MaxCrashes
  /\ crashes' = crashes + 1
  /\ workers' = [w \in Workers |-> None]
  /\ sessionIDs' = [c \in Conns |-> {}]
  /\ relay' = [s \in Sessions |-> NoRelay]
  /\ hmu' = None
  /\ pc' = [p \in Procs |-> IF p \in Workers \/ pc[p] = "idle" THEN "idle" ELSE "done"]
  /\ cur' = [p \in Procs |-> None]
  /\ want' = [p \in Procs |-> None]
  /\ todo' = [c \in Conns |-> {}]
  /\ marks' = [p \in Procs |-> {}]
  /\ link' = [c \in Conns |-> IF link[c] = "up" THEN "down" ELSE link[c]]
  /\ toServer' = [c \in Conns |-> <<>>]
  /\ destroy' = [s \in Sessions |-> FALSE]
  /\ rename' = [s \in Sessions |-> None]
  /\ hung' = None
  /\ UNCHANGED <<dbVars, toWorker, sock, agentVars, staleRename, sent, renames,
                 removals, faultVars>>

-----------------------------------------------------------------------------
Spawn(p) == SpawnLookup(p) \/ SpawnRelay(p) \/ SpawnSend(p)

Unregister(p) ==
  \/ NotRegistered(p) \/ UnregisterLock(p) \/ MarkRead(p) \/ MarkWrite(p)
  \/ MarkRelay(p) \/ UnregisterUnlock(p) \/ WorkerRowRead(p) \/ WorkerRowWrite(p)

Handler(c) ==
  \/ RegisterConn(c) \/ RegisterRow(c) \/ FindResumable(c) \/ ResumeNext(c)
  \/ ResumeDone(c) \/ ReceiveStarted(c) \/ ReceiveExited(c) \/ RowRead(c) \/ RowWrite(c)
  \/ ReceiveOutput(c) \/ CreateRelay(c) \/ FanOut(c) \/ FannedOut(c) \/ ReadError(c)

StatementFails ==
  \/ \E c \in Conns : RegisterRowFails(c) \/ FindResumableFails(c) \/ SessionRowFails(c)
  \/ \E p \in Conns \cup Workers : MarkReadFails(p) \/ MarkWriteFails(p)
                                    \/ WorkerRowFails(p)

AgentStep(w) ==
  \/ AgentSpawn(w) \/ AgentSpawnFails(w) \/ AgentSpawnThrows(w) \/ AgentKill(w)
  \/ AgentInput(w) \/ AgentClosed(w)

Request(s) ==
  \/ CreateSession(s) \/ RenameRead(s) \/ RenameWrite(s) \/ SendInput(s)
  \/ DestroyKill(s) \/ DestroyDelete(s) \/ RegisterViewer(s)

Next ==
  \/ \E c \in Conns : Connect(c) \/ Drop(c) \/ Handler(c)
  \/ \E p \in Conns \cup Sessions : Spawn(p)
  \/ \E p \in Conns \cup Workers : Unregister(p)
  \/ \E w \in Workers : RemoveWorker(w) \/ DeleteWorkerRow(w) \/ AgentStep(w)
                        \/ AgentRestart(w)
  \/ \E w \in Workers, s \in Sessions : PtyOutput(w, s) \/ PtyExit(w, s)
  \/ \E s \in Sessions : Request(s)
  \/ PingBegin \/ PingEnd \/ (\E x \in Conns \cup Sessions : StopsReading(x))
  \/ StatementFails \/ ServerCrash

Spec == Init /\ [][Next]_vars

\* What the goroutine p does next, unless it is stuck.  (A request that creates a session
\* holds nothing between its steps, so nobody depends on it.)
Goroutine(p) ==
  /\ pc[p] \notin {"idle", "done"}
  /\ \/ p \in Conns /\ (Handler(p) \/ Spawn(p))
     \/ Unregister(p)
     \/ p \in Workers /\ DeleteWorkerRow(p)

\* Goroutines run, mutexes are handed on, agents read their sockets.  A handler is
\* used once, a removal is bounded and the ping loop does not overtake a goroutine that
\* waits to lock, so h.mu is not taken away for ever and weak fairness is enough.  relay.mu
\* can be, by the outputs another handler reads, but Go hands a mutex to the goroutine that
\* has waited longest when it starves.  Users, PTYs, the network, failures and crashes owe
\* us nothing, and a write to a peer that has stopped reading need never return.
Fairness ==
  /\ \A p \in Conns \cup Workers : WF_vars(Goroutine(p))
  /\ \A c \in Conns : SF_vars(FanOut(c))
  /\ \A w \in Workers : WF_vars(AgentStep(w))
  /\ WF_vars(PingEnd)

FairSpec == Spec /\ Fairness

-----------------------------------------------------------------------------
(* Properties.                                                             *)

TypeHub ==
  /\ workers \in [Workers -> Conns \cup {None}]
  /\ sessionIDs \in [Conns -> SUBSET Sessions]
  /\ relay \in [Sessions -> Workers \cup {None, NoRelay}]
  /\ hmu \in Procs \cup {None, Pinger}
TypeRows ==
  /\ status \in [Sessions -> Statuses]
  /\ owner \in [Sessions -> Workers \cup {None}]
  /\ workerRow \in [Workers -> {"absent", "online", "offline"}]
TypeProcs ==
  /\ pc \in [Procs -> PCs]
  /\ cur \in [Procs -> Sessions \cup {None}]
  /\ want \in [Procs -> Conns \cup {None}]
  /\ todo \in [Conns -> SUBSET Sessions]
  /\ marks \in [Procs -> SUBSET Sessions]
TypeNet ==
  /\ link \in [Conns -> {"none", "up", "down"}]
  /\ toServer \in [Conns -> Seq(ToServerMsgs)]
  /\ toWorker \in [Conns -> Seq(ToWorkerMsgs)]
  /\ sock \in [Workers -> Conns \cup {None}]
TypeAgent ==
  /\ ptys \in [Workers -> [Sessions -> Nat]]
  /\ mapped \in [Workers -> SUBSET Sessions]
TypeRest ==
  /\ destroy \in [Sessions -> BOOLEAN]
  /\ rename \in [Sessions -> Statuses \cup {None}]
  /\ sent \in [Conns -> SUBSET Sessions]
  /\ staleRename \in SUBSET Sessions
  /\ crashes \in Nat /\ renames \in Nat /\ removals \in Nat
  /\ faults \in Nat /\ faulted \in SUBSET (Sessions \cup Workers)
  /\ hung \in Conns \cup Sessions \cup {None}

\* Every variable has its type (the structures of hub.go:16-47, the two tables, the
\* messages of protocol.go and the maps of the agent); no PTY ends more often than
\* it was started.
TypeOK == TypeHub /\ TypeRows /\ TypeProcs /\ TypeNet /\ TypeAgent /\ TypeRest

\* A session never leaves its machine: its relay points to no other worker than
\* the one in its row, and what is sent about it, keystrokes included, is only ever
\* in flight to a connection of that worker, however connections come and go
\* (hub.go:208-219, 249-261, 278-306, 339-366).
Routing ==
  /\ \A s \in Sessions : relay[s] \in {NoRelay, None, owner[s]}
  /\ \A c \in Conns : \A i \in 1..Len(toWorker[c]) :
       owner[toWorker[c][i].sess] = ConnWorker[c]

Spawning == {"lookup", "relay", "send"}
PastFindResumable(c) == pc[c] \notin {"idle", "register", "row", "find"}

\* A worker that is connected has been told to resume every session of its that is
\* marked offline, or is about to be: no marking slips in after FindResumable, because
\* UnregisterWorker marks under h.mu with the worker out of the map (hub.go:93-108,
\* 113-135).  Excepted are sessions whose status a concurrent rename put back, and those
\* a failed query concerned.
NoForgottenSession ==
  \A c \in Conns, s \in Sessions :
    (/\ workers[ConnWorker[c]] = c /\ PastFindResumable(c)
     /\ owner[s] = ConnWorker[c] /\ status[s] = "offline")
    => \/ s \in todo[c] \cup sent[c] \cup staleRename \cup faulted
       \/ pc[c] \in Spawning /\ cur[c] = s

\* The circumstances the two next properties need: no server crash, no removal of
\* a worker, and a worker reconnects only after its old handler has ended.
Orderly == ~AllowOverlap /\ crashes = 0 /\ removals = 0

\* Something will still take a session out of "running" when its worker goes away.
Tracked(s) ==
  \/ /\ workers[owner[s]] # None
     /\ s \in sessionIDs[workers[owner[s]]]
  \/ \E c \in Conns : \/ s \in marks[c]
                       \/ /\ pc[c] \in {"markWrite", "exitedRead", "exitedWrite"}
                          /\ cur[c] = s

\* In orderly circumstances a row says "running" only while the registered connection
\* of its worker lists the session, or its end is being recorded (hub.go:121-134,
\* 161-195): the row cannot be left behind, unresumable, by a disconnection, unless a
\* statement about it failed.
RunningIsTracked ==
  Orderly => \A s \in Sessions :
    status[s] = "running" => Tracked(s) \/ s \in staleRename \cup faulted

Serving(c) == pc[c] \notin {"idle", "register", "row", "done"}

\* In orderly circumstances the row SelectWorker trusts (repository.go:42-51) agrees
\* with the connections: online exactly from RegisterWorker's write to
\* UnregisterWorker's, as long as these succeed.
RowMatchesConnection ==
  Orderly => \A w \in Workers \ faulted :
    workerRow[w] = "online" <=> \E c \in Conns : ConnWorker[c] = w /\ Serving(c)

\* A write of the ping loop, made with h.mu held, or of a fan-out, made with relay.mu
\* held, does not return; whoever needs the mutex waits for it.
StuckPing == hmu = Pinger /\ ~PingWritesReturn
StuckFanOut == \E s \in Sessions : hung = s /\ FanningOut(s)

\* The handler of a connection that is gone has not ended yet.
Abandoned(c) == pc[c] \notin {"idle", "done"} /\ link[c] = "down"

\* When connections are gone their handlers leave the loop, unregister the worker and end,
\* all of them, though they wait for relay.mu with h.mu held and the ping loop writes
\* under h.mu (handler.go:72-80, hub.go:112-145, 225-233, 416-432).  What can stop them is
\* a peer that has stopped reading: under the ping loop, in a fan-out, or, for a handler
\* alone, as the target of its own spawn.
HandlerEnds ==
  (\E c \in Conns : Abandoned(c))
    ~> \/ \A c \in Conns : Abandoned(c) => pc[c] = "send" /\ ~WriteReturns(want[c])
       \/ StuckPing \/ StuckFanOut

\* README.md:21: an offline session of a connected worker is resumed -- its row leaves
\* "offline" -- unless the worker is gone again first, a statement about the session or
\* its directory at the agent failed, or a peer has stopped reading.
OfflineIsResumed ==
  \A s \in Sessions : \A w \in Workers :
    (owner[s] = w /\ status[s] = "offline" /\ workers[w] # None)
      ~> (status[s] # "offline" \/ workers[w] = None \/ s \in faulted
          \/ StuckPing \/ StuckFanOut \/ ~WriteReturns(workers[w]))

-----------------------------------------------------------------------------
(* What the repository says of the hub and the code does not keep.         *)

\* README.md:21 "Sessions survive disconnects and auto-resume ... when the worker
\* reconnects": a row that says "running" belongs to a worker that some handler
\* still serves; otherwise FindResumable will not find it.
LostIsResumable ==
  \A s \in Sessions : status[s] = "running" =>
    \E c \in Conns : ConnWorker[c] = owner[s] /\ pc[c] \notin {"idle", "register", "done"}

\* README.md:21 "Sessions survive disconnects ... when the worker reconnects": while a
\* session runs, the connection its worker holds and the server reads is the one the
\* hub has for that worker, so that input reaches it and its end is recorded.
ReconnectSurvives ==
  \A s \in Sessions, c \in Conns :
    (/\ status[s] = "running" /\ owner[s] = ConnWorker[c]
     /\ pc[c] = "reading" /\ sock[ConnWorker[c]] = c /\ link[c] = "up")
    => workers[ConnWorker[c]] = c

\* selector.go:9 "using the Hub's live worker connections": the worker that is
\* selected for a new session has a connection some handler serves.
SelectionIsLive ==
  \A s \in Sessions : pc[s] = "lookup" =>
    \E c \in Conns : ConnWorker[c] = owner[s] /\ pc[c] \notin {"idle", "done"}

\* hub.go:111 "UnregisterWorker marks all sessions as offline": when it releases h.mu
\* no session it had spawned on the connection is left as if it still ran there.
AllMarkedOffline ==
  \A c \in Conns : \A s \in sent[c] :
    pc[c] = "workerRow" => status[s] \notin {"creating", "running"}

\* manager.go:153 "DestroyWorkerSession kills a worker session and removes it": if the
\* machine has a PTY for the session, the step that should kill it sends a kill.
KillIsSent ==
  [][\A s \in Sessions :
       ~destroy[s] /\ destroy'[s] /\ s \in mapped[owner[s]]
       => \E c \in Conns : \E i \in 1..Len(toWorker'[c]) :
            toWorker'[c][i] = [type |-> "kill", sess |-> s]]_vars

\* How many sessions occupy a worker.
Load(w) == Cardinality({s \in Sessions : owner[s] = w /\ status[s] \in {"creating", "running"}})

\* repository.go:41 "SelectWorker picks the least-loaded online worker".
LeastLoaded ==
  [][\A s \in Sessions : owner[s] # owner'[s] =>
       \A w \in Workers : workerRow[w] = "online" => Load(owner'[s]) <= Load(w)]_vars
=============================================================================
