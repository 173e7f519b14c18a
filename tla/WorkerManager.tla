---------------------------- MODULE WorkerManager ----------------------------
(***************************************************************************)
(* The worker side of the desktop app: the WorkerManager objects of        *)
(* client/src/main/worker-manager.ts with their socket, reconnect timer    *)
(* and PTYs, and initWorker and stopWorker of client/src/main/index.ts,    *)
(* which replace the manager on every new token and drop it on sign-out    *)
(* and quit.                                                               *)
(*                                                                         *)
(* The main process is single threaded: a step is one callback.  What      *)
(* interleaves is the callbacks: those of sockets and PTYs of managers     *)
(* that were replaced still run.  Closed sockets and exited PTYs nobody    *)
(* refers to are reused, they emit nothing more.                           *)
(***************************************************************************)
EXTENDS Naturals

CONSTANTS
  Managers,          \* WorkerManager objects, each used once: bounds the sign-ins
  Sockets, Ptys,
  Sessions,
  None,
  MaxAttempts,       \* maxReconnectAttempts
  ServerRespawns     \* may the server send spawn for a session whose PTY still runs?

ASSUME ManagerAssumption ==
  /\ None \notin Managers \cup Sockets \cup Ptys
  /\ MaxAttempts \in Nat /\ ServerRespawns \in BOOLEAN

VARIABLES
  manager,           \* workerManager of index.ts
  used,              \* managers created so far
  ws, attempts, timer, intentional, connected, sessions,   \* fields of a manager
  sock, sockOf,      \* state of a socket, and the manager whose callbacks it runs
  pty, ptyOf, ptyFor,\* state of a PTY, the manager that spawned it, and for which session
  shown,             \* the worker status the window was told last
  delay,             \* history: the wait last scheduled since the manager was connected
  spawns             \* history: spawn messages a manager handled for a session, up to 2

appVars  == <<manager, used>>
connVars == <<ws, attempts, timer, delay, intentional, connected, shown>>
sockVars == <<sock, sockOf>>
ptyVars  == <<pty, ptyOf, ptyFor, spawns>>
vars == <<appVars, connVars, sockVars, sessions, ptyVars>>

Init ==
  /\ manager = None /\ used = {}
  /\ ws = [m \in Managers |-> None] /\ attempts = [m \in Managers |-> 0]
  /\ timer = [m \in Managers |-> FALSE] /\ delay = [m \in Managers |-> 0]
  /\ intentional = [m \in Managers |-> FALSE] /\ connected = [m \in Managers |-> FALSE]
  /\ sessions = [m \in Managers |-> [s \in Sessions |-> None]]
  /\ sock = [k \in Sockets |-> "closed"] /\ sockOf = [k \in Sockets |-> None]
  /\ pty = [p \in Ptys |-> "exited"] /\ ptyOf = [p \in Ptys |-> None]
  /\ ptyFor = [p \in Ptys |-> None]
  /\ shown = FALSE
  /\ spawns = [m \in Managers |-> [s \in Sessions |-> 0]]

Tracked(m) == {sessions[m][s] : s \in Sessions} \ {None}

FreshSocket(k) == sock[k] = "closed" /\ \A m \in Managers : ws[m] # k
FreshPty(p) == pty[p] = "exited" /\ \A m \in Managers : p \notin Tracked(m)

-----------------------------------------------------------------------------
(* Parts of the methods.                                                   *)

\* Mutant: the window is told every time.
SetConnectedAlways(m, b) ==
  /\ connected' = [connected EXCEPT ![m] = b]
  /\ shown' = b

\* setConnected: the window is only told of a change.
SetConnected(m, b) ==
  /\ connected' = [connected EXCEPT ![m] = b]
  /\ shown' = IF connected[m] # b THEN b ELSE shown

\* Powers of 2, as a function that proofs can unfold.
Pow2[n \in Nat] == IF n = 0 THEN 1 ELSE 2 * Pow2[n - 1]

\* Mutant: the exponent wraps at the sixth attempt instead of being capped.
DelayWraps(n) == 1000 * Pow2[n % 5]

\* Milliseconds to wait after n attempts that failed.
Delay(n) == IF 1000 * Pow2[n] < 30000 THEN 1000 * Pow2[n] ELSE 30000

\* running says which timers the caller leaves running.
ScheduleReconnect(m, running) ==
  IF attempts[m] >= MaxAttempts
  THEN timer' = running /\ UNCHANGED <<attempts, delay>>
  ELSE /\ delay' = [delay EXCEPT ![m] = Delay(attempts[m])]
       /\ attempts' = [attempts EXCEPT ![m] = @ + 1]
       /\ timer' = [running EXCEPT ![m] = TRUE]

\* connect(), once the WebSocket object exists.
NewSocket(m, k) ==
  /\ FreshSocket(k)
  /\ ws' = [ws EXCEPT ![m] = k]
  /\ sockOf' = [sockOf EXCEPT ![k] = m]

\* What disconnect() does to the sockets, to the PTYs and to the fields of a manager.
SockAfterDisconnect(m) ==
  [k \in Sockets |-> IF ws[m] = k /\ sock[k] # "closed" THEN "closing" ELSE sock[k]]
PtyAfterDisconnect(m) ==
  [p \in Ptys |-> IF p \in Tracked(m) /\ pty[p] = "running" THEN "killed" ELSE pty[p]]
SessionsAfterDisconnect(m) == [sessions EXCEPT ![m] = [s \in Sessions |-> None]]
TimerAfterDisconnect(m) == [timer EXCEPT ![m] = FALSE]

-----------------------------------------------------------------------------
(* index.ts: a token arrives (SET_TOKEN, auth-callback, app start), goes    *)
(* (CLEAR_TOKEN), or the app quits.                                        *)

\* initWorker without a manager to disconnect.
FirstWorker(m, k) ==
  /\ manager = None /\ m \notin used
  /\ manager' = m /\ used' = used \cup {m}
  /\ NewSocket(m, k) /\ sock' = [sock EXCEPT ![k] = "connecting"]
  /\ UNCHANGED <<attempts, timer, delay, intentional, connected, shown, sessions, ptyVars>>

\* Its WebSocket constructor throws: connect() schedules the next attempt.
FirstWorkerThrows(m) ==
  /\ manager = None /\ m \notin used
  /\ manager' = m /\ used' = used \cup {m}
  /\ ScheduleReconnect(m, timer)
  /\ UNCHANGED <<ws, intentional, connected, shown, sockVars, sessions, ptyVars>>

\* initWorker: disconnect the old manager ...
Replaces(m) ==
  /\ manager # None /\ m \notin used
  /\ manager' = m /\ used' = used \cup {m}
  /\ intentional' = [intentional EXCEPT ![manager] = TRUE]
  /\ pty' = PtyAfterDisconnect(manager) /\ sessions' = SessionsAfterDisconnect(manager)
  /\ SetConnected(manager, FALSE)
  /\ UNCHANGED <<ptyOf, ptyFor, spawns>>

\* ... then connect a new one, whose constructor may throw too.
ReplaceWorker(m, k) ==
  /\ Replaces(m) /\ FreshSocket(k)
  /\ timer' = TimerAfterDisconnect(manager)
  /\ sock' = [SockAfterDisconnect(manager) EXCEPT ![k] = "connecting"]
  /\ ws' = [ws EXCEPT ![manager] = None, ![m] = k]
  /\ sockOf' = [sockOf EXCEPT ![k] = m]
  /\ UNCHANGED <<attempts, delay>>

ReplaceWorkerThrows(m) ==
  /\ Replaces(m)
  /\ ScheduleReconnect(m, TimerAfterDisconnect(manager))
  /\ sock' = SockAfterDisconnect(manager) /\ ws' = [ws EXCEPT ![manager] = None]
  /\ UNCHANGED sockOf

StopWorker ==
  /\ manager # None
  /\ manager' = None
  /\ intentional' = [intentional EXCEPT ![manager] = TRUE]
  /\ timer' = TimerAfterDisconnect(manager)
  /\ pty' = PtyAfterDisconnect(manager) /\ sessions' = SessionsAfterDisconnect(manager)
  /\ sock' = SockAfterDisconnect(manager)
  /\ ws' = [ws EXCEPT ![manager] = None]
  /\ SetConnected(manager, FALSE)
  /\ UNCHANGED <<used, attempts, delay, sockOf, ptyOf, ptyFor, spawns>>

-----------------------------------------------------------------------------
(* The callbacks of a socket and of the reconnect timer.                   *)

OnOpen(k) ==
  LET m == sockOf[k] IN
  /\ sock[k] = "connecting"
  /\ sock' = [sock EXCEPT ![k] = "open"]
  /\ attempts' = [attempts EXCEPT ![m] = 0] /\ delay' = [delay EXCEPT ![m] = 0]
  /\ SetConnected(m, TRUE)
  /\ UNCHANGED <<appVars, ws, timer, intentional, sockOf, sessions, ptyVars>>

\* Mutant: a close always schedules a reconnect.
OnCloseAlways(k) ==
  LET m == sockOf[k] IN
  /\ sock[k] # "closed"
  /\ sock' = [sock EXCEPT ![k] = "closed"]
  /\ SetConnected(m, FALSE)
  /\ ScheduleReconnect(m, timer)
  /\ UNCHANGED <<appVars, ws, intentional, sockOf, sessions, ptyVars>>

\* Mutant: only a connection that had opened is worth another attempt.
OnCloseOnce(k) ==
  LET m == sockOf[k] IN
  /\ sock[k] # "closed"
  /\ sock' = [sock EXCEPT ![k] = "closed"]
  /\ SetConnected(m, FALSE)
  /\ IF intentional[m] \/ ~connected[m] THEN UNCHANGED <<attempts, timer, delay>>
     ELSE ScheduleReconnect(m, timer)
  /\ UNCHANGED <<appVars, ws, intentional, sockOf, sessions, ptyVars>>

\* Refused, cut, closed by the server for a newer connection, or closed by disconnect().
OnClose(k) ==
  LET m == sockOf[k] IN
  /\ sock[k] # "closed"
  /\ sock' = [sock EXCEPT ![k] = "closed"]
  /\ SetConnected(m, FALSE)
  /\ IF intentional[m] THEN UNCHANGED <<attempts, timer, delay>> ELSE ScheduleReconnect(m, timer)
  /\ UNCHANGED <<appVars, ws, intentional, sockOf, sessions, ptyVars>>

\* The reconnect timer calls connect().
OnTimer(m, k) ==
  /\ timer[m]
  /\ timer' = [timer EXCEPT ![m] = FALSE]
  /\ intentional' = [intentional EXCEPT ![m] = FALSE]
  /\ NewSocket(m, k) /\ sock' = [sock EXCEPT ![k] = "connecting"]
  /\ UNCHANGED <<appVars, attempts, delay, connected, shown, sessions, ptyVars>>

\* The constructor throws: the next attempt is scheduled, if one is left.
OnTimerThrows(m) ==
  /\ timer[m]
  /\ intentional' = [intentional EXCEPT ![m] = FALSE]
  /\ ScheduleReconnect(m, [timer EXCEPT ![m] = FALSE])
  /\ UNCHANGED <<appVars, ws, connected, shown, sockVars, sessions, ptyVars>>

-----------------------------------------------------------------------------
(* Messages of the server.  They still arrive on a socket that is closing.  *)

Receives(k) == sock[k] \in {"open", "closing"}

\* spawn: the new PTY takes the session's place in the map, whatever was there.
SpawnSession(k, s, p) ==
  LET m == sockOf[k] IN
  /\ Receives(k) /\ FreshPty(p)
  /\ ServerRespawns \/ spawns[m][s] = 0
  /\ spawns' = [spawns EXCEPT ![m][s] = IF @ < 2 THEN @ + 1 ELSE @]
  /\ sessions' = [sessions EXCEPT ![m][s] = p]
  /\ pty' = [pty EXCEPT ![p] = "running"]
  /\ ptyOf' = [ptyOf EXCEPT ![p] = m] /\ ptyFor' = [ptyFor EXCEPT ![p] = s]
  /\ UNCHANGED <<appVars, connVars, sockVars>>

\* Mutant: the session is forgotten, its PTY is not killed.
HandleKillForgets(k, s) ==
  LET m == sockOf[k] IN
  /\ Receives(k) /\ sessions[m][s] # None
  /\ sessions' = [sessions EXCEPT ![m][s] = None]
  /\ UNCHANGED <<appVars, connVars, sockVars, ptyVars>>

HandleKill(k, s) ==
  LET m == sockOf[k] p == sessions[m][s] IN
  /\ Receives(k) /\ p # None
  /\ pty' = [pty EXCEPT ![p] = "killed"]
  /\ sessions' = [sessions EXCEPT ![m][s] = None]
  /\ UNCHANGED <<appVars, connVars, sockVars, ptyOf, ptyFor, spawns>>

\* Mutant: the entry stays.
OnExitStays(p) ==
  /\ pty[p] # "exited"
  /\ pty' = [pty EXCEPT ![p] = "exited"]
  /\ UNCHANGED <<appVars, connVars, sockVars, sessions, ptyOf, ptyFor, spawns>>

\* A PTY ends, by itself or killed: its callback deletes the session's entry, whichever
\* PTY is in it by now.
OnExit(p) ==
  /\ pty[p] # "exited"
  /\ pty' = [pty EXCEPT ![p] = "exited"]
  /\ sessions' = [sessions EXCEPT ![ptyOf[p]][ptyFor[p]] = None]
  /\ UNCHANGED <<appVars, connVars, sockVars, ptyOf, ptyFor, spawns>>

-----------------------------------------------------------------------------
Connects(m) == OnTimerThrows(m) \/ \E k \in Sockets : OnTimer(m, k)

Next ==
  \/ StopWorker
  \/ \E m \in Managers, k \in Sockets : FirstWorker(m, k) \/ ReplaceWorker(m, k)
  \/ \E m \in Managers : FirstWorkerThrows(m) \/ ReplaceWorkerThrows(m) \/ Connects(m)
  \/ \E k \in Sockets : OnOpen(k) \/ OnClose(k)
  \/ \E k \in Sockets, s \in Sessions : HandleKill(k, s) \/ \E p \in Ptys : SpawnSession(k, s, p)
  \/ \E p \in Ptys : OnExit(p)

Spec == Init /\ [][Next]_vars

\* A timer fires; an attempt to connect ends one way or the other.
Hears(m) == \E k \in Sockets : sockOf[k] = m /\ sock[k] = "connecting" /\ (OnOpen(k) \/ OnClose(k))
Tries(m) == WF_vars(Connects(m)) /\ WF_vars(Hears(m))
Fairness == \A m \in Managers : Tries(m)

FairSpec == Spec /\ Fairness

-----------------------------------------------------------------------------
(* Properties.                                                             *)

TypeOK ==
  /\ manager \in Managers \cup {None} /\ used \subseteq Managers
  /\ ws \in [Managers -> Sockets \cup {None}]
  /\ attempts \in [Managers -> 0..MaxAttempts] /\ delay \in [Managers -> 0..30000]
  /\ timer \in [Managers -> BOOLEAN] /\ intentional \in [Managers -> BOOLEAN]
  /\ connected \in [Managers -> BOOLEAN] /\ shown \in BOOLEAN
  /\ sessions \in [Managers -> [Sessions -> Ptys \cup {None}]]
  /\ sock \in [Sockets -> {"connecting", "open", "closing", "closed"}]
  /\ sockOf \in [Sockets -> Managers \cup {None}]
  /\ pty \in [Ptys -> {"running", "killed", "exited"}]
  /\ spawns \in [Managers -> [Sessions -> 0..2]]
  /\ ptyOf \in [Ptys -> Managers \cup {None}] /\ ptyFor \in [Ptys -> Sessions \cup {None}]

Live(m) == {k \in Sockets : sockOf[k] = m /\ sock[k] \in {"connecting", "open"}}

\* However often it is told to reconnect and the app replaces it, a manager has one
\* socket or one timer, never two chains of attempts, and a manager that was replaced
\* has neither: it cannot evict its successor (worker-manager.ts:86-92, 99-105, 116-119, 137).
OneChain ==
  \A m \in Managers :
    /\ \A j, k \in Live(m) : j = k
    /\ timer[m] => Live(m) = {}
    /\ m # manager => Live(m) = {} /\ ~timer[m]

\* What a manager is doing, as its sockets, its timer and the app have it; whatever it
\* should not be doing is "astray".
Doing(m) ==
  LET alone(state) == ~timer[m] /\ \E k \in Sockets : Live(m) = {k} /\ sock[k] = state
      quiet == ~timer[m] /\ Live(m) = {}
  IN CASE m \notin used /\ quiet -> "new"
       [] m = manager /\ alone("connecting") -> "trying"
       [] m = manager /\ alone("open") -> "open"
       [] m = manager /\ timer[m] /\ Live(m) = {} -> "waiting"
       [] m = manager /\ quiet -> "lost"
       [] m \in used \ {manager} /\ quiet -> "stopped"
       [] OTHER -> "astray"

R == INSTANCE Reconnection WITH
       Clients <- Managers, MaxTries <- MaxAttempts,
       phase <- [m \in Managers |-> Doing(m)], tries <- attempts

\* Every manager goes on trying until its attempts are used up or it is replaced, and does
\* nothing from then on, whatever callbacks of its own and of others' former sockets still
\* arrive (worker-manager.ts:59-140, index.ts:120-144).
ImplementsReconnection == R!Spec

\* What the window shows is the state of the manager in charge, although the sockets of
\* former managers close later (index.ts:132-134, worker-manager.ts:50-57).
StatusIsCurrent ==
  shown = IF manager = None THEN FALSE ELSE connected[manager]

\* A session's entry is a PTY of that session that has not exited: input never goes to
\* a dead process or another session (worker-manager.ts:238, 251-252, 277-283).
EntryIsAlive ==
  \A m \in Managers, s \in Sessions : LET p == sessions[m][s] IN
    p # None => pty[p] = "running" /\ ptyOf[p] = m /\ ptyFor[p] = s

\* Until its manager is disconnected, a running PTY is lost from the map only if the
\* server had the session spawned again over it (worker-manager.ts:238).
LostByRespawnOnly ==
  \A p \in Ptys :
    pty[p] = "running" /\ ~intentional[ptyOf[p]] =>
      \/ sessions[ptyOf[p]][ptyFor[p]] = p
      \/ spawns[ptyOf[p]][ptyFor[p]] > 1

\* From one attempt to the next the wait does not shrink unless the connection opened in
\* between, and it is never longer than half a minute (worker-manager.ts:133).
BackoffGrows ==
  [][\A m \in Managers :
       attempts'[m] > attempts[m] => delay'[m] \in delay[m]..30000]_vars

\* A manager in charge ends up connected, replaced or out of attempts: it never falls
\* silent earlier (worker-manager.ts:86-92, 127-140).
Settled(m) == manager # m \/ connected[m] \/ (attempts[m] = MaxAttempts /\ ~timer[m])
ComesToRest(m) == manager = m ~> Settled(m)
Settles == \A m \in Managers : ComesToRest(m)

\* What the guards of Connects and Hears come to.
Possible ==
  \A m \in Managers :
    /\ timer[m] => ENABLED <<Connects(m)>>_vars
    /\ (\E k \in Sockets : sockOf[k] = m /\ sock[k] = "connecting") => ENABLED <<Hears(m)>>_vars
Possibly == []Possible

-----------------------------------------------------------------------------
(* What the repository says and the code does not keep.                    *)

\* worker-manager.ts:106 "Kill all PTY processes": no PTY outlives its manager.
DisconnectKillsAll ==
  \A p \in Ptys : pty[p] = "running" => ~intentional[ptyOf[p]]
=============================================================================
