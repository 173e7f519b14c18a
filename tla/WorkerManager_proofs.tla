------------------------ MODULE WorkerManager_proofs -------------------------
(***************************************************************************)
(* Proofs about WorkerManager, for any number of managers, sockets, PTYs   *)
(* and sessions: callbacks of managers that were replaced start no second  *)
(* chain of attempts and tell the window nothing, and the sessions' map    *)
(* loses a running PTY only to a second spawn.                             *)
(*                                                                         *)
(* The argument: of a manager that is not in charge only closing sockets   *)
(* are left, and intentional tells their close events not to reconnect     *)
(* (Chain); a PTY that has not exited has its session to itself, or the    *)
(* session was spawned twice (Processes).  The waits grow because each is  *)
(* at most the next one (Backoff), which rests on what Pow2 computes: the  *)
(* lemmas on it use induction on a set, which the provers can instantiate. *)
(* The refinement of Reconnection first shows that nothing a manager does   *)
(* is "astray" (DoingIs), then what each callback makes of it (StepMoves).  *)
(* The same moves bound what a manager that is not at rest has left to do  *)
(* (BusyLess), which is why it comes to rest.  That an action can be taken *)
(* (ENABLED) is opaque to the prover: the theorem about it assumes what    *)
(* Possible says, which TLC checks.                                        *)
(***************************************************************************)
EXTENDS WorkerManager, TLAPS, WellFoundedInduction

TypeConn ==
  /\ manager \in Managers \cup {None} /\ used \subseteq Managers
  /\ ws \in [Managers -> Sockets \cup {None}]
  /\ timer \in [Managers -> BOOLEAN] /\ intentional \in [Managers -> BOOLEAN]
  /\ connected \in [Managers -> BOOLEAN] /\ shown \in BOOLEAN
  /\ sock \in [Sockets -> {"connecting", "open", "closing", "closed"}]
  /\ sockOf \in [Sockets -> Managers \cup {None}]

\* Who has a socket or a timer, and what keeps the others quiet.
Chain ==
  /\ manager # None => manager \in used /\ ~intentional[manager]
  /\ \A m \in Managers \ used : ~intentional[m]
  /\ \A m \in Managers : m # manager => ~timer[m] /\ ~connected[m]
  /\ \A k \in Sockets :
       /\ sock[k] # "closed" => sockOf[k] \in used
       /\ sock[k] \in {"connecting", "open"} =>
            sockOf[k] = manager /\ ws[manager] = k /\ ~timer[manager]
       /\ sock[k] = "closing" => sockOf[k] # manager /\ intentional[sockOf[k]]

TypePtys ==
  /\ sessions \in [Managers -> [Sessions -> Ptys \cup {None}]]
  /\ pty \in [Ptys -> {"running", "killed", "exited"}]
  /\ ptyOf \in [Ptys -> Managers \cup {None}] /\ ptyFor \in [Ptys -> Sessions \cup {None}]
  /\ spawns \in [Managers -> [Sessions -> 0..2]]

SpawnsFor(p) == spawns[ptyOf[p]][ptyFor[p]]

\* Whose a PTY is, and how often its session was spawned.
Processes ==
  \A p \in Ptys : pty[p] # "exited" =>
    /\ ptyOf[p] \in Managers /\ ptyFor[p] \in Sessions /\ SpawnsFor(p) > 0
    /\ \A q \in Ptys \ {p} :
         pty[q] # "exited" /\ ptyOf[q] = ptyOf[p] /\ ptyFor[q] = ptyFor[p] => SpawnsFor(p) > 1

ConnInv == TypeConn /\ Chain /\ StatusIsCurrent
PtyInv == TypePtys /\ Processes /\ EntryIsAlive /\ LostByRespawnOnly
IInv == ConnInv /\ PtyInv

LEMMA InitIInv == Init => IInv
<1> SUFFICES ASSUME Init PROVE IInv OBVIOUS
<1> USE ManagerAssumption DEF Init
<1>1. TypeConn BY DEF TypeConn
<1>2. TypePtys
  <2>1. sessions \in [Managers -> [Sessions -> Ptys \cup {None}]] OBVIOUS
  <2>2. spawns \in [Managers -> [Sessions -> 0..2]] OBVIOUS
  <2> QED BY <2>1, <2>2 DEF TypePtys
<1>3. Chain /\ Processes BY DEF Chain, Processes
<1>4. StatusIsCurrent /\ EntryIsAlive /\ LostByRespawnOnly
  BY DEF StatusIsCurrent, EntryIsAlive, LostByRespawnOnly
<1> QED BY <1>1, <1>2, <1>3, <1>4 DEF IInv, ConnInv, PtyInv

-----------------------------------------------------------------------------
(* Sockets, timers and the status.                                         *)

LEMMA FirstWorkerConn ==
  ASSUME ConnInv, NEW m \in Managers, NEW k \in Sockets, FirstWorker(m, k)
  PROVE  ConnInv'
<1> USE ManagerAssumption DEF ConnInv, TypeConn, FirstWorker, NewSocket, FreshSocket
<1>1. TypeConn' OBVIOUS
<1>2. Chain' BY <1>1 DEF Chain
<1>3. StatusIsCurrent' BY ZenonT(40) DEF Chain, StatusIsCurrent
<1> QED BY <1>1, <1>2, <1>3

LEMMA FirstWorkerThrowsConn ==
  ASSUME ConnInv, NEW m \in Managers, FirstWorkerThrows(m)
  PROVE  ConnInv'
<1> USE ManagerAssumption DEF ConnInv, TypeConn, FirstWorkerThrows, sockVars
<1>a. timer' = timer \/ timer' = [timer EXCEPT ![m] = TRUE] BY DEF ScheduleReconnect
<1>1. TypeConn' BY <1>a
<1>2. Chain'
  <2>1. \A k \in Sockets : sock[k] \in {"closing", "closed"} /\ (sock[k] = "closing" => sockOf[k] # m)
    BY DEF Chain
  <2> QED BY <1>a, <2>1 DEF Chain
<1>3. StatusIsCurrent' BY DEF Chain, StatusIsCurrent
<1> QED BY <1>1, <1>2, <1>3

\* What disconnect() leaves of the manager in charge.
LEMMA Disconnected ==
  ASSUME TypeConn, Chain, manager # None, NEW k \in Sockets
  PROVE  /\ SockAfterDisconnect(manager)[k] \in {"closing", "closed"}
         /\ SockAfterDisconnect(manager)[k] = "closed" <=> sock[k] = "closed"
BY ManagerAssumption DEF TypeConn, Chain, SockAfterDisconnect

LEMMA ReplaceWorkerConn ==
  ASSUME ConnInv, NEW m \in Managers, NEW k \in Sockets, ReplaceWorker(m, k)
  PROVE  ConnInv'
<1> USE ManagerAssumption DEF ConnInv, TypeConn, ReplaceWorker, Replaces, FreshSocket, SetConnected,
      TimerAfterDisconnect
<1>a. SockAfterDisconnect(manager) \in [Sockets -> {"closing", "closed"}]
  BY Disconnected DEF SockAfterDisconnect
<1>b. m # manager /\ manager \in Managers BY DEF Chain
<1>1. TypeConn'
  <2>1. sock' \in [Sockets -> {"connecting", "open", "closing", "closed"}] BY <1>a
  <2>2. shown' \in BOOLEAN /\ connected' \in [Managers -> BOOLEAN] OBVIOUS
  <2>3. ws' \in [Managers -> Sockets \cup {None}] BY <1>b
  <2>4. sockOf' \in [Sockets -> Managers \cup {None}] BY <1>b
  <2> QED BY <1>b, <2>1, <2>2, <2>3, <2>4
<1>c. ASSUME NEW j \in Sockets
      PROVE  sock'[j] = IF j = k THEN "connecting" ELSE SockAfterDisconnect(manager)[j]
  BY <1>a
<1>2. Chain'
  <2>1. manager' \in used' /\ ~intentional'[manager'] BY <1>b DEF Chain
  <2>2. \A n \in Managers \ used' : ~intentional'[n] BY <1>b DEF Chain
  <2>3. \A n \in Managers : n # manager' => ~timer'[n] /\ ~connected'[n] BY <1>b DEF Chain
  <2>4. ASSUME NEW j \in Sockets
        PROVE  /\ sock'[j] # "closed" => sockOf'[j] \in used'
               /\ sock'[j] \in {"connecting", "open"} =>
                    sockOf'[j] = manager' /\ ws'[manager'] = j /\ ~timer'[manager']
               /\ sock'[j] = "closing" => sockOf'[j] # manager' /\ intentional'[sockOf'[j]]
    <3>1. CASE j = k BY <3>1, <1>b, <1>c DEF Chain
    <3>2. CASE j # k
      <4>1. sock'[j] \in {"closing", "closed"} /\ (sock'[j] = "closed" <=> sock[j] = "closed")
        BY <3>2, <1>c, Disconnected
      <4>2. sock[j] # "closed" => sockOf[j] \in used /\ (sockOf[j] = manager \/ intentional[sockOf[j]])
        BY DEF Chain
      <4> QED BY <3>2, <4>1, <4>2, <1>b
    <3> QED BY <3>1, <3>2
  <2> QED BY <2>1, <2>2, <2>3, <2>4 DEF Chain
<1>3. StatusIsCurrent'
  <2>1. shown = connected[manager] BY <1>b DEF StatusIsCurrent
  <2>2. ~shown' BY <1>b, <2>1
  <2>3. ~connected'[m] BY <1>b DEF Chain
  <2> QED BY <1>b, <2>2, <2>3 DEF StatusIsCurrent
<1> QED BY <1>1, <1>2, <1>3

LEMMA ReplaceWorkerThrowsConn ==
  ASSUME ConnInv, NEW m \in Managers, ReplaceWorkerThrows(m)
  PROVE  ConnInv'
<1> USE ManagerAssumption DEF ConnInv, TypeConn, ReplaceWorkerThrows, Replaces, SetConnected
<1>a. SockAfterDisconnect(manager) \in [Sockets -> {"closing", "closed"}]
  BY Disconnected DEF SockAfterDisconnect
<1>b. m # manager /\ manager \in Managers BY DEF Chain
<1>c. \/ timer' = [timer EXCEPT ![manager] = FALSE]
      \/ timer' = [timer EXCEPT ![manager] = FALSE, ![m] = TRUE]
  BY <1>b DEF ScheduleReconnect, TimerAfterDisconnect
<1>1. TypeConn'
  <2>1. shown' \in BOOLEAN /\ connected' \in [Managers -> BOOLEAN] OBVIOUS
  <2>2. ws' \in [Managers -> Sockets \cup {None}] OBVIOUS
  <2>3. timer' \in [Managers -> BOOLEAN] BY <1>b, <1>c
  <2>4. sock' \in [Sockets -> {"connecting", "open", "closing", "closed"}] BY <1>a
  <2>5. intentional' \in [Managers -> BOOLEAN] OBVIOUS
  <2>6. manager' \in Managers /\ used' \subseteq Managers OBVIOUS
  <2>7. sockOf' \in [Sockets -> Managers \cup {None}] OBVIOUS
  <2> HIDE DEF ReplaceWorkerThrows, Replaces
  <2> QED BY <2>1, <2>2, <2>3, <2>4, <2>5, <2>6, <2>7
<1>2. Chain'
  <2>1. manager' \in used' /\ ~intentional'[manager'] BY <1>b DEF Chain
  <2>2. \A n \in Managers \ used' : ~intentional'[n] BY <1>b DEF Chain
  <2>3. \A n \in Managers : n # manager' => ~timer'[n] /\ ~connected'[n] BY <1>b, <1>c DEF Chain
  <2>4. ASSUME NEW j \in Sockets
        PROVE  /\ sock'[j] # "closed" => sockOf'[j] \in used'
               /\ sock'[j] \notin {"connecting", "open"}
               /\ sock'[j] = "closing" => sockOf'[j] # manager' /\ intentional'[sockOf'[j]]
    <3>1. sock'[j] \in {"closing", "closed"} /\ (sock'[j] = "closed" <=> sock[j] = "closed")
      BY Disconnected
    <3>2. sock[j] # "closed" => sockOf[j] \in used /\ (sockOf[j] = manager \/ intentional[sockOf[j]])
      BY DEF Chain
    <3> QED BY <3>1, <3>2, <1>b
  <2> QED BY <2>1, <2>2, <2>3, <2>4 DEF Chain
<1>3. StatusIsCurrent'
  <2>1. shown = connected[manager] BY <1>b DEF StatusIsCurrent
  <2>2. ~shown' BY <1>b, <2>1
  <2>3. ~connected'[m] BY <1>b DEF Chain
  <2> QED BY <1>b, <2>2, <2>3 DEF StatusIsCurrent
<1> QED BY <1>1, <1>2, <1>3

LEMMA StopWorkerConn ==
  ASSUME ConnInv, StopWorker
  PROVE  ConnInv'
<1> USE ManagerAssumption DEF ConnInv, TypeConn, StopWorker, SetConnected, TimerAfterDisconnect
<1>a. SockAfterDisconnect(manager) \in [Sockets -> {"closing", "closed"}]
  BY Disconnected DEF SockAfterDisconnect
<1>1. TypeConn' BY <1>a, ZenonT(40) DEF Chain
<1>2. Chain'
  <2>1. \A n \in Managers \ used' : ~intentional'[n] BY DEF Chain
  <2>2. \A n \in Managers : n # manager' => ~timer'[n] /\ ~connected'[n] BY DEF Chain
  <2>3. ASSUME NEW j \in Sockets
        PROVE  /\ sock'[j] # "closed" => sockOf'[j] \in used'
               /\ sock'[j] \notin {"connecting", "open"}
               /\ sock'[j] = "closing" => sockOf'[j] # manager' /\ intentional'[sockOf'[j]]
    <3>1. sock'[j] \in {"closing", "closed"} /\ (sock'[j] = "closed" <=> sock[j] = "closed")
      BY Disconnected
    <3>2. sock[j] # "closed" => sockOf[j] \in used /\ (sockOf[j] = manager \/ intentional[sockOf[j]])
      BY DEF Chain
    <3> QED BY <3>1, <3>2
  <2> QED BY <2>1, <2>2, <2>3 DEF Chain
<1>3. StatusIsCurrent' BY DEF Chain, StatusIsCurrent
<1> QED BY <1>1, <1>2, <1>3

LEMMA OnOpenConn ==
  ASSUME ConnInv, NEW k \in Sockets, OnOpen(k)
  PROVE  ConnInv'
<1> USE ManagerAssumption DEF ConnInv, TypeConn, OnOpen, SetConnected, appVars
<1>a. sockOf[k] = manager /\ manager \in Managers BY DEF Chain
<1>1. TypeConn' BY <1>a
<1>2. Chain' BY <1>a DEF Chain
<1>3. StatusIsCurrent' BY <1>a DEF StatusIsCurrent
<1> QED BY <1>1, <1>2, <1>3

LEMMA OnCloseConn ==
  ASSUME ConnInv, NEW k \in Sockets, OnClose(k)
  PROVE  ConnInv'
<1> USE ManagerAssumption DEF ConnInv, TypeConn, OnClose, SetConnected, appVars
<1>a. sockOf[k] \in Managers BY DEF Chain
<1>b. timer' = timer \/ (timer' = [timer EXCEPT ![sockOf[k]] = TRUE] /\ ~intentional[sockOf[k]])
  BY DEF ScheduleReconnect
<1>1. TypeConn' BY <1>a, <1>b
<1>2. Chain'
  <2>1. CASE sock[k] = "closing" BY <2>1, <1>a, <1>b DEF Chain
  <2>2. CASE sock[k] \in {"connecting", "open"} BY <2>2, <1>a, <1>b DEF Chain
  <2> QED BY <2>1, <2>2
<1>3. StatusIsCurrent'
  <2>1. CASE sockOf[k] = manager BY <2>1, <1>a DEF StatusIsCurrent
  <2>2. CASE sockOf[k] # manager
    <3>1. ~connected[sockOf[k]] BY <2>2, <1>a DEF Chain
    <3>2. shown' = shown /\ \A m \in Managers : connected'[m] = connected[m] BY <3>1, <1>a
    <3> QED BY <3>2 DEF StatusIsCurrent
  <2> QED BY <2>1, <2>2
<1> QED BY <1>1, <1>2, <1>3

LEMMA TimerConn ==
  ASSUME ConnInv, NEW m \in Managers, Connects(m)
  PROVE  ConnInv'
<1> USE ManagerAssumption DEF ConnInv, TypeConn, appVars
<1>1. ASSUME NEW k \in Sockets, OnTimer(m, k) PROVE ConnInv'
  <2> USE <1>1 DEF OnTimer, NewSocket, FreshSocket
  <2>a. m = manager BY DEF Chain
  <2>1. TypeConn' OBVIOUS
  <2>2. Chain' BY <2>a DEF Chain
  <2>3. StatusIsCurrent' BY DEF StatusIsCurrent
  <2> QED BY <2>1, <2>2, <2>3
<1>2. CASE OnTimerThrows(m)
  <2> USE <1>2 DEF OnTimerThrows, ScheduleReconnect, sockVars
  <2>a. m = manager BY DEF Chain
  <2>b. timer' = timer \/ timer' = [timer EXCEPT ![m] = FALSE] \/ timer' = [timer EXCEPT ![m] = TRUE]
    OBVIOUS
  <2>1. TypeConn' BY <2>b
  <2>2. Chain' BY <2>a, <2>b DEF Chain
  <2>3. StatusIsCurrent' BY DEF StatusIsCurrent
  <2> QED BY <2>1, <2>2, <2>3
<1> QED BY <1>1, <1>2 DEF Connects

\* PTYs leave all of it alone.
LEMMA PtyConn ==
  ASSUME ConnInv, UNCHANGED <<appVars, connVars, sockVars>>
  PROVE  ConnInv'
BY DEF ConnInv, TypeConn, Chain, StatusIsCurrent, appVars, connVars, sockVars

-----------------------------------------------------------------------------
(* PTYs and the map of sessions.                                           *)

\* disconnect() kills the PTYs in the map and empties it.
LEMMA DisconnectPtys ==
  ASSUME PtyInv, TypeConn, NEW m \in Managers,
         intentional' = [intentional EXCEPT ![m] = TRUE],
         pty' = PtyAfterDisconnect(m), sessions' = SessionsAfterDisconnect(m),
         UNCHANGED <<ptyOf, ptyFor, spawns>>
  PROVE  PtyInv'
<1> USE ManagerAssumption DEF PtyInv, TypePtys, TypeConn, PtyAfterDisconnect,
      SessionsAfterDisconnect
<1>1. TypePtys' OBVIOUS
<1>2. \A p \in Ptys : pty'[p] # "exited" <=> pty[p] # "exited" OBVIOUS
<1>3. Processes' BY <1>2 DEF Processes, SpawnsFor
<1>4. EntryIsAlive'
  <2> SUFFICES ASSUME NEW n \in Managers, NEW s \in Sessions, sessions'[n][s] # None
               PROVE  LET p == sessions'[n][s] IN
                        pty'[p] = "running" /\ ptyOf'[p] = n /\ ptyFor'[p] = s
    BY DEF EntryIsAlive
  <2>1. n # m /\ sessions'[n][s] = sessions[n][s] OBVIOUS
  <2> DEFINE p == sessions[n][s]
  <2>2. p \in Ptys /\ pty[p] = "running" /\ ptyOf[p] = n /\ ptyFor[p] = s BY <2>1 DEF EntryIsAlive
  <2>3. p \notin Tracked(m) BY <2>1, <2>2 DEF EntryIsAlive, Tracked
  <2> QED BY <2>1, <2>2, <2>3
<1>5. LostByRespawnOnly'
  <2> SUFFICES ASSUME NEW p \in Ptys, pty'[p] = "running", ~intentional'[ptyOf'[p]]
               PROVE  sessions'[ptyOf[p]][ptyFor[p]] = p \/ spawns[ptyOf[p]][ptyFor[p]] > 1
    BY DEF LostByRespawnOnly
  <2>1. ptyOf[p] # m /\ ~intentional[ptyOf[p]] OBVIOUS
  <2>2. ptyOf[p] \in Managers /\ pty[p] = "running" BY DEF Processes
  <2> QED BY <2>1, <2>2 DEF LostByRespawnOnly
<1> QED BY <1>1, <1>3, <1>4, <1>5

\* Connections leave it alone, but for intentional, which they do not set back: a manager
\* that connects was not disconnected.
LEMMA ConnPtys ==
  ASSUME PtyInv, TypeConn, UNCHANGED <<sessions, ptyVars>>,
         \/ intentional' = intentional
         \/ \E m \in Managers : ~intentional[m] /\ intentional' = [intentional EXCEPT ![m] = FALSE]
  PROVE  PtyInv'
<1>1. intentional' = intentional BY DEF TypeConn
<1> QED BY <1>1 DEF PtyInv, TypePtys, Processes, SpawnsFor, EntryIsAlive, LostByRespawnOnly, ptyVars

LEMMA SpawnSessionPtys ==
  ASSUME IInv, NEW k \in Sockets, NEW s \in Sessions, NEW p \in Ptys, SpawnSession(k, s, p)
  PROVE  PtyInv'
<1> DEFINE m == sockOf[k]
<1> USE ManagerAssumption DEF IInv, PtyInv, TypePtys, SpawnSession, FreshPty, Receives
<1>a. m \in Managers BY DEF ConnInv, TypeConn, Chain
<1>1. TypePtys'
  <2>1. sessions' \in [Managers -> [Sessions -> Ptys \cup {None}]] BY <1>a
  <2>2. spawns' \in [Managers -> [Sessions -> 0..2]] BY <1>a
  <2> QED BY <1>a, <2>1, <2>2
<1>b. \A n \in Managers, t \in Sessions :
        /\ sessions'[n][t] = IF n = m /\ t = s THEN p ELSE sessions[n][t]
        /\ sessions[n][t] # p
  BY <1>a DEF Tracked
<1>c. \A n \in Managers, t \in Sessions :
        /\ spawns'[n][t] >= spawns[n][t]
        /\ n = m /\ t = s => spawns'[n][t] > 0 /\ (spawns[n][t] > 0 => spawns'[n][t] > 1)
  <2> SUFFICES ASSUME NEW n \in Managers, NEW t \in Sessions
               PROVE  /\ spawns'[n][t] >= spawns[n][t]
                      /\ n = m /\ t = s =>
                           spawns'[n][t] > 0 /\ (spawns[n][t] > 0 => spawns'[n][t] > 1)
    BY SMTT(40)
  <2>1. spawns[n][t] \in 0..2 OBVIOUS
  <2>2. spawns'[n][t] = IF n = m /\ t = s /\ spawns[n][t] < 2 THEN spawns[n][t] + 1 ELSE spawns[n][t]
    BY <1>a
  <2> QED BY <2>1, <2>2
<1>d. pty'[p] = "running" /\ ptyOf'[p] = m /\ ptyFor'[p] = s
  OBVIOUS
<1>e. \A q \in Ptys \ {p} : pty'[q] = pty[q] /\ ptyOf'[q] = ptyOf[q] /\ ptyFor'[q] = ptyFor[q]
  OBVIOUS
<1>2. Processes'
  <2> SUFFICES ASSUME NEW q \in Ptys, pty'[q] # "exited"
               PROVE  /\ ptyOf'[q] \in Managers /\ ptyFor'[q] \in Sessions /\ SpawnsFor(q)' > 0
                      /\ \A r \in Ptys \ {q} :
                           pty'[r] # "exited" /\ ptyOf'[r] = ptyOf'[q] /\ ptyFor'[r] = ptyFor'[q]
                             => SpawnsFor(q)' > 1
    BY DEF Processes
  <2>1. ptyOf'[q] \in Managers /\ ptyFor'[q] \in Sessions BY <1>a, <1>d, <1>e DEF Processes
  <2>2. SpawnsFor(q)' > 0 BY <2>1, <1>1, <1>c, <1>d, <1>e DEF Processes, SpawnsFor
  <2>3. ASSUME NEW r \in Ptys \ {q}, pty'[r] # "exited",
               ptyOf'[r] = ptyOf'[q], ptyFor'[r] = ptyFor'[q]
        PROVE  SpawnsFor(q)' > 1
    <3>1. CASE p \in {q, r}
      <4>1. ptyOf'[q] = m /\ ptyFor'[q] = s BY <3>1, <2>3, <1>d
      <4>2. spawns[m][s] > 0 BY <3>1, <4>1, <2>3, <1>e DEF Processes, SpawnsFor
      <4> QED BY <4>1, <4>2, <1>a, <1>c DEF SpawnsFor
    <3>2. CASE p \notin {q, r}
      <4>1. SpawnsFor(q) > 1 BY <3>2, <2>3, <1>e DEF Processes
      <4> QED BY <3>2, <4>1, <2>1, <1>1, <1>c, <1>e DEF SpawnsFor
    <3> QED BY <3>1, <3>2
  <2> QED BY <2>1, <2>2, <2>3
<1>3. EntryIsAlive' BY <1>a, <1>b, <1>d, <1>e, <1>1 DEF EntryIsAlive
<1>4. LostByRespawnOnly'
  <2> SUFFICES ASSUME NEW q \in Ptys, pty'[q] = "running", ~intentional'[ptyOf'[q]]
               PROVE  \/ sessions'[ptyOf'[q]][ptyFor'[q]] = q
                      \/ spawns'[ptyOf'[q]][ptyFor'[q]] > 1
    BY DEF LostByRespawnOnly
  <2>1. CASE q = p BY <2>1, <1>a, <1>b, <1>d
  <2>2. CASE q # p /\ ptyOf[q] = m /\ ptyFor[q] = s
    <3>1. spawns[m][s] > 0 BY <2>2, <1>e DEF Processes, SpawnsFor
    <3> QED BY <3>1, <2>2, <1>a, <1>c, <1>e
  <2>3. CASE q # p /\ ~(ptyOf[q] = m /\ ptyFor[q] = s)
    <3>1. ptyOf[q] \in Managers /\ ptyFor[q] \in Sessions BY <2>3, <1>e DEF Processes
    <3>2. \/ sessions[ptyOf[q]][ptyFor[q]] = q
          \/ spawns[ptyOf[q]][ptyFor[q]] > 1
      BY <2>3, <1>e DEF LostByRespawnOnly, connVars
    <3> QED BY <2>3, <3>1, <3>2, <1>b, <1>c, <1>e, <1>1
  <2> QED BY <2>1, <2>2, <2>3
<1> QED BY <1>1, <1>2, <1>3, <1>4

\* A PTY that is killed or exits leaves the map, or finds another one in its place.
LEMMA EndPtys ==
  ASSUME IInv, NEW p \in Ptys, NEW m \in Managers, NEW s \in Sessions, NEW e,
         pty[p] # "exited", ptyOf[p] = m, ptyFor[p] = s,
         e \in {"killed", "exited"}, pty' = [pty EXCEPT ![p] = e],
         sessions' = [sessions EXCEPT ![m][s] = None],
         UNCHANGED <<intentional, ptyOf, ptyFor, spawns>>
  PROVE  PtyInv'
<1> USE ManagerAssumption DEF IInv, PtyInv, TypePtys
<1>1. TypePtys' OBVIOUS
<1>2. Processes' BY DEF Processes, SpawnsFor
<1>3. EntryIsAlive'
  <2> SUFFICES ASSUME NEW n \in Managers, NEW t \in Sessions, sessions'[n][t] # None
               PROVE  LET q == sessions'[n][t] IN
                        pty'[q] = "running" /\ ptyOf'[q] = n /\ ptyFor'[q] = t
    BY DEF EntryIsAlive
  <2>1. ~(n = m /\ t = s) /\ sessions'[n][t] = sessions[n][t] OBVIOUS
  <2> DEFINE q == sessions[n][t]
  <2>2. q \in Ptys /\ pty[q] = "running" /\ ptyOf[q] = n /\ ptyFor[q] = t
    BY <2>1 DEF EntryIsAlive
  <2> QED BY <2>1, <2>2
<1>4. LostByRespawnOnly'
  <2> SUFFICES ASSUME NEW q \in Ptys, pty'[q] = "running", ~intentional[ptyOf[q]]
               PROVE  \/ sessions'[ptyOf[q]][ptyFor[q]] = q
                      \/ spawns[ptyOf[q]][ptyFor[q]] > 1
    BY DEF LostByRespawnOnly
  <2>1. q # p /\ pty[q] = "running" OBVIOUS
  <2>2. ptyOf[q] \in Managers /\ ptyFor[q] \in Sessions BY <2>1 DEF Processes
  <2>3. CASE ptyOf[q] = m /\ ptyFor[q] = s BY <2>1, <2>3 DEF Processes, SpawnsFor
  <2>4. CASE ~(ptyOf[q] = m /\ ptyFor[q] = s)
    <3>1. sessions'[ptyOf[q]][ptyFor[q]] = sessions[ptyOf[q]][ptyFor[q]] BY <2>2, <2>4
    <3> QED BY <2>1, <3>1 DEF LostByRespawnOnly
  <2> QED BY <2>3, <2>4
<1> QED BY <1>1, <1>2, <1>3, <1>4

LEMMA HandleKillPtys ==
  ASSUME IInv, NEW k \in Sockets, NEW s \in Sessions, HandleKill(k, s)
  PROVE  PtyInv'
<1> DEFINE m == sockOf[k] p == sessions[m][s]
<1>1. m \in Managers BY DEF IInv, ConnInv, TypeConn, Chain, HandleKill, Receives
<1>2. p \in Ptys /\ pty[p] = "running" /\ ptyOf[p] = m /\ ptyFor[p] = s
  BY <1>1 DEF IInv, PtyInv, TypePtys, EntryIsAlive, HandleKill
<1>3. /\ pty' = [pty EXCEPT ![p] = "killed"] /\ sessions' = [sessions EXCEPT ![m][s] = None]
      /\ UNCHANGED <<intentional, ptyOf, ptyFor, spawns>>
  BY DEF HandleKill, connVars
<1> HIDE DEF m, p
<1> QED BY <1>1, <1>2, <1>3, EndPtys

LEMMA OnExitPtys ==
  ASSUME IInv, NEW p \in Ptys, OnExit(p)
  PROVE  PtyInv'
<1>1. pty[p] # "exited" /\ ptyOf[p] \in Managers /\ ptyFor[p] \in Sessions
  BY DEF IInv, PtyInv, Processes, OnExit
<1>2. /\ pty' = [pty EXCEPT ![p] = "exited"]
      /\ sessions' = [sessions EXCEPT ![ptyOf[p]][ptyFor[p]] = None]
      /\ UNCHANGED <<intentional, ptyOf, ptyFor, spawns>>
  BY DEF OnExit, connVars
<1> QED BY <1>1, <1>2, EndPtys

-----------------------------------------------------------------------------
LEMMA NextIInv == IInv /\ [Next]_vars => IInv'
<1> SUFFICES ASSUME IInv, [Next]_vars PROVE IInv' OBVIOUS
<1>a. ConnInv /\ TypeConn /\ Chain /\ PtyInv BY DEF IInv, ConnInv
<1>1. CASE StopWorker
  <2>1. manager \in Managers BY <1>1, <1>a DEF StopWorker, TypeConn
  <2>2. PtyInv' BY <1>1, <1>a, <2>1, DisconnectPtys DEF StopWorker
  <2> QED BY <1>1, <1>a, <2>2, StopWorkerConn DEF IInv
<1>2. ASSUME NEW m \in Managers, NEW k \in Sockets, FirstWorker(m, k) PROVE IInv'
  <2>1. PtyInv' BY <1>2, <1>a, ConnPtys DEF FirstWorker
  <2> QED BY <1>2, <1>a, <2>1, FirstWorkerConn DEF IInv
<1>3. ASSUME NEW m \in Managers, NEW k \in Sockets, ReplaceWorker(m, k) PROVE IInv'
  <2>1. manager \in Managers BY <1>3, <1>a DEF ReplaceWorker, Replaces, TypeConn
  <2>2. PtyInv' BY <1>3, <1>a, <2>1, DisconnectPtys DEF ReplaceWorker, Replaces
  <2> QED BY <1>3, <1>a, <2>2, ReplaceWorkerConn DEF IInv
<1>11. ASSUME NEW m \in Managers, FirstWorkerThrows(m) PROVE IInv'
  <2>1. PtyInv' BY <1>11, <1>a, ConnPtys DEF FirstWorkerThrows
  <2> QED BY <1>11, <1>a, <2>1, FirstWorkerThrowsConn DEF IInv
<1>12. ASSUME NEW m \in Managers, ReplaceWorkerThrows(m) PROVE IInv'
  <2>1. manager \in Managers BY <1>12, <1>a DEF ReplaceWorkerThrows, Replaces, TypeConn
  <2>2. PtyInv' BY <1>12, <1>a, <2>1, DisconnectPtys DEF ReplaceWorkerThrows, Replaces
  <2> QED BY <1>12, <1>a, <2>2, ReplaceWorkerThrowsConn DEF IInv
<1>4. ASSUME NEW m \in Managers, Connects(m) PROVE IInv'
  <2>1. timer[m] /\ intentional' = [intentional EXCEPT ![m] = FALSE] /\ UNCHANGED <<sessions, ptyVars>>
    BY <1>4 DEF Connects, OnTimer, OnTimerThrows
  <2>2. ~intentional[m] BY <1>a, <2>1, ManagerAssumption DEF Chain
  <2>3. PtyInv' BY <1>a, <2>1, <2>2, ConnPtys
  <2> QED BY <1>4, <1>a, <2>3, TimerConn DEF IInv
<1>5. ASSUME NEW k \in Sockets, OnOpen(k) PROVE IInv'
  <2>1. PtyInv' BY <1>5, <1>a, ConnPtys DEF OnOpen
  <2> QED BY <1>5, <1>a, <2>1, OnOpenConn DEF IInv
<1>6. ASSUME NEW k \in Sockets, OnClose(k) PROVE IInv'
  <2>1. PtyInv' BY <1>6, <1>a, ConnPtys DEF OnClose
  <2> QED BY <1>6, <1>a, <2>1, OnCloseConn DEF IInv
<1>7. ASSUME NEW k \in Sockets, NEW s \in Sessions, HandleKill(k, s) PROVE IInv'
  <2>1. ConnInv' BY <1>7, <1>a, PtyConn DEF HandleKill
  <2> QED BY <1>7, <2>1, HandleKillPtys DEF IInv
<1>8. ASSUME NEW k \in Sockets, NEW s \in Sessions, NEW p \in Ptys, SpawnSession(k, s, p)
      PROVE  IInv'
  <2>1. ConnInv' BY <1>8, <1>a, PtyConn DEF SpawnSession
  <2> QED BY <1>8, <2>1, SpawnSessionPtys DEF IInv
<1>9. ASSUME NEW p \in Ptys, OnExit(p) PROVE IInv'
  <2>1. ConnInv' BY <1>9, <1>a, PtyConn DEF OnExit
  <2> QED BY <1>9, <2>1, OnExitPtys DEF IInv
<1>10. CASE UNCHANGED vars
  <2>1. ConnInv' BY <1>10, <1>a, PtyConn DEF vars
  <2>2. PtyInv' BY <1>10, <1>a, ConnPtys DEF vars, connVars
  <2> QED BY <2>1, <2>2 DEF IInv
<1> QED
  BY <1>1, <1>2, <1>3, <1>4, <1>5, <1>6, <1>7, <1>8, <1>9, <1>10, <1>11, <1>12 DEF Next

-----------------------------------------------------------------------------
(* The waits between attempts.                                             *)

\* Every set of natural numbers has a least element.
LEMMA LeastNatural ==
  ASSUME NEW T, T \subseteq Nat, T # {}
  PROVE  \E x \in T : \A y \in T : x <= y
<1> DEFINE Smaller == OpToRel(<, Nat)
<1>1. IsWellFoundedOn(Smaller, Nat) BY NatLessThanWellFounded
<1>2. \A x, y \in Nat : <<y, x>> \in Smaller <=> y < x BY Zenon DEF OpToRel
<1> HIDE DEF Smaller
<1>3. PICK x \in T : \A y \in T : ~(<<y, x>> \in Smaller) BY <1>1, WFMin
<1>4. \A y \in T : ~(y < x) BY <1>2, <1>3
<1> QED BY <1>4

\* Induction, on a set instead of a predicate.
LEMMA SetInduction ==
  ASSUME NEW S, 0 \in S, \A n \in Nat : n \in S => n + 1 \in S
  PROVE  Nat \subseteq S
<1> SUFFICES ASSUME ~(Nat \subseteq S) PROVE FALSE OBVIOUS
<1> DEFINE T == Nat \ S
<1>1. PICK x \in T : \A y \in T : x <= y BY LeastNatural
<1>2. x # 0 /\ x - 1 \in Nat OBVIOUS
<1>3. x - 1 \in S /\ (x - 1) + 1 = x BY <1>1, <1>2
<1> QED BY <1>2, <1>3

\* The first n steps of what Pow2 is to be.
Doubles(f, n) == f \in [0..n -> Nat] /\ f[0] = 1 /\ \A k \in 1..n : f[k] = 2 * f[k - 1]

\* Two functions that double agree where both are defined.
LEMMA DoublesUnique ==
  ASSUME NEW m \in Nat, NEW n \in Nat, NEW f, NEW g, Doubles(f, m), Doubles(g, n),
         NEW k \in Nat, k <= m, k <= n
  PROVE  f[k] = g[k]
<1> DEFINE T == {i \in Nat : i <= m /\ i <= n /\ f[i] # g[i]}
<1> SUFFICES ASSUME T # {} PROVE FALSE OBVIOUS
<1>1. PICK x \in T : \A y \in T : x <= y BY LeastNatural
<1>2. x # 0 BY DEF Doubles
<1>3. x - 1 \in Nat /\ x - 1 \notin T BY <1>1, <1>2
<1>4. f[x - 1] = g[x - 1] BY <1>3
<1> QED BY <1>2, <1>4 DEF Doubles

\* The recursive definition has a solution, which Pow2 then is.
LEMMA Pow2Def ==
  /\ Pow2 \in [Nat -> Nat] /\ Pow2[0] = 1
  /\ \A n \in Nat : Pow2[n + 1] = 2 * Pow2[n]
<1> DEFINE S == {n \in Nat : \E f : Doubles(f, n)}
<1>1. 0 \in S
  <2>1. Doubles([i \in 0..0 |-> 1], 0) BY DEF Doubles
  <2> QED BY <2>1
<1>2. ASSUME NEW n \in Nat, n \in S PROVE n + 1 \in S
  <2>1. PICK f : Doubles(f, n) BY <1>2
  <2> DEFINE g == [i \in 0..(n + 1) |-> IF i = n + 1 THEN 2 * f[n] ELSE f[i]]
  <2>2. Doubles(g, n + 1) BY <2>1 DEF Doubles
  <2> QED BY <2>2
<1>3. Nat \subseteq S BY <1>1, <1>2, SetInduction
<1> DEFINE F(n) == CHOOSE f : Doubles(f, n)
           G == [n \in Nat |-> F(n)[n]]
<1>4. \A n \in Nat : Doubles(F(n), n) BY <1>3
<1> HIDE DEF F, S
<1>5. G \in [Nat -> Nat] BY <1>4 DEF Doubles
<1>6. G[0] = 1 BY <1>4 DEF Doubles
<1>7. ASSUME NEW n \in Nat PROVE G[n + 1] = 2 * G[n]
  <2>1. Doubles(F(n + 1), n + 1) /\ Doubles(F(n), n) BY <1>4
  <2>2. F(n + 1)[n] = F(n)[n] BY <2>1, DoublesUnique
  <2>3. F(n + 1)[n + 1] = 2 * F(n + 1)[n] BY <2>1 DEF Doubles
  <2> QED BY <2>2, <2>3
<1>8. \A n \in Nat : G[n] = IF n = 0 THEN 1 ELSE 2 * G[n - 1]
  <2> SUFFICES ASSUME NEW n \in Nat PROVE G[n] = IF n = 0 THEN 1 ELSE 2 * G[n - 1] OBVIOUS
  <2> HIDE DEF G
  <2>1. CASE n = 0 BY <2>1, <1>6
  <2>2. CASE n # 0
    <3>1. n - 1 \in Nat /\ (n - 1) + 1 = n BY <2>2
    <3> QED BY <2>2, <3>1, <1>7
  <2> QED BY <2>1, <2>2
<1>9. G = [n \in Nat |-> IF n = 0 THEN 1 ELSE 2 * G[n - 1]]
  <2> HIDE DEF G
  <2> QED BY <1>5, <1>8
<1> HIDE DEF G
<1>10. Pow2 = [n \in Nat |-> IF n = 0 THEN 1 ELSE 2 * Pow2[n - 1]]
  <2>1. \E f : f = [n \in Nat |-> IF n = 0 THEN 1 ELSE 2 * f[n - 1]] BY <1>9
  <2> QED BY <2>1 DEF Pow2
<1>11. Pow2 = G
  <2> SUFFICES ASSUME NEW d \in Nat, Pow2[d] # G[d] PROVE FALSE BY <1>5, <1>10
  <2> DEFINE T == {i \in Nat : Pow2[i] # G[i]}
  <2>1. PICK x \in T : \A y \in T : x <= y BY LeastNatural
  <2>2. Pow2[x] = (IF x = 0 THEN 1 ELSE 2 * Pow2[x - 1])
    BY <1>10
  <2>3. G[x] = (IF x = 0 THEN 1 ELSE 2 * G[x - 1]) BY <1>8
  <2>4. x # 0 BY <2>2, <2>3
  <2>5. x - 1 \in Nat /\ x - 1 \notin T BY <2>1, <2>4
  <2> QED BY <2>2, <2>3, <2>4, <2>5
<1> QED BY <1>5, <1>6, <1>7, <1>11

\* A wait is no longer than the next one (worker-manager.ts:133).
LEMMA DelayGrows ==
  ASSUME NEW n \in Nat
  PROVE  /\ Delay(n) \in Nat /\ Delay(n) <= 30000
         /\ Delay(n) <= Delay(n + 1)
<1>1. PICK p \in Nat : Pow2[n] = p /\ Pow2[n + 1] = 2 * p BY Pow2Def
<1>2. Delay(n) = (IF 1000 * p < 30000 THEN 1000 * p ELSE 30000) BY <1>1 DEF Delay
<1>3. Delay(n + 1) = (IF 1000 * (2 * p) < 30000 THEN 1000 * (2 * p) ELSE 30000) BY <1>1 DEF Delay
<1> QED BY <1>2, <1>3

\* The wait that was scheduled last is no longer than the next one.
Backoff ==
  /\ attempts \in [Managers -> Nat] /\ delay \in [Managers -> Nat]
  /\ \A m \in Managers : delay[m] <= Delay(attempts[m])

LEMMA InitBackoff == Init => Backoff
<1>1. Delay(0) \in Nat BY DelayGrows
<1> QED BY <1>1 DEF Init, Backoff

\* Only ScheduleReconnect makes attempts more.
LEMMA BackoffStep ==
  ASSUME IInv, Backoff, [Next]_vars
  PROVE  /\ Backoff'
         /\ \A m \in Managers : attempts'[m] > attempts[m] => delay'[m] \in delay[m]..30000
<1> USE DEF Backoff
<1>1. CASE UNCHANGED <<attempts, delay>> BY <1>1
<1>2. ASSUME NEW m \in Managers, ~(attempts[m] >= MaxAttempts), NEW t, ScheduleReconnect(m, t)
      PROVE  /\ Backoff'
             /\ \A n \in Managers : attempts'[n] > attempts[n] => delay'[n] \in delay[n]..30000
  <2>1. /\ Delay(attempts[m]) \in Nat /\ Delay(attempts[m]) <= 30000
        /\ Delay(attempts[m]) <= Delay(attempts[m] + 1)
    BY DelayGrows
  <2>2. delay' = [delay EXCEPT ![m] = Delay(attempts[m])]
        /\ attempts' = [attempts EXCEPT ![m] = @ + 1]
    BY <1>2 DEF ScheduleReconnect
  <2> QED BY <2>1, <2>2
<1>3. ASSUME NEW m \in Managers, NEW t, ScheduleReconnect(m, t)
      PROVE  ~(attempts[m] >= MaxAttempts) \/ UNCHANGED <<attempts, delay>>
  BY <1>3 DEF ScheduleReconnect
<1>4. ASSUME NEW k \in Sockets, OnOpen(k)
      PROVE  /\ Backoff'
             /\ \A n \in Managers : attempts'[n] > attempts[n] => delay'[n] \in delay[n]..30000
  <2>1. attempts' = [attempts EXCEPT ![sockOf[k]] = 0] /\ delay' = [delay EXCEPT ![sockOf[k]] = 0]
    BY <1>4 DEF OnOpen
  <2>2. ASSUME NEW n \in Managers
        PROVE  \/ attempts'[n] = 0 /\ delay'[n] = 0
               \/ attempts'[n] = attempts[n] /\ delay'[n] = delay[n]
    BY <2>1
  <2>3. Delay(0) \in Nat BY DelayGrows
  <2>4. \A n \in Managers : delay'[n] <= Delay(attempts'[n]) BY <2>2, <2>3
  <2>5. \A n \in Managers : ~(attempts'[n] > attempts[n]) BY <2>2
  <2>6. attempts' \in [Managers -> Nat] /\ delay' \in [Managers -> Nat] BY <2>1
  <2>7. Backoff' BY <2>4, <2>6
  <2> HIDE DEF Backoff
  <2> QED BY <2>5, <2>7
<1>5. \/ UNCHANGED <<attempts, delay>>
      \/ \E m \in Managers : \E t : ScheduleReconnect(m, t)
      \/ \E k \in Sockets : OnOpen(k)
  <2>1. CASE UNCHANGED vars BY <2>1 DEF vars, connVars
  <2>2. ASSUME NEW k \in Sockets, OnClose(k)
        PROVE  UNCHANGED <<attempts, delay>> \/ \E m \in Managers : \E t : ScheduleReconnect(m, t)
    <3>1. sockOf[k] \in Managers BY <2>2 DEF IInv, ConnInv, TypeConn, Chain, OnClose
    <3> QED BY <2>2, <3>1 DEF OnClose
  <2>3. ASSUME NEW m \in Managers, Connects(m)
        PROVE  UNCHANGED <<attempts, delay>> \/ \E t : ScheduleReconnect(m, t)
    BY <2>3 DEF Connects, OnTimer, OnTimerThrows
  <2>4. ASSUME NEW m \in Managers, NEW k \in Sockets, FirstWorker(m, k) \/ ReplaceWorker(m, k)
        PROVE  UNCHANGED <<attempts, delay>>
    BY <2>4 DEF FirstWorker, ReplaceWorker
  <2>9. ASSUME NEW m \in Managers, FirstWorkerThrows(m) \/ ReplaceWorkerThrows(m)
        PROVE  \E t : ScheduleReconnect(m, t)
    BY <2>9 DEF FirstWorkerThrows, ReplaceWorkerThrows
  <2>5. StopWorker => UNCHANGED <<attempts, delay>> BY DEF StopWorker
  <2>6. ASSUME NEW k \in Sockets, NEW s \in Sessions, HandleKill(k, s)
        PROVE  UNCHANGED <<attempts, delay>>
    BY <2>6 DEF HandleKill, connVars
  <2>7. ASSUME NEW k \in Sockets, NEW s \in Sessions, NEW p \in Ptys, SpawnSession(k, s, p)
        PROVE  UNCHANGED <<attempts, delay>>
    BY <2>7 DEF SpawnSession, connVars
  <2>8. ASSUME NEW p \in Ptys, OnExit(p) PROVE UNCHANGED <<attempts, delay>>
    BY <2>8 DEF OnExit, connVars
  <2> QED BY <2>1, <2>2, <2>3, <2>4, <2>5, <2>6, <2>7, <2>8, <2>9 DEF Next
<1> QED BY <1>1, <1>2, <1>3, <1>4, <1>5

-----------------------------------------------------------------------------
\* The inductive invariant of the managers (worker-manager.ts, index.ts:120-144).
THEOREM Invariance == Spec => []IInv
BY InitIInv, NextIInv, PTL DEF Spec

\* However many managers succeed one another, there is one chain of attempts, the manager's
\* in charge (worker-manager.ts:86-105, 116-119, 137).
THEOREM OneChainHolds == Spec => []OneChain
<1>1. IInv => OneChain
  <2> SUFFICES ASSUME TypeConn, Chain, NEW m \in Managers
               PROVE  /\ \A j, k \in Live(m) : j = k
                      /\ timer[m] => Live(m) = {}
                      /\ m # manager => Live(m) = {} /\ ~timer[m]
    BY DEF IInv, ConnInv, OneChain
  <2>1. \A k \in Live(m) : m = manager /\ ws[manager] = k /\ ~timer[manager] BY DEF Chain, Live
  <2>2. m # manager => ~timer[m] BY DEF Chain
  <2> QED BY <2>1, <2>2
<1> QED BY <1>1, Invariance, PTL

\* The window shows the state of the manager in charge (index.ts:132-134,
\* worker-manager.ts:50-57).
THEOREM StatusIsCurrentHolds == Spec => []StatusIsCurrent
<1>1. IInv => StatusIsCurrent BY DEF IInv, ConnInv
<1> QED BY <1>1, Invariance, PTL

\* A session's entry is a live PTY of that session (worker-manager.ts:238, 251-252).
THEOREM EntryIsAliveHolds == Spec => []EntryIsAlive
<1>1. IInv => EntryIsAlive BY DEF IInv, PtyInv
<1> QED BY <1>1, Invariance, PTL

\* A running PTY is lost from the map only to a second spawn (worker-manager.ts:238).
THEOREM LostByRespawnOnlyHolds == Spec => []LostByRespawnOnly
<1>1. IInv => LostByRespawnOnly BY DEF IInv, PtyInv
<1> QED BY <1>1, Invariance, PTL

\* The waits grow to their cap until a connection opens (worker-manager.ts:71-73, 127-140).
THEOREM BackoffGrowsHolds == Spec => BackoffGrows
<1>1. Init => Backoff BY InitBackoff
<1>2. IInv /\ Backoff /\ [Next]_vars => Backoff' BY BackoffStep
<1>3. IInv /\ Backoff /\ [Next]_vars
        => [\A m \in Managers : attempts'[m] > attempts[m] => delay'[m] \in delay[m]..30000]_vars
  BY BackoffStep
<1> QED BY <1>1, <1>2, <1>3, Invariance, PTL DEF Spec, BackoffGrows

-----------------------------------------------------------------------------
(* Refinement of Reconnection.                                             *)

\* What is left of Doing while nothing a manager does is "astray".
Does(m) ==
  IF m \notin used THEN "new"
  ELSE IF m # manager THEN "stopped"
  ELSE IF timer[m] THEN "waiting"
  ELSE IF \E k \in Sockets : sock[k] = "connecting" THEN "trying"
  ELSE IF \E k \in Sockets : sock[k] = "open" THEN "open"
  ELSE "lost"

LEMMA DoingIs == ConnInv => \A m \in Managers : Doing(m) = Does(m)
<1> SUFFICES ASSUME ConnInv, NEW m \in Managers PROVE Doing(m) = Does(m) OBVIOUS
<1>1. \A k \in Sockets : sock[k] \in {"connecting", "open"} =>
        sockOf[k] = manager /\ ws[manager] = k /\ ~timer[manager]
  BY DEF ConnInv, Chain
<1>2. \A n \in Managers : Live(n) # {} => n = manager /\ ~timer[n] BY <1>1 DEF Live
<1>3. \A n \in Managers : n # manager => ~timer[n] BY DEF ConnInv, Chain
<1>4. manager # None => manager \in used BY DEF ConnInv, Chain
<1>5. CASE m \notin used
  <2>1. m # manager BY <1>4, <1>5, ManagerAssumption
  <2>2. Live(m) = {} /\ ~timer[m] BY <1>2, <1>3, <2>1
  <2> QED BY <2>1, <2>2, <1>5 DEF Doing, Does
<1>6. CASE m \in used /\ m # manager
  <2>1. Live(m) = {} /\ ~timer[m] BY <1>2, <1>3, <1>6
  <2> QED BY <2>1, <1>6 DEF Doing, Does
<1>7. CASE m = manager /\ m \in used /\ Live(m) = {}
  <2>1. \A k \in Sockets : sock[k] \notin {"connecting", "open"} BY <1>1, <1>7 DEF Live
  <2>2. ~\E k \in Sockets : Live(m) = {k} BY <1>7
  <2> QED BY <2>1, <2>2, <1>7 DEF Doing, Does
<1>8. ASSUME m = manager, m \in used, NEW j \in Live(m) PROVE Doing(m) = Does(m)
  <2>1. j \in Sockets /\ sock[j] \in {"connecting", "open"} /\ ~timer[m] BY <1>2, <1>8 DEF Live
  <2>2. \A k \in Sockets : sock[k] \in {"connecting", "open"} => k = j BY <1>1, <2>1
  <2>3. Live(m) = {j} BY <1>1, <1>8, <2>1, <2>2 DEF Live
  <2>4. \A k \in Sockets : Live(m) = {k} => k = j BY <2>3
  <2>5. CASE sock[j] = "connecting" BY <1>8, <2>1, <2>3, <2>4, <2>5 DEF Doing, Does
  <2>6. CASE sock[j] = "open"
    <3>1. ~\E k \in Sockets : sock[k] = "connecting" BY <2>2, <2>6
    <3>2. Does(m) = "open" BY <1>8, <2>1, <2>6, <3>1 DEF Does
    <3>3. ~\E k \in Sockets : Live(m) = {k} /\ sock[k] = "connecting" BY <3>1
    <3> QED BY <1>8, <2>1, <2>3, <2>6, <3>2, <3>3 DEF Doing
  <2> QED BY <2>1, <2>5, <2>6
<1> QED BY <1>4, <1>5, <1>6, <1>7, <1>8

\* What one manager does in a step, in terms of Reconnection.
Same(m) == Does(m)' = Does(m) /\ attempts'[m] = attempts[m]
Started(m) == Does(m) = "new" /\ Does(m)' = "trying" /\ attempts'[m] = attempts[m]
Opened(m) == Does(m) = "trying" /\ Does(m)' = "open" /\ attempts'[m] = 0
Failed(m) ==
  /\ Does(m) \in {"new", "open", "trying", "waiting"}
  /\ \/ attempts[m] < MaxAttempts /\ Does(m)' = "waiting" /\ attempts'[m] = attempts[m] + 1
     \/ attempts[m] >= MaxAttempts /\ Does(m)' = "lost" /\ attempts'[m] = attempts[m]
Retried(m) == Does(m) = "waiting" /\ Does(m)' = "trying" /\ attempts'[m] = attempts[m]
Stopped(m) == Does(m) # "new" /\ Does(m)' = "stopped" /\ attempts'[m] = attempts[m]

Moves(m) == Same(m) \/ Started(m) \/ Opened(m) \/ Failed(m) \/ Retried(m) \/ Stopped(m)

\* Only StopWorker and ReplaceWorker concern two managers at most, everything else the one
\* whose callback it is.
LEMMA StepMoves ==
  ASSUME ConnInv, ConnInv', attempts \in [Managers -> Nat], [Next]_vars, NEW n \in Managers
  PROVE  Moves(n)
<1> USE ManagerAssumption
<1>a. TypeConn /\ Chain /\ TypeConn' /\ Chain' BY DEF ConnInv
<1>1. CASE StopWorker
  <2>1. CASE n = manager
    <3>1. n \in used /\ manager' = None /\ used' = used BY <1>1, <1>a, <2>1 DEF StopWorker, Chain
    <3>2. Does(n) # "new" /\ Does(n)' = "stopped" BY <3>1 DEF Does
    <3> QED BY <1>1, <3>2 DEF StopWorker, Moves, Stopped
  <2>2. CASE n # manager
    <3>1. n # manager' /\ used' = used /\ attempts' = attempts BY <1>1 DEF StopWorker
    <3> QED BY <2>2, <3>1 DEF Moves, Same, Does
  <2> QED BY <2>1, <2>2
<1>2. ASSUME NEW m \in Managers, NEW k \in Sockets, FirstWorker(m, k) \/ ReplaceWorker(m, k)
      PROVE  Moves(n)
  <2>1. /\ manager' = m /\ used' = used \cup {m} /\ m \notin used /\ attempts' = attempts
        /\ sock'[k] = "connecting"
    BY <1>2, <1>a DEF FirstWorker, ReplaceWorker, Replaces, TypeConn, SockAfterDisconnect
  <2>2. CASE n = m
    <3>1. ~timer'[m] BY <2>1, <1>a DEF Chain
    <3>2. Does(n) = "new" /\ Does(n)' = "trying" BY <2>1, <2>2, <3>1 DEF Does
    <3> QED BY <2>1, <3>2 DEF Moves, Started
  <2>3. CASE n = manager /\ n # m
    <3>1. n \in used BY <1>a, <2>3 DEF Chain
    <3>2. Does(n) # "new" /\ Does(n)' = "stopped" BY <2>1, <2>3, <3>1 DEF Does
    <3> QED BY <2>1, <3>2 DEF Moves, Stopped
  <2>4. CASE n # manager /\ n # m
    BY <2>1, <2>4 DEF Moves, Same, Does
  <2> QED BY <2>2, <2>3, <2>4
<1>10. ASSUME NEW m \in Managers, FirstWorkerThrows(m) \/ ReplaceWorkerThrows(m)
       PROVE  Moves(n)
  <2>1. manager' = m /\ used' = used \cup {m} /\ m \notin used
    BY <1>10 DEF FirstWorkerThrows, ReplaceWorkerThrows, Replaces
  <2>2. m # manager BY <2>1, <1>a DEF Chain
  <2>3. PICK t : ScheduleReconnect(m, t) /\ t \in [Managers -> BOOLEAN] /\ ~t[m]
    <3>1. ~timer[m] BY <2>2, <1>a DEF Chain
    <3>2. [timer EXCEPT ![manager] = FALSE] \in [Managers -> BOOLEAN] BY <1>a DEF TypeConn
    <3>3. ~[timer EXCEPT ![manager] = FALSE][m] BY <2>2, <3>1, <1>a DEF TypeConn
    <3> QED BY <1>10, <1>a, <3>1, <3>2, <3>3
            DEF FirstWorkerThrows, ReplaceWorkerThrows, TimerAfterDisconnect, TypeConn
  <2>4. \A p \in Managers \ {m} : attempts'[p] = attempts[p] BY <2>3 DEF ScheduleReconnect
  <2>5. CASE n = m
    <3>1. Does(n) = "new" BY <2>1, <2>5 DEF Does
    <3>2. CASE attempts[m] >= MaxAttempts
      <4>1. ~timer'[m] /\ attempts' = attempts BY <2>3, <3>2 DEF ScheduleReconnect
      <4>2. \A k \in Sockets : sock'[k] \notin {"connecting", "open"}
        <5>1. CASE FirstWorkerThrows(m)
          BY <5>1, <1>a DEF FirstWorkerThrows, Chain, TypeConn, sockVars
        <5>2. CASE ReplaceWorkerThrows(m)
          BY <5>2, <1>a, Disconnected DEF ReplaceWorkerThrows, Replaces
        <5> QED BY <1>10, <5>1, <5>2
      <4>3. Does(n)' = "lost" BY <2>1, <2>5, <4>1, <4>2 DEF Does
      <4> QED BY <2>5, <3>1, <3>2, <4>1, <4>3 DEF Moves, Failed
    <3>3. CASE ~(attempts[m] >= MaxAttempts)
      <4>1. timer'[m] /\ attempts'[m] = attempts[m] + 1
        BY <2>3, <3>3 DEF ScheduleReconnect
      <4>2. Does(n)' = "waiting" BY <2>1, <2>5, <4>1 DEF Does
      <4>3. attempts[m] < MaxAttempts BY <3>3
      <4> QED BY <2>5, <3>1, <4>1, <4>2, <4>3 DEF Moves, Failed
    <3> QED BY <3>2, <3>3
  <2>6. CASE n = manager /\ n # m
    <3>1. n \in used BY <1>a, <2>6 DEF Chain
    <3>2. Does(n) # "new" /\ Does(n)' = "stopped" BY <2>1, <2>6, <3>1 DEF Does
    <3> QED BY <2>4, <2>6, <3>2 DEF Moves, Stopped
  <2>7. CASE n # manager /\ n # m BY <2>1, <2>4, <2>7 DEF Moves, Same, Does
  <2> QED BY <2>5, <2>6, <2>7
<1>3. ASSUME NEW m \in Managers, Connects(m) PROVE Moves(n)
  <2>1. timer[m] /\ manager' = manager /\ used' = used
    BY <1>3 DEF Connects, OnTimer, OnTimerThrows, appVars
  <2>2. m = manager /\ m \in used BY <2>1, <1>a DEF Chain
  <2>3. Does(m) = "waiting" BY <2>1, <2>2 DEF Does
  <2>4. CASE n # m
    <3>1. attempts'[n] = attempts[n]
      BY <1>3, <2>4 DEF Connects, OnTimer, OnTimerThrows, ScheduleReconnect
    <3> QED BY <2>1, <2>2, <2>4, <3>1 DEF Moves, Same, Does
  <2>5. ASSUME n = m, NEW k \in Sockets, OnTimer(m, k) PROVE Moves(n)
    <3>1. ~timer'[m] /\ sock'[k] = "connecting" /\ attempts' = attempts
      BY <2>5, <1>a DEF OnTimer, TypeConn
    <3>2. Does(m)' = "trying" BY <2>1, <2>2, <3>1 DEF Does
    <3> QED BY <2>3, <2>5, <3>1, <3>2 DEF Moves, Retried
  <2>6. CASE n = m /\ OnTimerThrows(m)
    <3>1. \A k \in Sockets : sock'[k] \notin {"connecting", "open"}
      BY <2>1, <2>2, <2>6, <1>a DEF Chain, OnTimerThrows, sockVars
    <3>2. CASE attempts[m] >= MaxAttempts
      <4>1. ~timer'[m] /\ attempts' = attempts
        BY <3>2, <2>6, <1>a DEF OnTimerThrows, ScheduleReconnect, TypeConn
      <4>2. Does(m)' = "lost" BY <2>1, <2>2, <3>1, <4>1 DEF Does
      <4> QED BY <2>3, <2>6, <3>2, <4>1, <4>2 DEF Moves, Failed
    <3>3. CASE ~(attempts[m] >= MaxAttempts)
      <4>1. timer'[m] /\ attempts'[m] = attempts[m] + 1
        BY <3>3, <2>6, <1>a DEF OnTimerThrows, ScheduleReconnect, TypeConn
      <4>2. Does(m)' = "waiting" BY <2>1, <2>2, <4>1 DEF Does
      <4>3. attempts[m] < MaxAttempts BY <3>3
      <4> QED BY <2>3, <2>6, <4>1, <4>2, <4>3 DEF Moves, Failed
    <3> QED BY <3>2, <3>3
  <2> QED BY <1>3, <2>4, <2>5, <2>6 DEF Connects
<1>4. ASSUME NEW k \in Sockets, OnOpen(k) PROVE Moves(n)
  <2>0. PICK m \in Managers : m = sockOf[k]
    BY <1>4, <1>a DEF OnOpen, Chain, TypeConn
  <2>1. m = manager /\ m \in used /\ ~timer[m] /\ ws[m] = k
    BY <1>4, <1>a, <2>0 DEF OnOpen, Chain
  <2>2. /\ manager' = manager /\ used' = used /\ timer' = timer
        /\ sock' = [sock EXCEPT ![k] = "open"] /\ attempts' = [attempts EXCEPT ![m] = 0]
    BY <1>4, <2>0 DEF OnOpen, appVars
  <2>3. CASE n # m BY <2>1, <2>2, <2>3 DEF Moves, Same, Does
  <2>4. CASE n = m
    <3>1. Does(m) = "trying" BY <1>4, <2>1 DEF OnOpen, Does
    <3>2. \A j \in Sockets : sock[j] = "connecting" => j = k BY <1>a, <2>1 DEF Chain
    <3>3. sock'[k] = "open" /\ \A j \in Sockets : sock'[j] # "connecting"
      BY <2>2, <3>2, <1>a DEF TypeConn
    <3>4. Does(m)' = "open" BY <2>1, <2>2, <3>3 DEF Does
    <3> QED BY <2>1, <2>2, <2>4, <3>1, <3>4 DEF Moves, Opened
  <2> QED BY <2>3, <2>4
<1>5. ASSUME NEW k \in Sockets, OnClose(k) PROVE Moves(n)
  <2>0. PICK m \in Managers : m = sockOf[k] BY <1>5, <1>a DEF OnClose, Chain, TypeConn
  <2>1. /\ manager' = manager /\ used' = used /\ sock' = [sock EXCEPT ![k] = "closed"]
        /\ sock[k] # "closed"
    BY <1>5 DEF OnClose, appVars
  <2>2. m \in used BY <2>0, <2>1, <1>a DEF Chain
  <2>3. CASE sock[k] = "closing"
    <3>1. m # manager /\ intentional[m] BY <2>0, <2>3, <1>a DEF Chain
    <3>2. UNCHANGED <<attempts, timer>> BY <1>5, <2>0, <3>1 DEF OnClose
    <3>3. \A j \in Sockets : \A w \in {"connecting", "open"} : sock'[j] = w <=> sock[j] = w
      BY <2>1, <2>3, <1>a DEF TypeConn
    <3>4. (\E j \in Sockets : sock'[j] = "connecting") <=> \E j \in Sockets : sock[j] = "connecting"
      BY <3>3
    <3>5. (\E j \in Sockets : sock'[j] = "open") <=> \E j \in Sockets : sock[j] = "open"
      BY <3>3
    <3> QED BY <2>1, <3>2, <3>4, <3>5 DEF Moves, Same, Does
  <2>4. CASE sock[k] \in {"connecting", "open"}
    <3>1. m = manager /\ ~timer[m] /\ ws[m] = k /\ ~intentional[m] BY <2>0, <2>2, <2>4, <1>a DEF Chain
    <3>2. ScheduleReconnect(m, timer) BY <1>5, <2>0, <3>1 DEF OnClose
    <3>3. CASE n # m
      <4>1. attempts'[n] = attempts[n] BY <3>2, <3>3 DEF ScheduleReconnect
      <4> QED BY <2>1, <3>1, <3>3, <4>1 DEF Moves, Same, Does
    <3>4. CASE n = m
      <4>1. Does(m) \in {"trying", "open"} BY <2>2, <2>4, <3>1 DEF Does
      <4>2. \A j \in Sockets : sock[j] \in {"connecting", "open"} => j = k BY <1>a, <3>1 DEF Chain
      <4>3. \A j \in Sockets : sock'[j] \notin {"connecting", "open"}
        BY <2>1, <4>2, <1>a DEF TypeConn
      <4>4. CASE attempts[m] >= MaxAttempts
        <5>1. timer' = timer /\ attempts' = attempts BY <3>2, <4>4 DEF ScheduleReconnect
        <5>2. Does(m)' = "lost" BY <2>1, <2>2, <3>1, <4>3, <5>1 DEF Does
        <5> QED BY <3>4, <4>1, <4>4, <5>1, <5>2 DEF Moves, Failed
      <4>5. CASE ~(attempts[m] >= MaxAttempts)
        <5>1. timer'[m] /\ attempts'[m] = attempts[m] + 1
          BY <3>2, <4>5, <2>2, <1>a DEF ScheduleReconnect, TypeConn
        <5>2. Does(m)' = "waiting" BY <2>1, <2>2, <3>1, <5>1 DEF Does
        <5>3. attempts[m] < MaxAttempts BY <4>5, <2>2
        <5> QED BY <3>4, <4>1, <5>1, <5>2, <5>3 DEF Moves, Failed
      <4> QED BY <4>4, <4>5
    <3> QED BY <3>3, <3>4
  <2> QED BY <2>1, <2>3, <2>4, <1>a DEF TypeConn
<1>6. CASE UNCHANGED <<appVars, connVars, sockVars>>
  BY <1>6 DEF Moves, Same, Does, appVars, connVars, sockVars
<1>7. CASE UNCHANGED vars BY <1>6, <1>7 DEF vars
<1>8. ASSUME NEW k \in Sockets, NEW s \in Sessions,
             HandleKill(k, s) \/ \E p \in Ptys : SpawnSession(k, s, p)
      PROVE  Moves(n)
  BY <1>6, <1>8 DEF HandleKill, SpawnSession
<1>9. ASSUME NEW p \in Ptys, OnExit(p) PROVE Moves(n) BY <1>6, <1>9 DEF OnExit
<1> QED BY <1>1, <1>2, <1>3, <1>4, <1>5, <1>7, <1>8, <1>9, <1>10 DEF Next

\* One step of the managers is one of Reconnection.
LEMMA StepRefines ==
  ASSUME ConnInv, ConnInv', attempts \in [Managers -> Nat],
         \A m \in Managers : Doing(m) = Does(m), \A m \in Managers : Doing(m)' = Does(m)',
         [Next]_vars
  PROVE  R!Next
<1> DEFINE now == [m \in Managers |-> Doing(m)]
           next == [m \in Managers |-> Doing(m)']
<1>1. ASSUME NEW m \in Managers PROVE R!Step(m) \/ R!Becomes(m, now[m])
  <2>1. Moves(m) BY <1>1, StepMoves
  <2>2. now[m] = Does(m) /\ next[m] = Does(m)' OBVIOUS
  <2> QED BY <2>1, <2>2 DEF Moves, Same, Started, Opened, Failed, Retried, Stopped,
       R!Step, R!Becomes, R!Start, R!Opens, R!Fails, R!Retries, R!Stops
<1>2. \A m \in Managers : Does(m)' \in R!Phases BY DEF Does, R!Phases
<1>3. next \in [Managers -> R!Phases] BY <1>2
<1> QED BY <1>1, <1>3 DEF R!Next

\* A manager is a client of Reconnection, for any number of managers, sockets and attempts
\* (worker-manager.ts:59-140, index.ts:120-144).
THEOREM Refinement == Spec => ImplementsReconnection
<1>1. ASSUME Init PROVE R!Init
  <2>1. ASSUME NEW m \in Managers PROVE Doing(m) = "new"
    <3>1. Live(m) = {} /\ ~timer[m] /\ m \notin used /\ m # manager
      BY <1>1, ManagerAssumption DEF Init, Live
    <3> QED BY <3>1 DEF Doing
  <2> QED BY <1>1, <2>1 DEF Init, R!Init
<1>2. Init => Backoff BY InitBackoff
<1>3. IInv /\ Backoff /\ [Next]_vars => Backoff' BY BackoffStep
<1>4. IInv => ConnInv /\ \A m \in Managers : Doing(m) = Does(m) BY DoingIs DEF IInv
<1>5. IInv' => ConnInv' /\ (\A m \in Managers : Doing(m) = Does(m))' BY <1>4, PTL
<1>6. IInv /\ IInv' /\ Backoff /\ [Next]_vars
        => [R!Next]_<<[m \in Managers |-> Doing(m)], attempts>>
  BY <1>4, <1>5, StepRefines DEF Backoff
<1> QED
  BY <1>1, <1>2, <1>3, <1>6, Invariance, PTL DEF Spec, ImplementsReconnection, R!Spec

-----------------------------------------------------------------------------
(* Why a manager comes to rest: what it has left to do before it is        *)
(* connected or out of attempts only gets less, and some step of its is    *)
(* always possible.                                                        *)

\* An open socket's manager knows it, and none gives up early.
EndInv ==
  /\ IInv /\ Backoff
  /\ \A k \in Sockets : sock[k] = "open" => connected[sockOf[k]]
  /\ \A m \in Managers :
       attempts[m] <= MaxAttempts /\ (Does(m) = "lost" => attempts[m] = MaxAttempts)

LEMMA OpenIsConnected ==
  ASSUME IInv, \A k \in Sockets : sock[k] = "open" => connected[sockOf[k]], [Next]_vars
  PROVE  \A k \in Sockets : sock'[k] = "open" => connected'[sockOf'[k]]
<1> USE ManagerAssumption
<1>a. TypeConn /\ Chain BY DEF IInv, ConnInv
<1>1. ASSUME manager # None, NEW j \in Sockets,
             SockAfterDisconnect(manager)[j] = "open"
      PROVE  FALSE
  BY <1>1, <1>a, Disconnected
<1>2. CASE StopWorker BY <1>1, <1>2 DEF StopWorker
<1>3. ASSUME NEW m \in Managers, NEW k \in Sockets, FirstWorker(m, k), NEW j \in Sockets
      PROVE  sock'[j] # "open"
  BY <1>3, <1>a DEF FirstWorker, Chain, TypeConn
<1>4. ASSUME NEW m \in Managers, NEW k \in Sockets, ReplaceWorker(m, k), NEW j \in Sockets
      PROVE  sock'[j] # "open"
  <2>1. SockAfterDisconnect(manager) \in [Sockets -> {"closing", "closed"}]
    BY <1>4, <1>a, Disconnected DEF SockAfterDisconnect, ReplaceWorker, Replaces
  <2> QED BY <1>4, <2>1 DEF ReplaceWorker
<1>13. ASSUME NEW m \in Managers, FirstWorkerThrows(m) \/ ReplaceWorkerThrows(m), NEW j \in Sockets
       PROVE  sock'[j] = "open" => connected'[sockOf'[j]]
  <2>1. CASE FirstWorkerThrows(m) BY <2>1, <1>a DEF FirstWorkerThrows, Chain, TypeConn, sockVars
  <2>2. CASE ReplaceWorkerThrows(m) BY <2>2, <1>1 DEF ReplaceWorkerThrows, Replaces
  <2> QED BY <1>13, <2>1, <2>2
<1>5. ASSUME NEW m \in Managers, NEW k \in Sockets, OnTimer(m, k), NEW j \in Sockets
      PROVE  sock'[j] = "open" => connected'[sockOf'[j]]
  BY <1>5, <1>a DEF OnTimer, NewSocket, FreshSocket, TypeConn
<1>6. ASSUME NEW k \in Sockets, OnOpen(k), NEW j \in Sockets
      PROVE  sock'[j] = "open" => connected'[sockOf'[j]]
  BY <1>6, <1>a DEF OnOpen, SetConnected, TypeConn, Chain
<1>7. ASSUME NEW k \in Sockets, OnClose(k), NEW j \in Sockets
      PROVE  sock'[j] = "open" => connected'[sockOf'[j]]
  <2>1. sock'[j] = "open" => j # k /\ sock[j] = "open" BY <1>7, <1>a DEF OnClose, TypeConn
  <2>2. sock[j] = "open" /\ j # k => sockOf[j] # sockOf[k]
    BY <1>7, <1>a DEF OnClose, Chain, TypeConn
  <2> QED BY <1>7, <1>a, <2>1, <2>2 DEF OnClose, SetConnected, TypeConn, Chain
<1>8. CASE UNCHANGED <<sock, sockOf, connected>> BY <1>8
<1>9. CASE UNCHANGED vars BY <1>8, <1>9 DEF vars, connVars, sockVars
<1>10. ASSUME NEW k \in Sockets, NEW s \in Sessions,
              HandleKill(k, s) \/ \E p \in Ptys : SpawnSession(k, s, p)
       PROVE  UNCHANGED <<sock, sockOf, connected>>
  BY <1>10 DEF HandleKill, SpawnSession, connVars, sockVars
<1>11. ASSUME NEW p \in Ptys, OnExit(p) PROVE UNCHANGED <<sock, sockOf, connected>>
  BY <1>11 DEF OnExit, connVars, sockVars
<1>12. ASSUME NEW m \in Managers, OnTimerThrows(m) PROVE UNCHANGED <<sock, sockOf, connected>>
  BY <1>12 DEF OnTimerThrows, sockVars
<1> QED BY <1>2, <1>3, <1>4, <1>5, <1>6, <1>7, <1>8, <1>9, <1>10, <1>11, <1>12, <1>13
    DEF Next, Connects

LEMMA EndInvariance == Spec => []EndInv
<1>1. Init => EndInv
  <2> SUFFICES ASSUME Init PROVE EndInv OBVIOUS
  <2>1. \A k \in Sockets : sock[k] # "open" BY DEF Init
  <2>2. \A m \in Managers : attempts[m] <= MaxAttempts /\ Does(m) = "new"
    <3> SUFFICES ASSUME NEW m \in Managers PROVE attempts[m] <= MaxAttempts /\ Does(m) = "new"
      OBVIOUS
    <3>1. attempts[m] = 0 /\ m \notin used BY DEF Init
    <3> QED BY <3>1, ManagerAssumption DEF Does
  <2> QED BY <2>1, <2>2, InitIInv, InitBackoff DEF EndInv
<1>2. EndInv /\ [Next]_vars => EndInv'
  <2> SUFFICES ASSUME EndInv, [Next]_vars PROVE EndInv' OBVIOUS
  <2> USE ManagerAssumption DEF EndInv
  <2>1. IInv' /\ Backoff' BY NextIInv, BackoffStep
  <2>2. ASSUME NEW m \in Managers
        PROVE  attempts'[m] <= MaxAttempts /\ (Does(m)' = "lost" => attempts'[m] = MaxAttempts)
    <3>1. Moves(m) BY <2>1, StepMoves DEF IInv, Backoff
    <3>2. attempts[m] \in Nat BY DEF Backoff
    <3> QED BY <3>1, <3>2 DEF Moves, Same, Started, Opened, Failed, Retried, Stopped
  <2> QED BY <2>1, <2>2, OpenIsConnected
<1> QED BY <1>1, <1>2, PTL DEF Spec

\* What a manager that is not at rest is doing, and how many steps it has left at most.
Busy(m) == manager = m /\ ~Settled(m)
StepsLeft(m) == 2 * (MaxAttempts - attempts[m]) + (IF timer[m] THEN 1 ELSE 0)

LEMMA BusyIs ==
  ASSUME EndInv, NEW m \in Managers, Busy(m)
  PROVE  /\ Does(m) = IF timer[m] THEN "waiting" ELSE "trying"
         /\ ~timer[m] => \E k \in Sockets : sock[k] = "connecting" /\ sockOf[k] = m
         /\ StepsLeft(m) \in Nat
<1> USE ManagerAssumption DEF EndInv, IInv, ConnInv, Chain, Busy, Settled
<1>1. m \in used /\ m = manager OBVIOUS
<1>2. CASE timer[m] BY <1>1, <1>2 DEF Does, Backoff, StepsLeft
<1>3. CASE ~timer[m]
  <2>1. \A k \in Sockets : sock[k] \in {"connecting", "open"} => sockOf[k] = m BY <1>1
  <2>2. \A k \in Sockets : sock[k] # "open" BY <1>1, <2>1
  <2>3. Does(m) \in {"trying", "lost"} BY <1>1, <1>3, <2>2 DEF Does
  <2>4. Does(m) = "trying" BY <1>1, <1>3, <2>3
  <2>5. PICK k \in Sockets : sock[k] = "connecting" BY <1>1, <1>3, <2>2, <2>4 DEF Does
  <2>6. StepsLeft(m) \in Nat BY <1>3 DEF Backoff, StepsLeft
  <2> QED BY <1>3, <2>1, <2>4, <2>5, <2>6
<1> QED BY <1>2, <1>3

LEMMA BusyNext ==
  ASSUME NEW m \in Managers
  PROVE  (EndInv /\ Busy(m) => Does(m) = IF timer[m] THEN "waiting" ELSE "trying")'
<1>1. EndInv /\ Busy(m) => Does(m) = IF timer[m] THEN "waiting" ELSE "trying" BY BusyIs
<1> QED BY <1>1, PTL

\* Whatever is not a step of its own leaves a busy manager as it is, what is brings it
\* to rest or leaves it less to do.
LEMMA BusyLess ==
  ASSUME EndInv, EndInv', [Next]_vars, NEW m \in Managers, Busy(m)
  PROVE  \/ Settled(m)'
         \/ Busy(m)' /\ StepsLeft(m)' < StepsLeft(m)
         \/ Busy(m)' /\ timer'[m] = timer[m] /\ StepsLeft(m)' = StepsLeft(m) /\ Same(m)
<1> USE ManagerAssumption
<1>1. Moves(m) BY StepMoves DEF EndInv, IInv, Backoff
<1>2. CASE Settled(m)' BY <1>2
<1>3. CASE ~Settled(m)'
  <2>1. Busy(m)' BY <1>3 DEF Busy, Settled
  <2>2. Does(m) = IF timer[m] THEN "waiting" ELSE "trying" BY BusyIs
  <2>3. Does(m)' = IF timer'[m] THEN "waiting" ELSE "trying" BY <2>1, BusyNext
  <2>4. attempts[m] \in Nat /\ attempts'[m] \in Nat BY DEF EndInv, Backoff
  <2>5. timer[m] \in BOOLEAN /\ timer'[m] \in BOOLEAN BY DEF EndInv, IInv, ConnInv, TypeConn
  <2> QED
    BY <1>1, <2>1, <2>2, <2>3, <2>4, <2>5
    DEF Moves, Same, Started, Opened, Failed, Retried, Stopped, StepsLeft
<1> QED BY <1>2, <1>3

LEMMA OwnStepCounts ==
  ASSUME EndInv, EndInv', [Next]_vars, NEW m \in Managers, Busy(m),
         Connects(m) \/ (~timer[m] /\ Hears(m))
  PROVE  Settled(m)' \/ (Busy(m)' /\ StepsLeft(m)' < StepsLeft(m))
<1> USE ManagerAssumption DEF EndInv, IInv, ConnInv, TypeConn, Backoff
<1> SUFFICES ASSUME Same(m), timer'[m] = timer[m] PROVE Settled(m)' BY BusyLess
<1>1. m = manager /\ ~intentional[m] BY DEF Busy, Chain
<1>2. ASSUME NEW k \in Sockets, OnTimer(m, k) PROVE FALSE BY <1>2 DEF OnTimer
<1>3. CASE OnTimerThrows(m)
  BY <1>3 DEF OnTimerThrows, ScheduleReconnect, Same
<1>4. ASSUME ~timer[m], NEW k \in Sockets, sockOf[k] = m, sock[k] = "connecting", OnOpen(k)
      PROVE  Settled(m)'
  BY <1>4 DEF OnOpen, SetConnected, Settled
<1>5. ASSUME ~timer[m], NEW k \in Sockets, sockOf[k] = m, sock[k] = "connecting", OnClose(k)
      PROVE  Settled(m)'
  <2>1. ScheduleReconnect(m, timer) BY <1>1, <1>5 DEF OnClose
  <2>2. attempts[m] >= MaxAttempts BY <1>5, <2>1 DEF ScheduleReconnect, Same
  <2> QED BY <1>5, <2>2 DEF Settled, Same
<1> QED BY <1>2, <1>3, <1>4, <1>5 DEF Connects, Hears

\* A manager in charge with fewer than n steps left comes to rest.
Nearly(m, n) == Busy(m) /\ StepsLeft(m) < n
Calms(m, n) == Spec /\ Possibly /\ Tries(m) => (Nearly(m, n) ~> Settled(m))

LEMMA OneStepMore ==
  ASSUME NEW m \in Managers, NEW n \in Nat
  PROVE  Calms(m, n) => Calms(m, n + 1)
<1> DEFINE Waits == Nearly(m, n + 1) /\ timer[m]
           Hopes == Nearly(m, n + 1) /\ ~timer[m]
<1>a. EndInv /\ Busy(m) => StepsLeft(m) \in Nat BY BusyIs
<1>b. (EndInv /\ Busy(m) => StepsLeft(m) \in Nat)' BY <1>a, PTL
<1>1. EndInv /\ EndInv' /\ Waits /\ [Next]_vars => Waits' \/ Nearly(m, n)' \/ Settled(m)'
  BY <1>a, <1>b, BusyLess DEF Nearly
<1>2. EndInv /\ EndInv' /\ Hopes /\ [Next]_vars => Hopes' \/ Nearly(m, n)' \/ Settled(m)'
  BY <1>a, <1>b, BusyLess DEF Nearly
<1>3. EndInv /\ EndInv' /\ Waits /\ [Next]_vars /\ <<Connects(m)>>_vars => Nearly(m, n)' \/ Settled(m)'
  BY <1>a, <1>b, OwnStepCounts DEF Nearly
<1>4. EndInv /\ EndInv' /\ Hopes /\ [Next]_vars /\ <<Hears(m)>>_vars => Nearly(m, n)' \/ Settled(m)'
  BY <1>a, <1>b, OwnStepCounts DEF Nearly
<1>5. EndInv /\ Hopes => \E k \in Sockets : sockOf[k] = m /\ sock[k] = "connecting"
  BY BusyIs DEF Nearly
<1>6. Possible /\ Waits => ENABLED <<Connects(m)>>_vars BY DEF Possible
<1>7. Possible /\ EndInv /\ Hopes => ENABLED <<Hears(m)>>_vars BY <1>5 DEF Possible
<1>8. Nearly(m, n + 1) <=> Waits \/ Hopes OBVIOUS
<1> HIDE DEF Waits, Hopes
<1> QED
  BY <1>1, <1>2, <1>3, <1>4, <1>6, <1>7, <1>8, EndInvariance, PTL DEF Calms, Spec, Tries, Possibly

\* A manager in charge ends up connected, replaced or out of attempts, for any number of managers
\* and sockets and at most the twenty attempts of worker-manager.ts:29 (worker-manager.ts:86-92, 127-140).
THEOREM SettlesHolds == MaxAttempts <= 20 /\ FairSpec /\ Possibly => Settles
<1>1. ASSUME NEW m \in Managers, MaxAttempts <= 20
      PROVE  Spec /\ Possibly /\ Tries(m) => ComesToRest(m)
  <2>1. Calms(m, 0)
    <3>1. EndInv => ~Nearly(m, 0) BY BusyIs DEF Nearly
    <3> QED BY <3>1, EndInvariance, PTL DEF Calms
  <2>2. \A n \in 0..41 : Calms(m, n) => Calms(m, n + 1) BY OneStepMore
  <2>3. Calms(m, 21) BY <2>1, <2>2
  <2>4. Calms(m, 42) BY <2>2, <2>3
  <2>5. EndInv /\ manager = m => Nearly(m, 42) \/ Settled(m)
    BY <1>1, ManagerAssumption DEF EndInv, Backoff, Nearly, Busy, StepsLeft
  <2> QED BY <2>4, <2>5, EndInvariance, PTL DEF Calms, ComesToRest, Spec
<1> QED BY <1>1 DEF FairSpec, Fairness, Settles
=============================================================================
