------------------------- MODULE ViewerRelay_proofs -------------------------
(***************************************************************************)
(* Proofs about ViewerRelay, for any number of viewers, producers and      *)
(* relays: the type invariant, that the scrollback is the tail of the      *)
(* output, that a viewer is shown each chunk exactly once, that the relay  *)
(* implements Broadcast; and, with one producer, that output is shown in   *)
(* order and at most one chunk of it twice.                                *)
(*                                                                         *)
(* The argument: relay.mu is held from the moment a fan-out picks its      *)
(* viewers until it has written to the last one (Locked), only viewers of  *)
(* the relay are picked (Members), so that nobody joins between two writes *)
(* of one fan-out and what a viewer lacks is what the fan-out owes it.     *)
(***************************************************************************)
EXTENDS ViewerRelay, TLAPS

\* Where producers are, and on what.
ProducersPlaced ==
  \A p \in Producers :
    /\ pc[p] \in {"idle", "create", "write", "fanout", "send"}
    /\ pc[p] # "idle" => len[p] \in 1..MaxChunk
    /\ pc[p] \in {"write", "fanout", "send"} => mine[p] \in Relays

\* Where viewers are, and on what; who does not watch has been shown nothing.
ViewersPlaced ==
  \A v \in Viewers :
    /\ pc[v] \in {"idle", "snapshot", "join", "watching", "leaving", "remove", "gone"}
    /\ pc[v] \in {"snapshot", "join", "watching", "leaving", "remove"} => mine[v] \in Relays /\ current \in Relays
    /\ pc[v] # "watching" => shown[v] = 0

\* relay.mu is held by the producer that fans out on the relay.
Locked ==
  /\ \A r \in Relays : rmu[r] # None => pc[rmu[r]] = "send" /\ mine[rmu[r]] = r
  /\ \A p \in Producers : pc[p] = "send" => rmu[mine[p]] = p

\* Viewers of a relay joined it, and a fan-out picked viewers of its relay.
Members ==
  /\ \A v \in Viewers, r \in Relays :
       v \in viewers[r] => (pc[v] \in {"watching", "leaving"} /\ mine[v] = r) \/ pc[v] \in {"remove", "gone"}
  /\ \A v \in Viewers : pc[v] = "watching" => v \in viewers[mine[v]]
  /\ \A p \in Producers, v \in Viewers : pc[p] = "send" /\ v \in pending[p] => v \in viewers[mine[p]]

\* What a watching viewer lacks is what the fan-out in progress owes it.
Owed ==
  \A v \in Viewers : pc[v] = "watching" =>
    /\ rmu[mine[v]] = None => joined[v] + shown[v] = fanned[mine[v]]
    /\ \A p \in Producers : rmu[mine[v]] = p =>
         joined[v] + shown[v] + (IF v \in pending[p] THEN len[p] ELSE 0) = fanned[mine[v]]

IInv == TypeOK /\ ScrollbackIsTail /\ ProducersPlaced /\ ViewersPlaced /\ Locked /\ Members /\ Owed

LEMMA InitIInv == Init => IInv
BY RelayAssumption DEF Init, IInv, TypeOK, ScrollbackIsTail, ProducersPlaced, ViewersPlaced, Locked,
   Members, Owed, PCs, Procs

LEMMA SpawnRelayKeeps ==
  ASSUME IInv, SpawnRelay
  PROVE  IInv'
<1>1. TypeOK'
    BY RelayAssumption DEF SpawnRelay, TypeOK, ProducersPlaced, ViewersPlaced, relayVars,
     prodVars, viewVars, IInv, Procs, PCs
<1>2. ScrollbackIsTail'
    BY DEF SpawnRelay, ScrollbackIsTail, IInv, relayVars, prodVars, viewVars
<1>3. ProducersPlaced'
    BY DEF SpawnRelay, ProducersPlaced, IInv, relayVars, prodVars, viewVars
<1>4. ViewersPlaced'
    BY RelayAssumption DEF SpawnRelay, TypeOK, ViewersPlaced, relayVars, prodVars, viewVars,
     IInv, Procs, PCs
<1>5. Locked'
    BY DEF SpawnRelay, Locked, IInv, relayVars, prodVars, viewVars
<1>6. Members'
    BY DEF SpawnRelay, Members, IInv, relayVars, prodVars, viewVars
<1>7. Owed'
    BY DEF SpawnRelay, Owed, IInv, relayVars, prodVars, viewVars
<1>8. QED
  BY <1>1, <1>2, <1>3, <1>4, <1>5, <1>6, <1>7 DEF IInv

LEMMA OutputKeeps ==
  ASSUME IInv, NEW p \in Producers, Output(p)
  PROVE  IInv'
<1>1. TypeOK'
    BY RelayAssumption DEF Output, TypeOK, ProducersPlaced, ViewersPlaced, Goto, relayVars,
     prodVars, viewVars, IInv, Procs, PCs
<1>2. ScrollbackIsTail'
    BY DEF Output, ScrollbackIsTail, IInv, relayVars, prodVars, viewVars
<1>3. ProducersPlaced'
    BY RelayAssumption DEF Output, TypeOK, ProducersPlaced, Goto, relayVars, prodVars,
     viewVars, IInv, Procs, PCs
<1>4. ViewersPlaced'
    BY RelayAssumption DEF Output, TypeOK, ViewersPlaced, Goto, relayVars, prodVars,
     viewVars, IInv, Procs, PCs
<1>5. Locked'
    BY RelayAssumption DEF Output, TypeOK, ProducersPlaced, ViewersPlaced, Locked, Goto,
     relayVars, prodVars, viewVars, IInv, Procs, PCs
<1>6. Members'
    BY RelayAssumption DEF Output, TypeOK, ProducersPlaced, ViewersPlaced, Locked, Members,
     Goto, relayVars, prodVars, viewVars, IInv, Procs, PCs
<1>7. Owed'
    BY RelayAssumption DEF Output, TypeOK, ProducersPlaced, ViewersPlaced, Locked, Members,
     Owed, Goto, relayVars, prodVars, viewVars, IInv, Procs, PCs
<1>8. QED
  BY <1>1, <1>2, <1>3, <1>4, <1>5, <1>6, <1>7 DEF IInv

LEMMA CreateRelayKeeps ==
  ASSUME IInv, NEW p \in Producers, CreateRelay(p)
  PROVE  IInv'
<1>1. TypeOK'
    BY RelayAssumption DEF CreateRelay, TypeOK, ProducersPlaced, ViewersPlaced, Goto,
     relayVars, prodVars, viewVars, IInv, Procs, PCs, Fresh
<1>2. ScrollbackIsTail'
    BY DEF CreateRelay, ScrollbackIsTail, IInv, relayVars, prodVars, viewVars
<1>3. ProducersPlaced'
    BY RelayAssumption DEF CreateRelay, TypeOK, ProducersPlaced, Goto, relayVars, prodVars,
     viewVars, IInv, Procs, PCs, Fresh
<1>4. ViewersPlaced'
    BY RelayAssumption DEF CreateRelay, TypeOK, ViewersPlaced, Goto, relayVars, prodVars,
     viewVars, IInv, Procs, PCs, Fresh
<1>5. Locked'
    BY RelayAssumption DEF CreateRelay, TypeOK, ProducersPlaced, ViewersPlaced, Locked,
     Goto, relayVars, prodVars, viewVars, IInv, Procs, PCs, Fresh
<1>6. Members'
    BY RelayAssumption DEF CreateRelay, TypeOK, ProducersPlaced, ViewersPlaced, Locked,
     Members, Goto, relayVars, prodVars, viewVars, IInv, Procs, PCs, Fresh
<1>7. Owed'
    BY RelayAssumption DEF CreateRelay, TypeOK, ProducersPlaced, ViewersPlaced, Locked,
     Members, Owed, Goto, relayVars, prodVars, viewVars, IInv, Procs, PCs, Fresh
<1>8. QED
  BY <1>1, <1>2, <1>3, <1>4, <1>5, <1>6, <1>7 DEF IInv

LEMMA WriteKeeps ==
  ASSUME IInv, NEW p \in Producers, Write(p)
  PROVE  IInv'
<1>1. TypeOK'
    BY RelayAssumption DEF Write, TypeOK, ProducersPlaced, ViewersPlaced, Goto, relayVars,
     prodVars, viewVars, IInv, Procs, PCs, Keep
<1>2. ScrollbackIsTail'
    BY RelayAssumption DEF Write, TypeOK, ScrollbackIsTail, ProducersPlaced, Goto,
     relayVars, prodVars, viewVars, IInv, Procs, PCs, Keep
<1>3. ProducersPlaced'
    BY RelayAssumption DEF Write, TypeOK, ProducersPlaced, Goto, relayVars, prodVars,
     viewVars, IInv, Procs, PCs, Keep
<1>4. ViewersPlaced'
    BY RelayAssumption DEF Write, TypeOK, ViewersPlaced, Goto, relayVars, prodVars,
     viewVars, IInv, Procs, PCs, Keep
<1>5. Locked'
    BY RelayAssumption DEF Write, TypeOK, ProducersPlaced, ViewersPlaced, Locked, Goto,
     relayVars, prodVars, viewVars, IInv, Procs, PCs, Keep
<1>6. Members'
    BY RelayAssumption DEF Write, TypeOK, ProducersPlaced, ViewersPlaced, Locked, Members,
     Goto, relayVars, prodVars, viewVars, IInv, Procs, PCs, Keep
<1>7. Owed'
    BY RelayAssumption DEF Write, TypeOK, ProducersPlaced, ViewersPlaced, Locked, Members,
     Owed, Goto, relayVars, prodVars, viewVars, IInv, Procs, PCs, Keep
<1>8. QED
  BY <1>1, <1>2, <1>3, <1>4, <1>5, <1>6, <1>7 DEF IInv

LEMMA FanoutLockKeeps ==
  ASSUME IInv, NEW p \in Producers, FanoutLock(p)
  PROVE  IInv'
<1>1. TypeOK'
    BY RelayAssumption DEF FanoutLock, TypeOK, ProducersPlaced, ViewersPlaced, Goto,
     relayVars, prodVars, viewVars, IInv, Procs, PCs
<1>2. ScrollbackIsTail'
    BY DEF FanoutLock, ScrollbackIsTail, IInv, relayVars, prodVars, viewVars
<1>3. ProducersPlaced'
    BY RelayAssumption DEF FanoutLock, TypeOK, ProducersPlaced, Goto, relayVars, prodVars,
     viewVars, IInv, Procs, PCs
<1>4. ViewersPlaced'
    BY RelayAssumption DEF FanoutLock, TypeOK, ViewersPlaced, Goto, relayVars, prodVars,
     viewVars, IInv, Procs, PCs
<1>5. Locked'
    BY RelayAssumption DEF FanoutLock, TypeOK, ProducersPlaced, ViewersPlaced, Locked, Goto,
     relayVars, prodVars, viewVars, IInv, Procs, PCs
<1>6. Members'
    BY RelayAssumption DEF FanoutLock, TypeOK, ProducersPlaced, ViewersPlaced, Locked,
     Members, Goto, relayVars, prodVars, viewVars, IInv, Procs, PCs
<1>7. Owed'
    BY RelayAssumption DEF FanoutLock, TypeOK, ProducersPlaced, ViewersPlaced, Locked,
     Members, Owed, Goto, relayVars, prodVars, viewVars, IInv, Procs, PCs
<1>8. QED
  BY <1>1, <1>2, <1>3, <1>4, <1>5, <1>6, <1>7 DEF IInv

LEMMA SendToKeeps ==
  ASSUME IInv, NEW p \in Producers, NEW v \in Viewers, SendTo(p, v)
  PROVE  IInv'
<1>1. TypeOK'
  <2>1. len[p] \in Nat /\ start[p] \in Nat /\ shown[v] \in Nat /\ pending[p] \in SUBSET Viewers
    BY DEF IInv, TypeOK
  <2>2. pending' \in [Producers -> SUBSET Viewers]
    BY <2>1 DEF IInv, TypeOK, SendTo
  <2>3. shown' \in [Viewers -> Nat] /\ shownTo' \in [Viewers -> Nat]
    BY <2>1 DEF IInv, TypeOK, SendTo
  <2>4. QED
    BY <2>2, <2>3 DEF IInv, TypeOK, SendTo, relayVars, Procs, PCs
<1>2. ScrollbackIsTail'
    BY DEF SendTo, ScrollbackIsTail, IInv, relayVars, prodVars, viewVars
<1>3. ProducersPlaced'
    BY DEF SendTo, ProducersPlaced, IInv, relayVars, prodVars, viewVars
<1>4. ViewersPlaced'
    BY RelayAssumption DEF SendTo, TypeOK, ViewersPlaced, relayVars, prodVars, viewVars,
     IInv, Procs, PCs
<1>5. Locked'
    BY DEF SendTo, Locked, IInv, relayVars, prodVars, viewVars
<1>6. Members'
    BY RelayAssumption DEF SendTo, TypeOK, ProducersPlaced, ViewersPlaced, Locked, Members,
     relayVars, prodVars, viewVars, IInv, Procs, PCs
<1>7. Owed'
    BY RelayAssumption DEF SendTo, TypeOK, ProducersPlaced, ViewersPlaced, Locked, Members,
     Owed, relayVars, prodVars, viewVars, IInv, Procs, PCs
<1>8. QED
  BY <1>1, <1>2, <1>3, <1>4, <1>5, <1>6, <1>7 DEF IInv

LEMMA FanoutUnlockKeeps ==
  ASSUME IInv, NEW p \in Producers, FanoutUnlock(p)
  PROVE  IInv'
<1>1. TypeOK'
    BY RelayAssumption DEF FanoutUnlock, TypeOK, ProducersPlaced, ViewersPlaced, Goto,
     relayVars, prodVars, viewVars, IInv, Procs, PCs
<1>2. ScrollbackIsTail'
    BY DEF FanoutUnlock, ScrollbackIsTail, IInv, relayVars, prodVars, viewVars
<1>3. ProducersPlaced'
    BY RelayAssumption DEF FanoutUnlock, TypeOK, ProducersPlaced, Goto, relayVars, prodVars,
     viewVars, IInv, Procs, PCs
<1>4. ViewersPlaced'
    BY RelayAssumption DEF FanoutUnlock, TypeOK, ViewersPlaced, Goto, relayVars, prodVars,
     viewVars, IInv, Procs, PCs
<1>5. Locked'
    BY RelayAssumption DEF FanoutUnlock, TypeOK, ProducersPlaced, ViewersPlaced, Locked,
     Goto, relayVars, prodVars, viewVars, IInv, Procs, PCs
<1>6. Members'
    BY RelayAssumption DEF FanoutUnlock, TypeOK, ProducersPlaced, ViewersPlaced, Locked,
     Members, Goto, relayVars, prodVars, viewVars, IInv, Procs, PCs
<1>7. Owed'
    BY RelayAssumption DEF FanoutUnlock, TypeOK, ProducersPlaced, ViewersPlaced, Locked,
     Members, Owed, Goto, relayVars, prodVars, viewVars, IInv, Procs, PCs
<1>8. QED
  BY <1>1, <1>2, <1>3, <1>4, <1>5, <1>6, <1>7 DEF IInv

LEMMA OpenKeeps ==
  ASSUME IInv, NEW v \in Viewers, Open(v)
  PROVE  IInv'
<1>1. TypeOK'
    BY RelayAssumption, SMTT(40) DEF Open, TypeOK, ProducersPlaced, ViewersPlaced, Goto, relayVars,
     prodVars, viewVars, IInv, Procs, PCs, Fresh
<1>2. ScrollbackIsTail'
    BY DEF Open, ScrollbackIsTail, IInv, relayVars, prodVars, viewVars
<1>3. ProducersPlaced'
    BY RelayAssumption DEF Open, TypeOK, ProducersPlaced, Goto, relayVars, prodVars,
     viewVars, IInv, Procs, PCs, Fresh
<1>4. ViewersPlaced'
    BY RelayAssumption DEF Open, TypeOK, ViewersPlaced, Goto, relayVars, prodVars, viewVars,
     IInv, Procs, PCs, Fresh
<1>5. Locked'
    BY RelayAssumption DEF Open, TypeOK, ProducersPlaced, ViewersPlaced, Locked, Goto,
     relayVars, prodVars, viewVars, IInv, Procs, PCs, Fresh
<1>6. Members'
    BY RelayAssumption DEF Open, TypeOK, ProducersPlaced, ViewersPlaced, Locked, Members,
     Goto, relayVars, prodVars, viewVars, IInv, Procs, PCs, Fresh
<1>7. Owed'
    BY RelayAssumption DEF Open, TypeOK, ProducersPlaced, ViewersPlaced, Locked, Members,
     Owed, Goto, relayVars, prodVars, viewVars, IInv, Procs, PCs, Fresh
<1>8. QED
  BY <1>1, <1>2, <1>3, <1>4, <1>5, <1>6, <1>7 DEF IInv

LEMMA SnapshotKeeps ==
  ASSUME IInv, NEW v \in Viewers, Snapshot(v)
  PROVE  IInv'
<1>1. TypeOK'
    BY RelayAssumption DEF Snapshot, TypeOK, ProducersPlaced, ViewersPlaced, Goto,
     relayVars, prodVars, viewVars, IInv, Procs, PCs
<1>2. ScrollbackIsTail'
    BY DEF Snapshot, ScrollbackIsTail, IInv, relayVars, prodVars, viewVars
<1>3. ProducersPlaced'
    BY RelayAssumption DEF Snapshot, TypeOK, ProducersPlaced, Goto, relayVars, prodVars,
     viewVars, IInv, Procs, PCs
<1>4. ViewersPlaced'
    BY RelayAssumption DEF Snapshot, TypeOK, ViewersPlaced, Goto, relayVars, prodVars,
     viewVars, IInv, Procs, PCs
<1>5. Locked'
    BY RelayAssumption DEF Snapshot, TypeOK, ProducersPlaced, ViewersPlaced, Locked, Goto,
     relayVars, prodVars, viewVars, IInv, Procs, PCs
<1>6. Members'
    BY RelayAssumption DEF Snapshot, TypeOK, ProducersPlaced, ViewersPlaced, Locked,
     Members, Goto, relayVars, prodVars, viewVars, IInv, Procs, PCs
<1>7. Owed'
    BY RelayAssumption DEF Snapshot, TypeOK, ProducersPlaced, ViewersPlaced, Locked,
     Members, Owed, Goto, relayVars, prodVars, viewVars, IInv, Procs, PCs
<1>8. QED
  BY <1>1, <1>2, <1>3, <1>4, <1>5, <1>6, <1>7 DEF IInv

LEMMA JoinKeeps ==
  ASSUME IInv, NEW v \in Viewers, Join(v)
  PROVE  IInv'
<1>1. TypeOK'
    BY RelayAssumption DEF Join, TypeOK, ProducersPlaced, ViewersPlaced, Goto, relayVars,
     prodVars, viewVars, IInv, Procs, PCs
<1>2. ScrollbackIsTail'
    BY DEF Join, ScrollbackIsTail, IInv, relayVars, prodVars, viewVars
<1>3. ProducersPlaced'
    BY RelayAssumption DEF Join, TypeOK, ProducersPlaced, Goto, relayVars, prodVars,
     viewVars, IInv, Procs, PCs
<1>4. ViewersPlaced'
    BY RelayAssumption DEF Join, TypeOK, ViewersPlaced, Goto, relayVars, prodVars, viewVars,
     IInv, Procs, PCs
<1>5. Locked'
    BY RelayAssumption DEF Join, TypeOK, ProducersPlaced, ViewersPlaced, Locked, Goto,
     relayVars, prodVars, viewVars, IInv, Procs, PCs
<1>6. Members'
    BY RelayAssumption DEF Join, TypeOK, ProducersPlaced, ViewersPlaced, Locked, Members,
     Goto, relayVars, prodVars, viewVars, IInv, Procs, PCs
<1>7. Owed'
    BY RelayAssumption DEF Join, TypeOK, ProducersPlaced, ViewersPlaced, Locked, Members,
     Owed, Goto, relayVars, prodVars, viewVars, IInv, Procs, PCs
<1>8. QED
  BY <1>1, <1>2, <1>3, <1>4, <1>5, <1>6, <1>7 DEF IInv

LEMMA BreakKeeps ==
  ASSUME IInv, NEW v \in Viewers, Break(v)
  PROVE  IInv'
<1>1. TypeOK'
    BY RelayAssumption DEF Break, TypeOK, ProducersPlaced, ViewersPlaced, Goto, relayVars,
     prodVars, viewVars, IInv, Procs, PCs
<1>2. ScrollbackIsTail'
    BY DEF Break, ScrollbackIsTail, IInv, relayVars, prodVars, viewVars
<1>3. ProducersPlaced'
    BY RelayAssumption DEF Break, TypeOK, ProducersPlaced, Goto, relayVars, prodVars,
     viewVars, IInv, Procs, PCs
<1>4. ViewersPlaced'
    BY RelayAssumption DEF Break, TypeOK, ViewersPlaced, Goto, relayVars, prodVars,
     viewVars, IInv, Procs, PCs
<1>5. Locked'
    BY RelayAssumption DEF Break, TypeOK, ProducersPlaced, ViewersPlaced, Locked, Goto,
     relayVars, prodVars, viewVars, IInv, Procs, PCs
<1>6. Members'
    BY RelayAssumption DEF Break, TypeOK, ProducersPlaced, ViewersPlaced, Locked, Members,
     Goto, relayVars, prodVars, viewVars, IInv, Procs, PCs
<1>7. Owed'
    BY RelayAssumption DEF Break, TypeOK, ProducersPlaced, ViewersPlaced, Locked, Members,
     Owed, Goto, relayVars, prodVars, viewVars, IInv, Procs, PCs
<1>8. QED
  BY <1>1, <1>2, <1>3, <1>4, <1>5, <1>6, <1>7 DEF IInv

LEMMA LeaveLookupKeeps ==
  ASSUME IInv, NEW v \in Viewers, LeaveLookup(v)
  PROVE  IInv'
<1>1. TypeOK'
    BY RelayAssumption DEF LeaveLookup, TypeOK, ProducersPlaced, ViewersPlaced, Goto, relayVars,
     prodVars, viewVars, IInv, Procs, PCs
<1>2. ScrollbackIsTail'
    BY DEF LeaveLookup, ScrollbackIsTail, IInv, relayVars, prodVars, viewVars
<1>3. ProducersPlaced'
    BY RelayAssumption DEF LeaveLookup, TypeOK, ProducersPlaced, Goto, relayVars, prodVars,
     viewVars, IInv, Procs, PCs
<1>4. ViewersPlaced'
    BY RelayAssumption DEF LeaveLookup, TypeOK, ViewersPlaced, Goto, relayVars, prodVars,
     viewVars, IInv, Procs, PCs
<1>5. Locked'
    BY RelayAssumption DEF LeaveLookup, TypeOK, ProducersPlaced, ViewersPlaced, Locked, Goto,
     relayVars, prodVars, viewVars, IInv, Procs, PCs
<1>6. Members'
    BY RelayAssumption DEF LeaveLookup, TypeOK, ProducersPlaced, ViewersPlaced, Locked, Members,
     Goto, relayVars, prodVars, viewVars, IInv, Procs, PCs
<1>7. Owed'
    BY RelayAssumption DEF LeaveLookup, TypeOK, ProducersPlaced, ViewersPlaced, Locked, Members,
     Owed, Goto, relayVars, prodVars, viewVars, IInv, Procs, PCs
<1>8. QED
  BY <1>1, <1>2, <1>3, <1>4, <1>5, <1>6, <1>7 DEF IInv

LEMMA LeaveKeeps ==
  ASSUME IInv, NEW v \in Viewers, Leave(v)
  PROVE  IInv'
<1>1. TypeOK'
    BY RelayAssumption DEF Leave, TypeOK, ProducersPlaced, ViewersPlaced, Goto, relayVars,
     prodVars, viewVars, IInv, Procs, PCs
<1>2. ScrollbackIsTail'
    BY DEF Leave, ScrollbackIsTail, IInv, relayVars, prodVars, viewVars
<1>3. ProducersPlaced'
    BY RelayAssumption DEF Leave, TypeOK, ProducersPlaced, Goto, relayVars, prodVars,
     viewVars, IInv, Procs, PCs
<1>4. ViewersPlaced'
    BY RelayAssumption DEF Leave, TypeOK, ViewersPlaced, Goto, relayVars, prodVars,
     viewVars, IInv, Procs, PCs
<1>5. Locked'
    BY RelayAssumption DEF Leave, TypeOK, ProducersPlaced, ViewersPlaced, Locked, Goto,
     relayVars, prodVars, viewVars, IInv, Procs, PCs
<1>6. Members'
    BY RelayAssumption DEF Leave, TypeOK, ProducersPlaced, ViewersPlaced, Locked, Members,
     Goto, relayVars, prodVars, viewVars, IInv, Procs, PCs
<1>7. Owed'
    BY RelayAssumption DEF Leave, TypeOK, ProducersPlaced, ViewersPlaced, Locked, Members,
     Owed, Goto, relayVars, prodVars, viewVars, IInv, Procs, PCs
<1>8. QED
  BY <1>1, <1>2, <1>3, <1>4, <1>5, <1>6, <1>7 DEF IInv

LEMMA StutterKeeps == IInv /\ UNCHANGED vars => IInv'
BY DEF IInv, TypeOK, ScrollbackIsTail, ProducersPlaced, ViewersPlaced, Locked, Members, Owed,
   vars, relayVars, prodVars, viewVars, Procs, PCs

LEMMA StepIInv == IInv /\ [Next]_vars => IInv'
<1> SUFFICES ASSUME IInv, [Next]_vars PROVE IInv'
  OBVIOUS
<1>1. CASE SpawnRelay
  BY <1>1, SpawnRelayKeeps
<1>2. ASSUME NEW p \in Producers, Produce(p) PROVE IInv'
  BY <1>2, OutputKeeps, CreateRelayKeeps, WriteKeeps, FanoutLockKeeps, SendToKeeps, FanoutUnlockKeeps
     DEF Produce
<1>3. ASSUME NEW v \in Viewers, View(v) PROVE IInv'
  BY <1>3, OpenKeeps, SnapshotKeeps, JoinKeeps, BreakKeeps, LeaveLookupKeeps, LeaveKeeps DEF View
<1>4. CASE UNCHANGED vars
  BY <1>4, StutterKeeps
<1>5. QED
  BY <1>1, <1>2, <1>3, <1>4 DEF Next

\* The inductive invariant holds in every reachable state.
THEOREM Invariance == Spec => []IInv
BY InitIInv, StepIInv, PTL DEF Spec

\* Every variable of the relay keeps its type: h.sessions, the scrollback, Viewers, relay.mu.
THEOREM TypeCorrect == Spec => []TypeOK
BY Invariance, PTL DEF IInv

\* The scrollback is the tail of what was written to it (scrollback.go:25-34), whatever
\* its size and whoever writes.
THEOREM ScrollbackHolds == Spec => []ScrollbackIsTail
BY Invariance, PTL DEF IInv

\* A watching viewer was shown what was fanned out since it joined, each chunk once, but
\* for the chunk it is owed (hub.go:224-233, 394-396, 411-413).
THEOREM ExactlyOnceHolds == Spec => []ExactlyOnce
<1>1. IInv => ExactlyOnce
  <2> SUFFICES ASSUME IInv, NEW v \in Viewers, pc[v] = "watching"
               PROVE  joined[v] + shown[v] + Due(v) = fanned[mine[v]]
    BY DEF ExactlyOnce
  <2>1. mine[v] \in Relays /\ joined[v] \in Nat /\ shown[v] \in Nat
    BY DEF IInv, ViewersPlaced, TypeOK
  <2>2. CASE rmu[mine[v]] = None
    BY <2>1, <2>2 DEF IInv, Owed, Due
  <2>3. CASE rmu[mine[v]] # None
    BY <2>1, <2>3 DEF IInv, Owed, Due, TypeOK
  <2>4. QED
    BY <2>2, <2>3
<1>2. QED
  BY <1>1, Invariance, PTL

-----------------------------------------------------------------------------
(* Refinement of Broadcast.                                                *)

\* A viewer that watches another relay, or none, is no viewer of Broadcast; a fan-out of
\* the watched relay is Send, a write to one of its viewers Show.
LEMMA StepRefines == ASSUME IInv, IInv', [Next]_vars PROVE [B!Next]_<<fanned[Watched], At, Seen>>
<1> DEFINE Same == UNCHANGED <<fanned[Watched], At, Seen>>
<1> USE RelayAssumption
<1>1. CASE SpawnRelay
  BY <1>1 DEF SpawnRelay, At, Seen, relayVars, prodVars, viewVars
<1>2. ASSUME NEW p \in Producers, Output(p) \/ CreateRelay(p) \/ FanoutUnlock(p) \/ Write(p)
      PROVE  Same
  <2>1. \A v \in Viewers : pc'[v] = pc[v] /\ mine'[v] = mine[v]
    BY <1>2 DEF Output, CreateRelay, FanoutUnlock, Write, Goto, IInv, TypeOK, Procs
  <2>2. UNCHANGED <<fanned, joined, shown>>
    BY <1>2 DEF Output, CreateRelay, FanoutUnlock, Write, relayVars, viewVars, prodVars
  <2>3. QED
    BY <2>1, <2>2 DEF At, Seen
<1>3. ASSUME NEW p \in Producers, FanoutLock(p) PROVE Same \/ B!Send
  <2>1. \A v \in Viewers : pc'[v] = pc[v] /\ mine'[v] = mine[v]
    BY <1>3 DEF FanoutLock, Goto, IInv, TypeOK, Procs
  <2>2. At' = At /\ Seen' = Seen
    BY <1>3, <2>1 DEF FanoutLock, viewVars, At, Seen
  <2>3. mine[p] \in Relays /\ len[p] \in Nat /\ len[p] > 0 /\ fanned \in [Relays -> Nat]
    BY <1>3 DEF FanoutLock, IInv, TypeOK, ProducersPlaced
  <2>4. CASE mine[p] # Watched
    BY <1>3, <2>2, <2>3, <2>4 DEF FanoutLock
  <2>5. CASE mine[p] = Watched
    <3>1. \A v \in Viewers : At[v] # Out => At[v] + Seen[v] = fanned[Watched]
      BY <1>3, <2>5 DEF FanoutLock, At, Seen, IInv, Owed
    <3>2. fanned[Watched]' \in Nat /\ fanned[Watched]' > fanned[Watched]
      BY <1>3, <2>3, <2>5 DEF FanoutLock
    <3>3. QED
      BY <2>2, <3>1, <3>2 DEF B!Send, B!CaughtUp
  <2>6. QED
    BY <2>4, <2>5
<1>4. ASSUME NEW p \in Producers, NEW v \in Viewers, SendTo(p, v) PROVE Same \/ B!Show(v)
  <2>1. fanned' = fanned /\ At' = At
    BY <1>4 DEF SendTo, At, relayVars
  <2>2. CASE pc[v] # "watching" \/ mine[v] # Watched
    <3>1. Seen' = Seen
      BY <1>4, <2>2 DEF SendTo, Seen, IInv, TypeOK
    <3>2. QED
      BY <2>1, <3>1
  <2>3. CASE pc[v] = "watching" /\ mine[v] = Watched
    <3>1. mine[p] = Watched /\ rmu[Watched] = p
      BY <1>4, <2>3 DEF SendTo, IInv, Members, Locked, ProducersPlaced
    <3>2. /\ joined[v] + shown[v] + len[p] = fanned[Watched]
          /\ joined[v] \in Nat /\ shown[v] \in Nat /\ len[p] \in Nat /\ fanned[Watched] \in Nat
      BY <1>4, <2>3, <3>1 DEF SendTo, IInv, Owed, TypeOK
    <3>3. shown' = [shown EXCEPT ![v] = fanned[Watched] - joined[v]]
      BY <1>4, <2>3, <3>2 DEF SendTo, IInv, TypeOK
    <3>4. Seen' = [Seen EXCEPT ![v] = fanned[Watched] - At[v]]
      BY <1>4, <2>3, <3>3, ZenonT(40) DEF SendTo, Seen, At, IInv, TypeOK
    <3>5. At[v] # Out
      BY <2>3, <3>2 DEF At
    <3>6. QED
      BY <2>1, <3>4, <3>5 DEF B!Show
  <2>4. QED
    BY <2>2, <2>3
<1>5. ASSUME NEW v \in Viewers, Open(v) \/ Snapshot(v) \/ LeaveLookup(v) \/ Leave(v) PROVE Same
  BY <1>5 DEF Open, Snapshot, LeaveLookup, Leave, Goto, At, Seen, relayVars, prodVars, viewVars, IInv, TypeOK, Procs
<1>6. ASSUME NEW v \in Viewers, Join(v) PROVE Same \/ B!Join(v)
  <2>1. fanned' = fanned /\ shown' = shown /\ mine' = mine /\ pc[v] = "join" /\ shown[v] = 0
    BY <1>6 DEF Join, IInv, ViewersPlaced
  <2>2. pc' = [pc EXCEPT ![v] = "watching"] /\ joined' = [joined EXCEPT ![v] = fanned[mine[v]]]
    BY <1>6 DEF Join, Goto
  <2>3. Seen' = Seen
    BY <2>1, <2>2 DEF Seen, IInv, TypeOK, Procs
  <2>4. CASE mine[v] # Watched
    BY <2>1, <2>2, <2>3, <2>4 DEF At, IInv, TypeOK, Procs
  <2>5. CASE mine[v] = Watched
    <3>1. At[v] = Out
      BY <2>1 DEF At
    <3>2. At' = [At EXCEPT ![v] = fanned[Watched]]
      BY <2>1, <2>2, <2>5 DEF At, IInv, TypeOK, Procs
    <3>3. QED
      BY <2>1, <2>3, <3>1, <3>2 DEF B!Join
  <2>6. QED
    BY <2>4, <2>5
<1>7. ASSUME NEW v \in Viewers, Break(v) PROVE Same \/ B!Leave(v)
  <2>1. fanned' = fanned /\ joined' = joined /\ mine' = mine /\ pc[v] = "watching"
    BY <1>7 DEF Break, relayVars
  <2>2. pc' = [pc EXCEPT ![v] = "leaving"] /\ shown' = [shown EXCEPT ![v] = 0]
    BY <1>7 DEF Break, Goto
  <2>3. CASE mine[v] # Watched
    BY <2>1, <2>2, <2>3 DEF At, Seen, IInv, TypeOK, Procs
  <2>4. CASE mine[v] = Watched
    <3>1. At[v] # Out
      BY <2>1, <2>4 DEF At, IInv, TypeOK
    <3>2. At' = [At EXCEPT ![v] = Out] /\ Seen' = [Seen EXCEPT ![v] = 0]
      BY <2>1, <2>2, <2>4 DEF At, Seen, IInv, TypeOK, Procs
    <3>3. QED
      BY <2>1, <3>1, <3>2 DEF B!Leave
  <2>5. QED
    BY <2>3, <2>4
<1>8. CASE UNCHANGED vars
  BY <1>8 DEF vars, relayVars, viewVars, At, Seen
<1>9. QED
  BY <1>1, <1>2, <1>3, <1>4, <1>5, <1>6, <1>7, <1>8 DEF Next, Produce, View, B!Next

\* Every relay implements Broadcast, whichever is in the map and whoever writes to it.
THEOREM Refinement == Spec => ImplementsBroadcast
<1>1. Init => B!Init
  BY RelayAssumption DEF Init, B!Init, At, Seen, Procs
<1>2. QED
  BY <1>1, Invariance, StepRefines, PTL DEF Spec, ImplementsBroadcast, B!Spec

-----------------------------------------------------------------------------
(* One producer: order.                                                    *)

\* The producer appends and fans out in turn, so that what the scrollback holds and was
\* not fanned out yet is its chunk.
InTurn ==
  /\ \A r \in Relays : (\A p \in Producers : pc[p] # "fanout" \/ mine[p] # r) => fanned[r] = hi[r]
  /\ \A p \in Producers :
       /\ pc[p] = "fanout" => fanned[mine[p]] = start[p] /\ hi[mine[p]] = start[p] + len[p]
       /\ pc[p] = "send" => fanned[mine[p]] = start[p] + len[p]
  /\ \A v \in Viewers : pc[v] = "join" => snapHi[v] <= fanned[mine[v]] + MaxChunk

OneInv == IInv /\ InTurn /\ InOrder /\ OneChunkTwice

LEMMA StepOneInv == ASSUME OneProducer, OneInv, IInv', [Next]_vars
                    PROVE  (InTurn /\ InOrder /\ OneChunkTwice)'
<1> USE RelayAssumption
<1> DEFINE Goal == (InTurn /\ InOrder /\ OneChunkTwice)'
<1> USE DEF OneInv, IInv, TypeOK, Procs, relayVars, prodVars, viewVars, Goto
<1>1. CASE SpawnRelay
  BY <1>1 DEF SpawnRelay, InTurn, InOrder, OneChunkTwice
<1>2. ASSUME NEW p \in Producers, Output(p) PROVE Goal
  <2>1. InTurn'
    BY <1>2 DEF Output, InTurn, OneProducer, ProducersPlaced, ViewersPlaced, Locked, Members, Owed
  <2>2. InOrder'
    BY <1>2 DEF Output, InTurn, InOrder, OneProducer, ProducersPlaced, ViewersPlaced, Locked, Members, Owed
  <2>3. OneChunkTwice'
    BY <1>2 DEF Output, InTurn, OneChunkTwice, OneProducer, ProducersPlaced, ViewersPlaced, Locked, Members, Owed
  <2>4. QED
    BY <2>1, <2>2, <2>3
<1>3. ASSUME NEW p \in Producers, CreateRelay(p) PROVE Goal
  <2>1. InTurn'
    BY <1>3 DEF CreateRelay, InTurn, OneProducer, ProducersPlaced, ViewersPlaced, Locked, Members, Owed
  <2>2. InOrder'
    BY <1>3 DEF CreateRelay, InTurn, InOrder, OneProducer, ProducersPlaced, ViewersPlaced, Locked, Members, Owed
  <2>3. OneChunkTwice'
    BY <1>3 DEF CreateRelay, InTurn, OneChunkTwice, OneProducer, ProducersPlaced, ViewersPlaced, Locked, Members, Owed
  <2>4. QED
    BY <2>1, <2>2, <2>3
<1>4. ASSUME NEW p \in Producers, Write(p) PROVE Goal
  <2>1. InTurn'
    BY <1>4 DEF Write, InTurn, OneProducer, ProducersPlaced, ViewersPlaced, Locked, Members, Owed
  <2>2. InOrder'
    BY <1>4 DEF Write, InTurn, InOrder, OneProducer, ProducersPlaced, ViewersPlaced, Locked, Members, Owed
  <2>3. OneChunkTwice'
    BY <1>4 DEF Write, InTurn, OneChunkTwice, OneProducer, ProducersPlaced, ViewersPlaced, Locked, Members, Owed
  <2>4. QED
    BY <2>1, <2>2, <2>3
<1>5. ASSUME NEW p \in Producers, FanoutLock(p) PROVE Goal
  <2>1. InTurn'
    BY <1>5 DEF FanoutLock, InTurn, OneProducer, ProducersPlaced, ViewersPlaced, Locked, Members, Owed
  <2>2. InOrder'
    BY <1>5 DEF FanoutLock, InTurn, InOrder, OneProducer, ProducersPlaced, ViewersPlaced, Locked, Members, Owed
  <2>3. OneChunkTwice'
    BY <1>5 DEF FanoutLock, InTurn, OneChunkTwice, OneProducer, ProducersPlaced, ViewersPlaced, Locked, Members, Owed
  <2>4. QED
    BY <2>1, <2>2, <2>3
<1>6. ASSUME NEW p \in Producers, NEW v \in Viewers, SendTo(p, v) PROVE Goal
  <2>1. InTurn'
    BY <1>6 DEF SendTo, InTurn, OneProducer, ProducersPlaced, ViewersPlaced, Locked, Members, Owed
  <2>2. InOrder'
    BY <1>6, SMTT(40) DEF SendTo, InTurn, InOrder, OneProducer, ProducersPlaced, ViewersPlaced, Locked, Members, Owed
  <2>3. OneChunkTwice'
    BY <1>6 DEF SendTo, InTurn, OneChunkTwice, OneProducer, ProducersPlaced, ViewersPlaced, Locked, Members, Owed
  <2>4. QED
    BY <2>1, <2>2, <2>3
<1>7. ASSUME NEW p \in Producers, FanoutUnlock(p) PROVE Goal
  <2>1. InTurn'
    BY <1>7 DEF FanoutUnlock, InTurn, OneProducer, ProducersPlaced, ViewersPlaced, Locked, Members, Owed
  <2>2. InOrder'
    BY <1>7 DEF FanoutUnlock, InTurn, InOrder, OneProducer, ProducersPlaced, ViewersPlaced, Locked, Members, Owed
  <2>3. OneChunkTwice'
    BY <1>7 DEF FanoutUnlock, InTurn, OneChunkTwice, OneProducer, ProducersPlaced, ViewersPlaced, Locked, Members, Owed
  <2>4. QED
    BY <2>1, <2>2, <2>3
<1>8. ASSUME NEW v \in Viewers, Open(v) PROVE Goal
  <2>1. InTurn'
    BY <1>8 DEF Open, InTurn, OneProducer, ProducersPlaced, ViewersPlaced, Locked, Members, Owed
  <2>2. InOrder'
    BY <1>8 DEF Open, InTurn, InOrder, OneProducer, ProducersPlaced, ViewersPlaced, Locked, Members, Owed
  <2>3. OneChunkTwice'
    BY <1>8 DEF Open, InTurn, OneChunkTwice, OneProducer, ProducersPlaced, ViewersPlaced, Locked, Members, Owed
  <2>4. QED
    BY <2>1, <2>2, <2>3
<1>9. ASSUME NEW v \in Viewers, Snapshot(v) PROVE Goal
  <2>1. InTurn'
    <3>1. hi[mine[v]] <= fanned[mine[v]] + MaxChunk
      BY <1>9, SMTT(40) DEF Snapshot, InTurn, ProducersPlaced, ViewersPlaced
    <3>2. QED
      BY <1>9, <3>1 DEF Snapshot, InTurn
  <2>2. InOrder'
    BY <1>9 DEF Snapshot, InTurn, InOrder, OneProducer, ProducersPlaced, ViewersPlaced, Locked, Members, Owed
  <2>3. OneChunkTwice'
    BY <1>9 DEF Snapshot, InTurn, OneChunkTwice, OneProducer, ProducersPlaced, ViewersPlaced, Locked, Members, Owed
  <2>4. QED
    BY <2>1, <2>2, <2>3
<1>10. ASSUME NEW v \in Viewers, Join(v) PROVE Goal
  <2>1. InTurn'
    BY <1>10 DEF Join, InTurn, OneProducer, ProducersPlaced, ViewersPlaced, Locked, Members, Owed
  <2>2. InOrder'
    BY <1>10 DEF Join, InTurn, InOrder, OneProducer, ProducersPlaced, ViewersPlaced, Locked, Members, Owed
  <2>3. OneChunkTwice'
    BY <1>10 DEF Join, InTurn, OneChunkTwice, OneProducer, ProducersPlaced, ViewersPlaced, Locked, Members, Owed
  <2>4. QED
    BY <2>1, <2>2, <2>3
<1>11. ASSUME NEW v \in Viewers, Break(v) PROVE Goal
  <2>1. InTurn'
    BY <1>11 DEF Break, InTurn, OneProducer, ProducersPlaced, ViewersPlaced, Locked, Members, Owed
  <2>2. InOrder'
    BY <1>11 DEF Break, InTurn, InOrder, OneProducer, ProducersPlaced, ViewersPlaced, Locked, Members, Owed
  <2>3. OneChunkTwice'
    BY <1>11 DEF Break, InTurn, OneChunkTwice, OneProducer, ProducersPlaced, ViewersPlaced, Locked, Members, Owed
  <2>4. QED
    BY <2>1, <2>2, <2>3
<1>12. ASSUME NEW v \in Viewers, Leave(v) PROVE Goal
  <2>1. InTurn'
    BY <1>12 DEF Leave, InTurn, OneProducer, ProducersPlaced, ViewersPlaced, Locked, Members, Owed
  <2>2. InOrder'
    BY <1>12 DEF Leave, InTurn, InOrder, OneProducer, ProducersPlaced, ViewersPlaced, Locked, Members, Owed
  <2>3. OneChunkTwice'
    BY <1>12 DEF Leave, InTurn, OneChunkTwice, OneProducer, ProducersPlaced, ViewersPlaced, Locked, Members, Owed
  <2>4. QED
    BY <2>1, <2>2, <2>3
<1>15. ASSUME NEW v \in Viewers, LeaveLookup(v) PROVE Goal
  <2>1. InTurn'
    BY <1>15 DEF LeaveLookup, InTurn, OneProducer, ProducersPlaced, ViewersPlaced, Locked, Members, Owed
  <2>2. InOrder'
    BY <1>15 DEF LeaveLookup, InTurn, InOrder, OneProducer, ProducersPlaced, ViewersPlaced, Locked, Members, Owed
  <2>3. OneChunkTwice'
    BY <1>15 DEF LeaveLookup, InTurn, OneChunkTwice, OneProducer, ProducersPlaced, ViewersPlaced, Locked, Members, Owed
  <2>4. QED
    BY <2>1, <2>2, <2>3
<1>13. CASE UNCHANGED vars
  BY <1>13 DEF vars, InTurn, InOrder, OneChunkTwice
<1>14. QED
  BY <1>1, <1>2, <1>3, <1>4, <1>5, <1>6, <1>7, <1>8, <1>9, <1>10, <1>11, <1>12, <1>13, <1>15
     DEF Next, Produce, View

THEOREM OneInvariance == OneProducer /\ Spec => []OneInv
<1>1. Init => InTurn /\ InOrder /\ OneChunkTwice
  BY RelayAssumption DEF Init, InTurn, InOrder, OneChunkTwice, Procs
<1>2. CASE OneProducer
  BY <1>1, <1>2, InitIInv, StepIInv, StepOneInv, PTL DEF Spec, OneInv
<1>3. CASE ~OneProducer
  BY <1>3
<1>4. QED
  BY <1>2, <1>3

\* A single connection's output is shown in order and without holes (hub.go:220-233).
THEOREM InOrderHolds == Spec => []InOrder
<1>1. CASE OneProducer
  BY <1>1, OneInvariance, PTL DEF OneInv
<1>2. CASE ~OneProducer
  BY <1>2, PTL DEF InOrder
<1>3. QED
  BY <1>1, <1>2

\* ... and a viewer is shown at most one chunk of it twice (hub.go:222-225, 387-396).
THEOREM OneChunkTwiceHolds == Spec => []OneChunkTwice
<1>1. CASE OneProducer
  BY <1>1, OneInvariance, PTL DEF OneInv
<1>2. CASE ~OneProducer
  BY <1>2, PTL DEF OneChunkTwice
<1>3. QED
  BY <1>1, <1>2
=============================================================================
